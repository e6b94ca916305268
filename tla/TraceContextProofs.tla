------------------------- MODULE TraceContextProofs -------------------------
(* Proofs about TraceContext, for any set of goroutines, any cap and any   *)
(* number of spans.                                                        *)
EXTENDS GoroutineBaggage, SequenceTheorems, FiniteSetTheorems, TLAPS

\* A list in good order over the spans 1..k, and the spans in it.
Context(k) == [sw : Seq(1 .. k), n : Nat, lcs : 0 .. k]
Ordered(l) == \A i, j \in 1 .. Len(l) : i < j => l[i] < l[j]
InOrder(tc) == tc.n = Len(tc.sw) /\ tc.n <= MaxSpans /\ Ordered(tc.sw)
Spans(tc) == {tc.sw[i] : i \in 1 .. Len(tc.sw)}

\* Dropping one entry of a sequence gives a sequence, shorter by one, of the
\* other entries in their order (the relinking in traceContext.del).
LEMMA DropAtProperties ==
  ASSUME NEW S, NEW l \in Seq(S), NEW k \in 1 .. Len(l)
  PROVE  /\ DropAt(l, k) \in Seq(S)
         /\ Len(DropAt(l, k)) = Len(l) - 1
         /\ \A i \in 1 .. (Len(l) - 1) :
              DropAt(l, k)[i] = IF i < k THEN l[i] ELSE l[i + 1]
<1> DEFINE m == Len(l) - 1
           d == DropAt(l, k)
<1>1. m \in Nat /\ Len(l) \in Nat
  BY LenProperties
<1>2. \A i \in 1 .. Len(l) : l[i] \in S
  BY ElementOfSeq
<1>3. d \in [1 .. m -> S]
  BY <1>1, <1>2 DEF DropAt
<1>4. d \in Seq(S)
  BY <1>1, <1>3, SeqDef
<1>5. Len(d) = m
  <2>1. DOMAIN d = 1 .. m
    BY <1>3
  <2>2. Len(d) \in Nat /\ DOMAIN d = 1 .. Len(d)
    BY <1>4, LenProperties
  <2> HIDE DEF d, m
  <2> QED
    BY <2>1, <2>2, <1>1
<1>6. QED
  BY <1>1, <1>4, <1>5 DEF DropAt

\* del keeps a list in order and counted, and leaves no entry for the span.
LEMMA DelProperties ==
  ASSUME NEW k \in Nat, NEW tc \in Context(k), InOrder(tc), NEW s
  PROVE  /\ Del(tc, s) \in Context(k)
         /\ InOrder(Del(tc, s))
         /\ Spans(Del(tc, s)) = Spans(tc) \ {s}
         /\ Del(tc, s).lcs = tc.lcs
<1> DEFINE l == tc.sw
<1>0. l \in Seq(1 .. k) /\ Len(l) \in Nat /\ tc.n = Len(l)
  BY LenProperties DEF Context, InOrder
<1>1. CASE tc.n = 0 \/ ~ Listed(tc, s)
  BY <1>0, <1>1 DEF Del, Spans, Listed
<1>2. CASE ~ (tc.n = 0 \/ ~ Listed(tc, s))
  <2>1. PICK t \in 1 .. Len(l) : l[t] = s
    BY <1>2 DEF Listed
  <2>2. \A j \in 1 .. Len(l) : l[j] = s <=> j = t
    <3>1. \A j \in 1 .. Len(l) : l[j] \in 1 .. k
      BY <1>0, ElementOfSeq
    <3> QED
      BY <1>0, <2>1, <3>1, SMTT(30) DEF InOrder, Ordered
  <2>3. TopIndex(l, s) = t
    BY <1>0, <2>1, <2>2 DEF TopIndex
  <2>4. /\ DropAt(l, t) \in Seq(1 .. k)
        /\ Len(DropAt(l, t)) = Len(l) - 1
        /\ \A i \in 1 .. (Len(l) - 1) :
              DropAt(l, t)[i] = IF i < t THEN l[i] ELSE l[i + 1]
    BY <1>0, <2>1, DropAtProperties
  <2> DEFINE d == DropAt(l, t)
  <2>5. Del(tc, s) = [sw |-> d, n |-> tc.n - 1, lcs |-> tc.lcs]
    BY <1>2, <2>3 DEF Del, Context
  <2>6. Del(tc, s) \in Context(k)
    BY <1>0, <1>2, <2>4, <2>5 DEF Context
  <2> DEFINE e(i) == IF i < t THEN i ELSE i + 1
  <2> HIDE DEF d
  <2>7. /\ Len(d) = Len(l) - 1
        /\ \A i \in 1 .. Len(d) : /\ e(i) \in 1 .. Len(l)
                                  /\ e(i) # t
                                  /\ d[i] = l[e(i)]
        /\ \A i, j \in 1 .. Len(d) : i < j => e(i) < e(j)
    <3>1. /\ Len(d) = Len(l) - 1
          /\ \A i \in 1 .. (Len(l) - 1) : d[i] = IF i < t THEN l[i] ELSE l[i + 1]
      BY <2>4 DEF d
    <3>2. Len(d) = Len(l) - 1 /\ 1 .. Len(d) = 1 .. (Len(l) - 1)
      BY <3>1
    <3>3. \A i \in 1 .. (Len(l) - 1) : e(i) \in 1 .. Len(l) /\ e(i) # t
      BY <1>0, <2>1
    <3>4. \A i \in 1 .. (Len(l) - 1) : d[i] = l[e(i)]
      BY <3>1
    <3>5. \A i, j \in 1 .. (Len(l) - 1) : i < j => e(i) < e(j)
      BY <1>0, <2>1
    <3> QED
      BY <3>2, <3>3, <3>4, <3>5
  <2>8. \A j \in 1 .. Len(l) : j # t => \E i \in 1 .. Len(d) : e(i) = j
    <3>1. SUFFICES ASSUME NEW j \in 1 .. Len(l), j # t
                   PROVE  \E i \in 1 .. Len(d) : e(i) = j
      OBVIOUS
    <3>2. CASE j < t
      <4>1. j \in 1 .. Len(d) /\ e(j) = j
        BY <1>0, <2>1, <2>7, <3>2
      <4> QED BY <4>1
    <3>3. CASE j > t
      <4>1. j - 1 \in 1 .. Len(d) /\ e(j - 1) = j
        BY <1>0, <2>1, <2>7, <3>3
      <4> QED BY <4>1
    <3> QED BY <1>0, <2>1, <3>1, <3>2, <3>3
  <2> HIDE DEF e
  <2>9. Del(tc, s).sw = d /\ Del(tc, s).n = tc.n - 1 /\ Del(tc, s).lcs = tc.lcs
    BY <2>5
  <2>10. InOrder(Del(tc, s))
    <3>1. \A i, j \in 1 .. Len(l) : i < j => l[i] < l[j]
      BY DEF InOrder, Ordered
    <3>2. \A i, j \in 1 .. Len(d) : i < j => d[i] < d[j]
      BY <2>7, <3>1
    <3>3. tc.n - 1 = Len(d) /\ tc.n - 1 <= MaxSpans
      BY <1>0, <2>7, TCAssumption DEF InOrder
    <3> QED
      BY <2>9, <3>2, <3>3 DEF InOrder, Ordered
  <2>11. \A x : x \in Spans(Del(tc, s)) <=> x \in Spans(tc) /\ x # s
    <3>1. \A x : x \in Spans(Del(tc, s)) <=> \E i \in 1 .. Len(d) : x = d[i]
      BY <2>9 DEF Spans
    <3>2. \A x : x \in Spans(tc) <=> \E j \in 1 .. Len(l) : x = l[j]
      BY DEF Spans
    <3>3. ASSUME NEW i \in 1 .. Len(d) PROVE d[i] \in Spans(tc) /\ d[i] # s
      BY <2>2, <2>7, <3>2
    <3>4. ASSUME NEW j \in 1 .. Len(l), l[j] # s PROVE \E i \in 1 .. Len(d) : l[j] = d[i]
      <4>1. PICK i \in 1 .. Len(d) : e(i) = j
        BY <2>2, <2>8, <3>4
      <4> QED BY <2>7, <4>1
    <3> QED
      BY <3>1, <3>2, <3>3, <3>4
  <2> QED
    BY <2>6, <2>9, <2>10, <2>11
<1> QED
  BY <1>1, <1>2

\* add puts the newest span on top of a list that is not full, and changes
\* nothing otherwise.
LEMMA AddProperties ==
  ASSUME NEW k \in Nat, NEW tc \in Context(k), InOrder(tc)
  PROVE  /\ Add(tc, k + 1) \in Context(k + 1)
         /\ InOrder(Add(tc, k + 1))
         /\ \/ Spans(Add(tc, k + 1)) = Spans(tc) \union {k + 1}
            \/ tc.n = MaxSpans /\ Add(tc, k + 1) = tc
         /\ tc.n # 0 => Add(tc, k + 1).lcs = tc.lcs
         /\ tc.n = 0 => Add(tc, k + 1).lcs = k + 1 /\ Spans(Add(tc, k + 1)) = {k + 1}
<1> DEFINE l == tc.sw
           a == Append(l, k + 1)
<1>0. /\ l \in Seq(1 .. k) /\ Len(l) \in Nat /\ tc.n = Len(l)
      /\ l \in Seq(1 .. (k + 1)) /\ k + 1 \in 1 .. (k + 1)
      /\ \A i \in 1 .. Len(l) : l[i] \in 1 .. k
  <2>1. l \in Seq(1 .. k) /\ tc.n = Len(l)
    BY DEF Context, InOrder
  <2>2. 1 .. k \subseteq 1 .. (k + 1)
    OBVIOUS
  <2> QED
    BY <2>1, <2>2, LenProperties, ElementOfSeq, SeqMonotonic
<1>1. CASE tc.n > 0 /\ tc.n >= MaxSpans
  <2>1. tc \in Context(k + 1)
    BY <1>0 DEF Context
  <2> QED
    BY <1>0, <1>1, <2>1, TCAssumption DEF Add, InOrder
<1>2. CASE ~ (tc.n > 0 /\ tc.n >= MaxSpans)
  <2>1. /\ a \in Seq(1 .. (k + 1))
        /\ Len(a) = Len(l) + 1
        /\ \A i \in 1 .. Len(l) : a[i] = l[i]
        /\ a[Len(l) + 1] = k + 1
    BY <1>0, AppendProperties
  <2> HIDE DEF a
  <2>2. Add(tc, k + 1) = [sw |-> a, n |-> tc.n + 1,
                          lcs |-> IF tc.n = 0 THEN k + 1 ELSE tc.lcs]
    BY <1>2 DEF Add, a
  <2>3. Add(tc, k + 1) \in Context(k + 1)
    BY <1>0, <2>1, <2>2 DEF Context
  <2>3a. /\ Add(tc, k + 1).sw = a /\ Add(tc, k + 1).n = tc.n + 1
         /\ Add(tc, k + 1).lcs = IF tc.n = 0 THEN k + 1 ELSE tc.lcs
    BY <2>2
  <2>3b. /\ \A i \in 1 .. Len(a) : i \in 1 .. Len(l) \/ i = Len(l) + 1
         /\ \A i \in 1 .. Len(l) : i \in 1 .. Len(a)
         /\ Len(l) + 1 \in 1 .. Len(a)
    BY <1>0, <2>1
  <2>4. \A i, j \in 1 .. Len(a) : i < j => a[i] < a[j]
    <3>1. \A i, j \in 1 .. Len(l) : i < j => l[i] < l[j]
      BY DEF InOrder, Ordered
    <3>2. \A i \in 1 .. Len(l) : l[i] < k + 1
      BY <1>0
    <3>3. SUFFICES ASSUME NEW i \in 1 .. Len(a), NEW j \in 1 .. Len(a), i < j
                   PROVE  a[i] < a[j]
      OBVIOUS
    <3>4. CASE j \in 1 .. Len(l)
      <4>1. i \in 1 .. Len(l)
        BY <1>0, <2>3b, <3>3, <3>4
      <4> QED BY <2>1, <3>1, <3>3, <3>4, <4>1
    <3>5. CASE j = Len(l) + 1
      <4>1. i \in 1 .. Len(l)
        BY <1>0, <2>3b, <3>3, <3>5
      <4> QED BY <2>1, <3>2, <3>5, <4>1
    <3> QED
      BY <2>3b, <3>4, <3>5
  <2>5. InOrder(Add(tc, k + 1))
    <3>1. tc.n + 1 = Len(a) /\ tc.n + 1 <= MaxSpans
      BY <1>0, <1>2, <2>1, TCAssumption DEF InOrder
    <3> QED
      BY <2>3a, <2>4, <3>1 DEF InOrder, Ordered
  <2>6. \A x : x \in Spans(Add(tc, k + 1)) <=> x \in Spans(tc) \/ x = k + 1
    <3>1. \A x : x \in Spans(Add(tc, k + 1)) <=> \E i \in 1 .. Len(a) : x = a[i]
      BY <2>3a DEF Spans
    <3>2. \A x : x \in Spans(tc) <=> \E i \in 1 .. Len(l) : x = l[i]
      BY DEF Spans
    <3>3. \A i \in 1 .. Len(a) : a[i] \in Spans(tc) \/ a[i] = k + 1
      BY <2>1, <2>3b, <3>2
    <3>4. \A j \in 1 .. Len(l) : \E i \in 1 .. Len(a) : l[j] = a[i]
      BY <2>1, <2>3b
    <3>5. \E i \in 1 .. Len(a) : k + 1 = a[i]
      BY <2>1, <2>3b
    <3>6. k + 1 \in Spans(Add(tc, k + 1)) /\ Spans(tc) \subseteq Spans(Add(tc, k + 1))
      BY <3>1, <3>2, <3>4, <3>5
    <3>7. Spans(Add(tc, k + 1)) \subseteq Spans(tc) \union {k + 1}
      BY <3>1, <3>3
    <3> QED
      BY <3>6, <3>7
  <2>7. tc.n = 0 => Spans(tc) = {}
    BY <1>0 DEF Spans
  <2>8. Spans(Add(tc, k + 1)) = Spans(tc) \union {k + 1}
    BY <2>6
  <2> QED
    BY <2>3, <2>3a, <2>5, <2>7, <2>8
<1> QED
  BY <1>1, <1>2

\* The current span of a list in order is the newest of its spans.
LEMMA CurrentIsNewest ==
  ASSUME NEW k \in Nat, NEW tc \in Context(k), InOrder(tc)
  PROVE  /\ Current(tc) \in 0 .. k
         /\ tc.n = 0 <=> Spans(tc) = {}
         /\ tc.n = 0 => Current(tc) = NoSpan
         /\ tc.n # 0 => /\ Current(tc) \in Spans(tc)
                        /\ \A s \in Spans(tc) : s <= Current(tc)
<1>1. /\ tc.sw \in Seq(1 .. k) /\ Len(tc.sw) \in Nat /\ tc.n = Len(tc.sw)
      /\ \A i \in 1 .. Len(tc.sw) : tc.sw[i] \in 1 .. k
  BY LenProperties, ElementOfSeq DEF Context, InOrder
<1>2. \A i, j \in 1 .. Len(tc.sw) : i < j => tc.sw[i] < tc.sw[j]
  BY DEF InOrder, Ordered
<1>3. CASE tc.n = 0
  BY <1>1, <1>3 DEF Current, Spans, NoSpan
<1>4. CASE tc.n # 0
  <2>1. Len(tc.sw) \in 1 .. Len(tc.sw) /\ Current(tc) = tc.sw[Len(tc.sw)]
    BY <1>1, <1>4 DEF Current
  <2>2. \A x : x \in Spans(tc) <=> \E i \in 1 .. Len(tc.sw) : x = tc.sw[i]
    BY DEF Spans
  <2>3. \A i \in 1 .. Len(tc.sw) : tc.sw[i] <= tc.sw[Len(tc.sw)]
    <3>1. SUFFICES ASSUME NEW i \in 1 .. Len(tc.sw)
                   PROVE  tc.sw[i] <= tc.sw[Len(tc.sw)]
      OBVIOUS
    <3>2. CASE i = Len(tc.sw)
      BY <1>1, <3>2
    <3>3. CASE i < Len(tc.sw)
      <4>1. tc.sw[i] < tc.sw[Len(tc.sw)]
        BY <1>2, <2>1, <3>3
      <4>2. tc.sw[i] \in Int /\ tc.sw[Len(tc.sw)] \in Int
        BY <1>1, <2>1
      <4> QED BY <4>1, <4>2
    <3> QED BY <1>1, <3>2, <3>3
  <2>4. Current(tc) \in Spans(tc) /\ Current(tc) \in 1 .. k
    BY <1>1, <2>1, <2>2
  <2>5. \A s \in Spans(tc) : s <= Current(tc)
    BY <2>1, <2>2, <2>3
  <2> QED
    BY <1>4, <2>4, <2>5
<1> QED
  BY <1>3, <1>4

\* A list stays a list over more spans.
LEMMA ContextMonotonic ==
  ASSUME NEW k \in Nat, NEW tc \in Context(k)
  PROVE  tc \in Context(k + 1)
<1>1. tc.sw \in Seq(1 .. k) /\ 1 .. k \subseteq 1 .. (k + 1)
  BY DEF Context
<1>2. tc.sw \in Seq(1 .. (k + 1))
  BY <1>1, SeqMonotonic
<1> QED
  BY <1>2 DEF Context

\* The empty list and a snapshot are lists in order without a local root,
\* and a snapshot holds the current span alone.
LEMMA SnapShotProperties ==
  ASSUME NEW k \in Nat, NEW tc \in Context(k), InOrder(tc)
  PROVE  /\ TakeSnapShot(tc) \in Context(k)
         /\ InOrder(TakeSnapShot(tc))
         /\ TakeSnapShot(tc).lcs = NoSpan
         /\ Spans(TakeSnapShot(tc)) = {Current(tc)} \ {NoSpan}
<1>1. CASE tc.n = 0
  <2>1. TakeSnapShot(tc) = [sw |-> <<>>, n |-> 0, lcs |-> 0]
    BY <1>1 DEF TakeSnapShot, EmptyContext, NoSpan
  <2>2. Current(tc) = NoSpan
    BY <1>1 DEF Current
  <2> QED
    BY <2>1, <2>2, TCAssumption DEF Context, InOrder, Ordered, Spans, NoSpan
<1>2. CASE tc.n # 0
  <2>1. Current(tc) \in 1 .. k
    <3>1. /\ tc.sw \in Seq(1 .. k) /\ tc.n = Len(tc.sw) /\ Len(tc.sw) \in Nat
      BY LenProperties DEF Context, InOrder
    <3>2. Len(tc.sw) \in 1 .. Len(tc.sw)
      BY <1>2, <3>1
    <3> QED
      BY <1>2, <3>1, <3>2, ElementOfSeq DEF Current
  <2>2. TakeSnapShot(tc) = [sw |-> <<Current(tc)>>, n |-> 1, lcs |-> 0]
    BY <1>2 DEF TakeSnapShot, NoSpan
  <2> DEFINE c == Current(tc)
  <2> HIDE DEF c
  <2>3. <<c>> \in Seq(1 .. k) /\ Len(<<c>>) = 1 /\ <<c>>[1] = c
    BY <2>1 DEF c
  <2>4. Spans([sw |-> <<c>>, n |-> 1, lcs |-> 0]) = {c}
    BY <2>3 DEF Spans
  <2> QED
    BY <2>1, <2>2, <2>3, <2>4, TCAssumption DEF Context, InOrder, Ordered, NoSpan, c
<1> QED
  BY <1>1, <1>2

\* What the list lemmas need of a state: every list is in order.
ListsOK == \A g \in Goroutine : gls[g] \in Context(created) /\ InOrder(gls[g])

LEMMA InvListsOK ==
  ASSUME IInv
  PROVE  /\ ListsOK
         /\ \A g \in Goroutine : Held(g) = Spans(gls[g])
         /\ created \in Nat
<1>1. created \in Nat
  BY TCAssumption DEF IInv, TypeOK
<1>2. ASSUME NEW g \in Goroutine
      PROVE  gls[g] \in Context(created) /\ InOrder(gls[g])
  BY DEF IInv, TypeOK, CountMatches, NewestOnTop, Context, InOrder, Ordered, Created
<1> QED
  BY <1>1, <1>2 DEF ListsOK, Held, Spans

LEMMA ListsOKInv ==
  ASSUME ListsOK, gls \in [Goroutine -> [sw : Seq(Created), n : Nat, lcs : 0 .. created]]
  PROVE  CountMatches /\ NewestOnTop
BY DEF ListsOK, CountMatches, NewestOnTop, InOrder, Ordered

LEMMA InitInv == Init => IInv
<1> SUFFICES ASSUME Init PROVE IInv
  OBVIOUS
<1>1. EmptyContext \in [sw : Seq(Created), n : Nat, lcs : 0 .. created]
  BY DEF EmptyContext, Init, NoSpan
<1>2. TypeOK
  BY <1>1, TCAssumption DEF Init, TypeOK, NoSpan
<1>3. CountMatches /\ NewestOnTop /\ \A g \in Goroutine : Held(g) = {}
  BY TCAssumption DEF Init, CountMatches, NewestOnTop, Held, EmptyContext
<1>4. \A g \in Goroutine : gls[g].lcs = NoSpan
  BY DEF Init, EmptyContext
<1>5. alive \subseteq Goroutine
  BY TCAssumption DEF Init
<1> QED
  BY <1>2, <1>3, <1>4, <1>5 DEF IInv, StaleOnlyFromOthers, OwnOrInherited,
     LocalRootIsOldest, LocalRootSpanFromGLS, DeadIsBlank, Init

LEMMA NewSpanInv ==
  ASSUME IInv, NEW g \in Goroutine, NEW p \in 0 .. created, NEW b \in BOOLEAN,
         NewSpan(g, p, b)
  PROVE  IInv'
<1> DEFINE s == created + 1
<1>0. /\ ListsOK /\ created \in Nat
      /\ \A h \in Goroutine : Held(h) = Spans(gls[h])
      /\ created' = s /\ s <= SpanBound
      /\ g \in alive /\ alive \subseteq Goroutine
      /\ alive' = alive /\ origin' = origin /\ ended' = ended
  <2>1. created' = s /\ created < SpanBound /\ g \in alive
        /\ alive' = alive /\ origin' = origin /\ ended' = ended
    BY DEF NewSpan
  <2>2. alive \subseteq Goroutine /\ created \in 0 .. SpanBound
    BY DEF IInv, TypeOK
  <2>3. s <= SpanBound
    BY <2>1, <2>2, TCAssumption
  <2> QED
    BY <2>1, <2>2, <2>3, InvListsOK
<1> HIDE DEF s
<1>1. /\ gls' = [gls EXCEPT ![g] = Add(gls[g], s)]
      /\ mine' = [mine EXCEPT ![g] = @ \union {s}]
      /\ latest' = [parent |-> p, implicit |-> b]
  BY DEF NewSpan, s
<1>2. /\ gls'[g] = Add(gls[g], s)
      /\ \A h \in Goroutine \ {g} : gls'[h] = gls[h]
      /\ mine'[g] = mine[g] \union {s}
      /\ \A h \in Goroutine \ {g} : mine'[h] = mine[h]
  BY <1>1 DEF IInv, TypeOK
<1>3. /\ gls'[g] \in Context(created') /\ InOrder(gls'[g])
      /\ Spans(gls'[g]) \subseteq Spans(gls[g]) \union {s}
      /\ gls[g].n # 0 => gls'[g].lcs = gls[g].lcs
      /\ gls[g].n = 0 => gls'[g].lcs = s /\ Spans(gls'[g]) = {s}
  BY <1>0, <1>2, AddProperties DEF ListsOK, s
<1>4. \A h \in Goroutine : gls'[h] \in Context(created') /\ InOrder(gls'[h])
  BY <1>0, <1>2, <1>3, ContextMonotonic DEF ListsOK, s
<1>5. TypeOK'
  <2>1. gls' \in [Goroutine -> Context(created')]
    BY <1>1, <1>4 DEF IInv, TypeOK
  <2>2. s \in 1 .. s /\ Created \subseteq 1 .. s /\ 0 .. created \subseteq 0 .. s
        /\ s \in 0 .. SpanBound
    BY <1>0 DEF s, Created
  <2>3. mine' \in [Goroutine -> SUBSET (1 .. s)]
    BY <1>1, <2>2 DEF IInv, TypeOK
  <2> QED
    BY <1>0, <1>1, <2>1, <2>2, <2>3 DEF IInv, TypeOK, Context, Created
<1>6. CountMatches' /\ NewestOnTop'
  BY <1>4 DEF InOrder, Ordered, CountMatches, NewestOnTop
<1>7. \A h \in Goroutine : Held(h)' = Spans(gls'[h])
  BY DEF Held, Spans
<1>8. \A h \in Goroutine : s \notin ended[h] /\ \A r \in Held(h) : r < s /\ r \in Nat
  <2>1. \A h \in Goroutine : ended[h] \subseteq 1 .. created
    BY DEF IInv, TypeOK, Created
  <2>2. \A h \in Goroutine : \A i \in 1 .. Len(gls[h].sw) : gls[h].sw[i] \in 1 .. created
    BY <1>0, ElementOfSeq DEF ListsOK, Context
  <2> QED
    BY <1>0, <2>1, <2>2 DEF Held, s
<1>9. StaleOnlyFromOthers'
  BY <1>0, <1>2, <1>3, <1>7, <1>8 DEF IInv, StaleOnlyFromOthers
<1>10. OwnOrInherited'
  BY <1>0, <1>2, <1>3, <1>7 DEF IInv, OwnOrInherited
<1>11. LocalRootIsOldest'
  <2>1. SUFFICES ASSUME NEW h \in alive, gls'[h].lcs # NoSpan
                 PROVE  /\ gls'[h].lcs \in mine'[h]
                        /\ \A r \in Spans(gls'[h]) : gls'[h].lcs <= r
    BY <1>0, <1>7 DEF LocalRootIsOldest, LocalRootSpanFromGLS
  <2>2. gls[h].lcs # NoSpan => /\ gls[h].lcs \in mine[h]
                               /\ \A r \in Spans(gls[h]) : gls[h].lcs <= r
    BY <1>0 DEF IInv, LocalRootIsOldest, LocalRootSpanFromGLS
  <2>3. CASE h # g
    BY <1>0, <1>2, <2>1, <2>2, <2>3
  <2>4. CASE h = g /\ gls[g].n # 0
    <3>1. gls[g].lcs \in 1 .. created
      BY <1>0, <1>3, <2>1, <2>4 DEF ListsOK, Context, NoSpan
    <3>2. gls[g].lcs <= s
      BY <1>0, <3>1 DEF s
    <3> QED
      BY <1>2, <1>3, <2>1, <2>2, <2>4, <3>2
  <2>5. CASE h = g /\ gls[g].n = 0
    BY <1>0, <1>2, <1>3, <2>5 DEF s
  <2> QED
    BY <2>3, <2>4, <2>5
<1>12. DeadIsBlank'
  BY <1>0, <1>2 DEF IInv, DeadIsBlank
<1> QED
  BY <1>5, <1>6, <1>9, <1>10, <1>11, <1>12 DEF IInv

LEMMA EndInv ==
  ASSUME IInv, NEW g \in Goroutine, NEW s \in Created, End(g, s)
  PROVE  IInv'
<1>0. /\ ListsOK /\ created \in Nat
      /\ \A h \in Goroutine : Held(h) = Spans(gls[h])
  BY InvListsOK
<1>1. /\ gls' = [gls EXCEPT ![g] = Del(gls[g], s)]
      /\ ended' = [ended EXCEPT ![g] = @ \union {s}] \/ ended' = ended
      /\ s \in Spans(gls[g]) => ended' = [ended EXCEPT ![g] = @ \union {s}]
      /\ alive' = alive /\ origin' = origin /\ mine' = mine
      /\ created' = created /\ latest' = latest
      /\ g \in alive
  BY DEF End, Listed, Spans
<1>2. /\ alive \subseteq Goroutine
      /\ gls'[g] = Del(gls[g], s)
      /\ \A h \in Goroutine \ {g} : gls'[h] = gls[h] /\ ended'[h] = ended[h]
      /\ ended'[g] \subseteq ended[g] \union {s}
  BY <1>1 DEF IInv, TypeOK
<1>3. /\ gls'[g] \in Context(created) /\ InOrder(gls'[g])
      /\ Spans(gls'[g]) = Spans(gls[g]) \ {s}
      /\ gls'[g].lcs = gls[g].lcs
  BY <1>0, <1>2, DelProperties DEF ListsOK
<1>4. \A h \in Goroutine : gls'[h] \in Context(created) /\ InOrder(gls'[h])
  BY <1>0, <1>2, <1>3 DEF ListsOK
<1>5. \A h \in Goroutine : /\ Held(h)' = Spans(gls'[h])
                           /\ Spans(gls'[h]) \subseteq Spans(gls[h])
                           /\ gls'[h].lcs = gls[h].lcs
  BY <1>2, <1>3, SMTT(30) DEF Held, Spans
<1>6. TypeOK'
  <2>1. gls' \in [Goroutine -> Context(created)]
    BY <1>1, <1>4 DEF IInv, TypeOK
  <2>2. ended' \in [Goroutine -> SUBSET Created]
    BY <1>1, SMTT(30) DEF IInv, TypeOK
  <2> QED
    BY <1>1, <2>1, <2>2 DEF IInv, TypeOK, Context, Created
<1>7. CountMatches' /\ NewestOnTop'
  BY <1>4 DEF InOrder, Ordered, CountMatches, NewestOnTop
<1>8. StaleOnlyFromOthers'
  BY <1>0, <1>1, <1>2, <1>3, <1>5 DEF IInv, StaleOnlyFromOthers
<1>9. OwnOrInherited'
  BY <1>0, <1>1, <1>2, <1>5 DEF IInv, OwnOrInherited
<1>10. LocalRootIsOldest'
  BY <1>0, <1>1, <1>2, <1>5 DEF IInv, LocalRootIsOldest, LocalRootSpanFromGLS
<1>11. DeadIsBlank'
  BY <1>1, <1>2 DEF IInv, DeadIsBlank
<1> QED
  BY <1>6, <1>7, <1>8, <1>9, <1>10, <1>11 DEF IInv

LEMMA GoInv ==
  ASSUME IInv, NEW g \in Goroutine, NEW c \in Goroutine, Go(g, c)
  PROVE  IInv'
<1>0. /\ ListsOK /\ created \in Nat
      /\ \A h \in Goroutine : Held(h) = Spans(gls[h])
  BY InvListsOK
<1>1. /\ gls' = [gls EXCEPT ![c] = TakeSnapShot(gls[g])]
      /\ origin' = [origin EXCEPT ![c] = Current(gls[g])]
      /\ alive' = alive \union {c}
      /\ mine' = mine /\ ended' = ended /\ created' = created /\ latest' = latest
      /\ c \notin alive
  BY DEF Go
<1>2. /\ alive \subseteq Goroutine
      /\ gls'[c] = TakeSnapShot(gls[g])
      /\ origin'[c] = Current(gls[g])
      /\ \A h \in Goroutine \ {c} : gls'[h] = gls[h] /\ origin'[h] = origin[h]
      /\ mine[c] = {} /\ ended[c] = {}
  BY <1>1 DEF IInv, TypeOK, DeadIsBlank
<1>3. /\ gls'[c] \in Context(created) /\ InOrder(gls'[c])
      /\ Spans(gls'[c]) = {Current(gls[g])} \ {NoSpan}
      /\ gls'[c].lcs = NoSpan
      /\ Current(gls[g]) \in 0 .. created
  BY <1>0, <1>2, SnapShotProperties, CurrentIsNewest DEF ListsOK
<1>4. \A h \in Goroutine : gls'[h] \in Context(created) /\ InOrder(gls'[h])
  BY <1>0, <1>2, <1>3 DEF ListsOK
<1>5. \A h \in Goroutine : Held(h)' = Spans(gls'[h])
  BY DEF Held, Spans
<1>6. TypeOK'
  <2>1. gls' \in [Goroutine -> Context(created)]
    BY <1>1, <1>4 DEF IInv, TypeOK
  <2>2. origin' \in [Goroutine -> 0 .. created]
    BY <1>1, <1>3 DEF IInv, TypeOK
  <2> QED
    BY <1>1, <2>1, <2>2 DEF IInv, TypeOK, Context, Created
<1>7. CountMatches' /\ NewestOnTop'
  BY <1>4 DEF InOrder, Ordered, CountMatches, NewestOnTop
<1>8. StaleOnlyFromOthers'
  BY <1>0, <1>1, <1>2, <1>5 DEF IInv, StaleOnlyFromOthers
<1>9. OwnOrInherited'
  BY <1>0, <1>1, <1>2, <1>3, <1>5 DEF IInv, OwnOrInherited
<1>10. LocalRootIsOldest'
  BY <1>0, <1>1, <1>2, <1>3, <1>5 DEF IInv, LocalRootIsOldest, LocalRootSpanFromGLS
<1>11. DeadIsBlank'
  BY <1>1 DEF IInv, DeadIsBlank
<1> QED
  BY <1>6, <1>7, <1>8, <1>9, <1>10, <1>11 DEF IInv

LEMMA ExitInv ==
  ASSUME IInv, NEW g \in Goroutine, Exit(g)
  PROVE  IInv'
<1>1. /\ alive' = alive \ {g} /\ gls' = gls /\ created' = created /\ latest' = latest
      /\ origin' = [origin EXCEPT ![g] = NoSpan]
      /\ mine' = [mine EXCEPT ![g] = {}]
      /\ ended' = [ended EXCEPT ![g] = {}]
  BY DEF Exit
<1>2. \A h \in Goroutine \ {g} : origin'[h] = origin[h] /\ mine'[h] = mine[h]
                                /\ ended'[h] = ended[h]
  BY <1>1 DEF IInv, TypeOK
<1>3. alive' \subseteq Goroutine \ {g} /\ alive' \subseteq alive
  BY <1>1 DEF IInv, TypeOK
<1>4. \A h \in Goroutine : Held(h)' = Held(h)
  BY <1>1 DEF Held
<1>5. TypeOK'
  BY <1>1 DEF IInv, TypeOK, Created, NoSpan
<1>6. CountMatches' /\ NewestOnTop'
  BY <1>1 DEF IInv, CountMatches, NewestOnTop
<1>7. StaleOnlyFromOthers' /\ OwnOrInherited'
  BY <1>2, <1>3, <1>4 DEF IInv, StaleOnlyFromOthers, OwnOrInherited
<1>8. LocalRootIsOldest'
  BY <1>1, <1>2, <1>3, <1>4 DEF IInv, LocalRootIsOldest, LocalRootSpanFromGLS
<1>9. DeadIsBlank'
  <2>1. mine'[g] = {} /\ ended'[g] = {}
    BY <1>1 DEF IInv, TypeOK
  <2> QED
    BY <1>1, <1>2, <2>1 DEF IInv, DeadIsBlank
<1> QED
  BY <1>5, <1>6, <1>7, <1>8, <1>9 DEF IInv

\* The implicit parent of a new span is a span created before.
LEMMA StartParent ==
  ASSUME IInv, NEW g \in Goroutine, NEW ctx \in {NoSpan} \union Created
  PROVE  SpanFromContext(g, ctx) \in 0 .. created
BY InvListsOK, CurrentIsNewest DEF ListsOK, SpanFromContext, Created, NoSpan

LEMMA NextInv == IInv /\ [Next]_vars => IInv'
<1> SUFFICES ASSUME IInv, [Next]_vars PROVE IInv'
  OBVIOUS
<1>1. ASSUME NEW g \in Goroutine, NEW ctx \in {NoSpan} \union Created, Start(g, ctx)
      PROVE  IInv'
  <2>1. NewSpan(g, SpanFromContext(g, ctx), ctx = NoSpan)
    BY <1>1 DEF Start
  <2>2. SpanFromContext(g, ctx) \in 0 .. created /\ (ctx = NoSpan) \in BOOLEAN
    BY StartParent
  <2> QED
    BY <2>1, <2>2, NewSpanInv
<1>2. ASSUME NEW g \in Goroutine, StartRoot(g)
      PROVE  IInv'
  <2>1. NoSpan \in 0 .. created
    BY InvListsOK DEF NoSpan
  <2> QED
    BY <1>2, <2>1, NewSpanInv DEF StartRoot
<1>3. ASSUME NEW g \in Goroutine, NEW s \in Created, End(g, s)
      PROVE  IInv'
  BY <1>3, EndInv
<1>4. ASSUME NEW g \in Goroutine, NEW c \in Goroutine, Go(g, c)
      PROVE  IInv'
  BY <1>4, GoInv
<1>5. ASSUME NEW g \in Goroutine, Exit(g)
      PROVE  IInv'
  BY <1>5, ExitInv
<1>6. CASE UNCHANGED vars
  BY <1>6 DEF vars, IInv, TypeOK, CountMatches, NewestOnTop, StaleOnlyFromOthers,
     OwnOrInherited, LocalRootIsOldest, LocalRootSpanFromGLS, DeadIsBlank,
     Held, Created
<1> QED
  BY <1>1, <1>2, <1>3, <1>4, <1>5, <1>6 DEF Next

\* The invariant that carries every property below.
THEOREM Invariance == Spec => []IInv
BY InitInv, NextInv, PTL DEF Spec

\* Every list holds created spans only and every variable has its type.
THEOREM TypeCorrect == Spec => []TypeOK
<1>1. IInv => TypeOK
  BY DEF IInv
<1> QED
  BY <1>1, Invariance, PTL

\* The counter n is the length of the chain and never passes maxSpans.
THEOREM Counted == Spec => []CountMatches
<1>1. IInv => CountMatches
  BY DEF IInv
<1> QED
  BY <1>1, Invariance, PTL

\* A goroutine never finds a span again that it has ended.
THEOREM NeverStaleByOwnEnd == Spec => []StaleOnlyFromOthers
<1>1. IInv => StaleOnlyFromOthers
  BY DEF IInv
<1> QED
  BY <1>1, Invariance, PTL

\* A goroutine's list holds only its own spans and the one it inherited,
\* also when its g structure was used by another goroutine before.
THEOREM NoLeftovers == Spec => []OwnOrInherited
<1>1. IInv => OwnOrInherited
  BY DEF IInv
<1> QED
  BY <1>1, Invariance, PTL

\* The local root is a span of the goroutine, no younger than any it holds.
THEOREM LocalRoot == Spec => []LocalRootIsOldest
<1>1. IInv => LocalRootIsOldest
  BY DEF IInv
<1> QED
  BY <1>1, Invariance, PTL

\* A goroutine's list is bounded, ordered, its own, and free of what the
\* goroutine has ended.
THEOREM HeldSoundAlways == Spec => []HeldSound
<1>1. IInv => HeldSound
  BY DEF IInv, HeldSound
<1> QED
  BY <1>1, Invariance, PTL
-----------------------------------------------------------------------------
(* The list implements the promise over sets of held spans.                *)

\* A list in order has as many spans as entries.
LEMMA SpansCounted ==
  ASSUME NEW k \in Nat, NEW tc \in Context(k), InOrder(tc)
  PROVE  Cardinality(Spans(tc)) = tc.n
<1> DEFINE l == tc.sw
           D == 1 .. Len(l)
<1>1. /\ Len(l) \in Nat /\ tc.n = Len(l) /\ l \in [D -> 1 .. k]
      /\ \A i, j \in D : i < j => l[i] < l[j]
  BY LenProperties DEF Context, InOrder, Ordered
<1>2. l \in [D -> Spans(tc)]
  BY <1>1 DEF Spans
<1>3. \A i, j \in D : l[i] = l[j] => i = j
  <2>1. SUFFICES ASSUME NEW i \in D, NEW j \in D, l[i] = l[j] PROVE i = j
    OBVIOUS
  <2>2. l[i] \in Int /\ l[j] \in Int /\ i \in Int /\ j \in Int
    BY <1>1
  <2>3. ~ (i < j) /\ ~ (j < i)
    BY <1>1, <2>1, <2>2
  <2> QED BY <2>2, <2>3
<1>4. \A s \in Spans(tc) : \E i \in D : l[i] = s
  BY DEF Spans
<1>5. l \in Bijection(D, Spans(tc))
  BY <1>2, <1>3, <1>4 DEF Bijection, Injection, IsInjective, Surjection
<1>6. IsFiniteSet(D) /\ Cardinality(D) = Len(l)
  <2>1. ASSUME NEW n \in Nat
        PROVE  IsFiniteSet(1 .. n) /\ Cardinality(1 .. n) = n
    <3>1. 1 \in Int /\ n \in Int
      OBVIOUS
    <3>2. IsFiniteSet(1 .. n) /\ Cardinality(1 .. n) = IF 1 > n THEN 0 ELSE n - 1 + 1
      BY ONLY <3>1, FS_Interval, Zenon
    <3> QED BY <3>2
  <2> QED BY <1>1, <2>1
<1> QED
  BY <1>1, <1>5, <1>6, FS_Bijection DEF ExistsBijection

LEMMA NewestIsCurrent ==
  ASSUME IInv, NEW g \in Goroutine
  PROVE  CP!Newest(Held(g)) = Current(gls[g])
<1>1. /\ gls[g] \in Context(created) /\ InOrder(gls[g])
      /\ Held(g) = Spans(gls[g]) /\ created \in Nat
  BY InvListsOK DEF ListsOK
<1>2. /\ Current(gls[g]) \in 0 .. created
      /\ gls[g].n = 0 <=> Held(g) = {}
      /\ gls[g].n = 0 => Current(gls[g]) = NoSpan
      /\ gls[g].n # 0 => /\ Current(gls[g]) \in Held(g)
                         /\ \A s \in Held(g) : s <= Current(gls[g])
  BY <1>1, CurrentIsNewest
<1>3. \A s \in Held(g) : s \in Int
  BY <1>1, ElementOfSeq DEF Context, Spans
<1>4. CASE Held(g) = {}
  BY <1>2, <1>4 DEF CP!Newest, CP!NoSpan, NoSpan
<1>5. CASE Held(g) # {}
  <2>1. \A s \in Held(g) : (\A t \in Held(g) : t <= s) <=> s = Current(gls[g])
    BY <1>2, <1>3, <1>5
  <2>2. (CHOOSE s \in Held(g) : \A t \in Held(g) : t <= s) = Current(gls[g])
    BY <1>2, <1>5, <2>1
  <2> QED
    BY <1>5, <2>2 DEF CP!Newest
<1> QED
  BY <1>4, <1>5

LEMMA CreateStep ==
  ASSUME IInv, NEW g \in Goroutine, NEW p \in 0 .. created, NEW b \in BOOLEAN,
         b => p = Current(gls[g]), NewSpan(g, p, b)
  PROVE  CP!Create(g)
<1> DEFINE held == [h \in Goroutine |-> Held(h)]
<1>0. /\ gls[g] \in Context(created) /\ InOrder(gls[g]) /\ created \in Nat
      /\ \A h \in Goroutine : Held(h) = Spans(gls[h])
  BY InvListsOK DEF ListsOK
<1>1. /\ gls'[g] = Add(gls[g], created + 1)
      /\ \A h \in Goroutine \ {g} : gls'[h] = gls[h]
      /\ g \in alive /\ created < SpanBound /\ created' = created + 1
      /\ latest' = [parent |-> p, implicit |-> b] /\ alive' = alive
  BY DEF NewSpan, IInv, TypeOK
<1>2. \/ \E q \in 0 .. created : latest' = [parent |-> q, implicit |-> FALSE]
      \/ latest' = [parent |-> CP!Newest(held[g]), implicit |-> TRUE]
  <2>1. CP!Newest(held[g]) = Current(gls[g])
    BY NewestIsCurrent
  <2>2. CASE b = TRUE
    BY <1>1, <2>1, <2>2
  <2>3. CASE b = FALSE
    BY <1>1, <2>3
  <2> QED BY <2>2, <2>3
<1>3. \A h \in Goroutine \ {g} : held'[h] = held[h]
  BY <1>1 DEF Held
<1>4. held'[g] = held[g] \union {created'} \/ (held'[g] = held[g] /\ gls[g].n = MaxSpans)
  <2>1. held'[g] = Spans(gls'[g]) /\ held[g] = Spans(gls[g])
    BY DEF Held, Spans
  <2>2. \/ Spans(Add(gls[g], created + 1)) = Spans(gls[g]) \union {created + 1}
        \/ gls[g].n = MaxSpans /\ Add(gls[g], created + 1) = gls[g]
    BY <1>0, AddProperties
  <2>3. \/ Spans(gls'[g]) = Spans(gls[g]) \union {created + 1}
        \/ gls[g].n = MaxSpans /\ Spans(gls'[g]) = Spans(gls[g])
    BY <1>1, <2>2
  <2> QED
    BY <1>1, <2>1, <2>3
<1>5. \/ held' = [held EXCEPT ![g] = @ \union {created'}]
      \/ Cardinality(held[g]) = MaxSpans /\ held' = held
  <2>1. held' = [h \in Goroutine |-> held'[h]] /\ held = [h \in Goroutine |-> held[h]]
    OBVIOUS
  <2>2. CASE held'[g] = held[g] \union {created'}
    BY <1>3, <2>1, <2>2
  <2>3. CASE held'[g] = held[g] /\ gls[g].n = MaxSpans
    <3>1. Cardinality(held[g]) = MaxSpans
      BY <1>0, <2>3, SpansCounted
    <3> QED BY <1>3, <2>1, <2>3, <3>1
  <2> QED BY <1>4, <2>2, <2>3
<1>6. CP!Cardinality(held[g]) = Cardinality(held[g])
  BY DEF CP!Cardinality, Cardinality
<1> QED
  BY <1>1, <1>2, <1>5, <1>6 DEF CP!Create

LEMMA FinishStep ==
  ASSUME IInv, NEW g \in Goroutine, NEW s \in Created, End(g, s)
  PROVE  CP!Finish(g)
<1> DEFINE held == [h \in Goroutine |-> Held(h)]
<1>0. /\ gls[g] \in Context(created) /\ InOrder(gls[g]) /\ created \in Nat
  BY InvListsOK DEF ListsOK
<1>1. /\ gls'[g] = Del(gls[g], s)
      /\ \A h \in Goroutine \ {g} : gls'[h] = gls[h]
      /\ g \in alive /\ UNCHANGED <<alive, created, latest>>
  BY DEF End, IInv, TypeOK
<1>2. \A h \in Goroutine \ {g} : held'[h] = held[h]
  BY <1>1 DEF Held
<1>3. held'[g] = held[g] \ {s}
  <2>1. held'[g] = Spans(gls'[g]) /\ held[g] = Spans(gls[g])
    BY DEF Held, Spans
  <2> QED
    BY <1>0, <1>1, <2>1, DelProperties
<1>4. held' = [held EXCEPT ![g] = @ \ {s}]
  <2>1. held' = [h \in Goroutine |-> held'[h]] /\ held = [h \in Goroutine |-> held[h]]
    OBVIOUS
  <2> QED BY <1>2, <1>3, <2>1
<1> QED
  BY <1>1, <1>4 DEF CP!Finish, Created

LEMMA SpawnStep ==
  ASSUME IInv, NEW g \in Goroutine, NEW c \in Goroutine, Go(g, c)
  PROVE  CP!Spawn(g, c)
<1> DEFINE held == [h \in Goroutine |-> Held(h)]
<1>0. /\ gls[g] \in Context(created) /\ InOrder(gls[g]) /\ created \in Nat
      /\ Held(g) = Spans(gls[g])
  BY InvListsOK DEF ListsOK
<1>1. /\ gls'[c] = TakeSnapShot(gls[g])
      /\ \A h \in Goroutine \ {c} : gls'[h] = gls[h]
      /\ g \in alive /\ c \notin alive /\ alive' = alive \union {c}
      /\ UNCHANGED <<created, latest>>
  BY DEF Go, IInv, TypeOK
<1>2. \A h \in Goroutine \ {c} : held'[h] = held[h]
  BY <1>1 DEF Held
<1>3. held'[c] = {Current(gls[g])} \ {NoSpan}
  <2>1. held'[c] = Spans(gls'[c])
    BY DEF Held, Spans
  <2> QED
    BY <1>0, <1>1, <2>1, SnapShotProperties
<1>4. held'[c] = IF held[g] = {} THEN {} ELSE {CP!Newest(held[g])}
  <2>1. CP!Newest(held[g]) = Current(gls[g])
    BY NewestIsCurrent
  <2>2. /\ held[g] = {} => Current(gls[g]) = NoSpan
        /\ held[g] # {} => Current(gls[g]) \in held[g]
    BY <1>0, CurrentIsNewest
  <2>3. NoSpan \notin held[g]
    <3>1. \A i \in 1 .. Len(gls[g].sw) : gls[g].sw[i] \in 1 .. created
      BY <1>0, ElementOfSeq DEF Context
    <3> QED BY <1>0, <3>1 DEF Spans, NoSpan
  <2> HIDE DEF held
  <2> QED BY <1>3, <2>1, <2>2, <2>3
<1>5. held' = [held EXCEPT ![c] = IF held[g] = {} THEN {} ELSE {CP!Newest(held[g])}]
  <2>1. held' = [h \in Goroutine |-> held'[h]] /\ held = [h \in Goroutine |-> held[h]]
    OBVIOUS
  <2> QED BY <1>2, <1>4, <2>1
<1> QED
  BY <1>1, <1>5 DEF CP!Spawn

\* The linked list in the g structure implements the documented promise: a
\* span created without a usable context is a child of the most recently
\* created span its goroutine holds.
THEOREM Implements == Spec => Promise
<1>1. Init => CP!Init
  <2>1. Init => [g \in Goroutine |-> Held(g)] = [g \in Goroutine |-> {}]
    <3>1. Init => \A g \in Goroutine : Held(g) = {}
      BY DEF Init, Held, EmptyContext
    <3> QED BY <3>1
  <2> QED
    BY <2>1 DEF Init, CP!Init, CP!NoSpan, NoSpan
<1>2. IInv /\ [Next]_vars => [CP!Next]_(CP!vars)
  <2> SUFFICES ASSUME IInv, [Next]_vars PROVE [CP!Next]_(CP!vars)
    OBVIOUS
  <2>1. ASSUME NEW g \in Goroutine, NEW ctx \in {NoSpan} \union Created, Start(g, ctx)
        PROVE  CP!Next
    <3>1. NewSpan(g, SpanFromContext(g, ctx), ctx = NoSpan)
      BY <2>1 DEF Start
    <3>2. /\ SpanFromContext(g, ctx) \in 0 .. created /\ (ctx = NoSpan) \in BOOLEAN
          /\ ctx = NoSpan => SpanFromContext(g, ctx) = Current(gls[g])
      BY StartParent DEF SpanFromContext
    <3>3. CP!Create(g)
      BY <3>1, <3>2, CreateStep
    <3> QED BY <3>3 DEF CP!Next
  <2>2. ASSUME NEW g \in Goroutine, StartRoot(g)
        PROVE  CP!Next
    <3>1. NoSpan \in 0 .. created
      BY InvListsOK DEF NoSpan
    <3>2. CP!Create(g)
      BY <2>2, <3>1, CreateStep DEF StartRoot
    <3> QED BY <3>2 DEF CP!Next
  <2>3. ASSUME NEW g \in Goroutine, NEW s \in Created, End(g, s)
        PROVE  CP!Next
    BY <2>3, FinishStep DEF CP!Next
  <2>4. ASSUME NEW g \in Goroutine, NEW c \in Goroutine, Go(g, c)
        PROVE  CP!Next
    BY <2>4, SpawnStep DEF CP!Next
  <2>5. ASSUME NEW g \in Goroutine, Exit(g)
        PROVE  CP!Next
    <3>1. CP!Exit(g)
      BY <2>5 DEF Exit, CP!Exit, Held
    <3> QED BY <3>1 DEF CP!Next
  <2>6. CASE UNCHANGED vars
    BY <2>6 DEF vars, CP!vars, Held
  <2> QED
    BY <2>1, <2>2, <2>3, <2>4, <2>5, <2>6 DEF Next
<1> QED
  BY <1>1, <1>2, Invariance, PTL DEF Spec, Promise, CP!Spec
-----------------------------------------------------------------------------
(* Baggage.                                                                *)

LEMMA BaggageStoreInv ==
  ASSUME BaggageInv, NEW g \in Goroutine, NEW b \in Baggage(made + 1),
         ContextWithBaggage(g, b)
  PROVE  BaggageInv'
<1>1. /\ stores \in Nat /\ made \in Nat /\ made <= stores /\ stores < StoreBound
      /\ StoreBound \in Nat /\ b \in Nat /\ b <= made + 1
  BY GBAssumption DEF BaggageInv, BaggageSound, BaggageTypeOK, ContextWithBaggage, Baggage
<1>2. /\ stores' = stores + 1
      /\ made' = IF b > made THEN b ELSE made
      /\ container' = [container EXCEPT ![g] = b]
      /\ stored' = [stored EXCEPT ![g] = @ \union {b}]
      /\ UNCHANGED <<alive, inherited>> /\ g \in alive
  BY DEF ContextWithBaggage, vars
<1>3. /\ made' \in Nat /\ made <= made' /\ b <= made' /\ made' <= stores'
      /\ Baggage(made) \subseteq Baggage(made') /\ b \in Baggage(made')
  BY <1>1, <1>2 DEF Baggage
<1>4. BaggageTypeOK'
  <2>1. stores' \in 0 .. StoreBound /\ made' \in 0 .. stores'
    BY <1>1, <1>2, <1>3
  <2>2. /\ container \in [Goroutine -> {NoBaggage} \union Baggage(made)]
        /\ stored \in [Goroutine -> SUBSET Baggage(made)]
        /\ inherited \in [Goroutine -> Baggage(made)]
    BY DEF BaggageInv, BaggageSound, BaggageTypeOK
  <2> QED
    BY <1>2, <1>3, <2>1, <2>2 DEF BaggageTypeOK
<1>5. /\ \A h \in Goroutine \ {g} : container'[h] = container[h] /\ stored'[h] = stored[h]
      /\ container'[g] = b /\ stored'[g] = stored[g] \union {b}
  BY <1>2 DEF BaggageInv, BaggageSound, BaggageTypeOK
<1>6. ASSUME NEW h \in alive'
      PROVE  /\ \A list \in 1 .. made' : FromContext(h, list)' = list
             /\ FromContext(h, NoList)' \in IF stored'[h] = {} THEN {inherited'[h]} ELSE stored'[h]
  <2>1. \A list \in 1 .. made' : FromContext(h, list)' = list
    BY <1>3 DEF FromContext, NoList
  <2>2. CASE h = g
    BY <1>1, <1>5, <2>1, <2>2 DEF FromContext, NoList, NoBaggage
  <2>3. CASE h # g
    <3>1. h \in alive /\ h \in Goroutine \ {g}
      BY <1>2, <2>3 DEF BaggageInv
    <3> QED
      BY <1>2, <1>5, <2>1, <3>1 DEF FromContext, BaggageInv, BaggageSound
  <2> QED BY <2>2, <2>3
<1> QED
  BY <1>2, <1>4, <1>5, <1>6 DEF BaggageInv, BaggageSound

LEMMA BaggageGoInv ==
  ASSUME BaggageInv, NEW g \in Goroutine, NEW c \in Goroutine, BaggageGo(g, c)
  PROVE  BaggageInv'
<1>1. /\ container' = [container EXCEPT ![c] = container[g]]
      /\ inherited' = [inherited EXCEPT ![c] = FromContext(g, NoList)]
      /\ alive' = alive \union {c} /\ c \notin alive
      /\ UNCHANGED <<stores, made, stored>>
  BY DEF BaggageGo, Go, Propagated
<1>2. /\ container \in [Goroutine -> {NoBaggage} \union Baggage(made)]
      /\ stored \in [Goroutine -> SUBSET Baggage(made)]
      /\ inherited \in [Goroutine -> Baggage(made)]
      /\ made \in Nat
  BY GBAssumption DEF BaggageInv, BaggageSound, BaggageTypeOK
<1>3. FromContext(g, NoList) \in Baggage(made)
  BY <1>2 DEF FromContext, Baggage, NoList, NoBaggage
<1>4. BaggageTypeOK'
  BY <1>1, <1>2, <1>3 DEF BaggageInv, BaggageSound, BaggageTypeOK
<1>5. /\ \A h \in Goroutine \ {c} : container'[h] = container[h] /\ inherited'[h] = inherited[h]
      /\ container'[c] = container[g] /\ inherited'[c] = FromContext(g, NoList)
      /\ stored'[c] = {}
  BY <1>1, <1>2 DEF BaggageInv
<1>6. ASSUME NEW h \in alive'
      PROVE  /\ \A list \in 1 .. made' : FromContext(h, list)' = list
             /\ FromContext(h, NoList)' \in IF stored'[h] = {} THEN {inherited'[h]} ELSE stored'[h]
  <2>1. \A list \in 1 .. made' : FromContext(h, list)' = list
    BY DEF FromContext, NoList
  <2>2. CASE h = c
    BY <1>5, <2>1, <2>2 DEF FromContext
  <2>3. CASE h # c
    <3>1. h \in alive /\ h \in Goroutine \ {c}
      BY <1>1, <2>3 DEF BaggageInv
    <3> QED
      BY <1>1, <1>5, <2>1, <3>1 DEF FromContext, BaggageInv, BaggageSound
  <2> QED BY <2>2, <2>3
<1> QED
  BY <1>1, <1>4, <1>6 DEF BaggageInv, BaggageSound

LEMMA BaggageExitInv ==
  ASSUME BaggageInv, NEW g \in Goroutine, BaggageExit(g)
  PROVE  BaggageInv'
<1>1. /\ alive' = alive \ {g}
      /\ stored' = [stored EXCEPT ![g] = {}]
      /\ inherited' = [inherited EXCEPT ![g] = EmptyBaggage]
      /\ UNCHANGED <<stores, made, container>>
  BY DEF BaggageExit, Exit
<1>2. /\ stored \in [Goroutine -> SUBSET Baggage(made)]
      /\ inherited \in [Goroutine -> Baggage(made)]
      /\ EmptyBaggage \in Baggage(made)
  BY GBAssumption DEF BaggageInv, BaggageSound, BaggageTypeOK, EmptyBaggage, Baggage
<1>3. BaggageTypeOK'
  BY <1>1, <1>2 DEF BaggageInv, BaggageSound, BaggageTypeOK
<1>4. \A h \in Goroutine \ {g} : stored'[h] = stored[h] /\ inherited'[h] = inherited[h]
  BY <1>1, <1>2
<1>5. \A h \in Goroutine \ alive' : stored'[h] = {}
  BY <1>1, <1>2 DEF BaggageInv
<1>6. ASSUME NEW h \in alive'
      PROVE  /\ \A list \in 1 .. made' : FromContext(h, list)' = list
             /\ FromContext(h, NoList)' \in IF stored'[h] = {} THEN {inherited'[h]} ELSE stored'[h]
  <2>1. h \in alive /\ h \in Goroutine \ {g}
    BY <1>1 DEF BaggageInv
  <2> QED
    BY <1>1, <1>4, <2>1 DEF FromContext, BaggageInv, BaggageSound
<1> QED
  BY <1>1, <1>3, <1>5, <1>6 DEF BaggageInv, BaggageSound

\* What happens to baggage is a step of the span lists, or leaves them alone.
LEMMA BaggageNextIsNext == [BaggageNext]_<<vars, baggageVars>> => [Next]_vars
<1> SUFFICES ASSUME [BaggageNext]_<<vars, baggageVars>> PROVE [Next]_vars
  OBVIOUS
<1>1. CASE UNCHANGED <<vars, baggageVars>>
  BY <1>1
<1>2. CASE BaggageNext
  BY <1>2 DEF BaggageNext, Next, ContextWithBaggage, BaggageGo, BaggageExit
<1> QED BY <1>1, <1>2

LEMMA BaggageNextInv ==
  BaggageInv /\ [BaggageNext]_<<vars, baggageVars>> => BaggageInv'
<1> SUFFICES ASSUME BaggageInv, [BaggageNext]_<<vars, baggageVars>> PROVE BaggageInv'
  OBVIOUS
<1>1. ASSUME UNCHANGED <<alive, baggageVars>>
      PROVE  BaggageInv'
  BY <1>1 DEF BaggageInv, BaggageSound, BaggageTypeOK, FromContext, baggageVars
<1>2. CASE UNCHANGED <<vars, baggageVars>>
  BY <1>1, <1>2 DEF vars
<1>3. CASE BaggageNext
  <2>1. ASSUME NEW g \in Goroutine, UNCHANGED baggageVars,
               \/ \E ctx \in {NoSpan} \union Created : Start(g, ctx)
               \/ StartRoot(g)
               \/ \E s \in Created : End(g, s)
        PROVE  BaggageInv'
    BY <1>1, <2>1 DEF Start, StartRoot, NewSpan, End
  <2> QED
    BY <1>3, <2>1, BaggageStoreInv, BaggageGoInv, BaggageExitInv DEF BaggageNext
<1> QED BY <1>2, <1>3

LEMMA BaggageInitInv == BaggageInit => BaggageInv
<1> SUFFICES ASSUME BaggageInit PROVE BaggageInv
  OBVIOUS
<1>1. BaggageTypeOK
  BY GBAssumption DEF BaggageInit, BaggageTypeOK, Baggage, EmptyBaggage
<1>2. alive \subseteq Goroutine
  BY TCAssumption DEF BaggageInit, Init
<1> QED
  BY <1>1, <1>2 DEF BaggageInit, BaggageInv, BaggageSound, FromContext, NoList, NoBaggage,
     EmptyBaggage

\* The span lists beside baggage behave as they do alone: what is proved of
\* them holds with it.
THEOREM BaggageApart == BaggageSpec => Spec
<1>1. BaggageInit => Init
  BY DEF BaggageInit
<1> QED
  BY <1>1, BaggageNextIsNext, PTL DEF BaggageSpec, Spec

\* Where a context was lost, a goroutine reads the baggage that it stored
\* itself or that its parent read when it started it: a reused g and the
\* goroutines that are no ancestors never show, whatever is stored when.
THEOREM BaggageAlwaysSound == BaggageSpec => []BaggageSound
<1>1. BaggageInv => BaggageSound
  BY DEF BaggageInv
<1> QED
  BY <1>1, BaggageInitInv, BaggageNextInv, PTL DEF BaggageSpec
=============================================================================
