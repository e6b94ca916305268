-------------------------- MODULE HookPairsProofs --------------------------
(***************************************************************************)
(* Theorems about HookPairs, for any hooks that its exceptions describe    *)
(* and any number of calls: what the spans, the list of the goroutine and  *)
(* the frames refer to, which span a hook ends, what becomes of the spans  *)
(* of a call, what the route of a request is written on, and under which   *)
(* span a new one is.                                                      *)
(***************************************************************************)
EXTENDS HookPairs, WellFoundedInduction, SequenceTheorems, TLAPS

(* The list of the goroutine, and sequences.                               *)

\* A set of places in a sequence has a greatest one.
LEMMA Greatest ==
  ASSUME NEW n \in Nat, NEW S \in SUBSET (1..n), S # {}
  PROVE  \E s \in S : \A t \in S : t <= s
<1> DEFINE T == {n - s : s \in S}
           R == {ss \in Nat \X Nat : ss[1] < ss[2]}
<1>1. \A s \in S : s \in 1..n /\ n - s \in Nat
  OBVIOUS
<1>2. T \subseteq Nat
  BY <1>1
<1>3. T # {}
  <2>1. PICK s \in S : TRUE
    OBVIOUS
  <2>2. n - s \in T
    BY <2>1
  <2> QED
    BY <2>2
<1>4. IsWellFoundedOn(R, Nat)
  BY NatLessThanWellFounded DEF OpToRel
<1> HIDE DEF R
<1>5. PICK x \in T : \A y \in T : ~(<<y, x>> \in R)
  BY <1>2, <1>3, <1>4, WFMin
<1>6. \A y \in Nat : y < x => <<y, x>> \in R
  BY <1>2, <1>5 DEF R
<1>7. PICK s \in S : x = n - s
  BY <1>5
<1>8. ASSUME NEW t \in S PROVE t <= s
  <2>1. n - t \in T
    OBVIOUS
  <2>2. ~(n - t < x)
    BY <1>1, <1>5, <1>6, <2>1
  <2> HIDE DEF T
  <2> QED
    BY <1>1, <1>7, <2>2
<1> QED
  BY <1>8

\* The newest span that the goroutine lists.
LEMMA NewestOf ==
  ASSUME spans \in Seq(SpanType), gls \in SUBSET (1..Len(spans))
  PROVE  /\ gls = {} => Newest = 0
         /\ gls # {} => Newest \in gls /\ \A t \in gls : t <= Newest
         /\ Newest \in 0..Len(spans)
<1>1. Len(spans) \in Nat
  BY LenProperties
<1>2. CASE gls = {}
  BY <1>1, <1>2 DEF Newest
<1>3. CASE gls # {}
  <2>1. \E s \in gls : \A t \in gls : t <= s
    BY <1>1, <1>3, Greatest
  <2> DEFINE N == CHOOSE s \in gls : \A t \in gls : t <= s
  <2>2. N \in gls /\ \A t \in gls : t <= N
    BY <2>1
  <2>3. Newest = N
    BY <1>3 DEF Newest
  <2> HIDE DEF N
  <2> QED
    BY <1>1, <1>3, <2>2, <2>3
<1> QED
  BY <1>2, <1>3

\* The innermost frame with a span that is not over.
LEMMA InnermostOf ==
  ASSUME frames \in Seq(FrameType), Holders # {}
  PROVE  Innermost \in Holders /\ \A j \in Holders : j <= Innermost
<1>1. Len(frames) \in Nat /\ DOMAIN frames = 1..Len(frames)
  BY LenProperties
<1>2. Holders \in SUBSET (1..Len(frames))
  BY <1>1 DEF Holders
<1>3. \E i \in Holders : \A j \in Holders : j <= i
  BY <1>1, <1>2, Greatest
<1> DEFINE N == CHOOSE i \in Holders : \A j \in Holders : j <= i
<1>4. N \in Holders /\ \A j \in Holders : j <= N
  BY <1>3
<1> QED
  BY <1>4 DEF Innermost

\* What is left of the frames when the innermost is gone.
LEMMA PopOf ==
  ASSUME frames \in Seq(FrameType), Len(frames) > 1
  PROVE  /\ Pop \in Seq(FrameType) /\ Len(Pop) = Len(frames) - 1
         /\ \A i \in 1..Len(Pop) : Pop[i] = frames[i]
<1> DEFINE n == Len(frames)
<1>1. n \in Nat /\ DOMAIN frames = 1..n /\ \A i \in 1..n : frames[i] \in FrameType
  BY LenProperties, ElementOfSeq
<1>2. \A i \in 1..(n - 1) : frames[i] \in FrameType
  BY <1>1
<1>3. /\ SubSeq(frames, 1, n - 1) \in Seq(FrameType)
      /\ Len(SubSeq(frames, 1, n - 1)) = IF 1 <= n - 1 THEN (n - 1) - 1 + 1 ELSE 0
      /\ \A i \in 1..((n - 1) - 1 + 1) : SubSeq(frames, 1, n - 1)[i] = frames[1 + i - 1]
  BY <1>1, <1>2, SubSeqProperties
<1> QED
  BY <1>1, <1>3 DEF Pop

\* What TypeOK says, ready to be used.
LEMMA Facts ==
  ASSUME TypeOK
  PROVE  /\ Len(spans) \in Nat /\ DOMAIN spans = 1..Len(spans)
         /\ \A s \in 1..Len(spans) : spans[s] \in SpanType
         /\ Len(made) \in Nat /\ DOMAIN made = 1..Len(made)
         /\ \A c \in 1..Len(made) : made[c] \in CallType
         /\ Len(frames) \in Nat /\ Len(frames) >= 1 /\ DOMAIN frames = 1..Len(frames)
         /\ \A i \in 1..Len(frames) : frames[i] \in FrameType
         /\ Top \in FrameType /\ Top.hook \in Callers
         /\ Top.call \in 1..Len(made)
         /\ {Top.ctx, Top.held, Top.inside} \subseteq 0..Len(spans)
         /\ Newest \in 0..Len(spans)
<1>1. /\ Len(spans) \in Nat /\ DOMAIN spans = 1..Len(spans)
      /\ \A s \in 1..Len(spans) : spans[s] \in SpanType
  BY LenProperties, ElementOfSeq DEF TypeOK
<1>2. /\ Len(made) \in Nat /\ DOMAIN made = 1..Len(made)
      /\ \A c \in 1..Len(made) : made[c] \in CallType
  BY LenProperties, ElementOfSeq DEF TypeOK
<1>3. /\ Len(frames) \in Nat /\ DOMAIN frames = 1..Len(frames)
      /\ \A i \in 1..Len(frames) : frames[i] \in FrameType
  BY LenProperties, ElementOfSeq DEF TypeOK
<1>4. Len(frames) >= 1
  BY <1>3, EmptySeq DEF TypeOK
<1>5. Len(frames) \in DOMAIN frames
  BY <1>3, <1>4
<1>6. Top \in FrameType
  BY <1>3, <1>5 DEF Top
<1>7. Top.hook \in Callers
  BY <1>6 DEF FrameType
<1>8. Top.call \in 1..Len(made) /\ {Top.ctx, Top.held, Top.inside} \subseteq 0..Len(spans)
  BY <1>2, <1>5 DEF Top, TypeOK
<1>9. Newest \in 0..Len(spans)
  BY NewestOf DEF TypeOK
<1> QED
  BY <1>1, <1>2, <1>3, <1>4, <1>6, <1>7, <1>8, <1>9

(* What the instrumenter does to the spans.                                *)

\* A span and what has become of it agree, but for the route.
Same(new, old) ==
  /\ new.under = old.under /\ new.by = old.by /\ new.call = old.call
  /\ new.open = old.open /\ new.endedBy = old.endedBy /\ new.error = old.error

\* A span is a new one.
Fresh(t, under, by, call, open, err) ==
  /\ t.under = under /\ t.by = by /\ t.call = call /\ t.open = open
  /\ t.endedBy = (IF open THEN 0 ELSE call) /\ t.error = err /\ t.route \in {0, call}

\* The step starts a span, which it ends unless it is open, and keeps the others.
Began(h, ctx, call, open, err) ==
  /\ spans' \in Seq(SpanType) /\ Len(spans') = Len(spans) + 1
  /\ \A s \in 1..Len(spans) :
       /\ Same(spans'[s], spans[s])
       /\ spans'[s].route \in {spans[s].route, call}
       /\ ~h.routes => spans'[s].route = spans[s].route
  /\ Fresh(spans'[Len(spans) + 1], Under(h, ctx), h.name, call, open, err)

\* The step ends the span s, if it is one that is not over.
Ended(s, call, err) ==
  /\ spans' \in Seq(SpanType) /\ Len(spans') = Len(spans)
  /\ \A t \in 1..Len(spans) :
       IF t = s /\ spans[t].open
       THEN /\ spans'[t].under = spans[t].under /\ spans'[t].by = spans[t].by
            /\ spans'[t].call = spans[t].call /\ ~spans'[t].open
            /\ spans'[t].endedBy = call /\ spans'[t].error = err
            /\ spans'[t].route = spans[t].route
       ELSE spans'[t] = spans[t]

LEMMA UnderWhat ==
  ASSUME TypeOK, NEW h \in Callers, NEW ctx \in 0..Len(spans)
  PROVE  Under(h, ctx) \in 0..Len(spans) /\ Under(h, ctx) \in Nat
<1>1. Under(h, ctx) \in 0..Len(spans)
  BY Facts DEF Under, SpanOf
<1> QED
  BY <1>1, Facts

LEMMA NewSpanOf ==
  ASSUME NEW under \in Nat, NEW by \in CallerNames, NEW call \in Nat \ {0}
  PROVE  /\ NewSpan(under, by, call) \in SpanType
         /\ Fresh(NewSpan(under, by, call), under, by, call, TRUE, FALSE)
BY DEF NewSpan, SpanType, Fresh

LEMMA ClosedOf ==
  ASSUME NEW r \in SpanType, NEW call \in Nat, NEW err \in BOOLEAN
  PROVE  /\ Closed(r, call, err) \in SpanType
         /\ Closed(r, call, err).under = r.under /\ Closed(r, call, err).by = r.by
         /\ Closed(r, call, err).call = r.call /\ ~Closed(r, call, err).open
         /\ Closed(r, call, err).endedBy = call /\ Closed(r, call, err).error = err
         /\ Closed(r, call, err).route = r.route
BY DEF Closed, SpanType

\* Renaming changes one route.
LEMMA RenamedOf ==
  ASSUME NEW all \in Seq(SpanType), NEW root \in 0..Len(all), NEW call \in Nat \ {0}
  PROVE  /\ Renamed(all, root, call) \in Seq(SpanType)
         /\ Len(Renamed(all, root, call)) = Len(all)
         /\ \A s \in 1..Len(all) :
              /\ Same(Renamed(all, root, call)[s], all[s])
              /\ Renamed(all, root, call)[s].route =
                   IF s = root /\ all[s].open THEN call ELSE all[s].route
<1>1. Len(all) \in Nat /\ \A s \in 1..Len(all) : all[s] \in SpanType
  BY LenProperties, ElementOfSeq
<1>2. CASE root # 0 /\ all[root].open
  <2> DEFINE r == [all[root] EXCEPT !.route = call]
  <2>1. root \in 1..Len(all) /\ all[root] \in SpanType
    BY <1>1, <1>2
  <2>2. r \in SpanType /\ Same(r, all[root]) /\ r.route = call
    BY <2>1 DEF SpanType, Same
  <2>3. Renamed(all, root, call) = [all EXCEPT ![root] = r]
    BY <1>2 DEF Renamed
  <2> HIDE DEF r
  <2>4. /\ [all EXCEPT ![root] = r] \in Seq(SpanType)
        /\ Len([all EXCEPT ![root] = r]) = Len(all)
        /\ \A j \in 1..Len(all) : [all EXCEPT ![root] = r][j] = IF j = root THEN r ELSE all[j]
    BY <2>1, <2>2, ExceptSeq
  <2> QED
    BY <1>2, <2>1, <2>2, <2>3, <2>4 DEF Same
<1>3. CASE ~(root # 0 /\ all[root].open)
  <2>1. Renamed(all, root, call) = all
    BY <1>3 DEF Renamed
  <2> QED
    BY <1>1, <1>3, <2>1 DEF Same
<1> QED
  BY <1>2, <1>3

\* Start begins a span that is open and newer than those listed.
LEMMA StartBegins ==
  ASSUME TypeOK, NEW h \in Callers, NEW ctx \in 0..Len(spans), NEW call \in Nat \ {0},
         Start(h, ctx, call)
  PROVE  /\ Began(h, ctx, call, TRUE, FALSE)
         /\ \A s \in 1..Len(spans) : spans'[s] = spans[s]
         /\ gls' = gls \union {Len(spans) + 1}
         /\ lcs' = IF gls = {} THEN Len(spans) + 1 ELSE lcs
<1> DEFINE t == NewSpan(Under(h, ctx), h.name, call)
<1>1. /\ Len(spans) \in Nat /\ Under(h, ctx) \in 0..Len(spans) /\ Under(h, ctx) \in Nat
      /\ h.name \in CallerNames
  BY Facts, UnderWhat DEF CallerNames
<1>2. t \in SpanType /\ Fresh(t, Under(h, ctx), h.name, call, TRUE, FALSE)
  BY <1>1, NewSpanOf
<1>3. /\ spans' = Append(spans, t) /\ gls' = gls \union {Len(spans) + 1}
      /\ lcs' = IF gls = {} THEN Len(spans) + 1 ELSE lcs
  BY DEF Start
<1> HIDE DEF t
<1>4. /\ spans' \in Seq(SpanType) /\ Len(spans') = Len(spans) + 1
      /\ \A s \in 1..Len(spans) : spans'[s] = spans[s]
      /\ spans'[Len(spans) + 1] = t
  BY <1>2, <1>3, AppendProperties DEF TypeOK
<1> QED
  BY <1>2, <1>3, <1>4 DEF Began, Same

\* StartAndEnd begins a span that is over, and does not list it.
LEMMA StartAndEndBegins ==
  ASSUME TypeOK, NEW h \in Callers, NEW ctx \in 0..Len(spans), NEW call \in Nat \ {0},
         NEW err \in BOOLEAN, StartAndEnd(h, ctx, call, err)
  PROVE  /\ Began(h, ctx, call, FALSE, err) /\ gls' = gls
         /\ lcs' = IF gls = {} THEN Len(spans) + 1 ELSE lcs
<1> DEFINE t == NewSpan(Under(h, ctx), h.name, call)
           id == Len(spans) + 1
           started == Append(spans, t)
           root == IF gls = {} THEN id ELSE lcs
           named == IF h.routes THEN Renamed(started, root, call) ELSE started
           c == Closed(named[id], call, err)
<1>1. /\ Len(spans) \in Nat /\ Under(h, ctx) \in 0..Len(spans) /\ Under(h, ctx) \in Nat
      /\ h.name \in CallerNames
  BY Facts, UnderWhat DEF CallerNames
<1>2. t \in SpanType /\ Fresh(t, Under(h, ctx), h.name, call, TRUE, FALSE)
  BY <1>1, NewSpanOf
<1>3. spans' = [named EXCEPT ![id] = c] /\ lcs' = root /\ gls' = gls
  BY DEF StartAndEnd
<1> HIDE DEF t
<1>4. /\ started \in Seq(SpanType) /\ Len(started) = Len(spans) + 1
      /\ \A s \in 1..Len(spans) : started[s] = spans[s]
      /\ started[id] = t
  BY <1>2, AppendProperties DEF TypeOK
<1> HIDE DEF started
<1>5. root \in 0..Len(started)
  BY <1>1, <1>4 DEF TypeOK
<1>6. /\ named \in Seq(SpanType) /\ Len(named) = Len(started)
      /\ \A s \in 1..Len(started) :
           /\ Same(named[s], started[s])
           /\ named[s].route \in {started[s].route, call}
           /\ ~h.routes => named[s].route = started[s].route
  <2>1. CASE h.routes
    <3>1. PICK r : r = Renamed(started, root, call)
      OBVIOUS
    <3>2. named = r
      BY <2>1, <3>1, Zenon
    <3> HIDE DEF named, root
    <3>3. /\ r \in Seq(SpanType) /\ Len(r) = Len(started)
          /\ \A s \in 1..Len(started) :
               /\ Same(r[s], started[s])
               /\ r[s].route = IF s = root /\ started[s].open THEN call ELSE started[s].route
      BY <1>4, <1>5, <3>1, RenamedOf
    <3> QED
      BY <2>1, <3>2, <3>3
  <2>2. CASE ~h.routes
    BY <1>4, <2>2 DEF Same
  <2> QED
    BY <2>1, <2>2
<1> HIDE DEF named
<1>7. named[id] \in SpanType
  BY <1>1, <1>4, <1>6, ElementOfSeq
<1>8. /\ c \in SpanType
      /\ c.under = named[id].under /\ c.by = named[id].by
      /\ c.call = named[id].call /\ ~c.open
      /\ c.endedBy = call /\ c.error = err
      /\ c.route = named[id].route
  BY <1>7, ClosedOf
<1> HIDE DEF c
<1>9. /\ spans' \in Seq(SpanType) /\ Len(spans') = Len(named)
      /\ \A j \in 1..Len(named) : spans'[j] = IF j = id THEN c ELSE named[j]
  BY <1>1, <1>3, <1>4, <1>6, <1>8, ExceptSeq
<1>10. \A s \in 1..Len(spans) : spans'[s] = named[s] /\ started[s] = spans[s]
  BY <1>1, <1>4, <1>6, <1>9
<1>11. spans'[id] = c
  BY <1>1, <1>4, <1>6, <1>9
<1>12. c.open = FALSE
  BY <1>8 DEF SpanType
<1>13. Fresh(c, Under(h, ctx), h.name, call, FALSE, err)
  BY <1>1, <1>2, <1>4, <1>6, <1>8, <1>12 DEF Fresh, Same
<1>14. \A s \in 1..Len(spans) : s \in 1..Len(started)
  BY <1>1, <1>4
<1>15. \A s \in 1..Len(spans) :
         /\ Same(spans'[s], spans[s])
         /\ spans'[s].route \in {spans[s].route, call}
         /\ ~h.routes => spans'[s].route = spans[s].route
  BY <1>6, <1>10, <1>14
<1> QED
  BY <1>3, <1>4, <1>6, <1>9, <1>11, <1>13, <1>15 DEF Began

\* A span that was found open is ended.
LEMMA EndEnds ==
  ASSUME TypeOK, NEW s \in 0..Len(spans), NEW call \in Nat, NEW err \in BOOLEAN,
         spans' = IF s # 0 /\ spans[s].open
                  THEN [spans EXCEPT ![s] = Closed(@, call, err)] ELSE spans
  PROVE  Ended(s, call, err)
<1>1. Len(spans) \in Nat /\ \A t \in 1..Len(spans) : spans[t] \in SpanType
  BY Facts
<1>2. CASE s # 0 /\ spans[s].open
  <2> DEFINE c == Closed(spans[s], call, err)
  <2>1. s \in 1..Len(spans) /\ spans[s] \in SpanType
    BY <1>1, <1>2
  <2>2. /\ c \in SpanType
        /\ c.under = spans[s].under /\ c.by = spans[s].by
        /\ c.call = spans[s].call /\ ~c.open
        /\ c.endedBy = call /\ c.error = err
        /\ c.route = spans[s].route
    BY <2>1, ClosedOf
  <2>3. spans' = [spans EXCEPT ![s] = c]
    BY <1>2
  <2> HIDE DEF c
  <2>4. /\ spans' \in Seq(SpanType) /\ Len(spans') = Len(spans)
        /\ \A j \in 1..Len(spans) : spans'[j] = IF j = s THEN c ELSE spans[j]
    BY <2>1, <2>2, <2>3, ExceptSeq DEF TypeOK
  <2> QED
    BY <1>2, <2>1, <2>2, <2>4 DEF Ended
<1>3. CASE ~(s # 0 /\ spans[s].open)
  BY <1>1, <1>3 DEF Ended, TypeOK
<1> QED
  BY <1>2, <1>3

(* What the steps do.                                                      *)

Error(f) == f.how = "error" /\ f.hook.shows

\* A frame and what has become of it agree, but for how the call goes and whether
\* a router has matched it.
SameFrame(new, old) ==
  /\ new.hook = old.hook /\ new.call = old.call /\ new.ctx = old.ctx
  /\ new.held = old.held /\ new.inside = old.inside /\ new.stored = old.stored

\* A call of h is new.
Entered(h, ctx) ==
  LET n == Len(frames)  call == Len(made) + 1  f == frames'[n + 1]
  IN /\ Top.how = "running" /\ UNCHANGED <<enabled, pending>>
     /\ made' \in Seq(CallType) /\ Len(made') = call
     /\ \A c \in 1..Len(made) : made'[c] = made[c]
     /\ made'[call].name = h.name /\ made'[call].how = "running"
     /\ frames' \in Seq(FrameType) /\ Len(frames') = n + 1
     /\ \A i \in 1..n : frames'[i] = frames[i]
     /\ f.hook = h /\ f.call = call /\ f.ctx = ctx /\ ~f.routed /\ f.how = "running"
     /\ f.stored => ~Asks(h, "install") /\ ~Asks(h, "enter")

\* The call has no span, or none yet.
Unstarted(h, ctx) ==
  LET f == frames'[Len(frames) + 1]
  IN f.held = 0 /\ f.inside = ctx /\ UNCHANGED <<spans, gls, lcs>>

\* The call has a span, which is open or over.
Started(h, ctx) ==
  LET f == frames'[Len(frames) + 1]  id == Len(spans) + 1
  IN /\ f.held = id /\ f.stored /\ f.inside = (IF h.gives THEN id ELSE ctx)
     /\ lcs' = IF gls = {} THEN id ELSE lcs
     /\ \/ /\ h.when = "enter" /\ Began(h, ctx, f.call, TRUE, FALSE)
           /\ gls' = gls \union {id} /\ \A s \in 1..Len(spans) : spans'[s] = spans[s]
        \/ h.when = "over" /\ Began(h, ctx, f.call, FALSE, FALSE) /\ gls' = gls

\* The innermost call is through.
Returned(how) ==
  LET n == Len(frames)
  IN /\ n > 1 /\ Top.how = "running" /\ (how = "error" => Top.hook.fails)
     /\ UNCHANGED <<enabled, spans, gls, lcs, pending>>
     /\ frames' \in Seq(FrameType) /\ Len(frames') = n
     /\ \A i \in 1..n : /\ SameFrame(frames'[i], frames[i])
                        /\ frames'[i].routed = frames[i].routed
                        /\ frames'[i].how = IF i = n THEN how ELSE frames[i].how
     /\ made' \in Seq(CallType) /\ Len(made') = Len(made)
     /\ \A c \in 1..Len(made) :
          /\ made'[c].name = made[c].name
          /\ made'[c].how = IF c = Top.call THEN how ELSE made[c].how

\* The innermost frame is gone.
Left ==
  LET n == Len(frames)
  IN /\ n > 1 /\ Top.how # "running" /\ UNCHANGED <<enabled, made>>
     /\ frames' \in Seq(FrameType) /\ Len(frames') = n - 1
     /\ \A i \in 1..(n - 1) : frames'[i] = frames[i]

\* What the second half did with a span.
LeftIt == Does(Top) = "nothing" /\ UNCHANGED <<spans, gls, lcs, pending>>
StartedAfter ==
  /\ Does(Top) # "nothing" /\ Top.stored /\ Top.hook.when = "exit"
  /\ Began(Top.hook, Top.ctx, Top.call, FALSE, Error(Top)) /\ gls' = gls
  /\ lcs' = (IF gls = {} THEN Len(spans) + 1 ELSE lcs) /\ pending' = pending
HandedOn ==
  /\ Does(Top) # "nothing" /\ Top.stored /\ Top.hook.when # "exit" /\ Top.hook.late
  /\ UNCHANGED <<spans, gls, lcs>>
  /\ pending' = pending \union
                  {[call |-> Top.call, span |-> Target(Top), error |-> Error(Top)]}
EndedIt ==
  /\ Does(Top) # "nothing" /\ ~(Top.stored /\ (Top.hook.when = "exit" \/ Top.hook.late))
  /\ Ended(Target(Top), Top.call, Error(Top)) /\ gls' = gls \ {Target(Top)}
  /\ UNCHANGED <<lcs, pending>>

\* Another goroutine has ended what it was handed on.
EndedLate(x) ==
  /\ Ended(x.span, x.call, x.error)
  /\ pending' = pending \ {x} /\ UNCHANGED <<enabled, gls, lcs, frames, made>>

\* The request of the innermost call has its route.
Routed ==
  LET n == Len(frames)
  IN /\ Top.how = "running" /\ Top.hook.server
     /\ UNCHANGED <<enabled, gls, lcs, made, pending>>
     /\ frames' \in Seq(FrameType) /\ Len(frames') = n
     /\ \A i \in 1..n : /\ SameFrame(frames'[i], frames[i])
                        /\ frames'[i].routed = (i = n \/ frames[i].routed)
                        /\ frames'[i].how = frames[i].how
     /\ spans' \in Seq(SpanType) /\ Len(spans') = Len(spans)
     /\ \A s \in 1..Len(spans) :
          /\ Same(spans'[s], spans[s])
          /\ spans'[s].route = IF s = lcs /\ spans[s].open THEN Top.call
                               ELSE spans[s].route

\* A frame is a new one.
FrameIs(f, h, call, ctx, held, inside, stored) ==
  /\ f \in FrameType /\ f.hook = h /\ f.call = call /\ f.ctx = ctx
  /\ f.held = held /\ f.inside = inside /\ f.stored = stored
  /\ ~f.routed /\ f.how = "running"

LEMMA FrameOf ==
  ASSUME NEW h \in Callers, NEW call \in Nat \ {0}, NEW ctx \in Nat, NEW held \in Nat,
         NEW inside \in Nat, NEW stored \in BOOLEAN
  PROVE  FrameIs(Frame(h, call, ctx, held, inside, stored),
                 h, call, ctx, held, inside, stored)
BY DEF Frame, FrameType, Outcomes, FrameIs

LEMMA EnterDoes ==
  ASSUME TypeOK, NEW h \in Hooks, NEW ctx \in {Top.inside, 0}, NEW skip \in BOOLEAN,
         Enter(h, ctx, skip)
  PROVE  Entered(h, ctx) /\ (Unstarted(h, ctx) \/ Started(h, ctx))
<1>1. /\ Len(spans) \in Nat /\ Len(made) \in Nat /\ Len(frames) \in Nat
      /\ ctx \in 0..Len(spans) /\ ctx \in Nat
  BY Facts
<1>2. h \in Callers /\ h.name \in CallerNames
  BY DEF Callers, CallerNames
<1> DEFINE asked == Asks(h, "install") \/ Asks(h, "enter")
           starts == ~(asked \/ skip) /\ h.when # "exit"
<1>3. PICK n \in Nat, call \in Nat \ {0} : n = Len(frames) /\ call = Len(made) + 1
  BY <1>1
<1>4. PICK on \in BOOLEAN, id \in Nat, inside \in Nat :
        /\ on = ~(asked \/ skip) /\ id = (IF starts THEN Len(spans) + 1 ELSE 0)
        /\ inside = IF starts /\ h.gives THEN id ELSE ctx
  <2>1. \E on \in BOOLEAN : on = ~(asked \/ skip)
    OBVIOUS
  <2>2. \E id \in Nat : id = (IF starts THEN Len(spans) + 1 ELSE 0)
    BY <1>1
  <2>3. \A id \in Nat : \E inside \in Nat : inside = IF starts /\ h.gives THEN id ELSE ctx
    BY <1>1
  <2> HIDE DEF starts, asked
  <2> QED
    BY <2>1, <2>2, <2>3, Zenon
<1>5. /\ Top.how = "running" /\ UNCHANGED <<enabled, pending>>
      /\ made' = Append(made, [name |-> h.name, how |-> "running"])
      /\ frames' = Append(frames, Frame(h, call, ctx, id, inside, on))
      /\ \/ ~starts /\ NoSpanMoves
         \/ starts /\ h.when = "enter" /\ Start(h, ctx, call)
         \/ starts /\ h.when = "over" /\ StartAndEnd(h, ctx, call, FALSE)
  BY <1>3, <1>4, Zenon DEF Enter
<1>6. PICK f : f = Frame(h, call, ctx, id, inside, on)
  OBVIOUS
<1>7. FrameIs(f, h, call, ctx, id, inside, on)
  BY <1>1, <1>2, <1>6, FrameOf
<1>8. PICK c : c = [name |-> h.name, how |-> "running"]
  OBVIOUS
<1>9. c \in CallType /\ c.name = h.name /\ c.how = "running"
  BY <1>2, <1>8 DEF CallType
<1>10. /\ made' \in Seq(CallType) /\ Len(made') = call
       /\ \A k \in 1..Len(made) : made'[k] = made[k]
       /\ made'[call] = c
  BY <1>3, <1>5, <1>8, <1>9, AppendProperties DEF TypeOK
<1>11. /\ frames' \in Seq(FrameType) /\ Len(frames') = n + 1
       /\ \A i \in 1..n : frames'[i] = frames[i]
       /\ frames'[n + 1] = f
  BY <1>3, <1>5, <1>6, <1>7, AppendProperties DEF TypeOK, FrameIs
<1>12. on => ~Asks(h, "install") /\ ~Asks(h, "enter")
  BY <1>4
<1>13. Entered(h, ctx)
  BY <1>3, <1>5, <1>7, <1>9, <1>10, <1>11, <1>12 DEF Entered, FrameIs
<1>14. starts => on
  BY <1>4
<1> HIDE DEF starts, asked
<1>15. CASE ~starts /\ NoSpanMoves
  <2>1. id = 0 /\ inside = ctx
    BY <1>4, <1>15
  <2> QED
    BY <1>3, <1>7, <1>11, <1>13, <1>15, <2>1 DEF Unstarted, NoSpanMoves, FrameIs
<1>16. CASE starts /\ h.when = "enter" /\ Start(h, ctx, call)
  <2>1. /\ Began(h, ctx, call, TRUE, FALSE)
        /\ \A s \in 1..Len(spans) : spans'[s] = spans[s]
        /\ gls' = gls \union {Len(spans) + 1}
        /\ lcs' = IF gls = {} THEN Len(spans) + 1 ELSE lcs
    BY <1>1, <1>2, <1>16, StartBegins
  <2>2. id = Len(spans) + 1 /\ inside = IF h.gives THEN id ELSE ctx
    BY <1>4, <1>16
  <2> QED
    BY <1>3, <1>7, <1>11, <1>13, <1>14, <1>16, <2>1, <2>2 DEF Started, FrameIs
<1>17. CASE starts /\ h.when = "over" /\ StartAndEnd(h, ctx, call, FALSE)
  <2>1. /\ Began(h, ctx, call, FALSE, FALSE) /\ gls' = gls
        /\ lcs' = IF gls = {} THEN Len(spans) + 1 ELSE lcs
    BY <1>1, <1>2, <1>17, StartAndEndBegins
  <2>2. id = Len(spans) + 1 /\ inside = IF h.gives THEN id ELSE ctx
    BY <1>4, <1>17
  <2> QED
    BY <1>3, <1>7, <1>11, <1>13, <1>14, <1>17, <2>1, <2>2 DEF Started, FrameIs
<1> QED
  BY <1>5, <1>13, <1>15, <1>16, <1>17

LEMMA ReturnDoes ==
  ASSUME TypeOK, NEW how \in Outcomes, Return(how)
  PROVE  Returned(how)
<1> DEFINE n == Len(frames)
           f == [Top EXCEPT !.how = how]
           c == [made[Top.call] EXCEPT !.how = how]
<1>1. /\ n \in 1..n /\ Top \in FrameType /\ Top.call \in 1..Len(made)
      /\ made[Top.call] \in CallType
      /\ \A k \in 1..Len(made) : made[k] \in CallType
  BY Facts
<1>2. f \in FrameType /\ SameFrame(f, Top) /\ f.routed = Top.routed /\ f.how = how
  BY <1>1 DEF FrameType, SameFrame
<1>3. c \in CallType /\ c.name = made[Top.call].name /\ c.how = how
  BY <1>1 DEF CallType
<1>4. /\ n > 1 /\ Top.how = "running" /\ (how = "error" => Top.hook.fails)
      /\ UNCHANGED <<enabled, spans, gls, lcs, pending>>
      /\ frames' = [frames EXCEPT ![n] = f] /\ made' = [made EXCEPT ![Top.call] = c]
  BY DEF Return, SetTop
<1> HIDE DEF f, c
<1>5. /\ frames' \in Seq(FrameType) /\ Len(frames') = n
      /\ \A i \in 1..n : frames'[i] = IF i = n THEN f ELSE frames[i]
  BY <1>1, <1>2, <1>4, ExceptSeq DEF TypeOK
<1>6. /\ made' \in Seq(CallType) /\ Len(made') = Len(made)
      /\ \A k \in 1..Len(made) : made'[k] = IF k = Top.call THEN c ELSE made[k]
  BY <1>1, <1>3, <1>4, ExceptSeq DEF TypeOK
<1>7. \A i \in 1..n : /\ SameFrame(frames'[i], frames[i])
                      /\ frames'[i].routed = frames[i].routed
                      /\ frames'[i].how = IF i = n THEN how ELSE frames[i].how
  BY <1>2, <1>5 DEF SameFrame, Top
<1>8. \A k \in 1..Len(made) :
        /\ made'[k].name = made[k].name
        /\ made'[k].how = IF k = Top.call THEN how ELSE made[k].how
  BY <1>3, <1>6
<1> QED
  BY <1>4, <1>5, <1>6, <1>7, <1>8 DEF Returned

\* What a second half may end was started.
LEMMA TargetOf ==
  ASSUME TypeOK
  PROVE  Target(Top) \in 0..Len(spans)
BY Facts DEF Target, SpanOf

LEMMA ExitDoes ==
  ASSUME TypeOK, Exit
  PROVE  Left /\ (LeftIt \/ StartedAfter \/ HandedOn \/ EndedIt)
<1> DEFINE err == Top.how = "error" /\ Top.hook.shows
<1>1. /\ Top.hook \in Callers /\ Top.call \in Nat \ {0} /\ Top.ctx \in 0..Len(spans)
      /\ Len(frames) \in Nat /\ err \in BOOLEAN
  BY Facts DEF FrameType
<1>2. err = Error(Top)
  BY DEF Error
<1>3. /\ Len(frames) > 1 /\ Top.how # "running" /\ UNCHANGED <<enabled, made>>
      /\ frames' = Pop
      /\ \/ Does(Top) = "nothing" /\ NoSpanMoves /\ UNCHANGED pending
         \/ /\ Does(Top) # "nothing" /\ Top.stored /\ Top.hook.when = "exit"
            /\ StartAndEnd(Top.hook, Top.ctx, Top.call, err) /\ UNCHANGED pending
         \/ /\ Does(Top) # "nothing" /\ Top.stored /\ Top.hook.when # "exit" /\ Top.hook.late
            /\ pending' = pending \union
                 {[call |-> Top.call, span |-> Target(Top), error |-> err]}
            /\ NoSpanMoves
         \/ /\ Does(Top) # "nothing"
            /\ ~(Top.stored /\ (Top.hook.when = "exit" \/ Top.hook.late))
            /\ End(Target(Top), Top.call, err) /\ UNCHANGED pending
  BY DEF Exit
<1> HIDE DEF err
<1>4. Left
  BY <1>1, <1>3, PopOf DEF Left, TypeOK
<1>5. CASE Does(Top) = "nothing" /\ NoSpanMoves /\ UNCHANGED pending
  BY <1>4, <1>5 DEF LeftIt, NoSpanMoves
<1>6. CASE /\ Does(Top) # "nothing" /\ Top.stored /\ Top.hook.when = "exit"
           /\ StartAndEnd(Top.hook, Top.ctx, Top.call, err) /\ UNCHANGED pending
  <2>1. /\ Began(Top.hook, Top.ctx, Top.call, FALSE, err) /\ gls' = gls
        /\ lcs' = IF gls = {} THEN Len(spans) + 1 ELSE lcs
    BY <1>1, <1>6, StartAndEndBegins
  <2> QED
    BY <1>2, <1>4, <1>6, <2>1 DEF StartedAfter
<1>7. CASE /\ Does(Top) # "nothing" /\ Top.stored /\ Top.hook.when # "exit" /\ Top.hook.late
           /\ pending' = pending \union
                {[call |-> Top.call, span |-> Target(Top), error |-> err]}
           /\ NoSpanMoves
  BY <1>2, <1>4, <1>7 DEF HandedOn, NoSpanMoves
<1>8. CASE /\ Does(Top) # "nothing"
           /\ ~(Top.stored /\ (Top.hook.when = "exit" \/ Top.hook.late))
           /\ End(Target(Top), Top.call, err) /\ UNCHANGED pending
  <2> DEFINE T == Target(Top)
  <2>1. T \in 0..Len(spans)
    BY TargetOf
  <2>2. /\ spans' = IF T # 0 /\ spans[T].open
                    THEN [spans EXCEPT ![T] = Closed(@, Top.call, err)] ELSE spans
        /\ gls' = gls \ {T} /\ UNCHANGED lcs
    BY <1>8 DEF End
  <2> HIDE DEF T
  <2>3. Ended(T, Top.call, err)
    BY <1>1, <2>1, <2>2, EndEnds
  <2> QED
    BY <1>2, <1>4, <1>8, <2>2, <2>3 DEF EndedIt, T
<1> QED
  BY <1>3, <1>5, <1>6, <1>7, <1>8

LEMMA EndLateDoes ==
  ASSUME TypeOK, NEW x \in pending, EndLate(x)
  PROVE  EndedLate(x)
<1>1. x \in [call : 1..Len(made), span : 0..Len(spans), error : BOOLEAN]
  BY DEF TypeOK
<1>2. x.call \in Nat /\ x.span \in 0..Len(spans) /\ x.error \in BOOLEAN
  BY <1>1, Facts
<1> QED
  BY <1>2, EndEnds DEF EndLate, EndedLate

LEMMA RouteDoes ==
  ASSUME TypeOK, NEW r \in Routers, Route(r)
  PROVE  Routed
<1> DEFINE n == Len(frames)
           f == [Top EXCEPT !.routed = TRUE]
<1>1. n \in 1..n /\ Top \in FrameType /\ Top.call \in Nat \ {0} /\ n \in Nat
  BY Facts DEF FrameType
<1>2. f \in FrameType /\ SameFrame(f, Top) /\ f.routed = TRUE /\ f.how = Top.how
  BY <1>1 DEF FrameType, SameFrame
<1>3. /\ Top.how = "running" /\ Top.hook.server
      /\ UNCHANGED <<enabled, gls, lcs, made, pending>>
      /\ frames' = [frames EXCEPT ![n] = f] /\ spans' = Renamed(spans, lcs, Top.call)
  BY DEF Route, SetTop
<1> HIDE DEF f
<1>4. /\ frames' \in Seq(FrameType) /\ Len(frames') = n
      /\ \A i \in 1..n : frames'[i] = IF i = n THEN f ELSE frames[i]
  BY <1>1, <1>2, <1>3, ExceptSeq DEF TypeOK
<1>5. \A i \in 1..n : frames[i] \in FrameType /\ frames[i].routed \in BOOLEAN
  BY Facts DEF FrameType
<1>6. \A i \in 1..n : /\ SameFrame(frames'[i], frames[i])
                      /\ frames'[i].routed = (i = n \/ frames[i].routed)
                      /\ frames'[i].how = frames[i].how
  BY <1>2, <1>4, <1>5 DEF SameFrame, Top
<1>7. /\ spans' \in Seq(SpanType) /\ Len(spans') = Len(spans)
      /\ \A s \in 1..Len(spans) :
           /\ Same(spans'[s], spans[s])
           /\ spans'[s].route = IF s = lcs /\ spans[s].open THEN Top.call
                                ELSE spans[s].route
  BY <1>1, <1>3, RenamedOf DEF TypeOK
<1> QED
  BY <1>3, <1>4, <1>6, <1>7 DEF Routed

(* What refers to what.                                                    *)

\* The spans all refer to older spans and to the first k calls.
SpansRefer(all, k) == \A s \in 1..Len(all) :
  /\ all[s].under \in 0..(s - 1) /\ all[s].call \in 1..k
  /\ all[s].endedBy \in 0..k /\ all[s].route \in 0..k

\* The frames all refer to the first k calls and the first n spans.
FramesRefer(all, k, n) == \A i \in 1..Len(all) :
  all[i].call \in 1..k /\ {all[i].ctx, all[i].held, all[i].inside} \subseteq 0..n

\* TypeOK in these words.
Typed ==
  /\ enabled \in BOOLEAN
  /\ made \in Seq(CallType) /\ spans \in Seq(SpanType) /\ frames \in Seq(FrameType)
  /\ Len(frames) >= 1
  /\ lcs \in 0..Len(spans) /\ gls \in SUBSET (1..Len(spans))
  /\ pending \in SUBSET [call : 1..Len(made), span : 0..Len(spans), error : BOOLEAN]
  /\ SpansRefer(spans, Len(made)) /\ FramesRefer(frames, Len(made), Len(spans))

LEMMA TypeOKIs == TypeOK <=> Typed
<1>1. ASSUME spans \in Seq(SpanType), made \in Seq(CallType), frames \in Seq(FrameType)
      PROVE  /\ DOMAIN spans = 1..Len(spans) /\ DOMAIN made = 1..Len(made)
             /\ DOMAIN frames = 1..Len(frames) /\ Len(frames) \in Nat
             /\ frames # <<>> <=> Len(frames) >= 1
  <2>1. Len(frames) = 0 => frames = <<>>
    BY <1>1, EmptySeq
  <2>2. frames # <<>> => Len(frames) \in Nat \ {0}
    BY <1>1, EmptySeq
  <2>3. Len(<<>>) = 0
    BY EmptySeq
  <2> QED
    BY <1>1, <2>2, <2>3, LenProperties
<1> QED
  BY <1>1 DEF TypeOK, Typed, SpansRefer, FramesRefer

LEMMA TypeOKThen == (TypeOK <=> Typed)'
BY TypeOKIs, PTL

\* A span that a step begins refers to what is there.
LEMMA BeganRefers ==
  ASSUME TypeOK, NEW h \in Callers, NEW ctx \in 0..Len(spans), NEW k \in Nat,
         k >= Len(made), NEW call \in 1..k, NEW open \in BOOLEAN, NEW err \in BOOLEAN,
         Began(h, ctx, call, open, err)
  PROVE  SpansRefer(spans', k)
<1>1. /\ Len(spans) \in Nat /\ Len(made) \in Nat /\ Under(h, ctx) \in 0..Len(spans)
      /\ SpansRefer(spans, Len(made))
  BY Facts, UnderWhat, TypeOKIs DEF Typed
<1>2. ASSUME NEW s \in 1..Len(spans)
      PROVE  /\ spans'[s].under \in 0..(s - 1) /\ spans'[s].call \in 1..k
             /\ spans'[s].endedBy \in 0..k /\ spans'[s].route \in 0..k
  <2>1. /\ spans[s].under \in 0..(s - 1) /\ spans[s].call \in 1..Len(made)
        /\ spans[s].endedBy \in 0..Len(made) /\ spans[s].route \in 0..Len(made)
    BY <1>1 DEF SpansRefer
  <2>2. Same(spans'[s], spans[s]) /\ spans'[s].route \in {spans[s].route, call}
    BY DEF Began
  <2> QED
    BY <1>1, <2>1, <2>2, SMTT(30) DEF Same
<1>3. /\ spans'[Len(spans) + 1].under \in 0..Len(spans)
      /\ spans'[Len(spans) + 1].call \in 1..k
      /\ spans'[Len(spans) + 1].endedBy \in 0..k /\ spans'[Len(spans) + 1].route \in 0..k
  BY <1>1 DEF Began, Fresh
<1>4. Len(spans') = Len(spans) + 1
  BY DEF Began
<1>5. \A s \in 1..Len(spans') : s \in 1..Len(spans) \/ s = Len(spans) + 1
  BY <1>1, <1>4
<1> QED
  BY <1>1, <1>2, <1>3, <1>5, SMTT(30) DEF SpansRefer

LEMMA EndedRefers ==
  ASSUME TypeOK, NEW s \in 0..Len(spans), NEW call \in 1..Len(made), NEW err \in BOOLEAN,
         Ended(s, call, err)
  PROVE  SpansRefer(spans', Len(made))
<1>1. Len(spans) \in Nat /\ Len(made) \in Nat /\ SpansRefer(spans, Len(made))
  BY Facts, TypeOKIs DEF Typed
<1>2. ASSUME NEW t \in 1..Len(spans)
      PROVE  /\ spans'[t].under \in 0..(t - 1) /\ spans'[t].call \in 1..Len(made)
             /\ spans'[t].endedBy \in 0..Len(made) /\ spans'[t].route \in 0..Len(made)
  <2>1. /\ spans[t].under \in 0..(t - 1) /\ spans[t].call \in 1..Len(made)
        /\ spans[t].endedBy \in 0..Len(made) /\ spans[t].route \in 0..Len(made)
    BY <1>1 DEF SpansRefer
  <2>2. CASE t = s /\ spans[t].open
    BY <1>1, <2>1, <2>2 DEF Ended
  <2>3. CASE ~(t = s /\ spans[t].open)
    BY <2>1, <2>3 DEF Ended
  <2> QED
    BY <2>2, <2>3
<1>3. Len(spans') = Len(spans)
  BY DEF Ended
<1> QED
  BY <1>2, <1>3 DEF SpansRefer

LEMMA Single ==
  ASSUME NEW S, NEW x \in S, NEW q, q = <<x>>
  PROVE  q \in Seq(S) /\ Len(q) = 1 /\ q[1] = x
OBVIOUS

LEMMA InitTyped == Init => TypeOK
<1>1. SUFFICES ASSUME Init PROVE TypeOK
  OBVIOUS
<1> DEFINE c == [name |-> App.name, how |-> "running"]
           t == NewSpan(0, App.name, 1)
<1>2. App \in Callers /\ App.name \in CallerNames
  BY DEF Callers, CallerNames
<1>3. c \in CallType
  BY <1>2 DEF CallType
<1>4. t \in SpanType /\ Fresh(t, 0, App.name, 1, TRUE, FALSE)
  <2>1. 0 \in Nat /\ 1 \in Nat \ {0}
    OBVIOUS
  <2> QED
    BY <1>2, <2>1, NewSpanOf
<1>5. /\ FrameIs(Frame(App, 1, 0, 0, 0, FALSE), App, 1, 0, 0, 0, FALSE)
      /\ FrameIs(Frame(App, 1, 0, 1, 1, TRUE), App, 1, 0, 1, 1, TRUE)
  <2>1. 0 \in Nat /\ 1 \in Nat /\ 1 \in Nat \ {0} /\ FALSE \in BOOLEAN /\ TRUE \in BOOLEAN
    OBVIOUS
  <2> QED
    BY <1>2, <2>1, FrameOf
<1>6. enabled \in BOOLEAN /\ made = <<c>> /\ pending = {}
  BY <1>1 DEF Init
<1> HIDE DEF c, t
<1>7. made \in Seq(CallType) /\ Len(made) = 1
  BY <1>3, <1>6
<1>8. CASE /\ spans = <<>> /\ gls = {} /\ lcs = 0
           /\ frames = <<Frame(App, 1, 0, 0, 0, FALSE)>>
  <2>1. PICK f : f = Frame(App, 1, 0, 0, 0, FALSE)
    OBVIOUS
  <2>2. f \in FrameType /\ f.call = 1 /\ f.ctx = 0 /\ f.held = 0 /\ f.inside = 0
    BY <1>5, <2>1 DEF FrameIs
  <2>3. frames = <<f>> /\ frames \in Seq(FrameType) /\ Len(frames) = 1 /\ frames[1] = f
    BY <1>8, <2>1, <2>2, Single
  <2>4. FramesRefer(frames, 1, 0)
    BY <2>2, <2>3 DEF FramesRefer
  <2>5. spans \in Seq(SpanType) /\ Len(spans) = 0 /\ SpansRefer(spans, 1)
    BY <1>8 DEF SpansRefer
  <2>6. /\ lcs \in 0..Len(spans) /\ gls \in SUBSET (1..Len(spans)) /\ 1 >= 1
        /\ pending \in SUBSET [call : 1..Len(made), span : 0..Len(spans), error : BOOLEAN]
    BY <1>6, <1>8, <2>5
  <2> QED
    BY <1>6, <1>7, <2>3, <2>4, <2>5, <2>6, TypeOKIs, Zenon DEF Typed
<1>9. CASE /\ spans = <<t>> /\ gls = {1} /\ lcs = 1
           /\ frames = <<Frame(App, 1, 0, 1, 1, TRUE)>>
  <2>1. PICK f : f = Frame(App, 1, 0, 1, 1, TRUE)
    OBVIOUS
  <2>2. f \in FrameType /\ f.call = 1 /\ f.ctx = 0 /\ f.held = 1 /\ f.inside = 1
    BY <1>5, <2>1 DEF FrameIs
  <2>3. frames = <<f>> /\ frames \in Seq(FrameType) /\ Len(frames) = 1 /\ frames[1] = f
    BY <1>9, <2>1, <2>2, Single
  <2>4. FramesRefer(frames, 1, 1)
    BY <2>2, <2>3 DEF FramesRefer
  <2>5. spans \in Seq(SpanType) /\ Len(spans) = 1 /\ spans[1] = t
    BY <1>4, <1>9
  <2>6. SpansRefer(spans, 1)
    BY <1>4, <2>5 DEF SpansRefer, Fresh
  <2>7. /\ lcs \in 0..Len(spans) /\ gls \in SUBSET (1..Len(spans)) /\ 1 >= 1
        /\ pending \in SUBSET [call : 1..Len(made), span : 0..Len(spans), error : BOOLEAN]
    BY <1>6, <1>9, <2>5
  <2> QED
    BY <1>6, <1>7, <2>3, <2>4, <2>5, <2>6, <2>7, TypeOKIs, Zenon DEF Typed
<1> QED
  BY <1>1, <1>8, <1>9 DEF Init, t

LEMMA EnterTyped ==
  ASSUME TypeOK, NEW h \in Hooks, NEW ctx \in {Top.inside, 0}, Entered(h, ctx),
         Unstarted(h, ctx) \/ Started(h, ctx)
  PROVE  TypeOK'
<1> DEFINE n == Len(frames)  call == Len(made) + 1  f == frames'[n + 1]
<1>1. /\ Len(spans) \in Nat /\ Len(made) \in Nat /\ n \in Nat /\ n >= 1
      /\ ctx \in 0..Len(spans) /\ h \in Callers
      /\ FramesRefer(frames, Len(made), Len(spans)) /\ SpansRefer(spans, Len(made))
      /\ gls \in SUBSET (1..Len(spans)) /\ lcs \in 0..Len(spans)
  BY Facts, TypeOKIs DEF Typed, Callers
<1>2. /\ enabled' \in BOOLEAN /\ made' \in Seq(CallType) /\ frames' \in Seq(FrameType)
      /\ Len(frames') = n + 1 /\ Len(made') = call /\ f.call = call /\ f.ctx = ctx
      /\ pending' = pending
  BY TypeOKIs, TypeOKThen DEF Typed, Entered
<1>3. ASSUME NEW m \in Nat, m >= Len(spans), Len(spans') = m,
             {f.held, f.inside} \subseteq 0..m
      PROVE  /\ FramesRefer(frames', Len(made'), Len(spans'))
             /\ pending' \in SUBSET [call : 1..Len(made'), span : 0..Len(spans'), error : BOOLEAN]
  <2>1. \A i \in 1..n : frames'[i] = frames[i]
    BY DEF Entered
  <2>2. \A i \in 1..(n + 1) : i \in 1..n \/ i = n + 1
    BY <1>1
  <2>3. 1..Len(made) \subseteq 1..Len(made') /\ 0..Len(spans) \subseteq 0..Len(spans')
    BY <1>1, <1>2, <1>3
  <2>4. ASSUME NEW i \in 1..n
        PROVE  /\ frames'[i].call \in 1..Len(made')
               /\ {frames'[i].ctx, frames'[i].held, frames'[i].inside} \subseteq 0..Len(spans')
    BY <1>1, <2>1, <2>3 DEF FramesRefer
  <2>5. /\ f.call \in 1..Len(made') /\ {f.ctx, f.held, f.inside} \subseteq 0..Len(spans')
    BY <1>1, <1>2, <1>3, <2>3
  <2>6. FramesRefer(frames', Len(made'), Len(spans'))
    BY <1>2, <2>2, <2>4, <2>5 DEF FramesRefer
  <2>7. pending \in SUBSET [call : 1..Len(made), span : 0..Len(spans), error : BOOLEAN]
    BY TypeOKIs DEF Typed
  <2> QED
    BY <1>2, <2>3, <2>6, <2>7
<1>4. CASE Unstarted(h, ctx)
  <2>1. f.held = 0 /\ f.inside = ctx /\ spans' = spans /\ gls' = gls /\ lcs' = lcs
    BY <1>4 DEF Unstarted
  <2>2. SpansRefer(spans', Len(made'))
    BY <1>1, <1>2, <2>1, SMTT(30) DEF SpansRefer
  <2>3. spans' \in Seq(SpanType)
    BY <2>1, TypeOKIs, TypeOKThen DEF Typed
  <2>4. {f.held, f.inside} \subseteq 0..Len(spans)
    BY <1>1, <2>1
  <2>5. /\ FramesRefer(frames', Len(made'), Len(spans'))
        /\ pending' \in SUBSET [call : 1..Len(made'), span : 0..Len(spans'), error : BOOLEAN]
    BY <1>1, <1>3, <2>1, <2>4
  <2> QED
    BY <1>1, <1>2, <2>1, <2>2, <2>3, <2>5, TypeOKIs, TypeOKThen DEF Typed
<1>5. CASE Started(h, ctx)
  <2> DEFINE id == Len(spans) + 1
  <2>1. /\ f.held = id /\ f.inside = (IF h.gives THEN id ELSE ctx)
        /\ lcs' = (IF gls = {} THEN id ELSE lcs) /\ gls' \subseteq gls \union {id}
        /\ \E open \in BOOLEAN : Began(h, ctx, call, open, FALSE)
    BY <1>2, <1>5 DEF Started
  <2>2. PICK open \in BOOLEAN : Began(h, ctx, call, open, FALSE)
    BY <2>1
  <2>3. spans' \in Seq(SpanType) /\ Len(spans') = id
    BY <2>2 DEF Began
  <2>4. SpansRefer(spans', Len(made'))
    <3>1. call \in 1..call /\ call \in Nat /\ call >= Len(made)
      BY <1>1
    <3>2. SpansRefer(spans', call)
      BY <1>1, <2>2, <3>1, BeganRefers
    <3> QED
      BY <1>2, <3>2
  <2>5. {f.held, f.inside} \subseteq 0..id /\ id \in Nat /\ id >= Len(spans)
    BY <1>1, <2>1
  <2>6. /\ FramesRefer(frames', Len(made'), Len(spans'))
        /\ pending' \in SUBSET [call : 1..Len(made'), span : 0..Len(spans'), error : BOOLEAN]
    BY <1>3, <2>3, <2>5
  <2>7. lcs' \in 0..Len(spans') /\ gls' \in SUBSET (1..Len(spans'))
    BY <1>1, <2>1, <2>3
  <2>8. Len(frames') >= 1
    BY <1>1, <1>2
  <2> QED
    BY <1>2, <2>3, <2>4, <2>6, <2>7, <2>8, TypeOKIs, TypeOKThen DEF Typed
<1> QED
  BY <1>4, <1>5

LEMMA ReturnTyped ==
  ASSUME TypeOK, NEW how \in Outcomes, Returned(how)
  PROVE  TypeOK'
<1>1. FramesRefer(frames, Len(made), Len(spans)) /\ Len(frames) >= 1 /\ Len(frames) \in Nat
  BY Facts, TypeOKIs DEF Typed
<1>2. /\ frames' \in Seq(FrameType) /\ made' \in Seq(CallType) /\ Len(frames') = Len(frames)
      /\ Len(made') = Len(made) /\ UNCHANGED <<enabled, spans, gls, lcs, pending>>
      /\ \A i \in 1..Len(frames) : SameFrame(frames'[i], frames[i])
  BY DEF Returned
<1>3. FramesRefer(frames', Len(made), Len(spans))
  BY <1>1, <1>2, SMTT(30) DEF FramesRefer, SameFrame
<1> QED
  BY <1>1, <1>2, <1>3, TypeOKIs, TypeOKThen DEF Typed

LEMMA ExitTyped ==
  ASSUME TypeOK, Left, LeftIt \/ StartedAfter \/ HandedOn \/ EndedIt
  PROVE  TypeOK'
<1> DEFINE n == Len(frames)
<1>1. /\ Len(spans) \in Nat /\ Len(made) \in Nat /\ n \in Nat
      /\ Top.hook \in Callers /\ Top.call \in 1..Len(made) /\ Top.ctx \in 0..Len(spans)
      /\ Target(Top) \in 0..Len(spans)
      /\ FramesRefer(frames, Len(made), Len(spans)) /\ SpansRefer(spans, Len(made))
      /\ gls \in SUBSET (1..Len(spans)) /\ lcs \in 0..Len(spans)
      /\ pending \in SUBSET [call : 1..Len(made), span : 0..Len(spans), error : BOOLEAN]
      /\ spans \in Seq(SpanType)
  BY Facts, TargetOf, TypeOKIs DEF Typed
<1>2. Error(Top) \in BOOLEAN
  BY DEF Error
<1>3. /\ enabled' \in BOOLEAN /\ made' = made /\ made \in Seq(CallType)
      /\ frames' \in Seq(FrameType) /\ Len(frames') = n - 1 /\ n - 1 >= 1
  BY <1>1, TypeOKIs, TypeOKThen DEF Typed, Left
<1>4. FramesRefer(frames', Len(made), Len(spans))
  BY <1>1 DEF Left, FramesRefer
<1>5. CASE LeftIt
  BY <1>1, <1>3, <1>4, <1>5, TypeOKIs, TypeOKThen DEF Typed, LeftIt
<1>6. CASE StartedAfter
  <2>1. /\ Began(Top.hook, Top.ctx, Top.call, FALSE, Error(Top)) /\ gls' = gls
        /\ lcs' = (IF gls = {} THEN Len(spans) + 1 ELSE lcs) /\ pending' = pending
    BY <1>6 DEF StartedAfter
  <2>2. SpansRefer(spans', Len(made))
    <3>1. Len(made) >= Len(made) /\ FALSE \in BOOLEAN
      BY <1>1
    <3> QED
      BY <1>1, <1>2, <2>1, <3>1, BeganRefers
  <2>3. spans' \in Seq(SpanType) /\ Len(spans') = Len(spans) + 1
    BY <2>1 DEF Began
  <2>4. /\ 0..Len(spans) \subseteq 0..Len(spans') /\ 1..Len(spans) \subseteq 1..Len(spans')
        /\ lcs' \in 0..Len(spans')
    BY <1>1, <2>1, <2>3
  <2>5. FramesRefer(frames', Len(made), Len(spans'))
    BY <1>4, <2>4 DEF FramesRefer
  <2>6. pending' \in SUBSET [call : 1..Len(made), span : 0..Len(spans'), error : BOOLEAN]
    BY <1>1, <2>1, <2>4
  <2> QED
    BY <1>1, <1>3, <2>1, <2>2, <2>3, <2>4, <2>5, <2>6, TypeOKIs, TypeOKThen DEF Typed
<1>7. CASE HandedOn
  <2> DEFINE x == [call |-> Top.call, span |-> Target(Top), error |-> Error(Top)]
  <2>1. x \in [call : 1..Len(made), span : 0..Len(spans), error : BOOLEAN]
    BY <1>1, <1>2
  <2>2. pending' = pending \union {x} /\ UNCHANGED <<spans, gls, lcs>>
    BY <1>7 DEF HandedOn
  <2> HIDE DEF x
  <2> QED
    BY <1>1, <1>3, <1>4, <2>1, <2>2, TypeOKIs, TypeOKThen DEF Typed
<1>8. CASE EndedIt
  <2>1. /\ Ended(Target(Top), Top.call, Error(Top)) /\ gls' = gls \ {Target(Top)}
        /\ UNCHANGED <<lcs, pending>>
    BY <1>8 DEF EndedIt
  <2>2. SpansRefer(spans', Len(made))
    BY <1>1, <1>2, <2>1, EndedRefers
  <2>3. spans' \in Seq(SpanType) /\ Len(spans') = Len(spans)
    BY <2>1 DEF Ended
  <2> QED
    BY <1>1, <1>3, <1>4, <2>1, <2>2, <2>3, TypeOKIs, TypeOKThen DEF Typed
<1> QED
  BY <1>5, <1>6, <1>7, <1>8

LEMMA EndLateTyped ==
  ASSUME TypeOK, NEW x \in pending, EndedLate(x)
  PROVE  TypeOK'
<1>1. pending \in SUBSET [call : 1..Len(made), span : 0..Len(spans), error : BOOLEAN]
  BY TypeOKIs DEF Typed
<1>2. x \in [call : 1..Len(made), span : 0..Len(spans), error : BOOLEAN]
  BY <1>1
<1>3. x.call \in 1..Len(made) /\ x.span \in 0..Len(spans) /\ x.error \in BOOLEAN
  BY <1>2
<1>4. SpansRefer(spans', Len(made))
  BY <1>3, EndedRefers DEF EndedLate
<1>5. spans' \in Seq(SpanType) /\ Len(spans') = Len(spans)
  BY DEF EndedLate, Ended
<1> QED
  BY <1>1, <1>4, <1>5, TypeOKIs, TypeOKThen DEF Typed, EndedLate

LEMMA RouteTyped ==
  ASSUME TypeOK, Routed
  PROVE  TypeOK'
<1>1. /\ FramesRefer(frames, Len(made), Len(spans)) /\ SpansRefer(spans, Len(made))
      /\ Top.call \in 1..Len(made) /\ Len(made) \in Nat
      /\ Len(frames) >= 1 /\ Len(frames) \in Nat
  BY Facts, TypeOKIs DEF Typed
<1>2. /\ frames' \in Seq(FrameType) /\ Len(frames') = Len(frames)
      /\ \A i \in 1..Len(frames) : SameFrame(frames'[i], frames[i])
      /\ UNCHANGED <<enabled, gls, lcs, made, pending>>
      /\ spans' \in Seq(SpanType) /\ Len(spans') = Len(spans)
  BY DEF Routed
<1>3. FramesRefer(frames', Len(made), Len(spans))
  BY <1>1, <1>2, SMTT(30) DEF FramesRefer, SameFrame
<1>4. ASSUME NEW s \in 1..Len(spans)
      PROVE  /\ spans'[s].under \in 0..(s - 1) /\ spans'[s].call \in 1..Len(made)
             /\ spans'[s].endedBy \in 0..Len(made) /\ spans'[s].route \in 0..Len(made)
  <2>1. /\ spans[s].under \in 0..(s - 1) /\ spans[s].call \in 1..Len(made)
        /\ spans[s].endedBy \in 0..Len(made) /\ spans[s].route \in 0..Len(made)
    BY <1>1 DEF SpansRefer
  <2>2. /\ Same(spans'[s], spans[s])
        /\ spans'[s].route = IF s = lcs /\ spans[s].open THEN Top.call ELSE spans[s].route
    BY DEF Routed
  <2> QED
    BY <1>1, <2>1, <2>2 DEF Same
<1>5. SpansRefer(spans', Len(made))
  BY <1>2, <1>4 DEF SpansRefer
<1> QED
  BY <1>1, <1>2, <1>3, <1>5, TypeOKIs, TypeOKThen DEF Typed

\* What a step is, in these words.
Stepped ==
  \/ \E h \in Hooks, ctx \in {Top.inside, 0} :
       /\ h.server \/ h.routes => Len(frames) = 1
       /\ Entered(h, ctx) /\ (Unstarted(h, ctx) \/ Started(h, ctx))
  \/ \E how \in Outcomes : Returned(how)
  \/ Left /\ (LeftIt \/ StartedAfter \/ HandedOn \/ EndedIt)
  \/ \E x \in pending : EndedLate(x)
  \/ Routed

LEMMA NextDoes ==
  ASSUME TypeOK, Next
  PROVE  Stepped
<1>1. ASSUME Call
      PROVE  \E h \in Hooks, ctx \in {Top.inside, 0} :
               /\ h.server \/ h.routes => Len(frames) = 1
               /\ Entered(h, ctx) /\ (Unstarted(h, ctx) \/ Started(h, ctx))
  <2>1. PICK h \in Callable, ctx \in {Top.inside, 0}, skip \in BOOLEAN :
          (h.server \/ h.routes => Len(frames) = 1) /\ Enter(h, ctx, skip)
    BY <1>1 DEF Call
  <2>2. h \in Hooks
    BY HooksAssumption DEF Callable
  <2> QED
    BY <2>1, <2>2, EnterDoes
<1> QED
  BY <1>1, ReturnDoes, ExitDoes, EndLateDoes, RouteDoes DEF Next, Stepped

LEMMA StepTyped ==
  ASSUME TypeOK, Stepped
  PROVE  TypeOK'
BY EnterTyped, ReturnTyped, ExitTyped, EndLateTyped, RouteTyped DEF Stepped

LEMMA NextTyped == TypeOK /\ [Next]_vars => TypeOK'
<1>1. ASSUME TypeOK, UNCHANGED vars PROVE TypeOK'
  BY <1>1 DEF vars, TypeOK
<1> QED
  BY <1>1, NextDoes, StepTyped

\* Every span, context, entry of the list and end that is pending refers to spans
\* that were started, and every frame and span to a call that was made.
THEOREM TypeCorrect == Spec => []TypeOK
BY InitTyped, NextTyped, PTL DEF Spec

(* How frames, calls, spans and pending ends belong together.              *)

\* The outermost frame is the application.  A frame knows how its call goes; if it
\* holds a span, it is that of its call, which is over where the hook ends it at
\* once; and requests come from outside.
FrameLinked(i) ==
  LET f == frames[i]  h == f.hook
  IN /\ IF i = 1 THEN h = App /\ f.call = 1 /\ f.how = "running" ELSE h \in Hooks
     /\ made[f.call].name = h.name /\ made[f.call].how = f.how
     /\ f.how = "error" => h.fails
     /\ f.stored /\ i # 1 => enabled \/ h.asks \intersect {"install", "enter"} = {}
     /\ f.held # 0 => /\ f.stored /\ h.when # "exit"
                      /\ spans[f.held].call = f.call /\ spans[f.held].by = h.name
                      /\ h.when = "over" => ~spans[f.held].open
     /\ h.server \/ h.routes => i = 2
     /\ f.routed => h.server

\* Inner calls, and their spans, are later ones.
FramesOrdered == \A i, j \in 1..Len(frames) :
  i < j => /\ frames[i].call < frames[j].call
           /\ frames[i].held # 0 /\ frames[j].held # 0 => frames[i].held < frames[j].held

HeldBy(s) == \E i \in 1..Len(frames) : frames[i].held = s
OwedTo(s) == \E x \in pending : x.span = s /\ x.call = spans[s].call
\* No frame is of the call c.
Over(c) == \A i \in 1..Len(frames) : frames[i].call # c

\* An open span is held or its end is pending, unless the call left it open.  It
\* was ended by its own call, which is through or had ended it at once, and that
\* told it of an error; or by one of those that end others.
SpanLinked(s) ==
  LET t == spans[s]  c == made[t.call]
  IN /\ c.name = t.by
     /\ t.endedBy = 0 <=> t.open
     /\ \/ ~t.open \/ HeldBy(s) \/ OwedTo(s)
        \/ Over(t.call) /\ <<c.name, c.how>> \in LeavesOpen
     /\ t.endedBy \in {0, t.call} \/ made[t.endedBy].name \in EndsOthers
     /\ \A i \in 1..Len(frames) :
          t.endedBy = t.call /\ frames[i].call = t.call => frames[i].hook.when = "over"
     /\ t.endedBy = t.call /\ c.how = "error" => t.error \/ c.name \in LosesErrors
     /\ ~enabled => t.by \in {App.name} \union Unasked

\* An end is pending for the own span of a call that is over, or for a span of one
\* of those that end others.
EndLinked(x) ==
  /\ Over(x.call)
  /\ \/ x.span = 0 \/ spans[x.span].call = x.call
     \/ made[x.call].name \in EndsOthers
  /\ made[x.call].how = "error" => x.error \/ made[x.call].name \in LosesErrors

FramesLinked == \A i \in 1..Len(frames) : FrameLinked(i)
SpansLinked == \A s \in 1..Len(spans) : SpanLinked(s)
PendingLinked == \A x \in pending : EndLinked(x)
Linked == FramesLinked /\ FramesOrdered /\ SpansLinked /\ PendingLinked

\* Spans stay, and what is over stays over.
SpanStays(s) ==
  /\ spans'[s].under = spans[s].under /\ spans'[s].by = spans[s].by
  /\ spans'[s].call = spans[s].call
  /\ spans'[s].open => spans[s].open
CallStays(c) ==
  /\ made'[c].name = made[c].name
  /\ Over(c) \/ Over(c)' => made'[c].how = made[c].how

LEMMA BeganStay ==
  ASSUME NEW h, NEW ctx, NEW call, NEW open, NEW err, Began(h, ctx, call, open, err),
         NEW s \in 1..Len(spans)
  PROVE  SpanStays(s)
BY DEF Began, Same, SpanStays

LEMMA EndedStay ==
  ASSUME NEW t, NEW call, NEW err, Ended(t, call, err), NEW s \in 1..Len(spans)
  PROVE  SpanStays(s)
<1>1. CASE s = t /\ spans[s].open
  BY <1>1 DEF Ended, SpanStays
<1>2. CASE ~(s = t /\ spans[s].open)
  BY <1>2 DEF Ended, SpanStays
<1> QED
  BY <1>1, <1>2

LEMMA SpansStay ==
  ASSUME TypeOK, Stepped
  PROVE  Len(spans') \in Nat /\ Len(spans') >= Len(spans) /\ \A s \in 1..Len(spans) : SpanStays(s)
<1>1. Len(spans) \in Nat
  BY Facts
<1>2. CASE spans' = spans
  BY <1>1, <1>2 DEF SpanStays
<1>3. ASSUME NEW h, NEW ctx, NEW call, NEW open, NEW err, Began(h, ctx, call, open, err)
      PROVE  /\ Len(spans') \in Nat /\ Len(spans') >= Len(spans)
             /\ \A s \in 1..Len(spans) : SpanStays(s)
  <2>1. \A s \in 1..Len(spans) : SpanStays(s)
    BY <1>3, BeganStay
  <2>2. Len(spans') = Len(spans) + 1
    BY <1>3 DEF Began
  <2> QED
    BY <1>1, <2>1, <2>2
<1>4. ASSUME NEW t, NEW call, NEW err, Ended(t, call, err)
      PROVE  /\ Len(spans') \in Nat /\ Len(spans') >= Len(spans)
             /\ \A s \in 1..Len(spans) : SpanStays(s)
  <2>1. \A s \in 1..Len(spans) : SpanStays(s)
    BY <1>4, EndedStay
  <2>2. Len(spans') = Len(spans)
    BY <1>4 DEF Ended
  <2> QED
    BY <1>1, <2>1, <2>2
<1>5. CASE Routed
  BY <1>1, <1>5 DEF Routed, SpanStays, Same
<1>6. CASE \E h \in Hooks, ctx \in {Top.inside, 0} : Unstarted(h, ctx) \/ Started(h, ctx)
  BY <1>2, <1>3, <1>6, Zenon DEF Unstarted, Started
<1>7. CASE LeftIt \/ StartedAfter \/ HandedOn \/ EndedIt
  BY <1>2, <1>3, <1>4, <1>7, Zenon DEF LeftIt, StartedAfter, HandedOn, EndedIt
<1>8. CASE \E x \in pending : EndedLate(x)
  BY <1>4, <1>8, Zenon DEF EndedLate
<1>9. CASE \E how \in Outcomes : Returned(how)
  BY <1>2, <1>9, Zenon DEF Returned
<1> QED
  BY <1>5, <1>6, <1>7, <1>8, <1>9, Zenon DEF Stepped

LEMMA CallsStay ==
  ASSUME TypeOK, Stepped
  PROVE  /\ Len(made') \in Nat /\ Len(made') >= Len(made)
         /\ \A c \in 1..Len(made) : CallStays(c)
<1>1. Len(made) \in Nat /\ Len(frames) \in 1..Len(frames) /\ Top = frames[Len(frames)]
  BY Facts DEF Top
<1>2. CASE made' = made
  BY <1>1, <1>2 DEF CallStays
<1>3. ASSUME NEW how, Returned(how)
      PROVE  /\ Len(made') \in Nat /\ Len(made') >= Len(made)
             /\ \A c \in 1..Len(made) : CallStays(c)
  <2>1. ~Over(Top.call)
    BY <1>1 DEF Over
  <2>2. ASSUME NEW c \in 1..Len(made) PROVE CallStays(c)
    <3>1. CASE c = Top.call
      <4>1. ~Over(c)'
        BY <1>1, <1>3, <3>1 DEF Returned, SameFrame, Over
      <4> QED
        BY <1>3, <2>1, <3>1, <4>1 DEF Returned, CallStays
    <3>2. CASE c # Top.call
      BY <1>3, <3>2 DEF Returned, CallStays
    <3> QED
      BY <3>1, <3>2
  <2> QED
    BY <1>1, <1>3, <2>2 DEF Returned
<1>4. ASSUME NEW h, NEW ctx, Entered(h, ctx)
      PROVE  /\ Len(made') \in Nat /\ Len(made') >= Len(made)
             /\ \A c \in 1..Len(made) : CallStays(c)
  BY <1>1, <1>4 DEF Entered, CallStays
<1>5. CASE Left \/ Routed \/ \E x \in pending : EndedLate(x)
  BY <1>2, <1>5, Zenon DEF Left, Routed, EndedLate
<1> QED
  BY <1>3, <1>4, <1>5, Zenon DEF Stepped

\* A frame that stays keeps what it is linked with.
LEMMA FrameKept ==
  ASSUME TypeOK, Stepped, NEW i \in 1..Len(frames), FrameLinked(i),
         SameFrame(frames'[i], frames[i]), frames'[i].how = made'[frames[i].call].how,
         i = 1 => frames'[i].how = "running",
         frames'[i].how = "error" => frames[i].hook.fails,
         frames'[i].routed => frames[i].hook.server, enabled' = enabled
  PROVE  FrameLinked(i)'
<1>1. frames[i].call \in 1..Len(made) /\ frames[i].held \in 0..Len(spans) /\ Len(spans) \in Nat
  BY TypeOKIs, Facts DEF Typed, FramesRefer
<1>2. frames[i].held # 0 => SpanStays(frames[i].held)
  BY <1>1, SpansStay
<1>3. made'[frames[i].call].name = made[frames[i].call].name
  BY <1>1, CallsStay DEF CallStays
<1> DEFINE f == frames[i]  g == frames'[i]  h == f.hook
<1>4. /\ g.hook = h /\ g.call = f.call /\ g.held = f.held /\ g.stored = f.stored
      /\ g.how = made'[f.call].how
  BY DEF SameFrame
<1>5. /\ IF i = 1 THEN h = App /\ f.call = 1 /\ f.how = "running" ELSE h \in Hooks
      /\ made[f.call].name = h.name
      /\ f.stored /\ i # 1 => enabled \/ h.asks \intersect {"install", "enter"} = {}
      /\ f.held # 0 => /\ f.stored /\ h.when # "exit"
                       /\ spans[f.held].call = f.call /\ spans[f.held].by = h.name
                       /\ h.when = "over" => ~spans[f.held].open
      /\ h.server \/ h.routes => i = 2
  BY DEF FrameLinked
<1>6. f.held # 0 => /\ spans'[f.held].call = f.call /\ spans'[f.held].by = h.name
                    /\ h.when = "over" => ~spans'[f.held].open
  BY <1>2, <1>5 DEF SpanStays
<1>7. /\ i = 1 => g.how = "running"
      /\ g.how = "error" => h.fails
      /\ g.routed => h.server
  OBVIOUS
<1> HIDE DEF f, g, h
<1>8. FrameLinked(i)' <=>
        /\ IF i = 1 THEN g.hook = App /\ g.call = 1 /\ g.how = "running" ELSE g.hook \in Hooks
        /\ made'[g.call].name = g.hook.name /\ made'[g.call].how = g.how
        /\ g.how = "error" => g.hook.fails
        /\ g.stored /\ i # 1 =>
             enabled' \/ g.hook.asks \intersect {"install", "enter"} = {}
        /\ g.held # 0 => /\ g.stored /\ g.hook.when # "exit"
                         /\ spans'[g.held].call = g.call /\ spans'[g.held].by = g.hook.name
                         /\ g.hook.when = "over" => ~spans'[g.held].open
        /\ g.hook.server \/ g.hook.routes => i = 2
        /\ g.routed => g.hook.server
  BY DEF FrameLinked, g
<1> QED
  BY <1>1, <1>3, <1>4, <1>5, <1>6, <1>7, <1>8 DEF f

LEMMA FramesStep ==
  ASSUME TypeOK, FramesLinked, FramesOrdered, Stepped
  PROVE  FramesLinked'
<1> DEFINE n == Len(frames)
<1>1. /\ n \in Nat /\ n >= 1 /\ Len(made) \in Nat /\ Len(spans) \in Nat /\ Top = frames[n]
      /\ \A i \in 1..n : frames[i].call \in 1..Len(made)
      /\ \A i \in 1..n : FrameLinked(i)
  BY TypeOKIs, Facts DEF Typed, FramesRefer, FramesLinked, Top
<1>2. \A i \in 1..n : /\ made[frames[i].call].how = frames[i].how
                      /\ i = 1 => frames[i].how = "running"
                      /\ frames[i].how = "error" => frames[i].hook.fails
                      /\ frames[i].routed => frames[i].hook.server
  BY <1>1 DEF FrameLinked
<1>3. \A i \in 1..n : SameFrame(frames[i], frames[i])
  BY DEF SameFrame
<1>4. ASSUME NEW h \in Hooks, NEW ctx \in {Top.inside, 0}, h.server \/ h.routes => n = 1,
             Entered(h, ctx), Unstarted(h, ctx) \/ Started(h, ctx)
      PROVE  FramesLinked'
  <2> DEFINE f == frames'[n + 1]
  <2>1. /\ enabled' = enabled /\ Len(frames') = n + 1 /\ Len(made') = Len(made) + 1
        /\ \A i \in 1..n : frames'[i] = frames[i]
        /\ \A c \in 1..Len(made) : made'[c] = made[c]
        /\ made'[Len(made) + 1].name = h.name /\ made'[Len(made) + 1].how = "running"
        /\ f.hook = h /\ f.call = Len(made) + 1 /\ ~f.routed /\ f.how = "running"
        /\ f.stored => ~Asks(h, "install") /\ ~Asks(h, "enter")
    BY <1>4 DEF Entered
  <2>2. ASSUME NEW i \in 1..n PROVE FrameLinked(i)'
    BY <1>1, <1>2, <1>3, <2>1, FrameKept
  <2>3. f.held # 0 => /\ f.stored /\ h.when # "exit"
                      /\ spans'[f.held].call = f.call /\ spans'[f.held].by = h.name
                      /\ h.when = "over" => ~spans'[f.held].open
    BY <1>4 DEF Unstarted, Started, Began, Fresh
  <2>4. f.stored => enabled \/ h.asks \intersect {"install", "enter"} = {}
    BY <2>1 DEF Asks
  <2>5. PICK k \in Nat : k = n + 1
    BY <1>1
  <2>6. h.server \/ h.routes => k = 2
    <3>1. ASSUME h.server \/ h.routes PROVE n = 1
      BY <1>4, <3>1
    <3>2. n = 1 => k = 2
      BY <2>5
    <3> HIDE DEF n
    <3> QED
      BY <3>1, <3>2
  <2>7. k # 1 /\ f = frames'[k]
    BY <1>1, <2>5
  <2> HIDE DEF f
  <2>8. FrameLinked(k)'
    BY <2>1, <2>3, <2>4, <2>6, <2>7 DEF FrameLinked
  <2>9. \A i \in 1..Len(frames') : i \in 1..n \/ i = k
    BY <1>1, <2>1, <2>5
  <2> QED
    BY <2>2, <2>8, <2>9 DEF FramesLinked
<1>5. ASSUME NEW how \in Outcomes, Returned(how)
      PROVE  FramesLinked'
  <2>1. /\ enabled' = enabled /\ Len(frames') = n /\ n > 1
        /\ how = "error" => frames[n].hook.fails
        /\ \A i \in 1..n : /\ SameFrame(frames'[i], frames[i])
                           /\ frames'[i].routed = frames[i].routed
                           /\ frames'[i].how = IF i = n THEN how ELSE frames[i].how
        /\ \A c \in 1..Len(made) :
             made'[c].how = IF c = frames[n].call THEN how ELSE made[c].how
    BY <1>1, <1>5 DEF Returned
  <2>2. ASSUME NEW i \in 1..n PROVE FrameLinked(i)'
    <3>1. CASE i = n
      BY <1>1, <1>2, <2>1, <3>1, FrameKept
    <3>2. CASE i # n
      <4>1. frames[i].call # frames[n].call
        BY <1>1, <3>2 DEF FramesOrdered
      <4> QED
        BY <1>1, <1>2, <2>1, <3>2, <4>1, FrameKept, SMTT(30)
    <3> QED
      BY <3>1, <3>2
  <2> QED
    BY <2>1, <2>2 DEF FramesLinked
<1>6. CASE Left
  <2>1. /\ enabled' = enabled /\ made' = made /\ Len(frames') = n - 1
        /\ \A i \in 1..(n - 1) : frames'[i] = frames[i]
    BY <1>6 DEF Left
  <2>2. ASSUME NEW i \in 1..(n - 1) PROVE FrameLinked(i)'
    <3>1. i \in 1..n
      BY <1>1
    <3> QED
      BY <1>1, <1>2, <1>3, <2>1, <3>1, FrameKept
  <2> QED
    BY <2>1, <2>2 DEF FramesLinked
<1>7. ASSUME NEW x \in pending, EndedLate(x)
      PROVE  FramesLinked'
  <2>1. enabled' = enabled /\ made' = made /\ frames' = frames
    BY <1>7 DEF EndedLate
  <2>2. ASSUME NEW i \in 1..n PROVE FrameLinked(i)'
    BY <1>1, <1>2, <1>3, <2>1, FrameKept
  <2> QED
    BY <2>1, <2>2 DEF FramesLinked
<1>8. CASE Routed
  <2>1. /\ enabled' = enabled /\ made' = made /\ Len(frames') = n
        /\ \A i \in 1..n : /\ SameFrame(frames'[i], frames[i])
                           /\ frames'[i].routed = (i = n \/ frames[i].routed)
                           /\ frames'[i].how = frames[i].how
        /\ frames[n].hook.server
    BY <1>1, <1>8 DEF Routed
  <2>2. ASSUME NEW i \in 1..n PROVE FrameLinked(i)'
    <3>1. frames'[i].routed => frames[i].hook.server
      BY <1>2, <2>1
    <3> QED
      BY <1>1, <1>2, <2>1, <3>1, FrameKept
  <2> QED
    BY <2>1, <2>2 DEF FramesLinked
<1> QED
  BY <1>4, <1>5, <1>6, <1>7, <1>8, Zenon DEF Stepped

LEMMA OrderStep ==
  ASSUME TypeOK, FramesOrdered, Stepped
  PROVE  FramesOrdered'
<1> DEFINE n == Len(frames)
<1>1. /\ n \in Nat /\ n >= 1 /\ Len(made) \in Nat /\ Len(spans) \in Nat
      /\ \A i \in 1..n : frames[i].call \in 1..Len(made) /\ frames[i].held \in 0..Len(spans)
  BY TypeOKIs, Facts DEF Typed, FramesRefer
<1>2. ASSUME Len(frames') <= n, Len(frames') \in Nat,
             \A i \in 1..Len(frames') : SameFrame(frames'[i], frames[i])
      PROVE  FramesOrdered'
  <2>1. \A i \in 1..Len(frames') : i \in 1..n /\ frames'[i].call = frames[i].call
                                   /\ frames'[i].held = frames[i].held
    BY <1>1, <1>2 DEF SameFrame
  <2> QED
    BY <1>1, <2>1 DEF FramesOrdered
<1>3. \A i \in 1..n : SameFrame(frames[i], frames[i])
  BY DEF SameFrame
<1>4. ASSUME NEW h, NEW ctx, Entered(h, ctx), Unstarted(h, ctx) \/ Started(h, ctx)
      PROVE  FramesOrdered'
  <2> DEFINE f == frames'[n + 1]
  <2>1. /\ Len(frames') = n + 1 /\ f.call = Len(made) + 1
        /\ \A i \in 1..n : frames'[i] = frames[i]
    BY <1>4 DEF Entered
  <2>2. f.held = 0 \/ f.held = Len(spans) + 1
    BY <1>4 DEF Unstarted, Started
  <2> HIDE DEF f
  <2>3. ASSUME NEW i \in 1..Len(frames'), NEW j \in 1..Len(frames'), i < j
        PROVE  /\ frames'[i].call < frames'[j].call
               /\ frames'[i].held # 0 /\ frames'[j].held # 0 =>
                    frames'[i].held < frames'[j].held
    <3>1. i \in 1..n /\ (j \in 1..n \/ j = n + 1)
      BY <1>1, <2>1, <2>3
    <3>2. CASE j \in 1..n
      BY <2>1, <2>3, <3>1, <3>2 DEF FramesOrdered
    <3>3. CASE j = n + 1
      <4>1. frames'[j] = f /\ frames'[i] = frames[i]
        BY <2>1, <3>1, <3>3 DEF f
      <4> QED
        BY <1>1, <2>1, <2>2, <3>1, <4>1
    <3> QED
      BY <3>1, <3>2, <3>3
  <2> QED
    BY <2>3 DEF FramesOrdered
<1>5. ASSUME NEW how, Returned(how)
      PROVE  FramesOrdered'
  BY <1>1, <1>2, <1>5 DEF Returned
<1>6. CASE Left
  BY <1>1, <1>2, <1>3, <1>6 DEF Left
<1>7. ASSUME NEW x \in pending, EndedLate(x)
      PROVE  FramesOrdered'
  <2>1. frames' = frames
    BY <1>7 DEF EndedLate
  <2>2. Len(frames') <= n /\ Len(frames') \in Nat
    BY <1>1, <2>1
  <2>3. \A i \in 1..Len(frames') : SameFrame(frames'[i], frames[i])
    BY <1>3, <2>1
  <2> QED
    BY <1>2, <2>2, <2>3
<1>8. CASE Routed
  <2>1. Len(frames') = n /\ \A i \in 1..n : SameFrame(frames'[i], frames[i])
    BY <1>8 DEF Routed
  <2>2. Len(frames') <= n /\ Len(frames') \in Nat
    BY <1>1, <2>1
  <2> QED
    BY <1>2, <2>1, <2>2
<1> QED
  BY <1>4, <1>5, <1>6, <1>7, <1>8, Zenon DEF Stepped

\* The frames after a step are frames before it, or of a call that is new.
LEMMA FramesCome ==
  ASSUME TypeOK, Stepped, NEW i \in 1..Len(frames')
  PROVE  \/ i \in 1..Len(frames) /\ SameFrame(frames'[i], frames[i])
         \/ i = Len(frames) + 1 /\ frames'[i].call = Len(made) + 1
<1> DEFINE n == Len(frames)
<1>1. n \in Nat /\ \A j \in 1..n : SameFrame(frames[j], frames[j])
  BY Facts DEF SameFrame
<1>2. ASSUME NEW h, NEW ctx, Entered(h, ctx)
      PROVE  \/ i \in 1..n /\ SameFrame(frames'[i], frames[i])
             \/ i = n + 1 /\ frames'[i].call = Len(made) + 1
  <2>1. /\ Len(frames') = n + 1 /\ frames'[n + 1].call = Len(made) + 1
        /\ \A j \in 1..n : frames'[j] = frames[j]
    BY <1>2 DEF Entered
  <2>2. i \in 1..n \/ i = n + 1
    BY <1>1, <2>1
  <2> QED
    BY <1>1, <2>1, <2>2
<1>3. ASSUME NEW how, Returned(how) PROVE i \in 1..n /\ SameFrame(frames'[i], frames[i])
  BY <1>3 DEF Returned
<1>4. CASE Left
  BY <1>1, <1>4 DEF Left
<1>5. ASSUME NEW x, EndedLate(x) PROVE i \in 1..n /\ SameFrame(frames'[i], frames[i])
  BY <1>1, <1>5 DEF EndedLate
<1>6. CASE Routed
  BY <1>6 DEF Routed
<1> QED
  BY <1>2, <1>3, <1>4, <1>5, <1>6, Zenon DEF Stepped

\* What the second half of a hook that is not an exception ends: its own span.
LEMMA ExitsOwn ==
  ASSUME TypeOK, FramesLinked, Left
  PROVE  /\ Top.hook \in Hooks
         /\ made[Top.call].name = Top.hook.name /\ made[Top.call].how = Top.how
         /\ Top.held # 0 /\ spans[Top.held].open =>
              \/ <<Top.hook.name, Top.how>> \in LeavesOpen
              \/ Does(Top) = "own" /\ Target(Top) = Top.held /\ Top.hook.when = "enter"
         /\ Top.hook.name \notin EndsOthers /\ Does(Top) # "nothing" =>
              Does(Top) = "own" /\ Target(Top) = Top.held /\ Top.stored
         /\ Top.how = "error" => Error(Top) \/ Top.hook.name \in LosesErrors
<1> DEFINE n == Len(frames)  f == Top  h == Top.hook
<1>1. n \in Nat /\ n > 1 /\ f = frames[n] /\ f.how # "running" /\ f \in FrameType
  BY Facts DEF Left, Top
<1>2. FrameLinked(n)
  BY <1>1 DEF FramesLinked
<1>3. /\ h \in Hooks /\ made[f.call].name = h.name /\ made[f.call].how = f.how
      /\ f.how = "error" => h.fails
      /\ f.stored => enabled \/ h.asks \intersect {"install", "enter"} = {}
      /\ f.held # 0 => /\ f.stored /\ h.when # "exit"
                       /\ h.when = "over" => ~spans[f.held].open
  BY <1>1, <1>2 DEF FrameLinked
<1>4. f.how \in Outcomes
  BY <1>1 DEF FrameType
<1>5. /\ h \in HookType
      /\ h.name \notin EndsOthers =>
           h.bare = "nothing" /\ \A how \in Outcomes : h.ends[how] \in {"own", "nothing"}
      /\ h.when = "enter" =>
           \A how \in Outcomes : <<h.name, how>> \notin LeavesOpen =>
             \/ how = "error" /\ ~h.fails
             \/ /\ h.ends[how] = "own" /\ (how = "panic" => h.deferred)
                /\ "exit" \in h.asks => h.asks \intersect {"install", "enter"} # {}
      /\ h.name \notin LosesErrors => ~h.fails \/ (h.shows /\ h.when # "over")
  BY <1>3, HooksAssumption
<1>6. h.when \in {"enter", "exit", "over"}
  BY <1>5 DEF HookType
<1> HIDE DEF f, h
<1>7. ASSUME f.held # 0, spans[f.held].open, <<h.name, f.how>> \notin LeavesOpen
      PROVE  Does(f) = "own" /\ Target(f) = f.held /\ h.when = "enter"
  <2>1. h.when = "enter"
    BY <1>3, <1>6, <1>7
  <2>2. /\ h.ends[f.how] = "own" /\ (f.how = "panic" => h.deferred)
        /\ "exit" \in h.asks => h.asks \intersect {"install", "enter"} # {}
    BY <1>3, <1>4, <1>5, <1>7, <2>1
  <2>3. f.stored /\ ~Asks(h, "install") /\ ~Asks(h, "exit")
    BY <1>3, <1>7, <2>2 DEF Asks
  <2>4. Does(f) = "own"
    BY <2>2, <2>3 DEF Does, h, f
  <2> QED
    BY <2>1, <2>4 DEF Target
<1>8. ASSUME h.name \notin EndsOthers, Does(f) # "nothing"
      PROVE  Does(f) = "own" /\ Target(f) = f.held /\ f.stored
  <2>1. Does(f) = IF f.stored THEN h.ends[f.how] ELSE h.bare
    BY <1>8 DEF Does, h, f
  <2>2. Does(f) = "own" /\ f.stored
    BY <1>4, <1>5, <1>8, <2>1
  <2> QED
    BY <2>2 DEF Target
<1>9. f.how = "error" => Error(f) \/ h.name \in LosesErrors
  BY <1>3, <1>5 DEF Error, h, f
<1> QED
  BY <1>3, <1>7, <1>8, <1>9 DEF f, h

\* SpanLinked of the state after a step, in full.
LEMMA SpanLinkedThen ==
  ASSUME NEW s, NEW u, u = spans'[s]
  PROVE  SpanLinked(s)' <=>
           /\ made'[u.call].name = u.by
           /\ u.endedBy = 0 <=> u.open
           /\ \/ ~u.open \/ HeldBy(s)' \/ \E x \in pending' : x.span = s /\ x.call = u.call
              \/ /\ \A i \in 1..Len(frames') : frames'[i].call # u.call
                 /\ <<made'[u.call].name, made'[u.call].how>> \in LeavesOpen
           /\ u.endedBy \in {0, u.call} \/ made'[u.endedBy].name \in EndsOthers
           /\ \A i \in 1..Len(frames') :
                u.endedBy = u.call /\ frames'[i].call = u.call => frames'[i].hook.when = "over"
           /\ u.endedBy = u.call /\ made'[u.call].how = "error" =>
                u.error \/ made'[u.call].name \in LosesErrors
           /\ ~enabled' => u.by \in {App.name} \union Unasked
BY DEF SpanLinked, OwedTo, Over

\* A span that a step leaves alone keeps what it is linked with.
LEMMA SpanKept ==
  ASSUME TypeOK, SpansLinked, FramesLinked', Stepped, enabled' = enabled,
         NEW s \in 1..Len(spans), NEW c \in 1..Len(made), c = spans[s].call,
         Same(spans'[s], spans[s]),
         spans[s].open => \/ HeldBy(s)' \/ \E x \in pending' : x.span = s /\ x.call = c
                          \/ Over(c)' /\ <<made[c].name, made[c].how>> \in LeavesOpen
  PROVE  SpanLinked(s)'
<1> DEFINE t == spans[s]  u == spans'[s]
<1>1. /\ Len(made) \in Nat /\ t.endedBy \in 0..Len(made) /\ Len(made') \in Nat
      /\ CallStays(c) /\ SpanLinked(s)
  BY Facts, TypeOKIs, CallsStay DEF Typed, SpansRefer, SpansLinked
<1>2. /\ u.by = t.by /\ u.call = c /\ u.open = t.open /\ u.endedBy = t.endedBy
      /\ u.error = t.error
  BY DEF Same
<1>3. /\ made[c].name = t.by /\ (t.endedBy = 0 <=> t.open)
      /\ t.endedBy \in {0, c} \/ made[t.endedBy].name \in EndsOthers
      /\ \A i \in 1..Len(frames) :
           t.endedBy = c /\ frames[i].call = c => frames[i].hook.when = "over"
      /\ t.endedBy = c /\ made[c].how = "error" => t.error \/ made[c].name \in LosesErrors
      /\ ~enabled => t.by \in {App.name} \union Unasked
  BY <1>1 DEF SpanLinked
<1>4. made'[c].name = made[c].name /\ (Over(c)' => made'[c].how = made[c].how)
  BY <1>1 DEF CallStays
<1>5. t.endedBy # 0 => made'[t.endedBy].name = made[t.endedBy].name
  <2>1. ASSUME t.endedBy # 0 PROVE CallStays(t.endedBy)
    BY <1>1, <2>1, CallsStay
  <2> QED
    BY <2>1 DEF CallStays
<1>6. ASSUME NEW i \in 1..Len(frames'), t.endedBy = c, frames'[i].call = c
      PROVE  /\ frames'[i].hook.when = "over"
             /\ made'[c].how = "error" => made[c].name \in LosesErrors
  <2>1. i \in 1..Len(frames) /\ SameFrame(frames'[i], frames[i])
    BY <1>1, <1>6, FramesCome
  <2>2. frames'[i].hook.when = "over"
    BY <1>3, <1>6, <2>1 DEF SameFrame
  <2>3. FrameLinked(i)'
    BY <1>6 DEF FramesLinked
  <2>4. /\ made'[c].name = frames'[i].hook.name /\ made'[c].how = frames'[i].how
        /\ frames'[i].how = "error" => frames'[i].hook.fails
        /\ frames'[i].hook \in Hooks \/ frames'[i].hook = App
    BY <1>6, <2>3 DEF FrameLinked
  <2>5. App.when = "enter"
    BY DEF App, Hook
  <2>6. frames'[i].hook \in Hooks
    BY <2>2, <2>4, <2>5
  <2>7. frames'[i].hook.name \notin LosesErrors => ~frames'[i].hook.fails
    BY <2>2, <2>6, HooksAssumption
  <2> QED
    BY <1>4, <2>2, <2>4, <2>7
<1>7. t.endedBy = c /\ made'[c].how = "error" => t.error \/ made[c].name \in LosesErrors
  <2>1. CASE Over(c)'
    BY <1>3, <1>4, <2>1
  <2>2. CASE ~Over(c)'
    BY <1>6, <2>2 DEF Over
  <2> QED
    BY <2>1, <2>2
<1>8. \/ ~u.open \/ HeldBy(s)' \/ \E x \in pending' : x.span = s /\ x.call = c
      \/ Over(c)' /\ <<made'[c].name, made'[c].how>> \in LeavesOpen
  BY <1>2, <1>4
<1>9. Over(c)' <=> \A i \in 1..Len(frames') : frames'[i].call # c
  BY DEF Over
<1>10. u = spans'[s]
  OBVIOUS
<1> HIDE DEF t, u
<1> QED
  BY <1>2, <1>3, <1>4, <1>5, <1>6, <1>7, <1>8, <1>9, <1>10, SpanLinkedThen, SMTT(30)

\* A span that a call has ended when it was over.
LEMMA SpanClosed ==
  ASSUME TypeOK, SpansLinked, Stepped, enabled' = enabled,
         NEW s \in 1..Len(spans), NEW call \in 1..Len(made), NEW err \in BOOLEAN,
         spans[s].open, ~spans'[s].open, spans'[s].by = spans[s].by,
         spans'[s].call = spans[s].call, spans'[s].endedBy = call, spans'[s].error = err,
         Over(call)', made' = made,
         spans[s].call = call \/ made[call].name \in EndsOthers,
         made[call].how = "error" => err \/ made[call].name \in LosesErrors
  PROVE  SpanLinked(s)'
<1>1. /\ made[spans[s].call].name = spans[s].by
      /\ ~enabled => spans[s].by \in {App.name} \union Unasked
  BY DEF SpansLinked, SpanLinked
<1>2. PICK u : u = spans'[s]
  OBVIOUS
<1>3. /\ u.by = spans[s].by /\ u.call = spans[s].call /\ ~u.open /\ u.endedBy = call
      /\ u.error = err
  BY <1>2
<1>4. \A i \in 1..Len(frames') : frames'[i].call # call
  BY DEF Over
<1>5. call # 0
  BY Facts
<1>6. \A i \in 1..Len(frames') :
        u.endedBy = u.call /\ frames'[i].call = u.call => frames'[i].hook.when = "over"
  BY <1>3, <1>4
<1>7. u.endedBy = u.call /\ made'[u.call].how = "error" =>
        u.error \/ made'[u.call].name \in LosesErrors
  BY <1>3
<1>8. u.endedBy \in {0, u.call} \/ made'[u.endedBy].name \in EndsOthers
  BY <1>3
<1>9. made'[u.call].name = u.by /\ (~enabled' => u.by \in {App.name} \union Unasked)
  BY <1>1, <1>3
<1>10. ~(u.endedBy = 0) /\ ~u.open
  BY <1>3, <1>5
<1> QED
  BY <1>2, <1>6, <1>7, <1>8, <1>9, <1>10, SpanLinkedThen, ZenonT(30)

\* A span that is new.
LEMMA SpanBegun ==
  ASSUME NEW s, NEW under, NEW call \in Nat \ {0}, NEW open \in BOOLEAN, NEW err \in BOOLEAN,
         NEW by, Fresh(spans'[s], under, by, call, open, err),
         made'[call].name = by, open => HeldBy(s)',
         ~open => \A i \in 1..Len(frames') :
                    frames'[i].call = call => frames'[i].hook.when = "over",
         ~open /\ made'[call].how = "error" => err \/ by \in LosesErrors,
         ~enabled' => by \in Unasked
  PROVE  SpanLinked(s)'
<1>1. PICK u : u = spans'[s]
  OBVIOUS
<1>2. /\ u.by = by /\ u.call = call /\ u.open = open /\ u.endedBy = (IF open THEN 0 ELSE call)
      /\ u.error = err
  BY <1>1 DEF Fresh
<1>3. \A i \in 1..Len(frames') :
        u.endedBy = u.call /\ frames'[i].call = u.call => frames'[i].hook.when = "over"
  BY <1>2
<1>4. u.endedBy = u.call /\ made'[u.call].how = "error" =>
        u.error \/ made'[u.call].name \in LosesErrors
  BY <1>2
<1>5. u.endedBy \in {0, u.call} /\ (u.endedBy = 0 <=> u.open)
  BY <1>2
<1>6. made'[u.call].name = u.by /\ (~enabled' => u.by \in {App.name} \union Unasked)
  BY <1>2
<1>7. ~u.open \/ HeldBy(s)'
  BY <1>2
<1> QED
  BY <1>1, <1>3, <1>4, <1>5, <1>6, <1>7, SpanLinkedThen, ZenonT(30)

LEMMA SpansEnter ==
  ASSUME TypeOK, SpansLinked, FramesLinked', Stepped, NEW h \in Hooks, NEW ctx,
         Entered(h, ctx), Unstarted(h, ctx) \/ Started(h, ctx)
  PROVE  SpansLinked'
<1> DEFINE n == Len(frames)  call == Len(made) + 1  f == frames'[n + 1]
<1>1. /\ n \in Nat /\ Len(made) \in Nat /\ Len(spans) \in Nat
      /\ \A s \in 1..Len(spans) : spans[s].call \in 1..Len(made)
  BY TypeOKIs, Facts DEF Typed, SpansRefer
<1>2. /\ UNCHANGED <<enabled, pending>> /\ Len(frames') = n + 1
      /\ \A i \in 1..n : frames'[i] = frames[i]
      /\ made'[call].name = h.name /\ made'[call].how = "running"
      /\ f.hook = h /\ f.call = call
      /\ f.stored => ~Asks(h, "install") /\ ~Asks(h, "enter")
  BY DEF Entered
<1>3. ASSUME NEW s \in 1..Len(spans), Same(spans'[s], spans[s])
      PROVE  SpanLinked(s)'
  <2>1. PICK c \in 1..Len(made) : c = spans[s].call
    BY <1>1
  <2>2. \/ ~spans[s].open \/ HeldBy(s) \/ \E x \in pending : x.span = s /\ x.call = c
        \/ Over(c) /\ <<made[c].name, made[c].how>> \in LeavesOpen
    BY <2>1 DEF SpansLinked, SpanLinked, OwedTo
  <2>3. HeldBy(s) => HeldBy(s)'
    BY <1>1, <1>2 DEF HeldBy
  <2>4. Over(c) => Over(c)'
    <3>1. \A i \in 1..Len(frames') : i \in 1..n \/ i = n + 1
      BY <1>1, <1>2
    <3> QED
      BY <1>1, <1>2, <3>1 DEF Over
  <2> QED
    BY <1>2, <1>3, <2>1, <2>2, <2>3, <2>4, SpanKept
<1>4. CASE Unstarted(h, ctx)
  <2>1. spans' = spans
    BY <1>4 DEF Unstarted
  <2> QED
    BY <1>3, <2>1 DEF SpansLinked, Same
<1>5. CASE Started(h, ctx)
  <2>0. PICK id \in Nat : id = Len(spans) + 1
    BY <1>1
  <2>1. /\ f.held = id /\ f.stored
        /\ \/ h.when = "enter" /\ Began(h, ctx, f.call, TRUE, FALSE)
           \/ h.when = "over" /\ Began(h, ctx, f.call, FALSE, FALSE)
    BY <1>5, <2>0 DEF Started
  <2>2. PICK open \in BOOLEAN : Began(h, ctx, call, open, FALSE) /\ (~open => h.when = "over")
    BY <1>2, <2>1
  <2>3. Len(spans') = id /\ Fresh(spans'[id], Under(h, ctx), h.name, call, open, FALSE)
    BY <2>0, <2>2 DEF Began
  <2>4. \A s \in 1..Len(spans) : Same(spans'[s], spans[s])
    BY <2>2 DEF Began
  <2>5. ~enabled => h.name \in Unasked
    BY <1>2, <2>1, HooksAssumption DEF Asks
  <2>6. HeldBy(id)'
    BY <1>1, <1>2, <2>1 DEF HeldBy
  <2>7. \A i \in 1..Len(frames') : frames'[i].call = call => frames'[i].hook = h
    <3>1. \A i \in 1..Len(frames') : i \in 1..n \/ i = n + 1
      BY <1>1, <1>2
    <3>2. \A i \in 1..n : frames[i].call \in 1..Len(made)
      BY TypeOKIs DEF Typed, FramesRefer
    <3> QED
      BY <1>1, <1>2, <3>1, <3>2
  <2>8. SpanLinked(id)'
    <3>1. /\ call \in Nat \ {0} /\ FALSE \in BOOLEAN
          /\ ~open => \A i \in 1..Len(frames') :
                        frames'[i].call = call => frames'[i].hook.when = "over"
          /\ made'[call].how # "error"
      BY <1>1, <1>2, <2>2, <2>7
    <3>2. /\ made'[call].name = h.name /\ (open => HeldBy(id)')
          /\ ~open /\ made'[call].how = "error" => FALSE \/ h.name \in LosesErrors
          /\ ~enabled' => h.name \in Unasked
      BY <1>2, <2>5, <2>6, <3>1
    <3> HIDE DEF call
    <3>3. PICK err \in BOOLEAN :
            err = FALSE /\ Fresh(spans'[id], Under(h, ctx), h.name, call, open, err)
      BY <2>3
    <3>4. PICK by, under : by = h.name /\ under = Under(h, ctx)
      OBVIOUS
    <3>5. /\ Fresh(spans'[id], under, by, call, open, err)
          /\ made'[call].name = by /\ (open => HeldBy(id)')
          /\ ~open /\ made'[call].how = "error" => err \/ by \in LosesErrors
          /\ ~enabled' => by \in Unasked
      BY <3>2, <3>3, <3>4
    <3> QED
      BY <3>1, <3>5, SpanBegun, ZenonT(30)
  <2>9. \A s \in 1..Len(spans') : s \in 1..Len(spans) \/ s = id
    BY <1>1, <2>0, <2>3
  <2> QED
    BY <1>3, <2>4, <2>8, <2>9 DEF SpansLinked
<1> QED
  BY <1>4, <1>5

\* What ceases to be held, owed or over when a call returns is nothing.
LEMMA SpansReturn ==
  ASSUME TypeOK, SpansLinked, FramesLinked', Stepped, NEW how \in Outcomes, Returned(how)
  PROVE  SpansLinked'
<1> DEFINE n == Len(frames)
<1>1. /\ n \in Nat /\ Len(made) \in Nat
      /\ \A s \in 1..Len(spans) : spans[s].call \in 1..Len(made)
  BY TypeOKIs, Facts DEF Typed, SpansRefer
<1>2. /\ UNCHANGED <<enabled, spans, pending>> /\ Len(frames') = n
      /\ \A i \in 1..n : SameFrame(frames'[i], frames[i])
  BY DEF Returned
<1>3. ASSUME NEW s \in 1..Len(spans)
      PROVE  SpanLinked(s)'
  <2>1. PICK c \in 1..Len(made) : c = spans[s].call
    BY <1>1
  <2>2. \/ ~spans[s].open \/ HeldBy(s) \/ \E x \in pending : x.span = s /\ x.call = c
        \/ Over(c) /\ <<made[c].name, made[c].how>> \in LeavesOpen
    BY <2>1 DEF SpansLinked, SpanLinked, OwedTo
  <2>3. (HeldBy(s) => HeldBy(s)') /\ (Over(c) => Over(c)')
    BY <1>1, <1>2 DEF HeldBy, Over, SameFrame
  <2>4. Same(spans'[s], spans[s])
    BY <1>2 DEF Same
  <2> QED
    BY <1>2, <2>1, <2>2, <2>3, <2>4, SpanKept
<1> QED
  BY <1>2, <1>3 DEF SpansLinked

LEMMA SpansRoute ==
  ASSUME TypeOK, SpansLinked, FramesLinked', Stepped, Routed
  PROVE  SpansLinked'
<1> DEFINE n == Len(frames)
<1>1. /\ n \in Nat /\ Len(made) \in Nat
      /\ \A s \in 1..Len(spans) : spans[s].call \in 1..Len(made)
  BY TypeOKIs, Facts DEF Typed, SpansRefer
<1>2. /\ UNCHANGED <<enabled, made, pending>> /\ Len(frames') = n /\ Len(spans') = Len(spans)
      /\ \A i \in 1..n : SameFrame(frames'[i], frames[i])
      /\ \A s \in 1..Len(spans) : Same(spans'[s], spans[s])
  BY DEF Routed
<1>3. ASSUME NEW s \in 1..Len(spans)
      PROVE  SpanLinked(s)'
  <2>1. PICK c \in 1..Len(made) : c = spans[s].call
    BY <1>1
  <2>2. \/ ~spans[s].open \/ HeldBy(s) \/ \E x \in pending : x.span = s /\ x.call = c
        \/ Over(c) /\ <<made[c].name, made[c].how>> \in LeavesOpen
    BY <2>1 DEF SpansLinked, SpanLinked, OwedTo
  <2>3. (HeldBy(s) => HeldBy(s)') /\ (Over(c) => Over(c)')
    BY <1>1, <1>2 DEF HeldBy, Over, SameFrame
  <2> QED
    BY <1>2, <2>1, <2>2, <2>3, SpanKept
<1> QED
  BY <1>2, <1>3 DEF SpansLinked

LEMMA SpansLate ==
  ASSUME TypeOK, SpansLinked, PendingLinked, FramesLinked', Stepped,
         NEW x \in pending, EndedLate(x)
  PROVE  SpansLinked'
<1>1. /\ Len(made) \in Nat /\ \A s \in 1..Len(spans) : spans[s].call \in 1..Len(made)
      /\ pending \in SUBSET [call : 1..Len(made), span : 0..Len(spans), error : BOOLEAN]
  BY TypeOKIs, Facts DEF Typed, SpansRefer
<1>2. x \in [call : 1..Len(made), span : 0..Len(spans), error : BOOLEAN]
  BY <1>1
<1>3. x.call \in 1..Len(made) /\ x.span \in 0..Len(spans) /\ x.error \in BOOLEAN
  BY <1>2
<1>4. /\ Ended(x.span, x.call, x.error) /\ pending' = pending \ {x}
      /\ UNCHANGED <<enabled, frames, made>> /\ Len(spans') = Len(spans)
  BY DEF EndedLate, Ended
<1>5. EndLinked(x)
  BY DEF PendingLinked
<1>6. \A c : Over(c) => Over(c)'
  BY <1>4 DEF Over
<1>7. ASSUME NEW s \in 1..Len(spans)
      PROVE  SpanLinked(s)'
  <2>1. CASE s = x.span /\ spans[s].open
    <3>1. /\ ~spans'[s].open /\ spans'[s].by = spans[s].by /\ spans'[s].call = spans[s].call
          /\ spans'[s].endedBy = x.call /\ spans'[s].error = x.error
      BY <1>4, <2>1 DEF Ended
    <3>2. /\ spans[s].call = x.call \/ made[x.call].name \in EndsOthers
          /\ made[x.call].how = "error" => x.error \/ made[x.call].name \in LosesErrors
          /\ Over(x.call)
      BY <1>5, <2>1 DEF EndLinked
    <3>3. PICK call \in 1..Len(made), err \in BOOLEAN : call = x.call /\ err = x.error
      BY <1>3
    <3>4. Over(call)'
      BY <1>6, <3>2, <3>3
    <3> QED
      BY <1>4, <2>1, <3>1, <3>2, <3>3, <3>4, SpanClosed
  <2>2. CASE ~(s = x.span /\ spans[s].open)
    <3>1. spans'[s] = spans[s]
      BY <1>4, <2>2 DEF Ended
    <3>2. PICK c \in 1..Len(made) : c = spans[s].call
      BY <1>1
    <3>3. \/ ~spans[s].open \/ HeldBy(s) \/ \E y \in pending : y.span = s /\ y.call = c
          \/ Over(c) /\ <<made[c].name, made[c].how>> \in LeavesOpen
      BY <3>2 DEF SpansLinked, SpanLinked, OwedTo
    <3>4. HeldBy(s) => HeldBy(s)'
      BY <1>4 DEF HeldBy
    <3>5. spans[s].open /\ (\E y \in pending : y.span = s /\ y.call = c) =>
            \E y \in pending' : y.span = s /\ y.call = c
      BY <1>4, <2>2
    <3>6. Same(spans'[s], spans[s])
      BY <3>1 DEF Same
    <3> QED
      BY <1>4, <1>6, <3>2, <3>3, <3>4, <3>5, <3>6, SpanKept
  <2> QED
    BY <2>1, <2>2
<1> QED
  BY <1>4, <1>7 DEF SpansLinked

LEMMA SpansExit ==
  ASSUME TypeOK, Linked, FramesLinked', Stepped, Left,
         LeftIt \/ StartedAfter \/ HandedOn \/ EndedIt
  PROVE  SpansLinked'
<1> DEFINE n == Len(frames)  h == Top.hook  T == Target(Top)
<1>1. /\ n \in Nat /\ n > 1 /\ Top = frames[n] /\ Len(made) \in Nat /\ Len(spans) \in Nat
      /\ \A s \in 1..Len(spans) : spans[s].call \in 1..Len(made)
      /\ Top.call \in 1..Len(made) /\ Top.held \in 0..Len(spans) /\ T \in 0..Len(spans)
      /\ Top.hook \in Callers
  BY TypeOKIs, Facts, TargetOf DEF Typed, SpansRefer, Left, Top
<1>2. /\ UNCHANGED <<enabled, made>> /\ Len(frames') = n - 1
      /\ \A i \in 1..(n - 1) : frames'[i] = frames[i]
  BY DEF Left
<1>3. /\ h \in Hooks /\ made[Top.call].name = h.name /\ made[Top.call].how = Top.how
      /\ Top.held # 0 /\ spans[Top.held].open =>
           \/ <<h.name, Top.how>> \in LeavesOpen
           \/ Does(Top) = "own" /\ T = Top.held /\ h.when = "enter"
      /\ h.name \notin EndsOthers /\ Does(Top) # "nothing" =>
           Does(Top) = "own" /\ T = Top.held /\ Top.stored
      /\ Top.how = "error" => Error(Top) \/ h.name \in LosesErrors
  BY ExitsOwn DEF Linked
<1>4. PICK call \in 1..Len(made) : call = Top.call
  BY <1>1
<1>5. PICK err \in BOOLEAN : err = Error(Top)
  BY DEF Error
\* The call is over, and none that was is not.
<1>6. Over(call)'
  <2>1. \A i \in 1..n : frames[i].call \in 1..Len(made)
    BY TypeOKIs DEF Typed, FramesRefer
  <2>2. \A i \in 1..(n - 1) : frames[i].call < frames[n].call
    BY <1>1 DEF Linked, FramesOrdered
  <2>3. \A i \in 1..(n - 1) : frames[i].call # Top.call
    BY <1>1, <2>1, <2>2
  <2> QED
    BY <1>2, <1>4, <2>3 DEF Over
<1>7. \A c : Over(c) => Over(c)'
  BY <1>1, <1>2 DEF Over
<1>8. FrameLinked(n) /\ SpansLinked
  BY <1>1 DEF Linked, FramesLinked
<1>9. Top.held # 0 => spans[Top.held].call = Top.call
  BY <1>1, <1>8 DEF FrameLinked
\* A span that is left alone.
<1>10. ASSUME NEW s \in 1..Len(spans), Same(spans'[s], spans[s]), pending \subseteq pending',
              \/ s # Top.held \/ ~spans[s].open \/ <<h.name, Top.how>> \in LeavesOpen
              \/ \E x \in pending' : x.span = s /\ x.call = call
       PROVE  SpanLinked(s)'
  <2>1. PICK c \in 1..Len(made) : c = spans[s].call
    BY <1>1
  <2>2. \/ ~spans[s].open \/ HeldBy(s) \/ \E x \in pending : x.span = s /\ x.call = c
        \/ Over(c) /\ <<made[c].name, made[c].how>> \in LeavesOpen
    BY <1>8, <2>1 DEF SpansLinked, SpanLinked, OwedTo
  <2>3. HeldBy(s) => HeldBy(s)' \/ s = Top.held
    <3>1. \A i \in 1..n : i \in 1..(n - 1) \/ i = n
      BY <1>1
    <3> QED
      BY <1>1, <1>2, <3>1 DEF HeldBy
  <2>4. CASE s = Top.held /\ spans[s].open
    <3>1. c = call
      BY <1>1, <1>4, <1>9, <2>1, <2>4
    <3>2. \/ \E x \in pending' : x.span = s /\ x.call = c
          \/ Over(c)' /\ <<made[c].name, made[c].how>> \in LeavesOpen
      BY <1>3, <1>4, <1>6, <1>10, <2>4, <3>1
    <3> QED
      BY <1>2, <1>8, <1>10, <2>1, <3>2, SpanKept
  <2>5. CASE ~(s = Top.held /\ spans[s].open)
    <3>1. spans[s].open => \/ HeldBy(s)' \/ \E x \in pending' : x.span = s /\ x.call = c
                           \/ Over(c)' /\ <<made[c].name, made[c].how>> \in LeavesOpen
      BY <1>7, <1>10, <2>2, <2>3, <2>5
    <3> QED
      BY <1>2, <1>8, <1>10, <2>1, <3>1, SpanKept
  <2> QED
    BY <2>4, <2>5
<1>11. CASE LeftIt
  <2>1. spans' = spans /\ pending' = pending /\ Does(Top) = "nothing"
    BY <1>11 DEF LeftIt
  <2>2. ASSUME NEW s \in 1..Len(spans) PROVE SpanLinked(s)'
    <3>1. s # Top.held \/ ~spans[s].open \/ <<h.name, Top.how>> \in LeavesOpen
      BY <1>3, <2>1
    <3> QED
      BY <1>10, <2>1, <3>1 DEF Same
  <2> QED
    BY <2>1, <2>2 DEF SpansLinked
<1>12. CASE StartedAfter
  <2>0. PICK id \in Nat : id = Len(spans) + 1
    BY <1>1
  <2>1. /\ Began(h, Top.ctx, call, FALSE, err) /\ pending' = pending
        /\ h.when = "exit" /\ Top.stored
    BY <1>4, <1>5, <1>12 DEF StartedAfter
  <2>2. Len(spans') = id /\ Fresh(spans'[id], Under(h, Top.ctx), h.name, call, FALSE, err)
    BY <2>0, <2>1 DEF Began
  <2>3. Top.held = 0
    BY <1>1, <1>8, <2>1 DEF FrameLinked
  <2>4. ASSUME NEW s \in 1..Len(spans) PROVE SpanLinked(s)'
    <3>1. Same(spans'[s], spans[s]) /\ s # Top.held /\ pending \subseteq pending'
      BY <1>1, <2>1, <2>3 DEF Began
    <3> QED
      BY <1>10, <3>1
  <2>5. ~enabled' => h.name \in Unasked
    <3>1. enabled \/ h.asks \intersect {"install", "enter"} = {}
      BY <1>1, <1>8, <2>1 DEF FrameLinked
    <3> QED
      BY <1>2, <1>3, <3>1, HooksAssumption
  <2>6. \A i \in 1..Len(frames') : frames'[i].call # call
    BY <1>6 DEF Over
  <2>7. SpanLinked(id)'
    <3>1. /\ made'[call].name = h.name /\ call \in Nat \ {0} /\ FALSE \in BOOLEAN
          /\ made'[call].how = "error" => err \/ h.name \in LosesErrors
      BY <1>1, <1>2, <1>3, <1>4, <1>5
    <3> HIDE DEF h
    <3> QED
      BY <2>2, <2>5, <2>6, <3>1, SpanBegun
  <2>8. \A s \in 1..Len(spans') : s \in 1..Len(spans) \/ s = id
    BY <1>1, <2>0, <2>2
  <2> QED
    BY <2>4, <2>7, <2>8 DEF SpansLinked
<1>13. CASE HandedOn
  <2> DEFINE x == [call |-> Top.call, span |-> T, error |-> Error(Top)]
  <2>1. spans' = spans /\ pending' = pending \union {x}
    BY <1>13 DEF HandedOn
  <2>2. x \in pending' /\ x.span = T /\ x.call = call
    BY <1>4, <2>1
  <2> HIDE DEF x
  <2>3. ASSUME NEW s \in 1..Len(spans) PROVE SpanLinked(s)'
    <3>1. \/ s # Top.held \/ ~spans[s].open \/ <<h.name, Top.how>> \in LeavesOpen
          \/ \E y \in pending' : y.span = s /\ y.call = call
      BY <1>3, <2>2
    <3>2. Same(spans'[s], spans[s]) /\ pending \subseteq pending'
      BY <2>1 DEF Same
    <3> QED
      BY <1>10, <3>1, <3>2
  <2> QED
    BY <2>1, <2>3 DEF SpansLinked
<1>14. CASE EndedIt
  <2>1. Ended(T, call, err) /\ pending' = pending /\ Does(Top) # "nothing"
    BY <1>4, <1>5, <1>14 DEF EndedIt
  <2>2. ASSUME NEW s \in 1..Len(spans) PROVE SpanLinked(s)'
    <3>1. CASE s = T /\ spans[s].open
      <4>1. /\ ~spans'[s].open /\ spans'[s].by = spans[s].by /\ spans'[s].call = spans[s].call
            /\ spans'[s].endedBy = call /\ spans'[s].error = err
        BY <2>1, <3>1 DEF Ended
      <4>2. spans[s].call = call \/ made[call].name \in EndsOthers
        BY <1>1, <1>3, <1>4, <1>9, <2>1, <3>1
      <4>3. made[call].how = "error" => err \/ made[call].name \in LosesErrors
        BY <1>3, <1>4, <1>5
      <4> QED
        BY <1>2, <1>6, <1>8, <3>1, <4>1, <4>2, <4>3, SpanClosed
    <3>2. CASE ~(s = T /\ spans[s].open)
      <4>1. Same(spans'[s], spans[s])
        BY <2>1, <3>2 DEF Ended, Same
      <4>2. s # Top.held \/ ~spans[s].open \/ <<h.name, Top.how>> \in LeavesOpen
        BY <1>1, <1>3, <3>2
      <4> QED
        BY <1>10, <2>1, <4>1, <4>2
    <3> QED
      BY <3>1, <3>2
  <2>3. Len(spans') = Len(spans)
    BY <2>1 DEF Ended
  <2> QED
    BY <2>2, <2>3 DEF SpansLinked
<1> QED
  BY <1>11, <1>12, <1>13, <1>14

LEMMA SpansStep ==
  ASSUME TypeOK, Linked, FramesLinked', Stepped
  PROVE  SpansLinked'
BY SpansEnter, SpansReturn, SpansExit, SpansLate, SpansRoute DEF Stepped, Linked

LEMMA PendingStep ==
  ASSUME TypeOK, Linked, Stepped
  PROVE  PendingLinked'
<1> DEFINE n == Len(frames)
<1>1. /\ n \in Nat /\ Top = frames[n] /\ Len(made) \in Nat /\ Len(spans) \in Nat
      /\ pending \in SUBSET [call : 1..Len(made), span : 0..Len(spans), error : BOOLEAN]
      /\ \A s \in 1..Len(spans) : SpanStays(s)
      /\ \A c \in 1..Len(made) : CallStays(c)
      /\ Top.call \in 1..Len(made) /\ Top.held \in 0..Len(spans)
      /\ Target(Top) \in 0..Len(spans)
  BY TypeOKIs, Facts, SpansStay, CallsStay, TargetOf DEF Typed, Top
<1>2. ASSUME NEW x \in pending
      PROVE  EndLinked(x)'
  <2>1. x \in [call : 1..Len(made), span : 0..Len(spans), error : BOOLEAN]
    BY <1>1
  <2>2. x.call \in 1..Len(made) /\ x.span \in 0..Len(spans)
    BY <2>1
  <2>3. EndLinked(x)
    BY DEF Linked, PendingLinked
  <2>4. Over(x.call)
    BY <2>3 DEF EndLinked
  <2>5. \A i \in 1..Len(frames') : frames'[i].call # x.call
    BY <1>1, <2>2, <2>4, FramesCome DEF Over, SameFrame
  <2>6. /\ made'[x.call].name = made[x.call].name /\ made'[x.call].how = made[x.call].how
        /\ x.span # 0 => spans'[x.span].call = spans[x.span].call
    <3>1. CallStays(x.call) /\ (x.span # 0 => SpanStays(x.span))
      BY <1>1, <2>2
    <3> QED
      BY <2>4, <3>1 DEF CallStays, SpanStays
  <2> QED
    BY <2>3, <2>5, <2>6 DEF EndLinked, Over
<1>3. CASE pending' \subseteq pending
  BY <1>2, <1>3 DEF PendingLinked
<1>4. CASE Left /\ HandedOn
  <2>0. PICK x : x = [call |-> Top.call, span |-> Target(Top), error |-> Error(Top)]
    OBVIOUS
  <2>1. pending' = pending \union {x} /\ spans' = spans /\ Does(Top) # "nothing"
    BY <1>4, <2>0 DEF HandedOn
  <2>2. x.call = Top.call /\ x.span = Target(Top) /\ x.error = Error(Top)
    BY <2>0
  <2>3. made' = made /\ n > 1 /\ Len(frames') = n - 1
        /\ \A i \in 1..(n - 1) : frames'[i] = frames[i]
    BY <1>4 DEF Left
  <2>4. /\ made[Top.call].name = Top.hook.name /\ made[Top.call].how = Top.how
        /\ Top.hook.name \notin EndsOthers => Target(Top) = Top.held
        /\ Top.how = "error" => Error(Top) \/ Top.hook.name \in LosesErrors
    BY <1>4, <2>1, ExitsOwn DEF Linked
  <2>5. Top.held # 0 => spans[Top.held].call = Top.call
    BY <1>1, <2>3 DEF Linked, FramesLinked, FrameLinked
  <2>6. \A i \in 1..(n - 1) : frames[i].call # Top.call
    <3>1. \A i \in 1..n : frames[i].call \in 1..Len(made)
      BY TypeOKIs DEF Typed, FramesRefer
    <3>2. \A i \in 1..(n - 1) : frames[i].call < frames[n].call
      BY <1>1, <2>3 DEF Linked, FramesOrdered
    <3> QED
      BY <1>1, <3>1, <3>2
  <2>7. EndLinked(x)'
    BY <2>1, <2>2, <2>3, <2>4, <2>5, <2>6 DEF EndLinked, Over
  <2> QED
    BY <1>2, <2>1, <2>7 DEF PendingLinked
<1>5. ASSUME NEW h, NEW ctx, Entered(h, ctx) PROVE pending' \subseteq pending
  BY <1>5 DEF Entered
<1>6. ASSUME NEW how, Returned(how) PROVE pending' \subseteq pending
  BY <1>6 DEF Returned
<1>7. ASSUME NEW x, EndedLate(x) PROVE pending' \subseteq pending
  BY <1>7 DEF EndedLate
<1>8. CASE LeftIt \/ StartedAfter \/ EndedIt \/ Routed
  BY <1>3, <1>8 DEF LeftIt, StartedAfter, EndedIt, Routed
<1> QED
  BY <1>3, <1>4, <1>5, <1>6, <1>7, <1>8, Zenon DEF Stepped

LEMMA InitLinked ==
  ASSUME Init
  PROVE  Linked
<1>1. TypeOK
  BY InitTyped
<1>2. made[1].name = App.name /\ made[1].how = "running" /\ pending = {} /\ Len(made) = 1
  BY DEF Init
<1>3. ~App.server /\ ~App.routes /\ App.when = "enter"
  BY DEF App, Hook
<1>4. PICK held, stored, f :
        /\ held \in {0, 1} /\ stored \in BOOLEAN
        /\ f = Frame(App, 1, 0, held, held, stored) /\ frames = <<f>>
        /\ \/ held = 0 /\ spans = <<>>
           \/ held = 1 /\ stored /\ spans = <<NewSpan(0, App.name, 1)>>
  BY Zenon DEF Init
<1>5. App \in Callers /\ held \in Nat /\ 0 \in Nat /\ 1 \in Nat \ {0}
  BY <1>4 DEF Callers
<1>6. FrameIs(f, App, 1, 0, held, held, stored)
  BY <1>4, <1>5, FrameOf
<1>7. Len(frames) = 1 /\ frames[1] = f
  BY <1>4
<1>8. held = 1 => /\ Len(spans) = 1 /\ spans[1] = NewSpan(0, App.name, 1)
                  /\ Fresh(spans[1], 0, App.name, 1, TRUE, FALSE)
  <2>1. App.name \in CallerNames
    BY DEF CallerNames, Callers
  <2>2. PICK t : t = NewSpan(0, App.name, 1)
    OBVIOUS
  <2>3. t \in SpanType /\ Fresh(t, 0, App.name, 1, TRUE, FALSE)
    BY <1>5, <2>1, <2>2, NewSpanOf
  <2>4. ASSUME held = 1
        PROVE  Len(spans) = 1 /\ spans[1] = t
    BY <1>4, <2>2, <2>3, <2>4, Single
  <2> QED
    BY <2>2, <2>3, <2>4
<1>9. FrameLinked(1)
  BY <1>2, <1>3, <1>4, <1>6, <1>7, <1>8 DEF FrameLinked, FrameIs, Fresh
<1>10. FramesLinked /\ FramesOrdered
  BY <1>7, <1>9 DEF FramesLinked, FramesOrdered
<1>11. ASSUME held = 1 PROVE SpanLinked(1)
  <2>1. HeldBy(1)
    BY <1>6, <1>7, <1>11 DEF HeldBy, FrameIs
  <2> QED
    BY <1>2, <1>8, <1>11, <2>1 DEF SpanLinked, Fresh
<1>12. SpansLinked
  <2>1. CASE held = 0
    <3>1. Len(spans) = 0
      BY <1>4, <2>1
    <3> QED
      BY <3>1 DEF SpansLinked
  <2>2. CASE held = 1
    <3>1. Len(spans) = 1 /\ SpanLinked(1)
      BY <1>8, <1>11, <2>2
    <3> QED
      BY <3>1 DEF SpansLinked
  <2> QED
    BY <1>4, <2>1, <2>2
<1> QED
  BY <1>2, <1>10, <1>12 DEF Linked, PendingLinked

LEMMA LinkedStep ==
  ASSUME TypeOK, Linked, Stepped
  PROVE  Linked'
BY FramesStep, OrderStep, SpansStep, PendingStep DEF Linked

LEMMA LinkedNext == TypeOK /\ Linked /\ [Next]_vars => Linked'
<1>1. ASSUME TypeOK, Linked, UNCHANGED vars PROVE Linked'
  BY <1>1 DEF vars, Linked, FramesLinked, FramesOrdered, SpansLinked, PendingLinked,
              FrameLinked, SpanLinked, EndLinked, HeldBy, OwedTo, Over
<1> QED
  BY <1>1, NextDoes, LinkedStep

LEMMA LinkedAlways == Spec => [](TypeOK /\ Linked)
BY InitTyped, NextTyped, InitLinked, LinkedNext, PTL DEF Spec

\* What the hooks end and what they start when they are switched off: a hook that
\* is not an exception ends its own span, and starts none when it is disabled.
THEOREM AlwaysConfined == Spec => []Confined
<1>1. TypeOK /\ Linked => Confined
  BY Facts DEF Linked, SpansLinked, SpanLinked, Confined, OwnSpanOnly, SwitchedOff
<1> QED
  BY <1>1, LinkedAlways, PTL

\* However a call ends, its span is over or its end is under way when it has
\* returned, and says whether the call failed.
THEOREM AlwaysSettled == Spec => []Settled
<1>1. ASSUME TypeOK, Linked PROVE Settled
  <2>1. /\ DOMAIN spans = 1..Len(spans) /\ DOMAIN frames = 1..Len(frames)
        /\ \A s \in 1..Len(spans) : SpanLinked(s)
        /\ \A i \in 1..Len(frames) : FrameLinked(i)
    BY <1>1, Facts DEF Linked, SpansLinked, FramesLinked
  <2>2. ASSUME NEW s \in 1..Len(spans), spans[s].open
        PROVE  \/ spans[s].call \in Running \union Owed
               \/ LET c == made[spans[s].call] IN <<c.name, c.how>> \in LeavesOpen
    <3>1. \/ HeldBy(s) \/ OwedTo(s)
          \/ LET c == made[spans[s].call] IN <<c.name, c.how>> \in LeavesOpen
      BY <2>1, <2>2 DEF SpanLinked
    <3>2. HeldBy(s) => spans[s].call \in Running
      <4>1. ASSUME NEW i \in 1..Len(frames), frames[i].held = s
            PROVE  frames[i].call = spans[s].call
        <5>1. s # 0
          BY Facts
        <5> QED
          BY <2>1, <4>1, <5>1 DEF FrameLinked
      <4> QED
        BY <2>1, <4>1 DEF HeldBy, Running
    <3>3. OwedTo(s) => spans[s].call \in Owed
      BY DEF OwedTo, Owed
    <3> QED
      BY <3>1, <3>2, <3>3
  <2>3. EndedOnReturn
    BY <2>1, <2>2 DEF EndedOnReturn
  <2>4. ErrorShown
    BY <2>1 DEF ErrorShown, SpanLinked
  <2> QED
    BY <2>3, <2>4 DEF Settled
<1> QED
  BY <1>1, LinkedAlways, PTL

(* What holds as long as no call disturbs the others.                      *)

\* No call so far ends a span that is not its own or leaves its own open.
Undisturbed == \A c \in 1..Len(made) :
  /\ made[c].name \notin EndsOthers
  /\ made[c].how # "running" => <<made[c].name, made[c].how>> \notin LeavesOpen

\* The goroutine lists no span of a call that is over.
Tidy == \A s \in gls : HeldBy(s)

\* The span of a call that is under way is listed and open, but for hooks that end
\* it at once.
HeldListed == \A i \in 1..Len(frames) :
  frames[i].held # 0 /\ frames[i].hook.when = "enter" =>
    frames[i].held \in gls /\ spans[frames[i].held].open

\* The local root is the oldest of the spans listed.
RootFirst == gls # {} => lcs \in gls /\ \A t \in gls : lcs <= t

\* The route is on the span of the request or on that of the application.
RouteKept == \A i \in 1..Len(frames) :
  frames[i].routed /\ frames[i].held # 0 =>
    \E s \in {frames[i].held, frames[1].held} :
      s # 0 /\ spans[s].open /\ spans[s].route = frames[i].call

Calm ==
  /\ Undisturbed => HeldListed
  /\ Undisturbed /\ Tidy => RootFirst /\ RouteKept

\* A frame that holds an open span, or one of a request, is of a hook that ends it
\* after the call.
LEMMA EndsAfter ==
  ASSUME TypeOK, FramesLinked, NEW i \in 1..Len(frames), frames[i].held # 0,
         spans[frames[i].held].open \/ frames[i].hook.server
  PROVE  frames[i].hook.when = "enter"
<1>1. FrameLinked(i)
  BY DEF FramesLinked
<1>2. CASE i = 1
  <2>1. frames[i].hook = App
    BY <1>1, <1>2 DEF FrameLinked
  <2>2. App.when = "enter"
    BY DEF App, Hook
  <2> QED
    BY <2>1, <2>2
<1>3. CASE i # 1
  <2>1. /\ frames[i].hook \in Hooks /\ frames[i].hook.when # "exit"
        /\ frames[i].hook.when = "over" => ~spans[frames[i].held].open
    BY <1>1, <1>3 DEF FrameLinked
  <2>2. /\ frames[i].hook \in HookType
        /\ frames[i].hook.when = "over" => ~frames[i].hook.server
    BY <2>1, HooksAssumption
  <2>3. frames[i].hook.when \in {"enter", "exit", "over"}
    BY <2>2 DEF HookType
  <2> QED
    BY <2>1, <2>2, <2>3
<1> QED
  BY <1>2, <1>3

\* Different frames hold different spans.
LEMMA HeldApart ==
  ASSUME TypeOK, FramesOrdered, NEW i \in 1..Len(frames), NEW j \in 1..Len(frames), i < j,
         frames[i].held # 0
  PROVE  frames[i].held # frames[j].held
<1>1. frames[i].held \in 0..Len(spans) /\ frames[j].held \in 0..Len(spans) /\ Len(spans) \in Nat
  BY TypeOKIs, Facts DEF Typed, FramesRefer
<1>2. CASE frames[j].held = 0
  BY <1>2
<1>3. CASE frames[j].held # 0
  <2>1. frames[i].held < frames[j].held
    BY <1>3 DEF FramesOrdered
  <2> QED
    BY <1>1, <2>1
<1> QED
  BY <1>2, <1>3

\* What disturbs the others goes on to.
LEMMA UndisturbedBefore ==
  ASSUME TypeOK, Linked, Stepped, Undisturbed'
  PROVE  Undisturbed
<1>1. /\ Len(made) \in Nat /\ Len(made') \in Nat /\ Len(made') >= Len(made)
      /\ \A c \in 1..Len(made) : made'[c].name = made[c].name
  BY Facts, CallsStay DEF CallStays
<1>2. ASSUME NEW c \in 1..Len(made), made[c].how # "running"
      PROVE  made'[c].how = made[c].how
  <2>1. CASE Over(c)
    BY <1>2, <2>1, CallsStay DEF CallStays
  <2>2. CASE ~Over(c)
    <3>1. PICK i \in 1..Len(frames) : frames[i].call = c
      BY <2>2 DEF Over
    <3>2. frames[i].how # "running"
      BY <1>2, <3>1 DEF Linked, FramesLinked, FrameLinked
    <3>3. ASSUME NEW how, Returned(how)
          PROVE  made'[c].how = made[c].how
      <4>1. c # Top.call
        <5>1. Top.how = "running" /\ Len(frames) \in 1..Len(frames) /\ Top = frames[Len(frames)]
          BY <3>3, Facts DEF Returned, Top
        <5>2. made[Top.call].how = Top.how
          BY <5>1 DEF Linked, FramesLinked, FrameLinked
        <5> QED
          BY <1>2, <5>1, <5>2
      <4> QED
        BY <3>3, <4>1 DEF Returned
    <3>4. ASSUME NEW h, NEW ctx, Entered(h, ctx)
          PROVE  made'[c].how = made[c].how
      BY <3>4 DEF Entered
    <3>5. CASE Left \/ Routed \/ \E x \in pending : EndedLate(x)
      <4>1. made' = made
        BY <3>5, Zenon DEF Left, Routed, EndedLate
      <4> QED
        BY <4>1
    <3> QED
      BY <3>3, <3>4, <3>5, Zenon DEF Stepped
  <2> QED
    BY <2>1, <2>2
<1>3. ASSUME NEW c \in 1..Len(made)
      PROVE  /\ made[c].name \notin EndsOthers
             /\ made[c].how # "running" => <<made[c].name, made[c].how>> \notin LeavesOpen
  <2>1. c \in 1..Len(made')
    BY <1>1
  <2>2. /\ made'[c].name \notin EndsOthers
        /\ made'[c].how # "running" => <<made'[c].name, made'[c].how>> \notin LeavesOpen
    BY <2>1 DEF Undisturbed
  <2> QED
    BY <1>1, <1>2, <2>2
<1> QED
  BY <1>3 DEF Undisturbed

\* What a second half ends of which nobody is disturbed.
LEMMA ExitsOwnOnly ==
  ASSUME TypeOK, Linked, Left, EndedIt, Undisturbed
  PROVE  /\ Ended(Top.held, Top.call, Error(Top)) /\ gls' = gls \ {Top.held}
         /\ UNCHANGED <<lcs, pending>>
<1>1. Top.call \in 1..Len(made)
  BY Facts
<1>2. made[Top.call].name = Top.hook.name
  BY ExitsOwn DEF Linked
<1>3. Top.hook.name \notin EndsOthers
  BY <1>1, <1>2 DEF Undisturbed
<1>4. Target(Top) = Top.held
  BY <1>3, ExitsOwn DEF Linked, EndedIt
<1> QED
  BY <1>4 DEF EndedIt

\* What a call ends late is not the span of a call that is under way.
LEMMA LateIsOver ==
  ASSUME TypeOK, Linked, Undisturbed, NEW x \in pending, EndedLate(x),
         NEW i \in 1..Len(frames), frames[i].held # 0
  PROVE  spans'[frames[i].held] = spans[frames[i].held]
<1>1. x \in [call : 1..Len(made), span : 0..Len(spans), error : BOOLEAN]
  BY TypeOKIs DEF Typed
<1>2. x.call \in 1..Len(made) /\ frames[i].held \in 1..Len(spans)
  BY <1>1, TypeOKIs, Facts DEF Typed, FramesRefer
<1>3. spans[frames[i].held].call = frames[i].call
  BY DEF Linked, FramesLinked, FrameLinked
<1>4. /\ Over(x.call)
      /\ x.span = 0 \/ spans[x.span].call = x.call \/ made[x.call].name \in EndsOthers
  BY DEF Linked, PendingLinked, EndLinked
<1>5. frames[i].held # x.span
  BY <1>2, <1>3, <1>4 DEF Undisturbed, Over
<1>6. Ended(x.span, x.call, x.error)
  BY DEF EndedLate
<1> QED
  BY <1>2, <1>5, <1>6 DEF Ended

LEMMA TidyBefore ==
  ASSUME TypeOK, Linked, Undisturbed, Stepped, Tidy'
  PROVE  Tidy
<1> DEFINE n == Len(frames)
<1>1. n \in Nat /\ n >= 1 /\ Top = frames[n] /\ Len(spans) \in Nat /\ gls \in SUBSET (1..Len(spans))
  BY Facts, TypeOKIs DEF Typed, Top
<1>2. ASSUME NEW s \in gls, s \in gls', \A i \in 1..Len(frames') :
               frames'[i].held = s => i \in 1..n /\ SameFrame(frames'[i], frames[i])
      PROVE  HeldBy(s)
  <2>1. PICK i \in 1..Len(frames') : frames'[i].held = s
    BY <1>2 DEF Tidy, HeldBy
  <2> QED
    BY <1>2, <2>1 DEF HeldBy, SameFrame
<1>3. \A i \in 1..n : SameFrame(frames[i], frames[i])
  BY DEF SameFrame
<1>4. ASSUME NEW h, NEW ctx, Entered(h, ctx), Unstarted(h, ctx) \/ Started(h, ctx)
      PROVE  Tidy
  <2>1. /\ Len(frames') = n + 1 /\ \A i \in 1..n : frames'[i] = frames[i]
        /\ frames'[n + 1].held = 0 \/ frames'[n + 1].held = Len(spans) + 1
        /\ gls \subseteq gls'
    BY <1>4 DEF Entered, Unstarted, Started
  <2>2. \A i \in 1..Len(frames') : i \in 1..n \/ i = n + 1
    BY <1>1, <2>1
  <2>3. ASSUME NEW s \in gls PROVE HeldBy(s)
    <3>1. s # 0 /\ s # Len(spans) + 1
      BY <1>1
    <3> QED
      BY <1>2, <1>3, <2>1, <2>2, <3>1
  <2> QED
    BY <2>3 DEF Tidy
<1>5. ASSUME gls \subseteq gls',
             \A i \in 1..Len(frames') : i \in 1..n /\ SameFrame(frames'[i], frames[i])
      PROVE  Tidy
  BY <1>2, <1>5 DEF Tidy
<1>6. ASSUME NEW how, Returned(how) PROVE Tidy
  BY <1>5, <1>6 DEF Returned
<1>7. CASE Routed
  BY <1>5, <1>7 DEF Routed
<1>8. ASSUME NEW x \in pending, EndedLate(x) PROVE Tidy
  <2>1. frames' = frames /\ gls' = gls
    BY <1>8 DEF EndedLate
  <2> QED
    BY <1>3, <1>5, <2>1
<1>9. CASE Left /\ (LeftIt \/ StartedAfter \/ HandedOn)
  <2>1. gls' = gls
    BY <1>9 DEF LeftIt, StartedAfter, HandedOn
  <2>2. \A i \in 1..Len(frames') : i \in 1..n /\ frames'[i] = frames[i]
    BY <1>1, <1>9 DEF Left
  <2> QED
    BY <1>3, <1>5, <2>1, <2>2
<1>10. CASE Left /\ EndedIt
  <2>1. gls' = gls \ {Top.held}
    BY <1>10, ExitsOwnOnly
  <2>2. \A i \in 1..Len(frames') : i \in 1..n /\ frames'[i] = frames[i]
    BY <1>1, <1>10 DEF Left
  <2>3. ASSUME NEW s \in gls PROVE HeldBy(s)
    <3>1. CASE s = Top.held
      BY <1>1, <3>1 DEF HeldBy
    <3>2. CASE s # Top.held
      BY <1>2, <1>3, <2>1, <2>2, <3>2
    <3> QED
      BY <3>1, <3>2
  <2> QED
    BY <2>3 DEF Tidy
<1> QED
  BY <1>4, <1>6, <1>7, <1>8, <1>9, <1>10, Zenon DEF Stepped

LEMMA HeldListedStep ==
  ASSUME TypeOK, Linked, Undisturbed, HeldListed, Stepped
  PROVE  HeldListed'
<1> DEFINE n == Len(frames)
           Listed(i) == frames[i].held \in gls' /\ spans'[frames[i].held].open
<1>1. /\ n \in Nat /\ n >= 1 /\ Top = frames[n] /\ Len(spans) \in Nat
      /\ \A i \in 1..n : frames[i].held \in 0..Len(spans)
  BY Facts, TypeOKIs DEF Typed, FramesRefer, Top
<1>2. \A i \in 1..n : SameFrame(frames[i], frames[i])
  BY DEF SameFrame
<1>3. ASSUME \A i \in 1..Len(frames') : i \in 1..n /\ SameFrame(frames'[i], frames[i]),
             \A i \in 1..Len(frames') :
               frames[i].held # 0 /\ frames[i].hook.when = "enter" => Listed(i)
      PROVE  HeldListed'
  BY <1>3 DEF HeldListed, SameFrame
<1>4. ASSUME NEW h, NEW ctx, Entered(h, ctx), Unstarted(h, ctx) \/ Started(h, ctx)
      PROVE  HeldListed'
  <2>1. PICK k : k = n + 1
    OBVIOUS
  <2>2. /\ Len(frames') = k /\ \A i \in 1..n : frames'[i] = frames[i]
        /\ frames'[k].hook = h
    BY <1>4, <2>1 DEF Entered
  <2>3. /\ \A s \in 1..Len(spans) : spans'[s].open = spans[s].open
        /\ gls \subseteq gls'
    BY <1>4 DEF Unstarted, Started, Began, Same
  <2>4. frames'[k].held # 0 /\ h.when = "enter" =>
          frames'[k].held \in gls' /\ spans'[frames'[k].held].open
    BY <1>4, <2>1 DEF Unstarted, Started, Began, Fresh
  <2>5. ASSUME NEW i \in 1..n, frames[i].held # 0, frames[i].hook.when = "enter"
        PROVE  Listed(i)
    <3>1. frames[i].held \in 1..Len(spans)
      BY <1>1, <2>5
    <3> QED
      BY <2>3, <2>5, <3>1 DEF HeldListed
  <2>6. \A i \in 1..Len(frames') : i \in 1..n \/ i = k
    BY <1>1, <2>1, <2>2
  <2> HIDE DEF n
  <2> QED
    BY <2>2, <2>4, <2>5, <2>6 DEF HeldListed
<1>5. ASSUME \A i \in 1..Len(frames') : i \in 1..n /\ SameFrame(frames'[i], frames[i]),
             \A s \in 1..Len(spans) : spans'[s].open = spans[s].open, gls' = gls
      PROVE  HeldListed'
  <2>1. ASSUME NEW i \in 1..n, frames[i].held # 0, frames[i].hook.when = "enter"
        PROVE  Listed(i)
    <3>1. frames[i].held \in 1..Len(spans)
      BY <1>1, <2>1
    <3> QED
      BY <1>5, <2>1, <3>1 DEF HeldListed
  <2> QED
    BY <1>3, <1>5, <2>1
<1>6. ASSUME NEW how, Returned(how) PROVE HeldListed'
  BY <1>5, <1>6 DEF Returned
<1>7. CASE Routed
  BY <1>5, <1>7 DEF Routed, Same
<1>8. ASSUME NEW x \in pending, EndedLate(x) PROVE HeldListed'
  <2>1. frames' = frames /\ gls' = gls
    BY <1>8 DEF EndedLate
  <2>2. ASSUME NEW i \in 1..n, frames[i].held # 0, frames[i].hook.when = "enter"
        PROVE  Listed(i)
    <3>1. spans'[frames[i].held] = spans[frames[i].held]
      BY <1>8, <2>2, LateIsOver
    <3> QED
      BY <2>1, <2>2, <3>1 DEF HeldListed
  <2> QED
    BY <1>2, <1>3, <2>1, <2>2
<1>9. ASSUME Left PROVE \A i \in 1..Len(frames') : i \in 1..n /\ i < n /\ frames'[i] = frames[i]
  BY <1>1, <1>9 DEF Left
<1>10. CASE Left /\ (LeftIt \/ StartedAfter \/ HandedOn)
  <2>1. gls' = gls /\ \A s \in 1..Len(spans) : spans'[s].open = spans[s].open
    BY <1>10 DEF LeftIt, StartedAfter, HandedOn, Began, Same
  <2> QED
    BY <1>2, <1>5, <1>9, <1>10, <2>1
<1>11. CASE Left /\ EndedIt
  <2>1. Ended(Top.held, Top.call, Error(Top)) /\ gls' = gls \ {Top.held}
    BY <1>11, ExitsOwnOnly
  <2>2. ASSUME NEW i \in 1..n, i < n, frames[i].held # 0, frames[i].hook.when = "enter"
        PROVE  Listed(i)
    <3>1. frames[i].held \in 1..Len(spans) /\ n \in 1..n
      BY <1>1, <2>2
    <3>2. frames[i].held # Top.held
      BY <1>1, <2>2, <3>1, HeldApart DEF Linked
    <3> QED
      BY <2>1, <2>2, <3>1, <3>2 DEF HeldListed, Ended
  <2> QED
    BY <1>2, <1>3, <1>9, <1>11, <2>2
<1> QED
  BY <1>4, <1>6, <1>7, <1>8, <1>10, <1>11, Zenon DEF Stepped

LEMMA RootFirstStep ==
  ASSUME TypeOK, Linked, Undisturbed, Tidy, RootFirst, Stepped
  PROVE  RootFirst'
<1> DEFINE n == Len(frames)
<1>1. /\ n \in Nat /\ n >= 1 /\ Top = frames[n] /\ Len(spans) \in Nat
      /\ gls \in SUBSET (1..Len(spans)) /\ lcs \in 0..Len(spans)
      /\ \A i \in 1..n : frames[i].held \in 0..Len(spans)
  BY Facts, TypeOKIs DEF Typed, FramesRefer, Top
<1>2. CASE gls' = gls /\ (lcs' = lcs \/ lcs' = IF gls = {} THEN Len(spans) + 1 ELSE lcs)
  BY <1>2 DEF RootFirst
<1>3. CASE /\ gls' = gls \union {Len(spans) + 1}
           /\ lcs' = IF gls = {} THEN Len(spans) + 1 ELSE lcs
  <2>1. CASE gls = {}
    BY <1>1, <1>3, <2>1 DEF RootFirst
  <2>2. CASE gls # {}
    <3>1. lcs' = lcs /\ lcs \in gls /\ \A t \in gls : lcs <= t
      BY <1>3, <2>2 DEF RootFirst
    <3>2. lcs <= Len(spans) + 1
      BY <1>1
    <3> QED
      BY <1>3, <3>1, <3>2 DEF RootFirst
  <2> QED
    BY <2>1, <2>2
<1>4. CASE Left /\ EndedIt
  <2>1. gls' = gls \ {Top.held} /\ lcs' = lcs
    BY <1>4, ExitsOwnOnly
  <2>2. ASSUME NEW t \in gls' PROVE lcs # Top.held
    <3>1. t \in gls /\ t # Top.held /\ lcs \in gls /\ lcs <= t
      BY <2>1, <2>2 DEF RootFirst
    <3>2. PICK j \in 1..n : frames[j].held = t
      BY <3>1 DEF Tidy, HeldBy
    <3>3. j < n /\ n \in 1..n /\ t # 0
      BY <1>1, <3>1, <3>2
    <3>4. Top.held # 0 => t < Top.held
      BY <1>1, <3>2, <3>3 DEF Linked, FramesOrdered
    <3> HIDE DEF n
    <3>5. lcs \in 1..Len(spans) /\ t \in 1..Len(spans) /\ Len(spans) \in Nat
      BY <1>1, <3>1
    <3> QED
      BY <3>1, <3>4, <3>5
  <2> QED
    BY <2>1, <2>2 DEF RootFirst
<1>5. CASE \E h \in Hooks, ctx \in {Top.inside, 0} : Unstarted(h, ctx) \/ Started(h, ctx)
  BY <1>2, <1>3, <1>5 DEF Unstarted, Started
<1>6. CASE LeftIt \/ StartedAfter \/ HandedOn
  BY <1>2, <1>6 DEF LeftIt, StartedAfter, HandedOn
<1>7. CASE Routed \/ (\E x \in pending : EndedLate(x)) \/ (\E how \in Outcomes : Returned(how))
  <2>1. gls' = gls /\ lcs' = lcs
    BY <1>7, Zenon DEF Routed, EndedLate, Returned
  <2> QED
    BY <1>2, <2>1
<1> QED
  BY <1>4, <1>5, <1>6, <1>7, Zenon DEF Stepped

LEMMA RouteKeptStep ==
  ASSUME TypeOK, Linked, Undisturbed, Tidy, HeldListed, RootFirst, RouteKept, Stepped
  PROVE  RouteKept'
<1> DEFINE n == Len(frames)
           Stays(s) == s # 0 /\ spans[s].open => spans'[s].open /\ spans'[s].route = spans[s].route
<1>1. /\ n \in Nat /\ n >= 1 /\ n \in 1..n /\ 1 \in 1..n /\ Top = frames[n]
      /\ Len(spans) \in Nat
      /\ gls \in SUBSET (1..Len(spans))
      /\ \A i \in 1..n : frames[i].held \in 0..Len(spans)
  BY Facts, TypeOKIs, SMTT(30) DEF Typed, FramesRefer, Top
<1>2. \A i \in 1..n : /\ frames[i].hook.server \/ frames[i].hook.routes => i = 2
                      /\ frames[i].routed => frames[i].hook.server
  BY DEF Linked, FramesLinked, FrameLinked
<1>3. \A i \in 1..n : SameFrame(frames[i], frames[i])
  BY DEF SameFrame
<1>4. ASSUME NEW i \in 1..Len(frames'), i \in 1..n, 1 \in 1..Len(frames'),
             SameFrame(frames'[i], frames[i]), SameFrame(frames'[1], frames[1]),
             frames'[i].routed, frames[i].routed, frames'[i].held # 0,
             Stays(frames[i].held), Stays(frames[1].held)
      PROVE  \E s \in {frames'[i].held, frames'[1].held} :
               s # 0 /\ spans'[s].open /\ spans'[s].route = frames'[i].call
  <2>1. PICK s \in {frames[i].held, frames[1].held} :
          s # 0 /\ spans[s].open /\ spans[s].route = frames[i].call
    BY <1>4 DEF RouteKept, SameFrame
  <2> QED
    BY <1>4, <2>1 DEF SameFrame
<1>5. ASSUME \A i \in 1..Len(frames') : /\ i \in 1..n /\ SameFrame(frames'[i], frames[i])
                                        /\ frames'[i].routed => frames[i].routed
                                        /\ Stays(frames[i].held),
             Len(frames') \in Nat
      PROVE  RouteKept'
  <2>1. \A i \in 1..Len(frames') : 1 \in 1..Len(frames')
    BY <1>5
  <2> HIDE DEF Stays, n
  <2> QED
    BY <1>4, <1>5, <2>1 DEF RouteKept
<1>6. ASSUME NEW h, NEW ctx, NEW call, NEW open, NEW err, Began(h, ctx, call, open, err), ~h.routes
      PROVE  \A i \in 1..n : Stays(frames[i].held)
  <2>1. \A s \in 1..Len(spans) : Stays(s)
    BY <1>6 DEF Began, Same
  <2>2. \A i \in 1..n : frames[i].held = 0 \/ frames[i].held \in 1..Len(spans)
    BY <1>1
  <2> QED
    BY <2>1, <2>2
<1>7. ASSUME NEW h \in Hooks, NEW ctx, Entered(h, ctx), Unstarted(h, ctx) \/ Started(h, ctx),
             h.server \/ h.routes => n = 1
      PROVE  RouteKept'
  <2>1. PICK k : k = n + 1
    OBVIOUS
  <2>2. /\ Len(frames') = k /\ \A i \in 1..n : frames'[i] = frames[i]
        /\ ~frames'[k].routed
    BY <1>7, <2>1 DEF Entered
  <2>3. /\ \A i \in 1..Len(frames') : i \in 1..n \/ i = k
        /\ 1 \in 1..Len(frames')
    BY <1>1, <2>1, <2>2
  <2>4. CASE h.routes
    <3>1. n = 1
      BY <1>7, <2>4
    <3>2. \A i \in 1..n : ~frames[i].routed
      BY <1>2, <3>1
    <3> HIDE DEF n
    <3> QED
      BY <2>2, <2>3, <3>2 DEF RouteKept
  <2>5. CASE ~h.routes
    <3>1. \A i \in 1..n : Stays(frames[i].held)
      BY <1>6, <1>7, <2>5, Zenon DEF Unstarted, Started
    <3> HIDE DEF Stays, n
    <3> QED
      BY <1>1, <1>3, <1>4, <2>2, <2>3, <3>1 DEF RouteKept
  <2> QED
    BY <2>4, <2>5
<1>8. ASSUME NEW how, Returned(how) PROVE RouteKept'
  BY <1>1, <1>5, <1>8 DEF Returned
<1>9. ASSUME NEW x \in pending, EndedLate(x) PROVE RouteKept'
  <2>1. frames' = frames
    BY <1>9 DEF EndedLate
  <2>2. ASSUME NEW i \in 1..n PROVE Stays(frames[i].held)
    BY <1>9, LateIsOver
  <2> QED
    BY <1>1, <1>3, <1>5, <2>1, <2>2
<1>10. ASSUME Left
       PROVE  /\ Len(frames') \in Nat /\ Len(frames') = n - 1
              /\ \A i \in 1..Len(frames') : i \in 1..n /\ i < n /\ frames'[i] = frames[i]
  BY <1>1, <1>10 DEF Left
<1>11. CASE Left /\ (LeftIt \/ HandedOn)
  <2>1. spans' = spans
    BY <1>11 DEF LeftIt, HandedOn
  <2> QED
    BY <1>3, <1>5, <1>10, <1>11, <2>1
<1>12. CASE Left /\ StartedAfter
  <2>1. CASE Top.hook.routes
    <3>1. n = 2
      BY <1>1, <1>2, <2>1
    <3>2. \A i \in 1..Len(frames') : ~frames'[i].routed
      BY <1>2, <1>10, <1>12, <3>1
    <3> QED
      BY <3>2 DEF RouteKept
  <2>2. CASE ~Top.hook.routes
    <3>1. \A i \in 1..n : Stays(frames[i].held)
      BY <1>6, <1>12, <2>2, Zenon DEF StartedAfter
    <3> HIDE DEF Stays
    <3> QED
      BY <1>3, <1>5, <1>10, <1>12, <3>1
  <2> QED
    BY <2>1, <2>2
<1>13. CASE Left /\ EndedIt
  <2>1. Ended(Top.held, Top.call, Error(Top))
    BY <1>13, ExitsOwnOnly
  <2>2. ASSUME NEW i \in 1..n, i < n PROVE Stays(frames[i].held)
    <3>1. CASE frames[i].held = 0
      BY <3>1
    <3>2. CASE frames[i].held # 0
      <4>1. frames[i].held \in 1..Len(spans)
        BY <1>1, <3>2
      <4>2. frames[i].held # Top.held
        BY <1>1, <2>2, <3>2, HeldApart DEF Linked
      <4> QED
        BY <2>1, <4>1, <4>2 DEF Ended
    <3> QED
      BY <3>1, <3>2
  <2> HIDE DEF Stays
  <2> QED
    BY <1>3, <1>5, <1>10, <1>13, <2>2
<1>14. CASE Routed
  <2>1. /\ Len(frames') = n /\ \A i \in 1..n : /\ SameFrame(frames'[i], frames[i])
                                               /\ frames'[i].routed = (i = n \/ frames[i].routed)
        /\ Top.hook.server
        /\ \A s \in 1..Len(spans) :
             /\ spans'[s].open = spans[s].open
             /\ spans'[s].route = IF s = lcs /\ spans[s].open THEN Top.call ELSE spans[s].route
    BY <1>14 DEF Routed, Same
  <2>2. n = 2
    BY <1>1, <1>2, <2>1
  <2>3. ASSUME NEW i \in 1..n, frames'[i].routed, frames'[i].held # 0
        PROVE  \E s \in {frames'[i].held, frames'[1].held} :
                 s # 0 /\ spans'[s].open /\ spans'[s].route = frames'[i].call
    <3>1. i = 2
      BY <1>2, <2>1, <2>2, <2>3
    <3>2. Top.held # 0
      BY <1>1, <2>1, <2>2, <2>3, <3>1 DEF SameFrame
    <3>3. Top.held \in gls
      BY <1>1, <2>1, <3>2, EndsAfter DEF Linked, HeldListed
    <3>4. lcs \in gls /\ lcs \in 1..Len(spans)
      BY <1>1, <3>3 DEF RootFirst
    <3>5. PICK j \in 1..n : frames[j].held = lcs
      BY <3>4 DEF Tidy, HeldBy
    <3>6. frames[1].hook.when = "enter"
      <4>1. frames[1].hook = App
        BY <1>1 DEF Linked, FramesLinked, FrameLinked
      <4> QED
        BY <4>1 DEF App, Hook
    <3>7. frames[j].hook.when = "enter"
      BY <1>1, <2>1, <2>2, <3>2, <3>5, <3>6, EndsAfter DEF Linked
    <3>8. lcs # 0 /\ spans[lcs].open
      BY <1>1, <3>4, <3>5, <3>7 DEF HeldListed
    <3>9. lcs \in {frames[2].held, frames[1].held}
      BY <2>2, <3>5
    <3> QED
      BY <1>1, <2>1, <2>2, <3>1, <3>4, <3>8, <3>9 DEF SameFrame
  <2> HIDE DEF n
  <2> QED
    BY <2>1, <2>3 DEF RouteKept
<1> QED
  BY <1>7, <1>8, <1>9, <1>11, <1>12, <1>13, <1>14, Zenon DEF Stepped

LEMMA InitCalm ==
  ASSUME Init
  PROVE  Calm
<1>1. /\ Len(frames) = 1 /\ frames[1].held = lcs /\ ~frames[1].routed
      /\ \/ gls = {} /\ lcs = 0
         \/ gls = {1} /\ lcs = 1 /\ Len(spans) = 1 /\ spans[1].open
  BY DEF Init, Frame, NewSpan
<1> QED
  BY <1>1 DEF Calm, HeldListed, RootFirst, RouteKept

LEMMA CalmStep ==
  ASSUME TypeOK, Linked, Calm, Stepped
  PROVE  Calm'
<1>1. ASSUME Undisturbed' PROVE Undisturbed /\ HeldListed /\ HeldListed'
  BY <1>1, UndisturbedBefore, HeldListedStep DEF Calm
<1>2. ASSUME Undisturbed', Tidy' PROVE RootFirst' /\ RouteKept'
  <2>1. Tidy /\ RootFirst /\ RouteKept
    BY <1>1, <1>2, TidyBefore DEF Calm
  <2> QED
    BY <1>1, <1>2, <2>1, RootFirstStep, RouteKeptStep
<1> QED
  BY <1>1, <1>2 DEF Calm

LEMMA CalmNext == TypeOK /\ Linked /\ Calm /\ [Next]_vars => Calm'
<1>1. ASSUME Calm, UNCHANGED vars PROVE Calm'
  BY <1>1 DEF vars, Calm, Undisturbed, Tidy, HeldListed, RootFirst, RouteKept, HeldBy
<1> QED
  BY <1>1, NextDoes, CalmStep

\* What is said of clean states is said of calm ones.
LEMMA CleanIsCalm ==
  ASSUME TypeOK, Linked, Calm, Clean
  PROVE  HeldListed /\ Tidy /\ RootFirst /\ RouteKept
<1>1. /\ DOMAIN made = 1..Len(made) /\ gls \in SUBSET (1..Len(spans))
      /\ \A s \in 1..Len(spans) : spans[s].call \in 1..Len(made)
  BY Facts, TypeOKIs DEF Typed, SpansRefer
<1>2. Undisturbed
  BY <1>1 DEF Clean, Undisturbed
<1>3. ASSUME NEW s \in gls PROVE HeldBy(s)
  <2>1. s \in 1..Len(spans) /\ spans[s].open /\ pending = {}
    BY <1>1, <1>3 DEF Clean
  <2>2. <<made[spans[s].call].name, made[spans[s].call].how>> \notin LeavesOpen
    BY <1>1, <2>1 DEF Clean
  <2> QED
    BY <2>1, <2>2 DEF Linked, SpansLinked, SpanLinked, OwedTo
<1> QED
  BY <1>2, <1>3 DEF Calm, Tidy

\* As long as no call disturbs the others, the route of a request is seen, whatever
\* the goroutine did before and what it left as its local root.
THEOREM RouteAlwaysShown == Spec => []RouteShown
<1>1. ASSUME TypeOK, Linked, Calm PROVE RouteShown
  <2>1. /\ DOMAIN frames = 1..Len(frames) /\ DOMAIN spans = 1..Len(spans) /\ 1 \in 1..Len(frames)
        /\ Len(spans) \in Nat
        /\ \A i \in 1..Len(frames) : frames[i].held \in 0..Len(spans)
    BY <1>1, Facts, TypeOKIs DEF Typed, FramesRefer
  <2>2. ASSUME NEW i \in 1..Len(frames), frames[i].routed, frames[i].held # 0, Clean
        PROVE  \E s \in 1..Len(spans) :
                 /\ s = frames[i].held \/ spans[s].by = App.name
                 /\ spans[s].open /\ spans[s].route = frames[i].call
    <3>1. PICK s \in {frames[i].held, frames[1].held} :
            s # 0 /\ spans[s].open /\ spans[s].route = frames[i].call
      BY <1>1, <2>2, CleanIsCalm DEF RouteKept
    <3>2. s \in 1..Len(spans)
      BY <2>1, <3>1
    <3>3. frames[1].held # 0 => spans[frames[1].held].by = App.name
      BY <1>1, <2>1 DEF Linked, FramesLinked, FrameLinked
    <3> QED
      BY <3>1, <3>2, <3>3
  <2> QED
    BY <2>1, <2>2 DEF RouteShown
<1> QED
  BY <1>1, InitTyped, NextTyped, InitLinked, LinkedNext, InitCalm, CalmNext, PTL DEF Spec

(* Under which span a new one is.                                          *)

\* The call gets a context with the span of the frame, as does all that the
\* application does.
Gives(i) == frames[i].held # 0 /\ (frames[i].hook.gives \/ i = 1)

\* The context c is without a span, or with that of the last frame up to i that
\* gives its own.
InContext(c, i) ==
  c = 0 \/ \E k \in 1..i : /\ Gives(k) /\ c = frames[k].held
                           /\ \A m \in (k + 1)..i : ~Gives(m)
InFrame(i) ==
  InContext(frames[i].inside, i) /\ (i > 1 => InContext(frames[i].ctx, i - 1))
ContextsLinked == \A i \in 1..Len(frames) : InFrame(i)

LEMMA InFrameThen ==
  ASSUME NEW i, NEW c, c = frames'[i].inside, InContext(c, i)',
         NEW d, d = frames'[i].ctx, i > 1 => InContext(d, i - 1)'
  PROVE  InFrame(i)'
BY DEF InFrame, InContext

LEMMA ContextKept ==
  ASSUME NEW c, NEW i \in Nat, InContext(c, i),
         \A m \in 1..i : SameFrame(frames'[m], frames[m])
  PROVE  InContext(c, i)'
<1>1. \A m \in 1..i : Gives(m)' <=> Gives(m)
  BY DEF Gives, SameFrame
<1>2. CASE c = 0
  BY <1>2 DEF InContext
<1>3. CASE c # 0
  <2>1. PICK k \in 1..i : /\ Gives(k) /\ c = frames[k].held
                          /\ \A m \in (k + 1)..i : ~Gives(m)
    BY <1>3 DEF InContext
  <2>2. \A m \in (k + 1)..i : m \in 1..i
    OBVIOUS
  <2>3. Gives(k)' /\ c = frames'[k].held /\ \A m \in (k + 1)..i : ~Gives(m)'
    BY <1>1, <2>1, <2>2 DEF SameFrame
  <2> QED
    BY <2>3 DEF InContext
<1> QED
  BY <1>2, <1>3

\* A frame that does not give its span leaves the context as it is.
LEMMA ContextPasses ==
  ASSUME NEW c, NEW i \in Nat, NEW k, k = i + 1, InContext(c, i), ~Gives(k)
  PROVE  InContext(c, k)
<1>1. CASE c = 0
  BY <1>1 DEF InContext
<1>2. CASE c # 0
  <2>1. PICK j \in 1..i : /\ Gives(j) /\ c = frames[j].held
                          /\ \A m \in (j + 1)..i : ~Gives(m)
    BY <1>2 DEF InContext
  <2>2. j \in 1..k /\ \A m \in (j + 1)..k : m \in (j + 1)..i \/ m = k
    OBVIOUS
  <2>3. \A m \in (j + 1)..k : ~Gives(m)
    BY <2>1, <2>2
  <2> QED
    BY <2>1, <2>2, <2>3 DEF InContext
<1> QED
  BY <1>1, <1>2

\* The same of the frames after a step.
LEMMA ContextPassesThen ==
  ASSUME NEW c, NEW i \in Nat, NEW k, k = i + 1, InContext(c, i)', ~Gives(k)'
  PROVE  InContext(c, k)'
<1>1. CASE c = 0
  BY <1>1 DEF InContext
<1>2. CASE c # 0
  <2>1. PICK j \in 1..i : /\ Gives(j)' /\ c = frames'[j].held
                          /\ \A m \in (j + 1)..i : ~Gives(m)'
    BY <1>2 DEF InContext
  <2>2. j \in 1..k /\ \A m \in (j + 1)..k : m \in (j + 1)..i \/ m = k
    OBVIOUS
  <2>3. \A m \in (j + 1)..k : ~Gives(m)'
    BY <2>1, <2>2
  <2> QED
    BY <2>1, <2>2, <2>3 DEF InContext
<1> QED
  BY <1>1, <1>2

LEMMA ContextsStep ==
  ASSUME TypeOK, ContextsLinked, Stepped
  PROVE  ContextsLinked'
<1> DEFINE n == Len(frames)
<1>1. n \in Nat /\ n >= 1 /\ n \in 1..n /\ Top = frames[n]
  BY Facts DEF Top
<1>2. ASSUME NEW i \in 1..n, \A m \in 1..i : SameFrame(frames'[m], frames[m])
      PROVE  InFrame(i)'
  <2>1. PICK c, d : c = frames[i].inside /\ d = frames[i].ctx
    OBVIOUS
  <2>2. c = frames'[i].inside /\ d = frames'[i].ctx
    BY <1>2, <2>1 DEF SameFrame
  <2>3. InContext(c, i) /\ (i > 1 => InContext(d, i - 1))
    BY <2>1 DEF ContextsLinked, InFrame
  <2>4. InContext(c, i)'
    BY <1>2, <2>3, ContextKept
  <2>5. ASSUME i > 1 PROVE InContext(d, i - 1)'
    <3>1. PICK j \in Nat : j = i - 1
      BY <2>5
    <3>2. InContext(d, j) /\ \A m \in 1..j : SameFrame(frames'[m], frames[m])
      BY <1>2, <2>3, <2>5, <3>1
    <3>3. InContext(d, j)'
      BY <3>2, ContextKept
    <3> QED
      BY <3>1, <3>3
  <2> QED
    BY <2>2, <2>4, <2>5, InFrameThen
<1>3. ASSUME \A i \in 1..Len(frames') : i \in 1..n /\ SameFrame(frames'[i], frames[i]),
             Len(frames') \in Nat
      PROVE  ContextsLinked'
  <2>1. \A i \in 1..Len(frames') : \A m \in 1..i : m \in 1..Len(frames')
    BY <1>3
  <2> QED
    BY <1>2, <1>3, <2>1 DEF ContextsLinked
<1>4. \A i \in 1..n : SameFrame(frames[i], frames[i])
  BY DEF SameFrame
<1>5. ASSUME NEW h, NEW ctx \in {Top.inside, 0}, Entered(h, ctx),
             Unstarted(h, ctx) \/ Started(h, ctx)
      PROVE  ContextsLinked'
  <2>1. PICK j, k, id : /\ j \in Nat /\ k \in Nat /\ j = n /\ k = n + 1 /\ k = j + 1
                            /\ id = Len(spans) + 1
    <3>1. n \in Nat /\ n + 1 \in Nat
      BY <1>1
    <3> QED
      BY <3>1, Zenon
  <2>2. /\ Len(frames') = k /\ \A i \in 1..n : frames'[i] = frames[i]
        /\ frames'[k].hook = h /\ frames'[k].ctx = ctx
    BY <1>5, <2>1 DEF Entered
  <2>3. \/ frames'[k].held = 0 /\ frames'[k].inside = ctx
        \/ frames'[k].held = id /\ frames'[k].inside = IF h.gives THEN id ELSE ctx
    BY <1>5, <2>1 DEF Unstarted, Started
  <2>4. InContext(ctx, j)
    BY <1>1, <1>5, <2>1 DEF ContextsLinked, InFrame, InContext
  <2>5. \A i \in 1..n : SameFrame(frames'[i], frames[i])
    BY <1>4, <2>2
  <2>6. k > 1 /\ k - 1 = j /\ k \in 1..k
    BY <1>1, <2>1
  <2>7. InContext(ctx, j)'
    BY <2>1, <2>4, <2>5, ContextKept
  <2>8. PICK c : c = frames'[k].inside
    OBVIOUS
  <2>9. InContext(c, k)'
    <3>1. CASE frames'[k].held # 0 /\ h.gives
      <4>1. Gives(k)' /\ c = frames'[k].held
        BY <2>2, <2>3, <2>8, <3>1 DEF Gives
      <4>2. \A m \in (k + 1)..k : ~Gives(m)'
        BY <2>6
      <4> QED
        BY <2>6, <4>1, <4>2 DEF InContext
    <3>2. CASE ~(frames'[k].held # 0 /\ h.gives)
      <4>1. ~Gives(k)'
        BY <2>2, <2>6, <3>2 DEF Gives
      <4>2. id # 0
        BY <2>1, Facts
      <4>3. c = ctx
        BY <2>3, <2>8, <3>2, <4>2
      <4> QED
        BY <2>1, <2>7, <4>1, <4>3, ContextPassesThen
    <3> QED
      BY <3>1, <3>2
  <2>10. InFrame(k)'
    <3>1. k > 1 => InContext(ctx, k - 1)'
      BY <2>6, <2>7
    <3> QED
      BY <2>2, <2>8, <2>9, <3>1, InFrameThen
  <2>11. ASSUME NEW i \in 1..n PROVE InFrame(i)'
    BY <1>2, <2>5
  <2>12. \A i \in 1..Len(frames') : i \in 1..n \/ i = k
    BY <1>1, <2>1, <2>2
  <2> QED
    BY <2>10, <2>11, <2>12 DEF ContextsLinked
<1>6. ASSUME NEW how, Returned(how) PROVE ContextsLinked'
  BY <1>1, <1>3, <1>6 DEF Returned
<1>7. CASE Routed
  BY <1>1, <1>3, <1>7 DEF Routed
<1>8. ASSUME NEW x, EndedLate(x) PROVE ContextsLinked'
  <2>1. frames' = frames
    BY <1>8 DEF EndedLate
  <2> QED
    BY <1>1, <1>3, <1>4, <2>1
<1>9. CASE Left
  <2>1. Len(frames') \in Nat /\ \A i \in 1..Len(frames') : i \in 1..n /\ frames'[i] = frames[i]
    BY <1>1, <1>9 DEF Left
  <2> QED
    BY <1>3, <1>4, <2>1
<1> QED
  BY <1>5, <1>6, <1>7, <1>8, <1>9, Zenon DEF Stepped

LEMMA ContextsNext == TypeOK /\ ContextsLinked /\ [Next]_vars => ContextsLinked'
<1>1. ASSUME ContextsLinked, UNCHANGED vars PROVE ContextsLinked'
  BY <1>1, SMTT(30) DEF vars, ContextsLinked, InFrame, InContext, Gives
<1> QED
  BY <1>1, NextDoes, ContextsStep

LEMMA InitContexts ==
  ASSUME Init
  PROVE  ContextsLinked
<1>1. /\ Len(frames) = 1 /\ frames[1].inside = frames[1].held
  BY DEF Init, Frame
<1>2. InFrame(1)
  BY <1>1 DEF InFrame, InContext, Gives
<1> QED
  BY <1>1, <1>2 DEF ContextsLinked

\* What is a parent: the span of the innermost call that has one, or where that
\* call was not given its context the span of an outer one.
Parent(p) ==
  IF Holders = {} THEN p = 0
  ELSE \/ p = frames[Innermost].held
       \/ ~frames[Innermost].hook.gives /\ \E i \in Holders : p = frames[i].held

LEMMA NewestIsParent ==
  ASSUME TypeOK, Linked, HeldListed, Tidy, \A s \in gls : spans[s].open
  PROVE  Parent(Newest)
<1>1. /\ Len(frames) \in Nat /\ DOMAIN frames = 1..Len(frames)
      /\ frames \in Seq(FrameType) /\ spans \in Seq(SpanType)
      /\ gls \in SUBSET (1..Len(spans)) /\ Len(spans) \in Nat
      /\ \A i \in 1..Len(frames) : frames[i].held \in 0..Len(spans)
  BY Facts, TypeOKIs DEF Typed, FramesRefer
<1>2. ASSUME NEW i \in Holders
      PROVE  i \in 1..Len(frames) /\ frames[i].held # 0 /\ frames[i].held \in gls
  BY <1>1, <1>2, EndsAfter DEF Holders, Linked, HeldListed
<1>3. ASSUME NEW s \in gls PROVE \E i \in Holders : frames[i].held = s
  <2>1. PICK i \in 1..Len(frames) : frames[i].held = s
    BY <1>3 DEF Tidy, HeldBy
  <2> QED
    BY <1>1, <1>3, <2>1 DEF Holders
<1>4. CASE Holders = {}
  BY <1>1, <1>3, <1>4, NewestOf DEF Parent
<1>5. CASE Holders # {}
  <2>1. Innermost \in Holders /\ \A j \in Holders : j <= Innermost
    BY <1>1, <1>5, InnermostOf
  <2>2. gls # {} /\ Newest \in gls /\ \A t \in gls : t <= Newest
    BY <1>1, <1>2, <2>1, NewestOf
  <2>3. PICK i \in Holders : frames[i].held = Newest
    BY <1>3, <2>2
  <2>4. i = Innermost
    <3>1. PICK m : m = Innermost
      OBVIOUS
    <3>2. /\ i \in 1..Len(frames) /\ m \in 1..Len(frames) /\ i <= m
          /\ frames[i].held # 0 /\ frames[m].held # 0 /\ frames[m].held <= frames[i].held
      BY <1>2, <2>1, <2>2, <2>3, <3>1
    <3>3. i < m => frames[i].held < frames[m].held
      BY <3>2 DEF Linked, FramesOrdered
    <3>4. frames[i].held \in Nat /\ frames[m].held \in Nat
      BY <1>1, <3>2
    <3> QED
      BY <1>1, <3>1, <3>2, <3>3, <3>4
  <2> QED
    BY <1>5, <2>3, <2>4 DEF Parent
<1> QED
  BY <1>4, <1>5

LEMMA ContextIsParent ==
  ASSUME TypeOK, Linked, HeldListed, NEW c, c # 0, InContext(c, Len(frames))
  PROVE  Parent(c)
<1> DEFINE n == Len(frames)
<1>1. n \in Nat /\ DOMAIN frames = 1..n /\ frames \in Seq(FrameType)
  BY Facts, TypeOKIs DEF Typed
<1>2. PICK k \in 1..n : /\ Gives(k) /\ c = frames[k].held
                        /\ \A m \in (k + 1)..n : ~Gives(m)
  BY DEF InContext
<1>3. FrameLinked(k) /\ frames[k].held # 0
  BY <1>2 DEF Gives, Linked, FramesLinked
<1>4. frames[k].hook.when = "enter"
  <2>1. CASE k = 1
    <3>1. frames[k].hook = App
      BY <1>3, <2>1 DEF FrameLinked
    <3> QED
      BY <3>1 DEF App, Hook
  <2>2. CASE k # 1
    <3>1. frames[k].hook \in Hooks /\ frames[k].hook.when # "exit" /\ frames[k].hook.gives
      BY <1>2, <1>3, <2>2 DEF FrameLinked, Gives
    <3>2. frames[k].hook \in HookType /\ frames[k].hook.when # "over"
      BY <3>1, HooksAssumption
    <3>3. frames[k].hook.when \in {"enter", "exit", "over"}
      BY <3>2 DEF HookType
    <3> QED
      BY <3>1, <3>2, <3>3
  <2> QED
    BY <2>1, <2>2
<1>5. k \in Holders
  BY <1>1, <1>3, <1>4 DEF HeldListed, Holders
<1>6. Innermost \in Holders /\ k <= Innermost
  BY <1>1, <1>5, InnermostOf
<1>7. PICK m \in 1..n : m = Innermost /\ frames[m].held # 0
  BY <1>1, <1>6 DEF Holders
<1>8. m = k \/ m \in (k + 1)..n
  BY <1>1, <1>6, <1>7
<1>9. m # k => ~frames[m].hook.gives
  BY <1>2, <1>7, <1>8 DEF Gives
<1> QED
  BY <1>2, <1>5, <1>7, <1>9 DEF Parent

LEMMA UnderIsParent ==
  ASSUME TypeOK, Linked, Calm, Clean, NEW h, NEW ctx, InContext(ctx, Len(frames))
  PROVE  Parent(Under(h, ctx))
<1>1. HeldListed /\ Tidy /\ \A s \in gls : spans[s].open
  BY CleanIsCalm DEF Clean
<1> QED
  BY <1>1, NewestIsParent, ContextIsParent DEF Under, SpanOf

\* As long as no call disturbs the others, a new span is a child of the span of the
\* innermost call that has one, whatever context the hook was given.
THEOREM AlwaysNested == Spec => Nested
<1>1. ASSUME TypeOK, Linked, Calm, ContextsLinked, Stepped, Clean,
             NEW s \in DOMAIN spans' \ DOMAIN spans
      PROVE  Parent(spans'[s].under)
  <2>1. DOMAIN spans = 1..Len(spans) /\ Len(spans) \in Nat
        /\ Len(frames) \in 1..Len(frames) /\ Top = frames[Len(frames)]
    BY <1>1, Facts DEF Top
  <2>2. ASSUME NEW h, NEW ctx, NEW call, NEW open, NEW err, Began(h, ctx, call, open, err),
               InContext(ctx, Len(frames))
        PROVE  Parent(spans'[s].under)
    <3>1. DOMAIN spans' = 1..(Len(spans) + 1)
      BY <2>2 DEF Began
    <3>2. s = Len(spans) + 1
      BY <1>1, <2>1, <3>1
    <3>3. spans'[s].under = Under(h, ctx)
      BY <2>2, <3>2 DEF Began, Fresh
    <3> QED
      BY <1>1, <2>2, <3>3, UnderIsParent
  <2>3. ASSUME NEW h, NEW ctx \in {Top.inside, 0}, Unstarted(h, ctx) \/ Started(h, ctx)
        PROVE  Parent(spans'[s].under)
    <3>1. InContext(ctx, Len(frames))
      BY <1>1, <2>1 DEF ContextsLinked, InFrame, InContext
    <3>2. ~Unstarted(h, ctx)
      BY <1>1 DEF Unstarted
    <3> QED
      BY <2>2, <2>3, <3>1, <3>2 DEF Started
  <2>4. CASE Left /\ StartedAfter
    <3>1. PICK k \in Nat, n \in Nat : n = Len(frames) /\ n = k + 1 /\ n > 1
      BY <2>1, <2>4 DEF Left
    <3>2. FrameLinked(n) /\ InContext(Top.ctx, k)
      BY <1>1, <2>1, <3>1 DEF Linked, FramesLinked, ContextsLinked, InFrame
    <3>3. Top.held = 0
      BY <2>1, <2>4, <3>1, <3>2 DEF FrameLinked, StartedAfter
    <3>4. ~Gives(n)
      BY <2>1, <3>1, <3>3 DEF Gives
    <3>5. InContext(Top.ctx, n)
      BY <3>1, <3>2, <3>4, ContextPasses
    <3> QED
      BY <2>2, <2>4, <3>1, <3>5 DEF StartedAfter
  <2>5. ASSUME spans' \in Seq(SpanType), Len(spans') = Len(spans) PROVE FALSE
    BY <1>1, <2>1, <2>5
  <2>6. ASSUME NEW t, NEW call, NEW err, Ended(t, call, err) PROVE FALSE
    BY <2>5, <2>6 DEF Ended
  <2>7. CASE LeftIt \/ HandedOn \/ EndedIt
    BY <1>1, <2>6, <2>7 DEF LeftIt, HandedOn, EndedIt
  <2>8. CASE Routed
    BY <2>5, <2>8 DEF Routed
  <2>9. ASSUME NEW x, EndedLate(x) PROVE FALSE
    BY <2>6, <2>9 DEF EndedLate
  <2>10. ASSUME NEW how, Returned(how) PROVE FALSE
    BY <1>1, <2>10 DEF Returned
  <2> QED
    BY <1>1, <2>3, <2>4, <2>7, <2>8, <2>9, <2>10, Zenon DEF Stepped
<1> DEFINE NestedStep ==
       \A s \in DOMAIN spans' \ DOMAIN spans : Clean =>
         LET p == spans'[s].under
         IN IF Holders = {} THEN p = 0
            ELSE \/ p = frames[Innermost].held
                 \/ /\ ~frames[Innermost].hook.gives
                    /\ \E i \in Holders : p = frames[i].held
<1>2. TypeOK /\ Linked /\ Calm /\ ContextsLinked /\ [Next]_vars => [NestedStep]_vars
  <2>1. ASSUME TypeOK, Linked, Calm, ContextsLinked, Next
        PROVE  NestedStep
    BY <1>1, <2>1, NextDoes DEF Parent
  <2> QED
    BY <2>1
<1> HIDE DEF NestedStep
<1>3. Spec => [][NestedStep]_vars
  BY <1>2, InitTyped, NextTyped, InitLinked, LinkedNext, InitCalm, CalmNext,
     InitContexts, ContextsNext, PTL DEF Spec
<1> QED
  BY <1>3 DEF Nested, NestedStep
=============================================================================
