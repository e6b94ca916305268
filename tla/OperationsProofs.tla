-------------------------- MODULE OperationsProofs --------------------------
(* Theorems about Operations, for any libraries that its exceptions        *)
(* describe and any number of operations: which sender a receiver finds    *)
(* in what it receives, sent with an object used again, forwarded or       *)
(* received many times; what a span tells of its outcome; and what the     *)
(* metric has of it, with the meters there from the beginning or later.    *)
EXTENDS Operations, SequenceTheorems, TLAPS

Ways == {"first", "again", "forward", "bare", "received"}
AllInstrumenters == UNION {{l.sends} \union l.serves : l \in Libraries}
Targets == {"its"} \union UNION {l.sends.says.names : l \in Libraries}
Op == [i : AllInstrumenters, from : Nat, parent : Nat, target : Targets,
       sent : Seq(Nat), room : BOOLEAN, open : BOOLEAN, how : Ways, left : Seq(Nat)]

(* Carriers.                                                               *)

\* Headers that are put somewhere are new, or stay, or are put behind the others.
LEMMA PutOf ==
  ASSUME NEW c \in CarrierType, NEW before, NEW room \in BOOLEAN, NEW op,
         NEW after \in Put(c, before, room, op)
  PROVE  /\ after \in {<<op>>, <<>>, before, Append(before, op)}
         /\ room /\ c.put = "replace" => after = <<op>>
         /\ room /\ c.put = "append" => after = Append(before, op)
         /\ room /\ c.put # "nothing" /\ before = <<>> => after \in {<<op>>, Append(before, op)}
<1>1. /\ c.put \in {"replace", "append", "if none", "nothing"}
      /\ c.bare \in {"put", "nothing", "maybe"}
  BY DEF CarrierType
<1>2. CASE ~room /\ c.bare = "nothing"
  BY <1>2 DEF Put
<1>3. CASE ~room /\ c.bare = "maybe"
  BY <1>3 DEF Put
<1>4. CASE room \/ c.bare = "put"
  BY <1>1, <1>4 DEF Put
<1> QED
  BY <1>1, <1>2, <1>3, <1>4

\* What is read of headers.
LEMMA TakeOf ==
  ASSUME NEW c \in CarrierType, NEW h \in Seq(Nat), NEW x \in Take(c, h)
  PROVE  x = 0 \/ \E k \in DOMAIN h : x = h[k]
<1>1. c.take \in {"first", "last", "any"}
  BY DEF CarrierType
<1>2. h # <<>> => 1 \in DOMAIN h /\ Len(h) \in DOMAIN h
  BY LenProperties, EmptySeq
<1> QED
  BY <1>1, <1>2 DEF Take

LEMMA TakeAlone ==
  ASSUME NEW c \in CarrierType, NEW n \in Nat
  PROVE  Take(c, <<n>>) = {n}
<1>1. c.take \in {"first", "last", "any"}
  BY DEF CarrierType
<1>2. <<n>> # <<>> /\ <<n>>[1] = n /\ Len(<<n>>) = 1 /\ DOMAIN <<n>> = {1}
  OBVIOUS
<1>3. {<<n>>[k] : k \in DOMAIN <<n>>} = {n}
  BY <1>2
<1> QED
  BY <1>1, <1>2, <1>3 DEF Take

LEMMA TakeLast ==
  ASSUME NEW c \in CarrierType, c.take = "last", NEW h \in Seq(Nat), NEW n \in Nat
  PROVE  Take(c, Append(h, n)) = {n}
<1> DEFINE a == Append(h, n)
<1>1. a \in Seq(Nat) /\ Len(a) = Len(h) + 1 /\ a[Len(h) + 1] = n /\ Len(h) \in Nat
  BY AppendProperties, LenProperties
<1> HIDE DEF a
<1>2. a # <<>> /\ a[Len(a)] = n
  BY <1>1, EmptySeq
<1>3. Take(c, a) = {n}
  BY <1>2 DEF Take
<1> QED
  BY <1>3 DEF a

(* Operations.                                                             *)

\* Headers name different senders among the first n operations.
Headed(os, h, n) == \A k \in DOMAIN h :
  /\ h[k] \in 1 .. n /\ os[h[k]].from = 0
  /\ \A m \in DOMAIN h \ {k} : h[k] # h[m]

\* A sender p, the n-th operation: what it sent leads to it, if it is sent that way;
\* a library that copies leaves an object empty unless it had been received.
SenderOK(l, p, n) ==
  /\ p.target \in l.sends.says.names
  /\ p.how \in {"bare", "first", "again", "forward"}
  /\ p.how = "bare" <=> ~p.room
  /\ l.carrier.bare = "put" => p.room
  /\ Leads(l.carrier, p.how) => Take(l.carrier, p.sent) = {n}
  /\ p.room /\ l.carrier.put = "replace" => p.sent = <<n>>
  /\ p.how \in {"first", "again"} /\ l.carrier.copies => p.left = <<>>

\* The n-th of the operations os of the library l.  A receiver received from a sender.
OpOK(l, os, n) ==
  LET p == os[n]
  IN  /\ p.i \in {l.sends} \union l.serves /\ p.parent < n /\ p.from < n
      /\ Headed(os, p.sent, n) /\ Headed(os, p.left, n)
      /\ p.from = 0 => SenderOK(l, p, n)
      /\ p.from # 0 => /\ os[p.from].from = 0 /\ p.target = "its" /\ l.serves # {}
                       /\ p.parent \in Take(l.carrier, os[p.from].sent)
AllOK(l, os) == os \in Seq(Op) /\ \A n \in DOMAIN os : OpOK(l, os, n)

\* An operation and what has become of it agree, but for whether it has ended.
Alike(new, old) ==
  /\ new.i = old.i /\ new.from = old.from /\ new.parent = old.parent
  /\ new.target = old.target /\ new.sent = old.sent /\ new.room = old.room
  /\ new.how = old.how /\ new.left = old.left

\* The fields of an operation, which its end does not change but for open.
LEMMA OpFields ==
  ASSUME NEW op \in Op
  PROVE  /\ op.sent \in Seq(Nat) /\ op.left \in Seq(Nat) /\ op.room \in BOOLEAN
         /\ op.from \in Nat /\ op.parent \in Nat /\ op.how \in Ways
         /\ [op EXCEPT !.open = FALSE] \in Op
         /\ Alike([op EXCEPT !.open = FALSE], op)
<1> HIDE DEF AllInstrumenters, Targets, Ways
<1> QED
  BY DEF Op, Alike

\* The places of a sequence of operations.
LEMMA OpsFacts ==
  ASSUME NEW os \in Seq(Op)
  PROVE  /\ Len(os) \in Nat /\ DOMAIN os = 1 .. Len(os)
         /\ \A n \in DOMAIN os : os[n] \in Op
BY LenProperties, ElementOfSeq

\* An operation keeps what it is while others come and end.
LEMMA OpStays ==
  ASSUME NEW l, NEW os \in Seq(Op), NEW new, NEW n \in DOMAIN os, OpOK(l, os, n),
         \A x \in DOMAIN os : Alike(new[x], os[x])
  PROVE  OpOK(l, new, n)
<1>1. /\ DOMAIN os = 1 .. Len(os) /\ Len(os) \in Nat
      /\ os[n].from \in Nat /\ os[n].from < n
  BY OpsFacts, OpFields DEF OpOK
<1>2. ASSUME NEW h, Headed(os, h, n) PROVE Headed(new, h, n)
  <2>1. \A k \in DOMAIN h : h[k] \in DOMAIN os
    BY <1>1, <1>2 DEF Headed
  <2> QED
    BY <1>2, <2>1 DEF Headed, Alike
<1>3. os[n].from # 0 => os[n].from \in DOMAIN os
  BY <1>1
<1>4. SenderOK(l, os[n], n) => SenderOK(l, new[n], n)
  BY DEF SenderOK, Alike
<1>5. /\ Headed(new, new[n].sent, n) /\ Headed(new, new[n].left, n)
  BY <1>2 DEF OpOK, Alike
<1>6. \A x \in DOMAIN os : new[x].from = os[x].from /\ new[x].sent = os[x].sent
  BY DEF Alike
<1>7. /\ new[n].i = os[n].i /\ new[n].parent = os[n].parent /\ new[n].target = os[n].target
  BY DEF Alike
<1> QED
  BY <1>3, <1>4, <1>5, <1>6, <1>7 DEF OpOK

\* A new operation leaves the others as they were.
LEMMA BeginOK ==
  ASSUME NEW l, AllOK(l, ops), NEW op \in Op, Begin(op),
         \A os \in Seq(Op) :
           /\ Len(os) = Len(ops) + 1 /\ os[Len(ops) + 1] = op
           /\ \A x \in DOMAIN ops : os[x] = ops[x]
           => OpOK(l, os, Len(ops) + 1)
  PROVE  AllOK(l, ops')
<1> DEFINE n == Len(ops) + 1
<1>1. ops' = Append(ops, op) /\ ops \in Seq(Op)
  BY DEF Begin, AllOK
<1>2. /\ ops' \in Seq(Op) /\ Len(ops') = n /\ ops'[n] = op
      /\ \A x \in 1 .. Len(ops) : ops'[x] = ops[x]
  BY <1>1, AppendProperties
<1>3. /\ Len(ops) \in Nat /\ DOMAIN ops = 1 .. Len(ops) /\ DOMAIN ops' = 1 .. n
  BY <1>1, <1>2, OpsFacts
<1>4. ASSUME NEW x \in DOMAIN ops PROVE OpOK(l, ops', x)
  <2>1. \A y \in DOMAIN ops : Alike(ops'[y], ops[y])
    BY <1>2, <1>3 DEF Alike
  <2>2. OpOK(l, ops, x)
    BY DEF AllOK
  <2> QED
    BY <1>1, <2>1, <2>2, OpStays
<1>5. OpOK(l, ops', n)
  BY <1>2, <1>3
<1>6. \A x \in DOMAIN ops' : x \in DOMAIN ops \/ x = n
  BY <1>3
<1> QED
  BY <1>2, <1>4, <1>5, <1>6 DEF AllOK

\* What is known of the library, its operations and the instruments.
Known ==
  /\ lib \in Libraries /\ AllOK(lib, ops)

LEMMA LibraryOf ==
  ASSUME lib \in Libraries
  PROVE  /\ lib.carrier \in CarrierType /\ lib.sends \in AllInstrumenters
         /\ Instrumenters \subseteq AllInstrumenters
         /\ lib.sends.says.names \subseteq Targets
         /\ \A i \in Instrumenters :
              /\ Fits(i) /\ i.name # "none"
              /\ \A j \in Instrumenters : i.name = j.name => i = j
<1>1. lib.sends.says.names \subseteq Targets
  BY DEF Targets
<1>2. Instrumenters \subseteq AllInstrumenters /\ lib.sends \in Instrumenters
  BY DEF Instrumenters, AllInstrumenters
<1>3. /\ lib.carrier \in CarrierType
      /\ \A i \in Instrumenters :
           /\ Fits(i) /\ i.name # "none"
           /\ \A j \in Instrumenters : i.name = j.name => i = j
  BY LibrariesAssumption DEF Instrumenters
<1> QED
  BY <1>1, <1>2, <1>3

\* Headers with one more sender.
LEMMA HeadedMore ==
  ASSUME NEW os \in Seq(Op), NEW n \in Nat, NEW new \in Seq(Op), Len(os) = n,
         Len(new) = n + 1, \A x \in DOMAIN os : new[x] = os[x], new[n + 1].from = 0,
         NEW m \in 0 .. n, NEW h \in Seq(Nat), Headed(os, h, m)
  PROVE  /\ Headed(new, h, n + 1) /\ Headed(new, Append(h, n + 1), n + 1)
         /\ Headed(new, <<n + 1>>, n + 1) /\ Headed(new, <<>>, n + 1)
<1>1. DOMAIN os = 1 .. n
  BY OpsFacts
<1>2. Headed(new, h, n + 1)
  BY <1>1 DEF Headed
<1>3. Headed(new, <<n + 1>>, n + 1)
  <2>1. DOMAIN <<n + 1>> = {1} /\ <<n + 1>>[1] = n + 1
    OBVIOUS
  <2> QED
    BY <2>1 DEF Headed
<1>4. Headed(new, <<>>, n + 1)
  BY DEF Headed
<1>5. Headed(new, Append(h, n + 1), n + 1)
  <2> DEFINE a == Append(h, n + 1)
  <2>1. /\ Len(h) \in Nat /\ DOMAIN h = 1 .. Len(h) /\ DOMAIN a = 1 .. (Len(h) + 1)
        /\ a[Len(h) + 1] = n + 1 /\ \A k \in 1 .. Len(h) : a[k] = h[k]
    BY LenProperties, AppendProperties
  <2> HIDE DEF a
  <2>2. \A k \in DOMAIN h : h[k] # n + 1 /\ h[k] \in 1 .. (n + 1) /\ new[h[k]].from = 0
    BY <1>1 DEF Headed
  <2>3. \A k \in DOMAIN a : k \in DOMAIN h \/ k = Len(h) + 1
    BY <2>1
  <2>4. ASSUME NEW k \in DOMAIN a, NEW j \in DOMAIN a \ {k} PROVE a[k] # a[j]
    <3>1. CASE k = Len(h) + 1
      <4>1. j \in DOMAIN h
        BY <2>3, <3>1
      <4> QED
        BY <2>1, <2>2, <3>1, <4>1
    <3>2. CASE j = Len(h) + 1
      <4>1. k \in DOMAIN h
        BY <2>3, <2>4, <3>2
      <4> QED
        BY <2>1, <2>2, <3>2, <4>1
    <3>3. CASE k \in DOMAIN h /\ j \in DOMAIN h
      <4>1. h[k] # h[j]
        BY <1>1, <2>4, <3>3 DEF Headed
      <4> QED
        BY <2>1, <3>3, <4>1
    <3> QED
      BY <2>3, <2>4, <3>1, <3>2, <3>3
  <2>5. ASSUME NEW k \in DOMAIN a PROVE a[k] \in 1 .. (n + 1) /\ new[a[k]].from = 0
    BY <2>1, <2>2, <2>3
  <2>6. Headed(new, a, n + 1)
    BY <2>4, <2>5 DEF Headed
  <2> QED
    BY <2>6 DEF a
<1> QED
  BY <1>2, <1>3, <1>4, <1>5

\* The ways in which Send, SendAgain and Forward start a sender.
Startable(parent, before, room, how) ==
  /\ parent \in 0 .. Len(ops) /\ room \in BOOLEAN /\ how \in {"first", "again", "forward"}
  /\ before \in Seq(Nat) /\ Headed(ops, before, Len(ops))
  /\ lib.carrier.bare = "put" => room
  /\ how = "first" => before = <<>>
  /\ how = "again" /\ room /\ lib.carrier.copies => before = <<>>

LEMMA StartOK ==
  ASSUME Known, NEW parent, NEW before, NEW room, NEW how, Start(parent, before, room, how),
         Startable(parent, before, room, how)
  PROVE  Known'
<1> DEFINE New(after, target) ==
             [i |-> lib.sends, from |-> 0, parent |-> parent, target |-> target,
              sent |-> after, room |-> room, open |-> TRUE,
              how |-> IF room THEN how ELSE "bare",
              left |-> IF lib.carrier.copies \/ ~room THEN before ELSE after]
<1>1. /\ lib \in Libraries /\ lib.carrier \in CarrierType /\ AllOK(lib, ops)
      /\ ops \in Seq(Op) /\ lib.sends \in AllInstrumenters
      /\ lib.sends.says.names \subseteq Targets
  BY LibraryOf DEF Known, AllOK
<1>2. PICK n \in Nat : n = Len(ops)
  BY <1>1, OpsFacts
<1>3. /\ parent \in 0 .. n /\ room \in BOOLEAN /\ before \in Seq(Nat)
      /\ how \in {"first", "again", "forward"} /\ Headed(ops, before, n)
      /\ lib.carrier.bare = "put" => room
      /\ how = "first" => before = <<>>
      /\ how = "again" /\ room /\ lib.carrier.copies => before = <<>>
  BY <1>2 DEF Startable
<1>4. PICK after \in Put(lib.carrier, before, room, n + 1),
           target \in lib.sends.says.names : Begin(New(after, target))
  BY <1>2 DEF Start
<1>5. PICK op : op = New(after, target)
  OBVIOUS
<1>6. /\ op.i = lib.sends /\ op.from = 0 /\ op.parent = parent /\ op.target = target
      /\ op.sent = after /\ op.room = room /\ op.how = (IF room THEN how ELSE "bare")
      /\ op.left = IF lib.carrier.copies \/ ~room THEN before ELSE after
  BY <1>5
<1>7. /\ after \in {<<n + 1>>, <<>>, before, Append(before, n + 1)}
      /\ room /\ lib.carrier.put = "replace" => after = <<n + 1>>
      /\ room /\ lib.carrier.put = "append" => after = Append(before, n + 1)
      /\ room /\ lib.carrier.put # "nothing" /\ before = <<>> =>
           after \in {<<n + 1>>, Append(before, n + 1)}
  BY <1>1, <1>3, <1>4, PutOf
<1>8. after \in Seq(Nat)
  <2>1. <<n + 1>> \in Seq(Nat) /\ <<>> \in Seq(Nat)
    OBVIOUS
  <2>2. Append(before, n + 1) \in Seq(Nat)
    BY <1>3, AppendProperties
  <2> QED
    BY <1>3, <1>7, <2>1, <2>2
<1>9. op \in Op
  <2>1. target \in Targets /\ parent \in Nat
    BY <1>1, <1>2, <1>3, <1>4
  <2>2. (IF room THEN how ELSE "bare") \in Ways
    BY <1>3 DEF Ways
  <2>3. (IF lib.carrier.copies \/ ~room THEN before ELSE after) \in Seq(Nat)
    BY <1>3, <1>8
  <2> HIDE DEF Ways, AllInstrumenters, Targets
  <2> QED
    BY <1>1, <1>3, <1>5, <1>8, <2>1, <2>2, <2>3 DEF Op
<1>10. Leads(lib.carrier, op.how) => Take(lib.carrier, after) = {n + 1}
  <2>1. Append(<<>>, n + 1) = <<n + 1>>
    OBVIOUS
  <2>2. after = <<n + 1>> => Take(lib.carrier, after) = {n + 1}
    BY <1>1, <1>2, TakeAlone
  <2>3. lib.carrier.take = "last" /\ after = Append(before, n + 1) =>
          Take(lib.carrier, after) = {n + 1}
    BY <1>1, <1>2, <1>3, TakeLast
  <2> QED
    BY <1>3, <1>6, <1>7, <2>1, <2>2, <2>3 DEF Leads
<1>11. SenderOK(lib, op, n + 1)
  BY <1>3, <1>4, <1>6, <1>7, <1>10 DEF SenderOK
<1> HIDE DEF New
<1>12. ASSUME NEW os \in Seq(Op), Len(os) = Len(ops) + 1, os[Len(ops) + 1] = op,
              \A x \in DOMAIN ops : os[x] = ops[x]
       PROVE  OpOK(lib, os, Len(ops) + 1)
  <2>1. /\ Headed(os, before, n + 1) /\ Headed(os, Append(before, n + 1), n + 1)
        /\ Headed(os, <<n + 1>>, n + 1) /\ Headed(os, <<>>, n + 1)
    <3>1. n \in 0 .. n /\ Len(ops) = n /\ os[n + 1].from = 0 /\ Len(os) = n + 1
      BY <1>2, <1>6, <1>12
    <3> QED
      BY <1>1, <1>3, <1>12, <3>1, HeadedMore
  <2>2. Headed(os, op.sent, n + 1) /\ Headed(os, op.left, n + 1)
    BY <1>6, <1>7, <2>1
  <2> QED
    BY <1>2, <1>3, <1>6, <1>11, <1>12, <2>2 DEF OpOK
<1>13. AllOK(lib, ops')
  BY <1>1, <1>4, <1>5, <1>9, <1>12, BeginOK
<1>14. lib' = lib
  BY <1>4 DEF Begin
<1> QED
  BY <1>1, <1>13, <1>14 DEF Known

LEMMA SendOK ==
  ASSUME Known, Send
  PROVE  Known'
<1>1. Len(ops) \in Nat /\ lib.carrier \in CarrierType
  BY OpsFacts, LibraryOf DEF Known, AllOK
<1>2. PICK room \in BOOLEAN : /\ Start(0, <<>>, room, "first")
                              /\ lib.carrier.bare = "put" => room
  BY DEF Send
<1>3. <<>> \in Seq(Nat) /\ Headed(ops, <<>>, Len(ops))
  BY DEF Headed
<1>4. Startable(0, <<>>, room, "first")
  BY <1>1, <1>2, <1>3 DEF Startable
<1> QED
  BY <1>2, <1>4, StartOK

\* What a sender sent and what it left name operations that there are.
LEMMA HeadedIn ==
  ASSUME Known, NEW o \in DOMAIN ops
  PROVE  /\ ops[o] \in Op /\ OpOK(lib, ops, o) /\ o \in 1 .. Len(ops) /\ Len(ops) \in Nat
         /\ Headed(ops, ops[o].sent, Len(ops)) /\ Headed(ops, ops[o].left, Len(ops))
<1>1. /\ ops[o] \in Op /\ o \in 1 .. Len(ops) /\ Len(ops) \in Nat
      /\ OpOK(lib, ops, o)
  BY OpsFacts DEF Known, AllOK
<1>2. ASSUME NEW h, Headed(ops, h, o) PROVE Headed(ops, h, Len(ops))
  BY <1>1, <1>2 DEF Headed
<1> QED
  BY <1>1, <1>2 DEF OpOK

LEMMA SendAgainOK ==
  ASSUME Known, SendAgain
  PROVE  Known'
<1>1. PICK o \in Senders :
        Start(0, ops[o].left, ops[o].room,
              IF ops[o].how = "forward" THEN "forward" ELSE "again")
  BY DEF SendAgain
<1>2. o \in DOMAIN ops /\ ops[o].from = 0
  BY DEF Senders
<1>3. /\ ops[o] \in Op /\ OpOK(lib, ops, o) /\ Len(ops) \in Nat
      /\ Headed(ops, ops[o].left, Len(ops))
  BY <1>2, HeadedIn
<1>4. SenderOK(lib, ops[o], o)
  BY <1>2, <1>3 DEF OpOK
<1>5. PICK before, room, how :
        /\ before = ops[o].left /\ room = ops[o].room
        /\ how = (IF ops[o].how = "forward" THEN "forward" ELSE "again")
  OBVIOUS
<1>6. before \in Seq(Nat) /\ room \in BOOLEAN /\ how \in {"first", "again", "forward"}
  BY <1>3, <1>5, OpFields
<1>7. Startable(0, before, room, how)
  BY <1>3, <1>4, <1>5, <1>6 DEF Startable, SenderOK
<1> QED
  BY <1>1, <1>5, <1>7, StartOK

LEMMA ForwardOK ==
  ASSUME Known, Forward
  PROVE  Known'
<1>1. PICK o, got :
        /\ o \in DOMAIN ops \ Senders /\ got = ops[ops[o].from].sent
        /\ Start(o, got, got # <<>> \/ lib.carrier.bare = "put", "forward")
  BY DEF Forward
<1>2. o \in DOMAIN ops /\ ops[o].from # 0
  BY <1>1 DEF Senders
<1>3. OpOK(lib, ops, o) /\ ops[o] \in Op /\ o \in 1 .. Len(ops) /\ Len(ops) \in Nat
  BY <1>2, HeadedIn
<1>4. ops[o].from \in 1 .. Len(ops) /\ ops[o].from \in DOMAIN ops
  <2>1. ops[o].from \in Nat /\ ops[o].from < o
    BY <1>3, OpFields DEF OpOK
  <2> QED
    BY <1>2, <1>3, <2>1, OpsFacts DEF Known, AllOK
<1>5. got \in Seq(Nat) /\ Headed(ops, got, Len(ops))
  BY <1>1, <1>4, HeadedIn, OpFields
<1>6. PICK room \in BOOLEAN : room = (got # <<>> \/ lib.carrier.bare = "put")
  OBVIOUS
<1>7. Startable(o, got, room, "forward")
  <2>1. lib.carrier.bare = "put" => room
    BY <1>6, Zenon
  <2>2. o \in 0 .. Len(ops)
    BY <1>3
  <2> QED
    BY <1>5, <2>1, <2>2 DEF Startable
<1> QED
  BY <1>1, <1>6, <1>7, StartOK

LEMMA StartUpstreamOK ==
  ASSUME Known, StartUpstream
  PROVE  Known'
<1>1. PICK s, o, parent, op :
        /\ s \in lib.serves /\ o \in Senders
        /\ parent \in Take(lib.carrier, ops[o].sent)
        /\ op = [i |-> s, from |-> o, parent |-> parent, target |-> "its",
                 sent |-> <<>>, room |-> FALSE, open |-> TRUE, how |-> "received",
                 left |-> <<>>]
        /\ Begin(op)
  BY DEF StartUpstream
<1>2. /\ op.i = s /\ op.from = o /\ op.parent = parent /\ op.target = "its"
      /\ op.sent = <<>> /\ op.left = <<>>
  BY <1>1
<1>3. PICK n \in Nat : n = Len(ops)
  BY OpsFacts DEF Known, AllOK
<1>4. /\ lib \in Libraries /\ AllOK(lib, ops) /\ lib.carrier \in CarrierType
      /\ s \in AllInstrumenters
  BY <1>1, LibraryOf DEF Known, Instrumenters
<1>5. /\ o \in DOMAIN ops /\ ops[o].from = 0 /\ ops[o].sent \in Seq(Nat) /\ o \in 1 .. n
      /\ Headed(ops, ops[o].sent, o)
  BY <1>1, <1>3, HeadedIn, OpFields DEF Senders, OpOK
<1>6. parent \in 0 .. n
  <2>1. parent = 0 \/ \E k \in DOMAIN ops[o].sent : parent = ops[o].sent[k]
    <3>1. PICK h \in Seq(Nat) : h = ops[o].sent
      BY <1>5
    <3>2. parent \in Take(lib.carrier, h)
      BY <1>1, <3>1
    <3> QED
      BY <1>4, <3>1, <3>2, TakeOf
  <2> QED
    BY <1>5, <2>1 DEF Headed
<1>7. op \in Op
  <2>1. /\ "its" \in Targets /\ "received" \in Ways /\ <<>> \in Seq(Nat)
        /\ o \in Nat /\ parent \in Nat /\ FALSE \in BOOLEAN /\ TRUE \in BOOLEAN
    BY <1>5, <1>6 DEF Targets, Ways
  <2> HIDE DEF AllInstrumenters, Targets, Ways
  <2> QED
    BY <1>1, <1>4, <2>1 DEF Op
<1>8. ASSUME NEW os \in Seq(Op), Len(os) = Len(ops) + 1, os[Len(ops) + 1] = op,
             \A x \in DOMAIN ops : os[x] = ops[x]
      PROVE  OpOK(lib, os, Len(ops) + 1)
  <2>1. /\ Headed(os, op.sent, n + 1) /\ Headed(os, op.left, n + 1)
    BY <1>2 DEF Headed
  <2>2. o # 0 /\ parent < n + 1 /\ o < n + 1 /\ os[o] = ops[o] /\ os[n + 1] = op
    BY <1>3, <1>5, <1>6, <1>8
  <2>3. op.parent \in Take(lib.carrier, os[op.from].sent) /\ os[op.from].from = 0
    BY <1>1, <1>2, <1>5, <2>2
  <2>4. OpOK(lib, os, n + 1)
    BY <1>1, <1>2, <2>1, <2>2, <2>3 DEF OpOK
  <2> QED
    BY <1>3, <2>4
<1>9. AllOK(lib, ops')
  BY <1>1, <1>4, <1>7, <1>8, BeginOK
<1>10. lib' = lib
  BY <1>1 DEF Begin
<1> QED
  BY <1>4, <1>9, <1>10 DEF Known

LEMMA EndOK ==
  ASSUME Known, NEW o \in DOMAIN ops, NEW outcome, End(o, outcome)
  PROVE  Known'
<1>1. lib' = lib /\ ops' = [ops EXCEPT ![o].open = FALSE]
  BY DEF End
<1>2. lib \in Libraries /\ AllOK(lib, ops) /\ ops \in Seq(Op)
  BY DEF Known, AllOK
<1>3. PICK p : p = [ops[o] EXCEPT !.open = FALSE]
  OBVIOUS
<1>4. p \in Op /\ Alike(p, ops[o])
  BY <1>2, <1>3, OpsFacts, OpFields
<1>5. /\ ops' \in Seq(Op) /\ DOMAIN ops' = DOMAIN ops
      /\ \A x \in DOMAIN ops : ops'[x] = IF x = o THEN p ELSE ops[x]
  <2>1. o \in 1 .. Len(ops) /\ ops' = [ops EXCEPT ![o] = p]
    BY <1>1, <1>2, <1>3, OpsFacts
  <2>2. /\ ops' \in Seq(Op) /\ Len(ops') = Len(ops)
        /\ \A x \in 1 .. Len(ops) : ops'[x] = IF x = o THEN p ELSE ops[x]
    BY <1>2, <1>4, <2>1, ExceptSeq
  <2> QED
    BY <1>2, <2>2, OpsFacts
<1>6. \A x \in DOMAIN ops : Alike(ops'[x], ops[x])
  BY <1>4, <1>5 DEF Alike
<1>7. ASSUME NEW x \in DOMAIN ops PROVE OpOK(lib, ops', x)
  BY <1>2, <1>6, OpStays DEF AllOK
<1>8. AllOK(lib, ops')
  BY <1>5, <1>7 DEF AllOK
<1> QED
  BY <1>1, <1>2, <1>8 DEF Known

LEMMA InitKnown ==
  ASSUME Init
  PROVE  Known
<1>1. lib \in Libraries /\ ops = <<>>
  BY DEF Init
<1>2. AllOK(lib, <<>>)
  BY DEF AllOK
<1> QED
  BY <1>1, <1>2 DEF Known

LEMMA KnownNext == Known /\ [Next]_vars => Known'
<1>1. ASSUME Known, lib' = lib, ops' = ops PROVE Known'
  BY <1>1 DEF Known
<1>2. ASSUME Known, Next PROVE Known'
  <2>1. CASE InitMetrics
    BY <1>1, <1>2, <2>1 DEF InitMetrics
  <2> QED
    BY <1>2, <2>1, SendOK, SendAgainOK, ForwardOK, StartUpstreamOK, EndOK DEF Next
<1> QED
  BY <1>1, <1>2 DEF vars

(* Meters, and what the operation that ended last left behind.             *)

States == {"none", "made", "lost"}
Names == {lib.sends.name} \union {s.name : s \in lib.serves}

\* What the operation left that ended last, one of the instrumenter i.
LastIs(i) ==
  LET err == i.told /\ last.outcome = "error"
      code == i.says.code[last.outcome]
      answered == last.outcome \in i.says.answered
  IN  /\ last.outcome \in i.outcomes
      /\ last.status = Status(i, code, err)
      /\ last.type = ErrorType(i, answered, code, err)
      /\ last.code = ShownCode(i, answered, code)
      /\ i.metric # "none" /\ last.meter /\ (i.kind = "db" => kept[i.name] # "lost") =>
           last.recorded
      /\ last.panicked => ~last.meter /\ i.kind = "ai" /\ "tokens" \in i.fills
      /\ last.fault = (last.recorded /\ MetricFault(i, answered, code, err))
Metered ==
  /\ meter \in BOOLEAN /\ kept \in [Names -> States]
  /\ \A i \in Instrumenters : last.i = i.name => LastIs(i)

LEMMA KeptOf ==
  ASSUME NEW i, Fits(i), meter \in BOOLEAN, kept[i.name] \in States
  PROVE  /\ Kept(i) \in States
         /\ i.metric # "none" /\ meter /\ (i.kind = "db" => Kept(i) # "lost") => Recorded(i)
<1>1. /\ AfterDb(kept[i.name], meter) \in States
      /\ meter => AfterDb(kept[i.name], meter) \in {"made", "lost"}
  BY DEF AfterDb, States
<1>2. /\ AfterRpc(kept[i.name], meter) \in States
      /\ meter => AfterRpc(kept[i.name], meter) = "made"
  BY DEF AfterRpc, States
<1>3. /\ AfterHttpServer(kept[i.name], meter) \in States
      /\ meter => AfterHttpServer(kept[i.name], meter) = "made"
  BY DEF AfterHttpServer, States
<1>4. \/ i.metric = "none"
      \/ i.metric = "once" /\ i.kind = "db"
      \/ i.metric = "kept" /\ i.kind \in {"rpc", "http server"}
      \/ i.metric = "afresh" /\ i.kind \in {"http client", "ai"}
  BY DEF Fits, MetricFits
<1>5. CASE i.metric = "once"
  <2>1. Kept(i) = AfterDb(kept[i.name], meter)
    BY <1>5 DEF Kept
  <2> QED
    BY <1>1, <1>4, <1>5, <2>1 DEF Recorded
<1>6. CASE i.metric = "kept" /\ i.kind = "rpc"
  <2>1. Kept(i) = AfterRpc(kept[i.name], meter)
    BY <1>6 DEF Kept
  <2> QED
    BY <1>2, <1>6, <2>1 DEF Recorded
<1>7. CASE i.metric = "kept" /\ i.kind = "http server"
  <2>1. Kept(i) = AfterHttpServer(kept[i.name], meter)
    BY <1>7 DEF Kept
  <2> QED
    BY <1>3, <1>7, <2>1 DEF Recorded
<1>8. CASE i.metric \in {"none", "afresh"}
  <2>1. Kept(i) = kept[i.name]
    BY <1>8 DEF Kept
  <2> QED
    BY <1>4, <1>8, <2>1 DEF Recorded, HttpClientRecords, AiRecords
<1> QED
  BY <1>4, <1>5, <1>6, <1>7, <1>8

LEMMA EndMetered ==
  ASSUME Known, Metered, NEW o \in DOMAIN ops, NEW outcome \in ops[o].i.outcomes,
         End(o, outcome)
  PROVE  Metered'
<1>1. PICK i : i = ops[o].i
  OBVIOUS
<1>2. /\ i \in Instrumenters /\ Fits(i) /\ i.name # "none" /\ outcome \in i.outcomes
      /\ \A j \in Instrumenters : i.name = j.name => i = j
  BY <1>1, HeadedIn, LibraryOf DEF OpOK, Instrumenters, Known
<1>3. i.name \in Names
  BY <1>2 DEF Names, Instrumenters
<1>4. PICK err, code, answered :
        /\ err = (i.told /\ outcome = "error") /\ code = i.says.code[outcome]
        /\ answered = (outcome \in i.says.answered)
  OBVIOUS
<1>5. PICK tokens \in {"tokens" \in i.fills, FALSE} :
      /\ kept' = [kept EXCEPT ![i.name] = Kept(i)]
      /\ last' = [i |-> i.name, outcome |-> outcome, status |-> Status(i, code, err),
                  type |-> ErrorType(i, answered, code, err),
                  code |-> ShownCode(i, answered, code),
                  recorded |-> Recorded(i), meter |-> meter,
                  fault |-> Recorded(i) /\ MetricFault(i, answered, code, err),
                  panicked |-> Panics(i, tokens)]
      /\ UNCHANGED <<lib, meter>>
  BY <1>1, <1>4, Zenon DEF End
<1>6. /\ kept[i.name] \in States /\ meter \in BOOLEAN /\ kept \in [Names -> States]
  BY <1>3 DEF Metered
<1>7. /\ Kept(i) \in States
      /\ i.metric # "none" /\ meter /\ (i.kind = "db" => Kept(i) # "lost") => Recorded(i)
  BY <1>2, <1>6, KeptOf
<1>8. kept' \in [Names -> States] /\ kept'[i.name] = Kept(i)
  BY <1>3, <1>5, <1>6, <1>7
<1>9. /\ last'.i = i.name /\ last'.outcome = outcome /\ last'.status = Status(i, code, err)
      /\ last'.type = ErrorType(i, answered, code, err)
      /\ last'.code = ShownCode(i, answered, code)
      /\ last'.recorded = Recorded(i) /\ last'.meter = meter
      /\ last'.fault = (Recorded(i) /\ MetricFault(i, answered, code, err))
      /\ last'.panicked = Panics(i, tokens)
  BY <1>5
<1>10. Panics(i, tokens) => ~meter /\ i.kind = "ai" /\ "tokens" \in i.fills
  BY DEF Panics, AiPanics
<1>11. LastIs(i)'
  BY <1>2, <1>4, <1>7, <1>8, <1>9, <1>10, Zenon DEF LastIs
<1>12. Names' = Names /\ Instrumenters' = Instrumenters
  BY <1>5 DEF Names, Instrumenters
<1>13. ASSUME NEW j \in Instrumenters, last'.i = j.name PROVE LastIs(j)'
  BY <1>2, <1>9, <1>11, <1>13
<1> QED
  BY <1>5, <1>6, <1>8, <1>12, <1>13 DEF Metered

LEMMA MeteredNext == Known /\ Metered /\ [Next]_vars => Metered'
<1>1. ASSUME Metered, lib' = lib, kept' = kept, last' = last, meter' \in BOOLEAN
      PROVE  Metered'
  BY <1>1 DEF Metered, Names, Instrumenters, LastIs
<1>2. ASSUME Known, Metered, Next PROVE Metered'
  <2>1. CASE InitMetrics
    BY <1>1, <1>2, <2>1 DEF InitMetrics
  <2>2. CASE Send \/ SendAgain \/ Forward \/ StartUpstream
    <3>1. UNCHANGED <<lib, meter, kept, last>>
      BY <2>2, Zenon DEF Send, SendAgain, Forward, StartUpstream, Start, Begin
    <3> QED
      BY <1>1, <1>2, <3>1 DEF Metered
  <2> QED
    BY <1>2, <2>1, <2>2, EndMetered DEF Next
<1>3. ASSUME Metered, UNCHANGED vars PROVE Metered'
  BY <1>1, <1>3 DEF vars, Metered
<1> QED
  BY <1>2, <1>3

LEMMA InitMetered ==
  ASSUME Init
  PROVE  Metered
<1>1. /\ lib \in Libraries /\ meter = FALSE /\ last.i = "none"
      /\ kept = [n \in Names |-> "none"]
  BY DEF Init, NoLast, Names
<1>2. kept \in [Names -> States]
  BY <1>1 DEF States
<1> QED
  BY <1>1, <1>2, LibraryOf DEF Metered

LEMMA OperationsAlways == Spec => [](Known /\ Metered)
BY InitKnown, InitMetered, KnownNext, MeteredNext, PTL DEF Spec

(* Theorems.                                                               *)

\* Headers name operations that were started by a sender, each at most once, and a
\* parent is an earlier operation.
THEOREM TypeCorrect == Spec => []TypeOK
<1>1. ASSUME Known, Metered PROVE TypeOK
  <2>1. meter \in BOOLEAN /\ \A n \in DOMAIN kept : kept[n] \in {"none", "made", "lost"}
    BY <1>1 DEF Metered, States
  <2>2. ASSUME NEW o \in DOMAIN ops
        PROVE  /\ ops[o].from \in Senders \union {0} /\ ops[o].from < o
               /\ ops[o].parent \in 0 .. o - 1
               /\ \A k \in DOMAIN ops[o].sent :
                    /\ ops[o].sent[k] \in Senders /\ ops[o].sent[k] <= o
                    /\ \A l \in DOMAIN ops[o].sent \ {k} : ops[o].sent[k] # ops[o].sent[l]
    <3>1. /\ ops[o] \in Op /\ OpOK(lib, ops, o) /\ o \in 1 .. Len(ops) /\ Len(ops) \in Nat
          /\ DOMAIN ops = 1 .. Len(ops)
      BY <1>1, HeadedIn, OpsFacts DEF Known, AllOK
    <3>2. ops[o].from \in Nat /\ ops[o].parent \in Nat
      BY <3>1, OpFields
    <3>3. Headed(ops, ops[o].sent, o)
      BY <3>1 DEF OpOK
    <3> QED
      BY <3>1, <3>2, <3>3 DEF OpOK, Headed, Senders
  <2> QED
    BY <2>1, <2>2 DEF TypeOK
<1> QED
  BY <1>1, OperationsAlways, PTL

\* A receiver is a child of the operation that sent what it received, whatever was
\* sent with the same object before, and both name the target alike.
THEOREM ConnectedAlways == Spec => []Connected
<1>1. ASSUME Known, NEW o \in DOMAIN ops \ Senders
      PROVE  LET sender == ops[ops[o].from]
             IN  /\ <<lib.name, sender.how>> \notin Detached => ops[o].parent = ops[o].from
                 /\ lib.name \notin Misnamed => ops[o].target = sender.target
  <2>1. PICK f : f = ops[o].from
    OBVIOUS
  <2>2. /\ ops[o] \in Op /\ OpOK(lib, ops, o) /\ o \in 1 .. Len(ops) /\ Len(ops) \in Nat
        /\ DOMAIN ops = 1 .. Len(ops) /\ f # 0 /\ f \in Nat
    BY <1>1, <2>1, HeadedIn, OpsFacts, OpFields DEF Known, AllOK, Senders
  <2>3. /\ f < o /\ ops[f].from = 0 /\ ops[o].target = "its"
        /\ ops[o].parent \in Take(lib.carrier, ops[f].sent)
    BY <2>1, <2>2 DEF OpOK
  <2>4. f \in DOMAIN ops
    BY <2>2, <2>3
  <2>5. SenderOK(lib, ops[f], f)
    BY <1>1, <2>3, <2>4, HeadedIn DEF OpOK
  <2>6. lib \in Libraries /\ lib.serves # {}
    BY <1>1, <2>1, <2>2 DEF OpOK, Known
  <2>7. ASSUME <<lib.name, ops[f].how>> \notin Detached PROVE ops[o].parent = f
    <3>1. Leads(lib.carrier, ops[f].how)
      BY <2>5, <2>6, <2>7, LibrariesAssumption DEF SenderOK
    <3> QED
      BY <2>3, <2>5, <3>1 DEF SenderOK
  <2>8. ASSUME lib.name \notin Misnamed PROVE ops[o].target = ops[f].target
    BY <2>3, <2>5, <2>6, <2>8, LibrariesAssumption DEF SenderOK
  <2> QED
    BY <2>1, <2>7, <2>8
<1>2. TypeOK /\ Known => Connected
  BY <1>1 DEF Connected
<1> QED
  BY <1>2, TypeCorrect, OperationsAlways, PTL

\* Where a carrier replaces the header that is there, and always has a place for it,
\* a sender sends its own context alone.
Replaces(c) == c.put = "replace" /\ c.bare = "put"
SendsItsOwn == Replaces(lib.carrier) => \A o \in Senders : ops[o].sent = <<o>>

THEOREM OperationsNamed == Spec => []SendsItsOwn
<1>1. ASSUME Known, Replaces(lib.carrier), NEW o \in Senders PROVE ops[o].sent = <<o>>
  <2>1. SenderOK(lib, ops[o], o)
    BY <1>1, HeadedIn DEF Senders, OpOK
  <2> QED
    BY <1>1, <2>1 DEF SenderOK, Replaces
<1>2. Known => SendsItsOwn
  BY <1>1 DEF SendsItsOwn
<1> QED
  BY <1>2, OperationsAlways, PTL

\* So a receiver is always a child of the operation that sent what it received, with
\* no exceptions.
ChildOfSender ==
  Replaces(lib.carrier) =>
    \A o \in DOMAIN ops \ Senders : ops[o].parent = ops[o].from

THEOREM ReceiversAreChildren == Spec => []ChildOfSender
<1>1. ASSUME Known, Replaces(lib.carrier), NEW o \in DOMAIN ops \ Senders
      PROVE  ops[o].parent = ops[o].from
  <2>1. PICK f : f = ops[o].from
    OBVIOUS
  <2>2. /\ ops[o] \in Op /\ OpOK(lib, ops, o) /\ o \in 1 .. Len(ops) /\ Len(ops) \in Nat
        /\ DOMAIN ops = 1 .. Len(ops) /\ f # 0 /\ f \in Nat
    BY <1>1, <2>1, HeadedIn, OpsFacts, OpFields DEF Known, AllOK, Senders
  <2>3. f \in DOMAIN ops /\ ops[f].from = 0 /\ ops[o].parent \in Take(lib.carrier, ops[f].sent)
    BY <2>1, <2>2 DEF OpOK
  <2>4. SenderOK(lib, ops[f], f)
    BY <1>1, <2>3, HeadedIn DEF OpOK
  <2>5. Leads(lib.carrier, ops[f].how)
    BY <1>1, <2>4 DEF SenderOK, Replaces, Leads
  <2> QED
    BY <2>1, <2>3, <2>4, <2>5 DEF SenderOK
<1>2. Known => ChildOfSender
  BY <1>1 DEF ChildOfSender
<1> QED
  BY <1>2, OperationsAlways, PTL

\* The classes of codes.
LEMMA CodeClasses ==
  /\ \A code : Success(code) => ~ClientFault(code) /\ ~ServerFault(code)
  /\ \A code : Refusal(code) => ~Success(code) /\ ClientFault(code) /\ ~ServerFault(code)
  /\ \A code : Breakdown(code) => ~Success(code) /\ ClientFault(code) /\ ServerFault(code)
BY DEF Success, Refusal, Breakdown, ClientFault, ServerFault

\* What an outcome is to the instrumenter.
Code(i, outcome) == i.says.code[outcome]
Err(i, outcome) == i.told /\ outcome = "error"
Answered(i, outcome) == outcome \in i.says.answered

\* The status, the error.type and the code tell of an outcome what they should.
StatusTells(i, outcome) == i.name \notin Untold =>
  (Status(i, Code(i, outcome), Err(i, outcome)) = "Error" <=> Fault(i, outcome))
TypeTells(i, outcome) == i.name \notin Untold /\ i.kind \in Typed =>
  (ErrorType(i, Answered(i, outcome), Code(i, outcome), Err(i, outcome)) <=>
     Fault(i, outcome))
CodeTells(i, outcome) ==
  i.kind = "http client" /\ outcome = "error" /\ i.name \notin Prefilled =>
    ShownCode(i, Answered(i, outcome), Code(i, outcome)) = 0

LEMMA ClientTells ==
  ASSUME NEW i, i.kind = "http client", ClientFits(i), i.name \notin Untold => i.told,
         NEW outcome \in {"ok", "refused", "broken", "error"}
  PROVE  StatusTells(i, outcome) /\ TypeTells(i, outcome) /\ CodeTells(i, outcome)
<1>1. PICK code : code = Code(i, outcome)
  OBVIOUS
<1>2. /\ outcome = "ok" => Success(code) /\ ~ClientFault(code)
      /\ outcome = "refused" => ~Success(code) /\ ClientFault(code)
      /\ outcome = "broken" => ~Success(code) /\ ClientFault(code)
  <2>1. outcome = "ok" => Success(code)
    BY <1>1, Zenon DEF ClientFits, Code
  <2>2. outcome = "refused" => Refusal(code)
    BY <1>1, Zenon DEF ClientFits, Code
  <2>3. outcome = "broken" => Breakdown(code)
    BY <1>1, Zenon DEF ClientFits, Code
  <2> QED
    BY <2>1, <2>2, <2>3, CodeClasses, Zenon
<1>3. /\ outcome # "error" => Answered(i, outcome)
      /\ outcome = "error" /\ i.name \notin Prefilled => ~Answered(i, outcome)
  BY Zenon DEF ClientFits, Answered
<1>4. i.name \notin Untold => (Err(i, outcome) <=> outcome = "error")
  BY Zenon DEF Err
<1>5. Fault(i, outcome) <=> outcome # "ok"
  BY DEF Fault
<1>6. StatusTells(i, outcome)
  <2>1. SetsOk(i, code, Err(i, outcome)) <=> ~Err(i, outcome) /\ Success(code)
    BY DEF SetsOk, ClientFits
  <2>2. SetsError(i, code, Err(i, outcome)) <=> Err(i, outcome) \/ ClientFault(code)
    BY DEF SetsError, ClientFits
  <2>3. ASSUME i.name \notin Untold
        PROVE  Status(i, code, Err(i, outcome)) = "Error" <=> outcome # "ok"
    <3>1. CASE outcome = "ok"
      BY <1>2, <1>4, <2>1, <2>2, <2>3, <3>1 DEF Status
    <3>2. CASE outcome # "ok"
      BY <1>2, <1>4, <2>1, <2>2, <2>3, <3>2 DEF Status
    <3> QED
      BY <3>1, <3>2
  <2> QED
    BY <1>1, <1>5, <2>3, Zenon DEF StatusTells
<1>7. TypeTells(i, outcome)
  <2>1. ErrorType(i, Answered(i, outcome), code, Err(i, outcome)) <=>
          (Answered(i, outcome) /\ ClientFault(code)) \/ Err(i, outcome)
    BY DEF ErrorType, HttpClientType
  <2>2. ASSUME i.name \notin Untold
        PROVE  (Answered(i, outcome) /\ ClientFault(code)) \/ Err(i, outcome) <=>
                 outcome # "ok"
    BY <1>2, <1>3, <1>4, <2>2
  <2> QED
    BY <1>1, <1>5, <2>1, <2>2, Zenon DEF TypeTells
<1>8. CodeTells(i, outcome)
  BY <1>3 DEF CodeTells, ShownCode
<1> QED
  BY <1>6, <1>7, <1>8

LEMMA ServerTells ==
  ASSUME NEW i, i.kind = "http server", ServerFits(i), i.name \notin Untold => i.told,
         NEW outcome \in {"ok", "refused", "broken", "error"}, outcome \in i.outcomes
  PROVE  StatusTells(i, outcome) /\ TypeTells(i, outcome) /\ CodeTells(i, outcome)
<1>1. PICK code : code = Code(i, outcome)
  OBVIOUS
<1>2. /\ outcome = "ok" => Success(code) /\ ~ServerFault(code)
      /\ outcome = "refused" => ~Success(code) /\ ~ServerFault(code)
      /\ outcome = "broken" => ~Success(code) /\ ServerFault(code)
  <2>1. outcome = "ok" => Success(code)
    BY <1>1, Zenon DEF ServerFits, Code
  <2>2. outcome = "refused" => Refusal(code)
    BY <1>1, Zenon DEF ServerFits, Code
  <2>3. outcome = "broken" => Breakdown(code)
    BY <1>1, Zenon DEF ServerFits, Code
  <2> QED
    BY <2>1, <2>2, <2>3, CodeClasses, Zenon
<1>3. outcome = "error" /\ i.name \notin Untold => ~Success(code) /\ ServerFault(code)
  <2>1. outcome = "error" /\ i.name \notin Untold => Breakdown(code)
    BY <1>1, Zenon DEF ServerFits, Code
  <2> QED
    BY <2>1, CodeClasses, Zenon
<1>4. i.name \notin Untold => (Err(i, outcome) <=> outcome = "error")
  BY Zenon DEF Err
<1>5. Fault(i, outcome) <=> outcome \in {"broken", "error"}
  BY DEF Fault
<1>6. StatusTells(i, outcome)
  <2>1. SetsOk(i, code, Err(i, outcome)) <=> Success(code)
    BY DEF SetsOk, ServerFits
  <2>2. SetsError(i, code, Err(i, outcome)) <=> Err(i, outcome) \/ ServerFault(code)
    BY DEF SetsError, ServerFits
  <2>3. ASSUME i.name \notin Untold
        PROVE  Status(i, code, Err(i, outcome)) = "Error" <=> outcome \in {"broken", "error"}
    <3>1. CASE outcome = "ok"
      BY <1>2, <2>1, <3>1 DEF Status
    <3>2. CASE outcome = "refused"
      BY <1>2, <1>4, <2>1, <2>2, <2>3, <3>2 DEF Status
    <3>3. CASE outcome \in {"broken", "error"}
      BY <1>2, <1>3, <2>1, <2>2, <2>3, <3>3 DEF Status
    <3> QED
      BY <3>1, <3>2, <3>3
  <2> QED
    BY <1>1, <1>5, <2>3, Zenon DEF StatusTells
<1>7. TypeTells(i, outcome)
  <2>1. ErrorType(i, Answered(i, outcome), code, Err(i, outcome)) <=> ServerFault(code)
    BY DEF ErrorType, HttpServerType
  <2>2. ASSUME i.name \notin Untold
        PROVE  ServerFault(code) <=> outcome \in {"broken", "error"}
    BY <1>2, <1>3, <2>2
  <2> QED
    BY <1>1, <1>5, <2>1, <2>2, Zenon DEF TypeTells
<1>8. CodeTells(i, outcome)
  BY DEF CodeTells
<1> QED
  BY <1>6, <1>7, <1>8

LEMMA OtherTells ==
  ASSUME NEW i, i.kind \notin {"http client", "http server"}, OtherFits(i),
         i.name \notin Untold => i.told, NEW outcome \in i.outcomes
  PROVE  StatusTells(i, outcome) /\ TypeTells(i, outcome) /\ CodeTells(i, outcome)
<1>1. /\ outcome \in {"ok", "error"} /\ i.status \in {"result", "default", "grpc", "trpc"}
      /\ i.status = "grpc" /\ outcome = "ok" => Code(i, outcome) = 200
  BY DEF OtherFits, Code
<1>2. i.name \notin Untold => (Err(i, outcome) <=> outcome = "error")
  BY Zenon DEF Err
<1>3. Fault(i, outcome) <=> outcome = "error"
  BY <1>1 DEF Fault
<1>4. StatusTells(i, outcome)
  <2>1. ASSUME i.name \notin Untold
        PROVE  Status(i, Code(i, outcome), Err(i, outcome)) = "Error" <=> outcome = "error"
    BY <1>1, <1>2, <2>1 DEF Status, SetsOk, SetsError
  <2> QED
    BY <1>3, <2>1, Zenon DEF StatusTells
<1>5. TypeTells(i, outcome)
  <2>1. ASSUME i.name \notin Untold, i.kind \in Typed
        PROVE  ErrorType(i, Answered(i, outcome), Code(i, outcome), Err(i, outcome)) <=>
                 outcome = "error"
    BY <1>2, <2>1 DEF Typed, ErrorType, DbType, AiType
  <2> QED
    BY <1>3, <2>1, Zenon DEF TypeTells
<1>6. CodeTells(i, outcome)
  BY DEF CodeTells
<1> QED
  BY <1>4, <1>5, <1>6

LEMMA AllTell ==
  ASSUME NEW i, Fits(i), NEW outcome \in i.outcomes
  PROVE  StatusTells(i, outcome) /\ TypeTells(i, outcome) /\ CodeTells(i, outcome)
<1>1. outcome \in {"ok", "refused", "broken", "error"} /\ (i.name \notin Untold => i.told)
  BY DEF Fits, Outcomes
<1>2. CASE i.kind = "http client"
  <2>1. ClientFits(i)
    BY <1>2 DEF Fits
  <2> QED
    BY <1>1, <1>2, <2>1, ClientTells
<1>3. CASE i.kind = "http server"
  <2>1. ServerFits(i)
    BY <1>3 DEF Fits
  <2> QED
    BY <1>1, <1>3, <2>1, ServerTells
<1>4. CASE i.kind \notin {"http client", "http server"}
  <2>1. OtherFits(i)
    BY <1>4 DEF Fits
  <2> QED
    BY <1>1, <1>4, <2>1, OtherTells
<1> QED
  BY <1>2, <1>3, <1>4

\* The status of a span is Error just when its operation failed, with its error.type,
\* and a client without an answer shows no code.
THEOREM ToldAlways == Spec => []Told
<1>1. ASSUME Known, Metered, NEW i \in Instrumenters, last.i = i.name
      PROVE  /\ i.name \notin Untold =>
                  /\ (last.status = "Error") <=> Fault(i, last.outcome)
                  /\ i.kind \in Typed => (last.type <=> Fault(i, last.outcome))
             /\ i.kind = "http client" /\ last.outcome = "error" /\ i.name \notin Prefilled
                  => last.code = 0
  <2>1. PICK o : o = last.outcome
    OBVIOUS
  <2>2. Fits(i) /\ LastIs(i)
    BY <1>1, LibraryOf DEF Known, Metered
  <2>3. o \in i.outcomes
    BY <2>1, <2>2, Zenon DEF LastIs
  <2>4. StatusTells(i, o) /\ TypeTells(i, o) /\ CodeTells(i, o)
    BY <2>2, <2>3, AllTell
  <2>5. /\ last.status = Status(i, Code(i, o), Err(i, o))
        /\ last.code = ShownCode(i, Answered(i, o), Code(i, o))
        /\ last.type = ErrorType(i, Answered(i, o), Code(i, o), Err(i, o))
    BY <2>1, <2>2, Zenon DEF LastIs, Code, Err, Answered
  <2> QED
    BY <2>1, <2>4, <2>5, Zenon DEF StatusTells, TypeTells, CodeTells
<1>2. Known /\ Metered => Told
  BY <1>1 DEF Told
<1> QED
  BY <1>2, OperationsAlways, PTL

\* Once the meters are there every operation is recorded, with its failure, but of a
\* database that was used before them, and no listener panics.
THEOREM MeasuredAlways == Spec => []Measured
<1>1. ASSUME Known, Metered, NEW i \in Instrumenters, last.i = i.name, i.metric # "none"
      PROVE  /\ last.meter /\ (i.kind = "db" => kept[i.name] # "lost") => last.recorded
             /\ last.panicked => ~last.meter /\ i.kind = "ai" /\ "tokens" \in i.fills
             /\ last.recorded /\ (i.kind = "rpc" => "grpc code" \in i.fills)
                  /\ i.name \notin Untold => (last.fault <=> Fault(i, last.outcome))
             /\ i.kind = "db" /\ i.name # "neo4j" => {"address", "operation"} \subseteq i.fills
  <2>1. Fits(i) /\ LastIs(i)
    BY <1>1, LibraryOf DEF Known, Metered
  <2>2. PICK o : o = last.outcome
    OBVIOUS
  <2>3. o \in i.outcomes
    BY <2>1, <2>2, Zenon DEF LastIs
  <2>4. last.fault = (last.recorded /\ MetricFault(i, Answered(i, o), Code(i, o), Err(i, o)))
    BY <2>1, <2>2, Zenon DEF LastIs, Code, Err, Answered
  <2>5. ASSUME i.name \notin Untold, i.kind = "rpc" => "grpc code" \in i.fills
        PROVE  MetricFault(i, Answered(i, o), Code(i, o), Err(i, o)) <=> Fault(i, o)
    <3>1. CASE i.kind = "rpc"
      <4>1. OtherFits(i) /\ i.told
        BY <2>1, <2>5, <3>1 DEF Fits
      <4>2. o \in {"ok", "error"}
        BY <2>3, <4>1 DEF OtherFits
      <4>3. Fault(i, o) <=> o = "error"
        BY <3>1, <4>2 DEF Fault
      <4>4. Err(i, o) <=> o = "error"
        BY <4>1 DEF Err
      <4> QED
        BY <2>5, <3>1, <4>3, <4>4, Zenon DEF MetricFault
    <3>2. CASE i.kind # "rpc"
      <4>1. i.kind \in Typed
        BY <1>1, <2>1, <3>2 DEF Fits, MetricFits, Typed
      <4>2. TypeTells(i, o)
        BY <2>1, <2>3, AllTell
      <4> QED
        BY <2>5, <3>2, <4>1, <4>2, Zenon DEF TypeTells, MetricFault
    <3> QED
      BY <3>1, <3>2
  <2>6. i.kind = "db" /\ i.name # "neo4j" => {"address", "operation"} \subseteq i.fills
    BY <1>1, <2>1 DEF Fits, MetricFits
  <2>7. last.meter /\ (i.kind = "db" => kept[i.name] # "lost") => last.recorded
    BY <1>1, <2>1 DEF LastIs
  <2>8. last.panicked => ~last.meter /\ i.kind = "ai" /\ "tokens" \in i.fills
    BY <2>1, Zenon DEF LastIs
  <2> QED
    BY <2>2, <2>4, <2>5, <2>6, <2>7, <2>8, Zenon
<1>2. Known /\ Metered => Measured
  BY <1>1 DEF Measured
<1> QED
  BY <1>2, OperationsAlways, PTL
=============================================================================
