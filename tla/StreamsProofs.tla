---------------------------- MODULE StreamsProofs ---------------------------
(* Proofs about StreamChannels and StreamedResponse, for any answers and      *)
(* channels of any size.                                                    *)
EXTENDS StreamChannels, StreamedResponse, SequenceTheorems, WellFoundedInduction, TLAPS

\* What was put into the channel, or into the copy of the stream.
Sent == {i \in 1 .. pos : /\ lib \in Genai => body[i] # Torn
                          /\ lib \in Meg => IsChunk(i) /\ i \notin raw}
Failure == \E i \in 1 .. pos : body[i] = Bad
Unsent == 0 \in Places(buf)    \* the error of a request that was not sent

\* Where the application is, and what is there by then.
Stages ==
  /\ app = "call" => span = "none"
  /\ app = "call" \/ (app = "opening" /\ lib \notin Genai)
       => chan = "nil" /\ hook = "none" /\ buf = <<>> /\ counted = <<>>
  /\ app \in {"call", "opening", "failing"} => pos = 0
  /\ app \in {"call", "opening", "failing", "stream"} => ranged = 0
  /\ app = "ranging" => ranged > 0
  /\ app = "opening" /\ enabled => span # "none"
  /\ app = "opening" /\ enabled /\ lib \notin Genai => span = "open"
  /\ app \in {"failing", "ranging"} => lib \in Genai
  /\ app = "failing" => enabled

\* Who has closed the channel, and who is still there.
Ends ==
  /\ chan # "nil" => lib \in Eino \/ (enabled /\ hook # "none")
  /\ hook # "none" => chan # "nil" /\ enabled
  /\ span # "none" => enabled
  /\ lib \in Genai =>
       /\ enabled /\ app # "call" => chan # "nil"
       /\ chan = "closed" => (cancelled /\ span = "open" /\ hook = "gone") \/ app = "over" \/ ranged = 2
       /\ hook = "gone" /\ chan = "open" => told
       /\ Failure => told
       /\ Unsent => pos = 0 /\ ranged = 0 /\ told /\ app \in {"failing", "over"}
  /\ lib \in Meg =>
       /\ app = "stream" /\ enabled => chan # "nil"
       /\ chan = "closed" => told
       /\ hook = "gone" => chan = "closed"
  /\ lib \in Eino /\ chan = "closed" => app = "over"
  /\ raw # {} => lib \in Meg

\* As long as the hook runs, each item that was sent is waiting or was taken, in
\* the order in which they were sent.
Flow == hook = "running" =>
  /\ Increasing(counted) /\ Increasing(buf)
  /\ \A i \in Places(counted), j \in Places(buf) : i < j
  /\ Places(counted) \subseteq {i \in Sent : IsChunk(i)}
  /\ Places(buf) \subseteq Sent \union {0} /\ (Unsent => lib \in Genai)
  /\ \A i \in Sent : \/ i \in Places(counted) \union Places(buf)
                     \/ lib \in Eino /\ ~ IsChunk(i)

\* Nothing more is delivered when the span has ended.
Over == span = "ended" =>
  /\ hook # "running"
  /\ lib \in Genai => chan = "closed" \/ Failure \/ (app \in {"failing", "over"} /\ ranged = 0)
  /\ lib \in Meg => chan = "closed" \/ app = "over"
  /\ lib \in Eino => app = "over"

Sequenced == buf \in Seq(Nat) /\ counted \in Seq(Nat)
ChannelInv == /\ ChannelTypeOK /\ Sequenced /\ Stages /\ Ends /\ Flow /\ Over
              /\ CrashCauses /\ DeliveredRecorded
-----------------------------------------------------------------------------
(* Sequences of places.                                                    *)

LEMMA PlacesOfNone == Places(<<>>) = {} /\ Increasing(<<>>)
BY DEF Places, Increasing

LEMMA PlacesAppend ==
  ASSUME NEW s \in Seq(Nat), NEW i \in Nat
  PROVE  /\ Append(s, i) \in Seq(Nat) /\ Len(Append(s, i)) = Len(s) + 1
         /\ Places(Append(s, i)) = Places(s) \union {i}
         /\ (Increasing(s) /\ (\A j \in Places(s) : j < i) => Increasing(Append(s, i)))
<1>1. Append(s, i) \in Seq(Nat) /\ Len(Append(s, i)) = Len(s) + 1
  OBVIOUS
<1>2. Places(Append(s, i)) = Places(s) \union {i}
  <2>1. \A k \in 1 .. Len(s) : Append(s, i)[k] = s[k]
    OBVIOUS
  <2>2. Append(s, i)[Len(s) + 1] = i
    OBVIOUS
  <2>3. Len(s) \in Nat
    OBVIOUS
  <2> QED BY <1>1, <2>1, <2>2, <2>3 DEF Places
<1>3. ASSUME Increasing(s), \A j \in Places(s) : j < i
      PROVE  Increasing(Append(s, i))
  <2> SUFFICES ASSUME NEW j \in 1 .. Len(s) + 1, NEW k \in 1 .. Len(s) + 1, j < k
               PROVE  Append(s, i)[j] < Append(s, i)[k]
    BY <1>1 DEF Increasing
  <2>1. j \in 1 .. Len(s) /\ Append(s, i)[j] = s[j] /\ s[j] \in Places(s)
    BY DEF Places
  <2>2. CASE k = Len(s) + 1
    BY <1>3, <2>1, <2>2
  <2>3. CASE k # Len(s) + 1
    BY <1>3, <2>1, <2>3 DEF Increasing
  <2> QED BY <2>2, <2>3
<1> QED BY <1>1, <1>2, <1>3

LEMMA PlacesTail ==
  ASSUME NEW s \in Seq(Nat), s # <<>>
  PROVE  /\ Tail(s) \in Seq(Nat) /\ Head(s) \in Nat /\ Len(Tail(s)) = Len(s) - 1
         /\ Places(s) = Places(Tail(s)) \union {Head(s)}
         /\ Increasing(s) => Increasing(Tail(s)) /\ \A j \in Places(Tail(s)) : Head(s) < j
<1>1. /\ Tail(s) \in Seq(Nat) /\ Head(s) \in Nat /\ Head(s) = s[1]
      /\ Len(Tail(s)) = Len(s) - 1 /\ Len(s) \in Nat /\ Len(s) > 0
      /\ \A k \in 1 .. Len(s) - 1 : Tail(s)[k] = s[k + 1]
  OBVIOUS
<1>2. Places(s) = Places(Tail(s)) \union {Head(s)}
  <2>1. \A k \in 1 .. Len(s) : k = 1 \/ (k - 1 \in 1 .. Len(Tail(s)) /\ s[k] = Tail(s)[k - 1])
    <3>1. SUFFICES ASSUME NEW k \in 1 .. Len(s), k # 1
                   PROVE  k - 1 \in 1 .. Len(s) - 1
      BY <1>1
    <3> QED BY <3>1, <1>1
  <2>2. \A k \in 1 .. Len(Tail(s)) : k + 1 \in 1 .. Len(s) /\ Tail(s)[k] = s[k + 1]
    BY <1>1
  <2>3. 1 \in 1 .. Len(s)
    BY <1>1
  <2> QED BY <1>1, <2>1, <2>2, <2>3 DEF Places
<1>3. Increasing(s) => Increasing(Tail(s)) /\ \A j \in Places(Tail(s)) : Head(s) < j
  BY <1>1 DEF Increasing, Places
<1> QED BY <1>1, <1>2, <1>3

LEMMA Numbers ==
  ASSUME ChannelInv
  PROVE  /\ Cap \in Nat /\ Cap > 0 /\ Len(body) \in Nat /\ pos \in Nat /\ ranged \in Nat
         /\ buf \in Seq(Nat) /\ counted \in Seq(Nat) /\ Len(buf) \in Nat
         /\ lib \in Genai \union Meg \union Eino
         /\ lib \in Genai => lib \notin Meg \union Eino
         /\ lib \in Meg => lib \notin Eino
         /\ raw \subseteq 1 .. pos /\ (raw # {} => lib \in Meg)
<1>1. Len(body) \in Nat
  BY ChannelAssumption DEF ChannelInv, ChannelTypeOK
<1>2. /\ lib \in Genai \union Meg \union Eino
      /\ lib \in Genai => lib \notin Meg \union Eino
      /\ lib \in Meg => lib \notin Eino
  BY DEF ChannelInv, ChannelTypeOK, Genai, Meg, Eino
<1>3. Cap \in Nat /\ Cap > 0
  BY ChannelAssumption
<1>4. buf \in Seq(Nat) /\ counted \in Seq(Nat) /\ Len(buf) \in Nat
  BY DEF ChannelInv, Sequenced
<1>5. pos \in Nat /\ ranged \in Nat
  BY <1>1 DEF ChannelInv, ChannelTypeOK
<1>6. raw \subseteq 1 .. pos /\ (raw # {} => lib \in Meg)
  BY DEF ChannelInv, ChannelTypeOK, Ends
<1> QED BY <1>1, <1>2, <1>3, <1>4, <1>5, <1>6

\* What is said of the stream depends on where the application is only.
LEMMA SameStream ==
  ASSUME UNCHANGED <<lib, body, pos, raw>>
  PROVE  Sent' = Sent /\ Delivered' = Delivered /\ (Failure' <=> Failure) /\ \A i : IsChunk(i)' <=> IsChunk(i)
<1>1. \A i : IsChunk(i)' <=> IsChunk(i)
  BY DEF IsChunk
<1> QED BY <1>1 DEF Sent, Delivered, Failure
\* The next item of the body adds itself, if anything.
LEMMA Further ==
  ASSUME pos \in Nat, raw \subseteq 1 .. pos, pos' = pos + 1, UNCHANGED <<lib, body, raw>>
  PROVE  /\ \A i : IsChunk(i)' <=> IsChunk(i)
         /\ \A i : i \in Sent' <=>
              \/ i \in Sent
              \/ /\ i = pos + 1 /\ (lib \in Genai => body[i] # Torn)
                 /\ lib \in Meg => IsChunk(i)
         /\ \A i : i \in Delivered' <=>
              \/ i \in Delivered
              \/ /\ i = pos + 1 /\ IsChunk(i)
                 /\ lib \in Genai => \A j \in 1 .. i : body[j] # Bad
         /\ Failure' <=> (Failure \/ body[pos + 1] = Bad)
         /\ \A i \in Sent : i \in 1 .. pos
<1>1. \A i : IsChunk(i)' <=> IsChunk(i)
  BY DEF IsChunk
<1>2. \A i : i \in 1 .. pos' <=> i \in 1 .. pos \/ i = pos + 1
  OBVIOUS
<1>3. \A i \in 1 .. pos' : i \in Int
  OBVIOUS
<1> QED BY <1>1, <1>2, <1>3 DEF Sent, Delivered, Failure

LEMMA NothingYet ==
  ASSUME pos = 0
  PROVE  Sent = {} /\ Delivered = {} /\ ~ Failure
BY DEF Sent, Delivered, Failure

LEMMA SendStep ==
  ASSUME ChannelInv, NEW i \in Nat, Send(i)
  PROVE  /\ buf' \in Seq(Nat) /\ (lib \notin Eino => Len(buf') <= Cap) /\ chan' = chan
         /\ \/ chan = "closed" /\ crashed' = TRUE /\ buf' = buf
            \/ /\ chan = "open" /\ crashed' = crashed /\ Len(buf) < Cap
               /\ Places(buf') = Places(buf) \union {i}
               /\ (\A j \in Places(buf) : j < i) /\ Increasing(buf) => Increasing(buf')
<1>1. CASE chan = "closed" /\ Crash
  BY <1>1, Numbers DEF Crash, channel, ChannelInv, ChannelTypeOK
<1>2. CASE chan = "open" /\ Len(buf) < Cap /\ buf' = Append(buf, i) /\ UNCHANGED <<chan, crashed>>
  <2>1. buf \in Seq(Nat) /\ Cap \in Nat /\ Len(buf) \in Nat
    BY Numbers
  <2>2. buf' \in Seq(Nat) /\ Len(buf') = Len(buf) + 1
    BY <1>2, <2>1
  <2> QED BY <1>2, <2>1, <2>2, PlacesAppend
<1> QED BY <1>1, <1>2 DEF Send

LEMMA TakeStep ==
  ASSUME ChannelInv, buf # <<>>, buf' = Tail(buf)
  PROVE  /\ buf' \in Seq(Nat) /\ (lib \notin Eino => Len(buf') <= Cap) /\ Head(buf) \in Nat
         /\ Places(buf) = Places(buf') \union {Head(buf)}
         /\ Increasing(buf) => Increasing(buf') /\ \A j \in Places(buf') : Head(buf) < j
         /\ Append(counted, Head(buf)) \in Seq(Nat)
         /\ Places(Append(counted, Head(buf))) = Places(counted) \union {Head(buf)}
         /\ Increasing(counted) /\ (\A j \in Places(counted) : j < Head(buf))
              => Increasing(Append(counted, Head(buf)))
<1>1. buf \in Seq(Nat) /\ counted \in Seq(Nat) /\ Cap \in Nat /\ Len(buf) \in Nat
  BY Numbers
<1>2. /\ buf' \in Seq(Nat) /\ Head(buf) \in Nat /\ Len(buf') = Len(buf) - 1
      /\ Places(buf) = Places(buf') \union {Head(buf)}
      /\ Increasing(buf) => Increasing(buf') /\ \A j \in Places(buf') : Head(buf) < j
  BY <1>1, PlacesTail
<1>3. lib \notin Eino => Len(buf') <= Cap
  BY <1>1, <1>2 DEF ChannelInv, ChannelTypeOK
<1> QED BY <1>1, <1>2, <1>3, PlacesAppend
-----------------------------------------------------------------------------
(* The inductive step of the channels.                                     *)

LEMMA ChannelInitial == ChannelInit => ChannelInv
<1> SUFFICES ASSUME ChannelInit PROVE ChannelInv
  OBVIOUS
<1>1. ChannelTypeOK /\ Sequenced
  <2>1. Cap \in Nat \ {0} /\ Len(body) \in Nat
    BY ChannelAssumption DEF ChannelInit
  <2>2. buf = <<>> /\ Len(buf) = 0 /\ counted = <<>>
    BY DEF ChannelInit
  <2>3. Sequenced
    BY <2>2 DEF Sequenced
  <2>4. Len(buf) <= Cap /\ pos \in 0 .. Len(body)
    BY <2>1, <2>2 DEF ChannelInit
  <2>5. lib \in Genai \union Meg \union Eino /\ body \in Answers
    BY DEF ChannelInit
  <2>6. enabled \in BOOLEAN /\ present \in BOOLEAN /\ told \in BOOLEAN /\ cancelled \in BOOLEAN /\ crashed \in BOOLEAN
    BY DEF ChannelInit
  <2>7. app = "call" /\ ranged = 0 /\ raw = {} /\ chan = "nil" /\ hook = "none" /\ span = "none" /\ status = "unset"
    BY DEF ChannelInit
  <2> HIDE DEF ChannelInit
  <2> QED BY <2>3, <2>4, <2>5, <2>6, <2>7 DEF ChannelTypeOK
<1>2. Stages /\ Over /\ CrashCauses /\ DeliveredRecorded /\ Flow
  BY DEF ChannelInit, Stages, Over, CrashCauses, DeliveredRecorded, Flow
<1>3. Ends
  BY DEF ChannelInit, Ends, Failure, Unsent, Places
<1> QED BY <1>1, <1>2, <1>3 DEF ChannelInv

LEMMA GenaiEnterStep ==
  ASSUME ChannelInv, NEW l, l \in Genai, GenaiEnter(l)
  PROVE  ChannelInv'
<1> USE DEF GenaiEnter, Live, call, progress, trace
<1>1. /\ Cap \in Nat /\ Cap > 0 /\ Len(body) \in Nat /\ pos \in Nat /\ ranged \in Nat
      /\ buf \in Seq(Nat) /\ counted \in Seq(Nat) /\ Len(buf) \in Nat
      /\ lib \in Genai \union Meg \union Eino /\ (lib \in Genai => lib \notin Meg \union Eino)
      /\ lib \in Meg => lib \notin Eino
      /\ raw \subseteq 1 .. pos /\ (raw # {} => lib \in Meg)
  BY Numbers
<1>2. Sent' = Sent /\ Delivered' = Delivered /\ (Failure' <=> Failure) /\ \A i : IsChunk(i)' <=> IsChunk(i)
  BY SameStream
<1>3. Sequenced'
  BY <1>1, PlacesAppend, PlacesTail DEF ChannelInv, Sequenced
<1>4. ChannelTypeOK'
  BY <1>1, PlacesAppend, PlacesTail DEF ChannelInv, ChannelTypeOK, Stages
<1>5. Stages'
  BY <1>1, <1>2, PlacesOfNone DEF ChannelInv, Stages, ChannelTypeOK, Ends
<1>6. Ends'
  BY <1>1, <1>2, PlacesOfNone DEF ChannelInv, Ends, Stages, ChannelTypeOK, Unsent
<1>7. Flow'
  <2>1. pos = 0 /\ buf' = <<>> /\ counted' = <<>>
    BY <1>1 DEF ChannelInv, Stages, Ends
  <2> QED BY <1>2, <2>1, NothingYet, PlacesOfNone DEF Flow, Unsent
<1>8. Over'
  BY <1>1, <1>2, PlacesOfNone DEF ChannelInv, Over, Stages, Ends, ChannelTypeOK, Unsent
<1>9. CrashCauses'
  BY <1>1, <1>2, PlacesOfNone DEF ChannelInv, CrashCauses, Ends, Stages, ChannelTypeOK
<1>10. DeliveredRecorded'
  BY <1>1, <1>2, PlacesOfNone DEF ChannelInv, DeliveredRecorded, Over, Stages, Ends, ChannelTypeOK
<1> QED BY <1>4, <1>5, <1>6, <1>7, <1>8, <1>9, <1>10, <1>3 DEF ChannelInv

LEMMA GenaiFailStep ==
  ASSUME ChannelInv, NEW l, l \in Genai, GenaiFail(l)
  PROVE  ChannelInv'
<1> USE DEF GenaiFail, Live, call, progress, trace
<1>1. /\ Cap \in Nat /\ Cap > 0 /\ Len(body) \in Nat /\ pos \in Nat /\ ranged \in Nat
      /\ buf \in Seq(Nat) /\ counted \in Seq(Nat) /\ Len(buf) \in Nat
      /\ lib \in Genai \union Meg \union Eino /\ (lib \in Genai => lib \notin Meg \union Eino)
      /\ lib \in Meg => lib \notin Eino
      /\ raw \subseteq 1 .. pos /\ (raw # {} => lib \in Meg)
  BY Numbers
<1>2. Sent' = Sent /\ Delivered' = Delivered /\ (Failure' <=> Failure) /\ \A i : IsChunk(i)' <=> IsChunk(i)
  BY SameStream
<1>3. /\ pos = 0 /\ ranged = 0 /\ Sent = {} /\ Delivered = {} /\ ~ Failure
      /\ app = "opening" /\ ~ Unsent /\ counted' = counted
  BY NothingYet DEF ChannelInv, Stages, Ends
<1>4. \/ /\ enabled /\ app' = "failing" /\ chan' = chan /\ buf' \in Seq(Nat)
         /\ (lib \notin Eino => Len(buf') <= Cap)
         /\ \/ chan = "closed" /\ crashed' = TRUE /\ buf' = buf
            \/ /\ chan = "open" /\ crashed' = crashed
               /\ Places(buf') = Places(buf) \union {0}
               /\ (\A j \in Places(buf) : j < 0) /\ Increasing(buf) => Increasing(buf')
      \/ ~ enabled /\ app' = "over" /\ UNCHANGED <<chan, buf, crashed>>
  BY SendStep DEF channel
<1>5. Sequenced'
  BY <1>1, <1>3, <1>4 DEF Sequenced
<1>6. ChannelTypeOK'
  <2>1. ChannelTypeOK
    BY DEF ChannelInv
  <2>2. (lib \notin Eino => Len(buf') <= Cap) /\ chan' = chan
    BY <1>4, <2>1 DEF ChannelTypeOK
  <2>3. crashed' \in BOOLEAN /\ app' \in {"failing", "over"}
    BY <1>4, <2>1 DEF ChannelTypeOK
  <2> QED BY <2>1, <2>2, <2>3 DEF ChannelTypeOK
<1>7. Stages'
  BY <1>3, <1>4 DEF ChannelInv, Stages
<1>8. Ends'
  BY <1>1, <1>2, <1>3, <1>4 DEF ChannelInv, Ends, Stages, Unsent
<1>9. Flow'
  BY <1>1, <1>2, <1>3, <1>4 DEF ChannelInv, Flow, Unsent, Ends
<1>10. Over'
  BY <1>1, <1>2, <1>3, <1>4 DEF ChannelInv, Over, Stages, Ends
<1>11. CrashCauses'
  BY <1>1, <1>3, <1>4 DEF ChannelInv, CrashCauses, Ends, Stages
<1>12. DeliveredRecorded'
  <2>1. \A i \in 1 .. pos : FALSE
    BY <1>3
  <2> QED BY <1>1, <1>2, <1>3, <2>1 DEF ChannelInv, DeliveredRecorded
<1> QED BY <1>6, <1>7, <1>8, <1>9, <1>10, <1>11, <1>12, <1>5 DEF ChannelInv

LEMMA GenaiFailedStep ==
  ASSUME ChannelInv, NEW l, l \in Genai, GenaiFailed(l)
  PROVE  ChannelInv'
<1> USE DEF GenaiFailed, Live, Close, Crash, channel, call, progress, trace
<1>1. /\ Cap \in Nat /\ Cap > 0 /\ Len(body) \in Nat /\ pos \in Nat /\ ranged \in Nat
      /\ buf \in Seq(Nat) /\ counted \in Seq(Nat) /\ Len(buf) \in Nat
      /\ lib \in Genai \union Meg \union Eino /\ (lib \in Genai => lib \notin Meg \union Eino)
      /\ lib \in Meg => lib \notin Eino
      /\ raw \subseteq 1 .. pos /\ (raw # {} => lib \in Meg)
  BY Numbers
<1>2. Sent' = Sent /\ Delivered' = Delivered /\ (Failure' <=> Failure) /\ \A i : IsChunk(i)' <=> IsChunk(i)
  BY SameStream
<1>3. Sequenced'
  BY <1>1, PlacesAppend, PlacesTail DEF ChannelInv, Sequenced
<1>4. ChannelTypeOK'
  BY <1>1, PlacesAppend, PlacesTail DEF ChannelInv, ChannelTypeOK, Stages
<1>5. Stages'
  BY <1>1, <1>2, PlacesOfNone DEF ChannelInv, Stages, ChannelTypeOK, Ends
<1>6. Ends'
  BY <1>1, <1>2, PlacesOfNone DEF ChannelInv, Ends, Stages, ChannelTypeOK, Unsent
<1>7. Flow'
  BY <1>1, <1>2, PlacesOfNone DEF ChannelInv, Flow, Stages, Unsent, Ends
<1>8. Over'
  BY <1>1, <1>2, PlacesOfNone DEF ChannelInv, Over, Stages, Ends, ChannelTypeOK, Unsent
<1>9. CrashCauses'
  BY <1>1, <1>2, PlacesOfNone DEF ChannelInv, CrashCauses, Ends, Stages, ChannelTypeOK
<1>10. DeliveredRecorded'
  BY <1>1, <1>2, PlacesOfNone DEF ChannelInv, DeliveredRecorded, Over, Stages, Ends, ChannelTypeOK
<1> QED BY <1>4, <1>5, <1>6, <1>7, <1>8, <1>9, <1>10, <1>3 DEF ChannelInv

LEMMA GenaiOpenedStep ==
  ASSUME ChannelInv, NEW l, l \in Genai, GenaiOpened(l)
  PROVE  ChannelInv'
<1> USE DEF GenaiOpened, Live, channel, call, progress, trace
<1>1. /\ Cap \in Nat /\ Cap > 0 /\ Len(body) \in Nat /\ pos \in Nat /\ ranged \in Nat
      /\ buf \in Seq(Nat) /\ counted \in Seq(Nat) /\ Len(buf) \in Nat
      /\ lib \in Genai \union Meg \union Eino /\ (lib \in Genai => lib \notin Meg \union Eino)
      /\ lib \in Meg => lib \notin Eino
      /\ raw \subseteq 1 .. pos /\ (raw # {} => lib \in Meg)
  BY Numbers
<1>2. Sent' = Sent /\ Delivered' = Delivered /\ (Failure' <=> Failure) /\ \A i : IsChunk(i)' <=> IsChunk(i)
  BY SameStream
<1>3. Sequenced'
  BY <1>1, PlacesAppend, PlacesTail DEF ChannelInv, Sequenced
<1>4. ChannelTypeOK'
  BY <1>1, PlacesAppend, PlacesTail DEF ChannelInv, ChannelTypeOK, Stages
<1>5. Stages'
  BY <1>1, <1>2, PlacesOfNone DEF ChannelInv, Stages, ChannelTypeOK, Ends
<1>6. Ends'
  BY <1>1, <1>2, PlacesOfNone DEF ChannelInv, Ends, Stages, ChannelTypeOK, Unsent
<1>7. Flow'
  BY <1>1, <1>2, PlacesOfNone DEF ChannelInv, Flow, Stages, Unsent, Ends
<1>8. Over'
  BY <1>1, <1>2, PlacesOfNone DEF ChannelInv, Over, Stages, Ends, ChannelTypeOK, Unsent
<1>9. CrashCauses'
  BY <1>1, <1>2, PlacesOfNone DEF ChannelInv, CrashCauses, Ends, Stages, ChannelTypeOK
<1>10. DeliveredRecorded'
  BY <1>1, <1>2, PlacesOfNone DEF ChannelInv, DeliveredRecorded, Over, Stages, Ends, ChannelTypeOK
<1> QED BY <1>4, <1>5, <1>6, <1>7, <1>8, <1>9, <1>10, <1>3 DEF ChannelInv

LEMMA GenaiRangeStep ==
  ASSUME ChannelInv, NEW l, l \in Genai, GenaiRange(l)
  PROVE  ChannelInv'
<1> USE DEF GenaiRange, Live, channel, call, progress, trace
<1>1. /\ Cap \in Nat /\ Cap > 0 /\ Len(body) \in Nat /\ pos \in Nat /\ ranged \in Nat
      /\ buf \in Seq(Nat) /\ counted \in Seq(Nat) /\ Len(buf) \in Nat
      /\ lib \in Genai \union Meg \union Eino /\ (lib \in Genai => lib \notin Meg \union Eino)
      /\ lib \in Meg => lib \notin Eino
      /\ raw \subseteq 1 .. pos /\ (raw # {} => lib \in Meg)
  BY Numbers
<1>2. Sent' = Sent /\ Delivered' = Delivered /\ (Failure' <=> Failure) /\ \A i : IsChunk(i)' <=> IsChunk(i)
  BY SameStream
<1>3. Sequenced'
  BY <1>1, PlacesAppend, PlacesTail DEF ChannelInv, Sequenced
<1>4. ChannelTypeOK'
  BY <1>1, PlacesAppend, PlacesTail DEF ChannelInv, ChannelTypeOK, Stages
<1>5. Stages'
  BY <1>1, <1>2, PlacesOfNone DEF ChannelInv, Stages, ChannelTypeOK, Ends
<1>6. Ends'
  BY <1>1, <1>2, PlacesOfNone DEF ChannelInv, Ends, Stages, ChannelTypeOK, Unsent
<1>7. Flow'
  BY <1>1, <1>2, PlacesOfNone DEF ChannelInv, Flow, Stages, Unsent, Ends
<1>8. Over'
  BY <1>1, <1>2, PlacesOfNone DEF ChannelInv, Over, Stages, Ends, ChannelTypeOK, Unsent
<1>9. CrashCauses'
  BY <1>1, <1>2, PlacesOfNone DEF ChannelInv, CrashCauses, Ends, Stages, ChannelTypeOK
<1>10. DeliveredRecorded'
  BY <1>1, <1>2, PlacesOfNone DEF ChannelInv, DeliveredRecorded, Over, Stages, Ends, ChannelTypeOK
<1> QED BY <1>4, <1>5, <1>6, <1>7, <1>8, <1>9, <1>10, <1>3 DEF ChannelInv

LEMMA GenaiYieldStep ==
  ASSUME ChannelInv, NEW l, l \in Genai, GenaiYield(l)
  PROVE  ChannelInv'
<1> USE DEF GenaiYield, Live, Here, channel, call, progress, trace
<1>1. /\ Cap \in Nat /\ Cap > 0 /\ Len(body) \in Nat /\ pos \in Nat /\ ranged \in Nat
      /\ buf \in Seq(Nat) /\ counted \in Seq(Nat) /\ Len(buf) \in Nat
      /\ lib \in Genai \union Meg \union Eino /\ (lib \in Genai => lib \notin Meg \union Eino)
      /\ lib \in Meg => lib \notin Eino
      /\ raw \subseteq 1 .. pos /\ (raw # {} => lib \in Meg)
  BY Numbers
<1>2. /\ app = "ranging" /\ lib \in Genai /\ ranged > 0 /\ ~ Unsent /\ pos + 1 \in Nat
      /\ counted' = counted /\ span' = span /\ ~ crashed
  BY <1>1 DEF ChannelInv, Ends, Stages
<1>3. \/ crashed' /\ UNCHANGED <<pos, told>>
      \/ /\ ~ crashed' /\ pos' = pos + 1 /\ told' \in BOOLEAN
         /\ told \/ ~ IsChunk(pos + 1) => told'
  <2>1. CASE crashed'
    BY <2>1
  <2>2. CASE ~ crashed'
    <3>1. pos' = pos + 1 /\ told' = (told \/ ~ IsChunk(pos + 1))
      BY <2>2
    <3>2. told' \in BOOLEAN /\ (told \/ ~ IsChunk(pos + 1) => told')
      <4> HIDE DEF GenaiYield
      <4> QED BY <3>1
    <3> QED BY <2>2, <3>1, <3>2
  <2> QED BY <2>1, <2>2
<1>4. \/ /\ enabled /\ chan = "closed" /\ crashed' = TRUE
         /\ UNCHANGED <<chan, buf, pos, told>>
      \/ /\ enabled /\ body[pos + 1] # Torn /\ chan = "open" /\ UNCHANGED <<chan, crashed>>
         /\ buf' \in Seq(Nat) /\ Len(buf') <= Cap /\ Places(buf') = Places(buf) \union {pos + 1}
         /\ (\A j \in Places(buf) : j < pos + 1) /\ Increasing(buf) => Increasing(buf')
         /\ pos' = pos + 1 /\ told' \in BOOLEAN /\ (told \/ ~ IsChunk(pos + 1) => told')
      \/ /\ ~ enabled \/ body[pos + 1] = Torn
         /\ UNCHANGED <<chan, buf, crashed>>
         /\ pos' = pos + 1 /\ told' \in BOOLEAN /\ (told \/ ~ IsChunk(pos + 1) => told')
  <2>1. CASE enabled /\ body[pos + 1] # Torn
    <3>1. Send(pos + 1)
      BY <2>1
    <3>2. lib \notin Eino
      BY <1>1, <1>2
    <3>3. /\ buf' \in Seq(Nat) /\ Len(buf') <= Cap /\ chan' = chan
          /\ \/ chan = "closed" /\ crashed' = TRUE /\ buf' = buf
             \/ /\ chan = "open" /\ crashed' = crashed
                /\ Places(buf') = Places(buf) \union {pos + 1}
                /\ (\A j \in Places(buf) : j < pos + 1) /\ Increasing(buf) => Increasing(buf')
      BY <1>2, <3>1, <3>2, SendStep
    <3> HIDE DEF GenaiYield
    <3> QED BY <1>2, <1>3, <2>1, <3>3
  <2>2. CASE ~ (enabled /\ body[pos + 1] # Torn)
    <3>1. ~ enabled \/ body[pos + 1] = Torn
      BY <2>2
    <3>2. UNCHANGED <<chan, buf, crashed>>
      BY <2>2
    <3> HIDE DEF GenaiYield
    <3> QED BY <1>2, <1>3, <3>1, <3>2
  <2> QED BY <2>1, <2>2
<1>5. UNCHANGED <<lib, body, enabled, present, raw, app, ranged, cancelled, hook, status, recorded>> /\ pos < Len(body)
  OBVIOUS
<1> HIDE DEF GenaiYield
<1>6. Sequenced'
  BY <1>1, <1>2, <1>4 DEF Sequenced
<1>7. ChannelTypeOK'
  <2>1. ChannelTypeOK
    BY DEF ChannelInv
  <2>2. (lib \notin Eino => Len(buf') <= Cap) /\ chan' = chan /\ crashed' \in BOOLEAN
    BY <1>4, <2>1 DEF ChannelTypeOK
  <2>3. told' \in BOOLEAN
    BY <1>4, <2>1 DEF ChannelTypeOK
  <2>4. pos' \in 0 .. Len(body)
    BY <1>1, <1>4, <1>5, <2>1 DEF ChannelTypeOK
  <2>5. raw' = {} /\ raw' \subseteq 1 .. pos'
    BY <1>1, <1>2, <1>5
  <2> QED BY <1>5, <1>2, <2>1, <2>2, <2>3, <2>4, <2>5 DEF ChannelTypeOK
<1>8. Stages'
  BY <1>2, <1>4, <1>5 DEF ChannelInv, Stages
<1>9. Ends'
  <2>1. Failure' => told'
    <3>1. CASE pos' = pos
      BY <1>2, <1>4, <1>5, <3>1, SameStream DEF ChannelInv, Ends
    <3>2. CASE pos' = pos + 1
      <4>1. Failure' <=> (Failure \/ body[pos + 1] = Bad)
        BY <1>1, <1>5, <3>2, Further
      <4>2. body[pos + 1] = Bad => ~ IsChunk(pos + 1)
        BY DEF IsChunk
      <4>3. told \/ ~ IsChunk(pos + 1) => told'
        BY <1>1, <1>4, <3>2
      <4> QED BY <1>2, <4>1, <4>2, <4>3 DEF ChannelInv, Ends
    <3> QED BY <1>4, <3>1, <3>2
  <2>2. ~ Unsent'
    BY <1>1, <1>2, <1>4 DEF Unsent
  <2>3. told => told'
    BY <1>4
  <2> HIDE DEF Unsent, Failure
  <2> QED BY <1>1, <1>2, <1>4, <1>5, <2>1, <2>2, <2>3 DEF ChannelInv, Ends
<1>10. Flow'
  <2> SUFFICES ASSUME hook = "running"
               PROVE  Flow'
    BY <1>5 DEF Flow
  <2>1. Flow /\ enabled
    BY DEF ChannelInv, Ends
  <2>2. CASE pos' = pos
    <3>1. buf' = buf
      BY <1>1, <1>4, <2>2
    <3> QED BY <1>2, <1>5, <2>1, <2>2, <3>1, SameStream DEF Flow, Unsent
  <2>3. CASE pos' = pos + 1
    <3> DEFINE p == pos + 1
    <3>1. /\ \A i : IsChunk(i)' <=> IsChunk(i)
          /\ \A i : i \in Sent' <=> i \in Sent \/ (i = p /\ body[i] # Torn)
          /\ \A i \in Sent : i \in 1 .. pos
      BY <1>1, <1>2, <1>5, <2>3, Further
    <3>2. CASE body[p] = Torn /\ buf' = buf
      BY <1>2, <1>5, <2>1, <3>1, <3>2 DEF Flow, Unsent
    <3>3. CASE /\ body[p] # Torn /\ Places(buf') = Places(buf) \union {p}
               /\ (\A j \in Places(buf) : j < p) /\ Increasing(buf) => Increasing(buf')
      <4>1. \A i \in Places(counted) \union Places(buf) : i < p /\ i # p
        BY <1>1, <2>1, <3>1 DEF Flow
      <4>2. Increasing(buf') /\ Increasing(counted')
        BY <1>2, <2>1, <3>3, <4>1 DEF Flow
      <4>3. ~ Unsent'
        BY <1>1, <1>2, <3>3 DEF Unsent
      <4> HIDE DEF p, Unsent
      <4> QED BY <1>2, <1>5, <2>1, <3>1, <3>3, <4>1, <4>2, <4>3 DEF Flow
    <3> QED BY <1>1, <1>4, <2>1, <2>3, <3>2, <3>3
  <2> QED BY <1>4, <2>2, <2>3
<1>11. Over'
  <2>1. Failure => Failure'
    BY <1>1, <1>4, <1>5, Further, SameStream
  <2> QED BY <1>1, <1>2, <1>4, <1>5, <2>1 DEF ChannelInv, Over
<1>12. CrashCauses'
  BY <1>1, <1>2, <1>4, <1>5 DEF ChannelInv, CrashCauses, Ends
<1>13. DeliveredRecorded'
  <2> SUFFICES ASSUME span = "ended", recorded # None
               PROVE  DeliveredRecorded'
    BY <1>2, <1>5 DEF DeliveredRecorded
  <2>1. DeliveredRecorded /\ enabled /\ (chan = "closed" \/ Failure) /\ (told => told')
    BY <1>2, <1>4 DEF ChannelInv, Ends, Over
  <2>2. CASE pos' = pos
    BY <1>5, <2>1, <2>2, SameStream DEF DeliveredRecorded, Failure
  <2>3. CASE pos' = pos + 1
    <3>1. Failure \/ body[pos + 1] = Torn
      BY <1>1, <1>4, <2>1, <2>3
    <3>2. Delivered' = Delivered
      BY <1>1, <1>2, <1>5, <2>3, <3>1, Further DEF IsChunk, Failure
    <3>3. Failure' <=> Failure
      BY <1>1, <1>5, <2>3, <3>1, Further, ChannelAssumption
    <3> QED BY <1>5, <2>1, <3>2, <3>3 DEF DeliveredRecorded, Failure
  <2> QED BY <1>4, <2>2, <2>3
<1> QED BY <1>7, <1>8, <1>9, <1>10, <1>11, <1>12, <1>13, <1>6 DEF ChannelInv

LEMMA GenaiRangedStep ==
  ASSUME ChannelInv, NEW l, l \in Genai, GenaiRanged(l)
  PROVE  ChannelInv'
<1> USE DEF GenaiRanged, Live, Close, Crash, channel, call, progress, trace
<1>1. /\ Cap \in Nat /\ Cap > 0 /\ Len(body) \in Nat /\ pos \in Nat /\ ranged \in Nat
      /\ buf \in Seq(Nat) /\ counted \in Seq(Nat) /\ Len(buf) \in Nat
      /\ lib \in Genai \union Meg \union Eino /\ (lib \in Genai => lib \notin Meg \union Eino)
      /\ lib \in Meg => lib \notin Eino
      /\ raw \subseteq 1 .. pos /\ (raw # {} => lib \in Meg)
  BY Numbers
<1>2. Sent' = Sent /\ Delivered' = Delivered /\ (Failure' <=> Failure) /\ \A i : IsChunk(i)' <=> IsChunk(i)
  BY SameStream
<1>3. Sequenced'
  BY <1>1, PlacesAppend, PlacesTail DEF ChannelInv, Sequenced
<1>4. ChannelTypeOK'
  <2>1. ChannelTypeOK
    BY DEF ChannelInv
  <2>2. /\ lib' = lib /\ body' = body /\ enabled' = enabled /\ present' = present /\ raw' = raw
        /\ app' = "over" /\ pos' = pos /\ told' = told /\ ranged' = ranged
        /\ cancelled' = cancelled /\ buf' = buf /\ hook' = hook /\ span' = span /\ status' = status
        /\ chan' \in {"nil", "open", "closed"} /\ crashed' \in BOOLEAN
    BY <2>1 DEF ChannelTypeOK
  <2> HIDE DEF GenaiRanged, Live, Close, Crash, channel, call, progress, trace
  <2> QED BY <2>1, <2>2 DEF ChannelTypeOK
<1>5. Stages'
  BY <1>1, <1>2, PlacesOfNone DEF ChannelInv, Stages, ChannelTypeOK, Ends
<1>6. Ends'
  BY <1>1, <1>2, PlacesOfNone DEF ChannelInv, Ends, Stages, ChannelTypeOK, Unsent
<1>7. Flow'
  BY <1>1, <1>2, PlacesOfNone DEF ChannelInv, Flow, Stages, Unsent, Ends
<1>8. Over'
  BY <1>1, <1>2, PlacesOfNone DEF ChannelInv, Over, Stages, Ends, ChannelTypeOK, Unsent
<1>9. CrashCauses'
  BY <1>1, <1>2, PlacesOfNone DEF ChannelInv, CrashCauses, Ends, Stages, ChannelTypeOK
<1>10. DeliveredRecorded'
  BY <1>1, <1>2, PlacesOfNone DEF ChannelInv, DeliveredRecorded, Over, Stages, Ends, ChannelTypeOK
<1> QED BY <1>4, <1>5, <1>6, <1>7, <1>8, <1>9, <1>10, <1>3 DEF ChannelInv

LEMMA CancelStep ==
  ASSUME ChannelInv, Cancel
  PROVE  ChannelInv'
<1> USE DEF Cancel, Live, channel, call, progress, trace
<1>1. /\ Cap \in Nat /\ Cap > 0 /\ Len(body) \in Nat /\ pos \in Nat /\ ranged \in Nat
      /\ buf \in Seq(Nat) /\ counted \in Seq(Nat) /\ Len(buf) \in Nat
      /\ lib \in Genai \union Meg \union Eino /\ (lib \in Genai => lib \notin Meg \union Eino)
      /\ lib \in Meg => lib \notin Eino
      /\ raw \subseteq 1 .. pos /\ (raw # {} => lib \in Meg)
  BY Numbers
<1>2. Sent' = Sent /\ Delivered' = Delivered /\ (Failure' <=> Failure) /\ \A i : IsChunk(i)' <=> IsChunk(i)
  BY SameStream
<1>3. Sequenced'
  BY <1>1, PlacesAppend, PlacesTail DEF ChannelInv, Sequenced
<1>4. ChannelTypeOK'
  BY <1>1, PlacesAppend, PlacesTail DEF ChannelInv, ChannelTypeOK, Stages
<1>5. Stages'
  BY <1>1, <1>2, PlacesOfNone DEF ChannelInv, Stages, ChannelTypeOK, Ends
<1>6. Ends'
  BY <1>1, <1>2, PlacesOfNone DEF ChannelInv, Ends, Stages, ChannelTypeOK, Unsent
<1>7. Flow'
  BY <1>1, <1>2, PlacesOfNone DEF ChannelInv, Flow, Stages, Unsent, Ends
<1>8. Over'
  BY <1>1, <1>2, PlacesOfNone DEF ChannelInv, Over, Stages, Ends, ChannelTypeOK, Unsent
<1>9. CrashCauses'
  BY <1>1, <1>2, PlacesOfNone DEF ChannelInv, CrashCauses, Ends, Stages, ChannelTypeOK
<1>10. DeliveredRecorded'
  BY <1>1, <1>2, PlacesOfNone DEF ChannelInv, DeliveredRecorded, Over, Stages, Ends, ChannelTypeOK
<1> QED BY <1>4, <1>5, <1>6, <1>7, <1>8, <1>9, <1>10, <1>3 DEF ChannelInv

\* The hook takes an item: the stream goes on in order.
LEMMA HookTakes ==
  ASSUME ChannelInv, hook = "running", buf # <<>>, buf' = Tail(buf),
         \/ IsChunk(Head(buf)) /\ counted' = Append(counted, Head(buf))
         \/ lib \in Eino /\ ~ IsChunk(Head(buf)) /\ counted' = counted,
         UNCHANGED <<lib, body, enabled, present, raw, app, pos, told, ranged, cancelled, chan,
                     hook, span, status, recorded, crashed>>
  PROVE  ChannelInv'
<1> DEFINE h == Head(buf)
<1>1. /\ Sequenced /\ ChannelTypeOK /\ Stages /\ Ends /\ Flow /\ Over /\ CrashCauses
      /\ DeliveredRecorded
  BY DEF ChannelInv
<1>2. /\ Sent' = Sent /\ Delivered' = Delivered /\ (Failure' <=> Failure)
      /\ \A i : IsChunk(i)' <=> IsChunk(i)
  BY SameStream
<1>3. /\ buf' \in Seq(Nat) /\ (lib \notin Eino => Len(buf') <= Cap) /\ h \in Nat
      /\ Places(buf) = Places(buf') \union {h}
      /\ Increasing(buf') /\ \A j \in Places(buf') : h < j
      /\ Append(counted, h) \in Seq(Nat)
      /\ Places(Append(counted, h)) = Places(counted) \union {h}
      /\ Increasing(Append(counted, h))
  BY <1>1, TakeStep DEF Flow
<1>4. Unsent' => Unsent
  BY <1>3 DEF Unsent
<1>5. \/ IsChunk(h) /\ counted' = Append(counted, h)
      \/ lib \in Eino /\ ~ IsChunk(h) /\ counted' = counted
  OBVIOUS
<1> HIDE DEF h
<1>6. Sequenced'
  BY <1>1, <1>3, <1>5 DEF Sequenced
<1>7. ChannelTypeOK'
  BY <1>1, <1>3 DEF ChannelTypeOK
<1>8. Stages'
  BY <1>1 DEF Stages
<1>9. Ends'
  BY <1>1, <1>2, <1>4 DEF Ends
<1>10. Flow'
  <2>1. h \in Sent \union {0} /\ (IsChunk(h) => h # 0 /\ h \in Sent)
    BY <1>1, <1>3 DEF Flow, IsChunk
  <2>2. CASE IsChunk(h) /\ counted' = Append(counted, h)
    BY <1>1, <1>2, <1>3, <1>4, <2>1, <2>2 DEF Flow
  <2>3. CASE lib \in Eino /\ ~ IsChunk(h) /\ counted' = counted
    BY <1>1, <1>2, <1>3, <1>4, <2>1, <2>3 DEF Flow
  <2> QED BY <1>5, <2>2, <2>3
<1>11. Over' /\ CrashCauses' /\ DeliveredRecorded'
  BY <1>1, <1>2 DEF Over, CrashCauses, DeliveredRecorded, Failure
<1> QED BY <1>6, <1>7, <1>8, <1>9, <1>10, <1>11 DEF ChannelInv

\* The hook ends the span when it can receive nothing more, or takes no more.
LEMMA HookEnds ==
  ASSUME ChannelInv, hook = "running", hook' = "gone", span' = "ended", ~ crashed,
         buf' = buf \/ (buf # <<>> /\ buf' = Tail(buf)),
         chan = "closed" \/ (lib \in Genai /\ (Failure \/ Unsent)),
         status' \in {"unset", "ok", "error"}, DeliveredRecorded',
         UNCHANGED <<lib, body, enabled, present, raw, app, pos, told, ranged, cancelled, chan,
                     counted, crashed>>
  PROVE  ChannelInv'
<1>1. /\ Sequenced /\ ChannelTypeOK /\ Stages /\ Ends /\ Flow /\ Over /\ CrashCauses
  BY DEF ChannelInv
<1>2. /\ Sent' = Sent /\ Delivered' = Delivered /\ (Failure' <=> Failure)
      /\ \A i : IsChunk(i)' <=> IsChunk(i)
  BY SameStream
<1>3. /\ buf' \in Seq(Nat) /\ (lib \notin Eino => Len(buf') <= Cap)
      /\ Places(buf') \subseteq Places(buf)
  <2>1. CASE buf' = buf
    BY <1>1, <2>1 DEF Sequenced, ChannelTypeOK
  <2>2. CASE buf # <<>> /\ buf' = Tail(buf)
    BY <2>2, TakeStep
  <2> QED BY <2>1, <2>2
<1>4. Unsent' => Unsent
  BY <1>3 DEF Unsent
<1>5. span = "open" /\ chan # "nil" /\ enabled /\ app # "call" /\ (app = "opening" => lib \in Genai)
  BY <1>1 DEF ChannelTypeOK, Ends, Stages
<1>6. Sequenced'
  BY <1>1, <1>3 DEF Sequenced
<1>7. ChannelTypeOK'
  BY <1>1, <1>3 DEF ChannelTypeOK
<1>8. Stages'
  BY <1>1, <1>5 DEF Stages
<1>9. Ends'
  BY <1>1, <1>2, <1>4, <1>5, Numbers DEF Ends
<1>10. Flow'
  BY DEF Flow
<1>11. Over'
  BY <1>1, <1>2, <1>5, Numbers DEF Over, Ends
<1>12. CrashCauses'
  BY DEF CrashCauses
<1> QED BY <1>6, <1>7, <1>8, <1>9, <1>10, <1>11, <1>12 DEF ChannelInv

LEMMA GenaiHookStep ==
  ASSUME ChannelInv, NEW l, l \in Genai, GenaiHook(l)
  PROVE  ChannelInv'
<1> USE DEF GenaiHook, Live, channel, call, progress, trace
<1>1. /\ hook = "running" /\ lib \in Genai /\ span = "open" /\ enabled /\ chan # "nil"
      /\ ~ crashed /\ Flow /\ Ends /\ lib \notin Meg \union Eino /\ raw = {}
  BY Numbers DEF ChannelInv, Ends, ChannelTypeOK
<1>2. UNCHANGED <<lib, body, enabled, present, raw, app, pos, told, ranged, cancelled>>
  OBVIOUS
<1>3. /\ Sent' = Sent /\ Delivered' = Delivered /\ (Failure' <=> Failure)
      /\ \A i : IsChunk(i)' <=> IsChunk(i)
  BY SameStream
\* The context is done.
<1>4. CASE cancelled /\ Close /\ hook' = "gone" /\ UNCHANGED <<counted, trace>>
  <2>1. /\ buf' = buf
        /\ \/ chan' = "closed" /\ crashed' = crashed
           \/ chan # "open" /\ chan' = chan /\ crashed' = TRUE
    BY <1>1, <1>4 DEF Close, Crash
  <2>2. Sequenced' /\ ChannelTypeOK'
    BY <1>2, <1>4, <2>1 DEF ChannelInv, Sequenced, ChannelTypeOK
  <2>3. Stages' /\ Ends'
    BY <1>1, <1>2, <1>3, <1>4, <2>1 DEF ChannelInv, Stages, Ends, Unsent
  <2>4. Flow' /\ Over' /\ CrashCauses'
    BY <1>1, <1>2, <1>4, <2>1 DEF Flow, Over, CrashCauses
  <2>5. DeliveredRecorded'
    BY <1>1, <1>4 DEF DeliveredRecorded
  <2> QED BY <2>2, <2>3, <2>4, <2>5 DEF ChannelInv
\* It takes a chunk.
<1>5. CASE /\ buf # <<>> /\ buf' = Tail(buf) /\ UNCHANGED <<chan, crashed, hook, trace>>
           /\ IsChunk(Head(buf)) /\ counted' = Append(counted, Head(buf))
  BY <1>1, <1>2, <1>5, HookTakes
\* It takes an error: what was delivered had been taken before.
<1>6. CASE /\ buf # <<>> /\ buf' = Tail(buf) /\ UNCHANGED <<chan, crashed, counted>>
           /\ ~ IsChunk(Head(buf)) /\ hook' = "gone" /\ End("error", counted)
  <2> DEFINE h == Head(buf)
  <2>1. /\ Places(buf) = Places(buf') \union {h} /\ \A j \in Places(buf') : h < j
        /\ h \in Nat /\ h \in Sent \union {0}
    BY <1>1, <1>6, TakeStep DEF Flow
  <2>2. span' = "ended" /\ status' = "error" /\ recorded' = counted
    BY <1>1, <1>6 DEF End
  <2>3. Failure \/ Unsent
    BY <1>1, <1>6, <2>1 DEF IsChunk, Sent, Failure, Unsent
  <2>4. Places(counted) = Delivered
    <3>1. CASE Unsent
      BY <1>1, <3>1, NothingYet DEF Ends, Flow
    <3>2. CASE ~ Unsent
      <4>1. h \in 1 .. pos /\ body[h] = Bad
        BY <1>1, <1>6, <2>1, <3>2 DEF Sent, IsChunk, Unsent
      <4>2. ASSUME NEW i \in Delivered
            PROVE  i \in Places(counted)
        <5>1. i \in Sent /\ i < h
          BY <1>1, <4>1, <4>2, Numbers, SMTT(30) DEF Delivered, Sent, IsChunk
        <5> QED BY <1>1, <2>1, <5>1 DEF Flow, Sent
      <4>3. ASSUME NEW i \in Places(counted)
            PROVE  i \in Delivered
        <5>1. i \in Sent /\ IsChunk(i) /\ i \in 1 .. pos
          BY <1>1, <4>3 DEF Flow, Sent
        <5>2. ASSUME NEW j \in 1 .. i, body[j] = Bad
              PROVE  FALSE
          <6>1. j \in Sent /\ ~ IsChunk(j)
            BY <1>1, <5>1, <5>2, Numbers, ChannelAssumption DEF Sent, IsChunk
          <6>2. j \in Places(buf)
            BY <1>1, <6>1 DEF Flow
          <6> QED BY <1>1, <4>3, <5>1, <5>2, <6>2 DEF Flow
        <5> QED BY <1>1, <5>1, <5>2 DEF Delivered
      <4> QED BY <4>2, <4>3
    <3> QED BY <3>1, <3>2
  <2>5. told
    BY <1>1, <2>3 DEF Ends
  <2>6. DeliveredRecorded'
    BY <1>1, <1>2, <1>3, <2>2, <2>4, <2>5 DEF DeliveredRecorded, Flow
  <2> QED BY <1>1, <1>2, <1>6, <2>2, <2>3, <2>6, HookEnds
\* There is nothing more: all that was sent are chunks, and they are taken.
<1>7. CASE Drained /\ End("ok", counted) /\ hook' = "gone" /\ UNCHANGED <<channel, counted, crashed>>
  <2>1. /\ chan = "closed" /\ Places(buf) = {} /\ buf' = buf
        /\ span' = "ended" /\ status' = "ok" /\ recorded' = counted
    BY <1>1, <1>7, PlacesOfNone DEF Drained, End
  <2>2. Places(counted) = Sent /\ \A i \in Sent : IsChunk(i)
    BY <1>1, <2>1 DEF Flow
  <2>3. ~ Failure
    BY <1>1, <2>2, ChannelAssumption DEF Failure, Sent, IsChunk
  <2>4. Sent = Delivered
    BY <1>1, <2>2, <2>3, Numbers, SMTT(30) DEF Sent, Delivered, Failure, IsChunk
  <2>5. DeliveredRecorded'
    BY <1>1, <1>2, <1>3, <2>1, <2>2, <2>3, <2>4 DEF DeliveredRecorded, Flow, Failure
  <2> QED BY <1>1, <1>2, <1>7, <2>1, <2>5, HookEnds
<1> QED BY <1>4, <1>5, <1>6, <1>7

LEMMA MegEnterStep ==
  ASSUME ChannelInv, NEW l, l \in Meg, MegEnter(l)
  PROVE  ChannelInv'
<1> USE DEF MegEnter, Live, channel, call, progress, trace
<1>1. /\ Cap \in Nat /\ Cap > 0 /\ Len(body) \in Nat /\ pos \in Nat /\ ranged \in Nat
      /\ buf \in Seq(Nat) /\ counted \in Seq(Nat) /\ Len(buf) \in Nat
      /\ lib \in Genai \union Meg \union Eino /\ (lib \in Genai => lib \notin Meg \union Eino)
      /\ lib \in Meg => lib \notin Eino
      /\ raw \subseteq 1 .. pos /\ (raw # {} => lib \in Meg)
  BY Numbers
<1>2. Sent' = Sent /\ Delivered' = Delivered /\ (Failure' <=> Failure) /\ \A i : IsChunk(i)' <=> IsChunk(i)
  BY SameStream
<1>3. Sequenced'
  BY <1>1, PlacesAppend, PlacesTail DEF ChannelInv, Sequenced
<1>4. ChannelTypeOK'
  BY <1>1, PlacesAppend, PlacesTail DEF ChannelInv, ChannelTypeOK, Stages
<1>5. Stages'
  BY <1>1, <1>2, PlacesOfNone DEF ChannelInv, Stages, ChannelTypeOK, Ends
<1>6. Ends'
  BY <1>1, <1>2, PlacesOfNone DEF ChannelInv, Ends, Stages, ChannelTypeOK, Unsent
<1>7. Flow'
  BY <1>1, <1>2, PlacesOfNone DEF ChannelInv, Flow, Stages, Unsent, Ends
<1>8. Over'
  BY <1>1, <1>2, PlacesOfNone DEF ChannelInv, Over, Stages, Ends, ChannelTypeOK, Unsent
<1>9. CrashCauses'
  BY <1>1, <1>2, PlacesOfNone DEF ChannelInv, CrashCauses, Ends, Stages, ChannelTypeOK
<1>10. DeliveredRecorded'
  BY <1>1, <1>2, PlacesOfNone DEF ChannelInv, DeliveredRecorded, Over, Stages, Ends, ChannelTypeOK
<1> QED BY <1>4, <1>5, <1>6, <1>7, <1>8, <1>9, <1>10, <1>3 DEF ChannelInv

LEMMA MegExitStep ==
  ASSUME ChannelInv, NEW l, l \in Meg, MegExit(l)
  PROVE  ChannelInv'
<1> USE DEF MegExit, Live, End, call, progress, trace
<1>1. /\ Cap \in Nat /\ Cap > 0 /\ Len(body) \in Nat /\ pos \in Nat /\ ranged \in Nat
      /\ buf \in Seq(Nat) /\ counted \in Seq(Nat) /\ Len(buf) \in Nat
      /\ lib \in Genai \union Meg \union Eino /\ (lib \in Genai => lib \notin Meg \union Eino)
      /\ lib \in Meg => lib \notin Eino
      /\ raw \subseteq 1 .. pos /\ (raw # {} => lib \in Meg)
  BY Numbers
<1>2. Sent' = Sent /\ Delivered' = Delivered /\ (Failure' <=> Failure) /\ \A i : IsChunk(i)' <=> IsChunk(i)
  BY SameStream
<1>3. Sequenced'
  BY <1>1, PlacesAppend, PlacesTail DEF ChannelInv, Sequenced
<1>4. ChannelTypeOK'
  BY <1>1, PlacesAppend, PlacesTail DEF ChannelInv, ChannelTypeOK, Stages
<1>5. Stages'
  BY <1>1, <1>2, PlacesOfNone DEF ChannelInv, Stages, ChannelTypeOK, Ends
<1>6. Ends'
  BY <1>1, <1>2, PlacesOfNone DEF ChannelInv, Ends, Stages, ChannelTypeOK, Unsent
<1>7. Flow'
  <2>1. pos = 0 /\ buf' = <<>> /\ counted' = <<>>
    BY <1>1 DEF ChannelInv, Stages
  <2> QED BY <1>1, <1>2, <2>1, NothingYet, PlacesOfNone DEF Flow, Unsent
<1>8. Over'
  BY <1>1, <1>2, PlacesOfNone DEF ChannelInv, Over, Stages, Ends, ChannelTypeOK, Unsent
<1>9. CrashCauses'
  BY <1>1, <1>2, PlacesOfNone DEF ChannelInv, CrashCauses, Ends, Stages, ChannelTypeOK
<1>10. DeliveredRecorded'
  <2>1. pos = 0 /\ Delivered = {} /\ (enabled => span = "open") /\ (span = "ended" => enabled)
    BY <1>1, NothingYet DEF ChannelInv, Stages, Ends
  <2>2. CASE span' = "ended"
    <3>1. recorded' = <<>> /\ status' = "error" /\ told'
      BY <2>1, <2>2
    <3> QED BY <1>1, <1>2, <2>1, <3>1, PlacesOfNone DEF DeliveredRecorded, Failure
  <2> QED BY <2>2 DEF DeliveredRecorded
<1> QED BY <1>4, <1>5, <1>6, <1>7, <1>8, <1>9, <1>10, <1>3 DEF ChannelInv

LEMMA MegRecvStep ==
  ASSUME ChannelInv, NEW l, l \in Meg, MegRecv(l)
  PROVE  ChannelInv'
<1> USE DEF MegRecv, Live, Here, channel, call, progress, trace
<1>1. /\ Cap \in Nat /\ Cap > 0 /\ Len(body) \in Nat /\ pos \in Nat /\ ranged \in Nat
      /\ buf \in Seq(Nat) /\ counted \in Seq(Nat) /\ Len(buf) \in Nat
      /\ lib \in Genai \union Meg \union Eino /\ (lib \in Genai => lib \notin Meg \union Eino)
      /\ lib \in Meg => lib \notin Eino
      /\ raw \subseteq 1 .. pos /\ (raw # {} => lib \in Meg)
  BY Numbers
<1>2. /\ lib \in Meg /\ lib \notin Genai \union Eino /\ app = "stream" /\ ~ crashed
      /\ UNCHANGED <<lib, body, enabled, present, raw, app, ranged, cancelled, hook, counted,
                     span, status, recorded>>
  BY <1>1
<1>3. /\ Sequenced /\ ChannelTypeOK /\ Stages /\ Ends /\ Flow /\ Over /\ CrashCauses
      /\ DeliveredRecorded
  BY DEF ChannelInv
\* A chunk is put into the channel.
<1>4. CASE pos < Len(body) /\ IsChunk(pos + 1) /\ Send(pos + 1) /\ ~ crashed'
  <2>1. pos' = pos + 1 /\ told' = told
    BY <1>4
  <2> HIDE DEF MegRecv
  <2>2. /\ chan = "open" /\ chan' = chan /\ crashed' = crashed /\ buf' \in Seq(Nat)
        /\ Len(buf') <= Cap /\ Places(buf') = Places(buf) \union {pos + 1}
        /\ (\A j \in Places(buf) : j < pos + 1) /\ Increasing(buf) => Increasing(buf')
    <3>1. pos + 1 \in Nat /\ lib \notin Eino
      BY <1>1, <1>2
    <3>2. crashed' # TRUE
      BY <1>4, Zenon
    <3> QED BY <1>4, <3>1, <3>2, SendStep
  <2>3. /\ \A i : IsChunk(i)' <=> IsChunk(i)
        /\ \A i : i \in Sent' <=> i \in Sent \/ i = pos + 1
        /\ \A i \in Sent : i \in 1 .. pos
    BY <1>1, <1>2, <1>4, <2>1, Further
  <2>4. Sequenced' /\ ChannelTypeOK'
    BY <1>1, <1>2, <1>3, <1>4, <2>1, <2>2 DEF Sequenced, ChannelTypeOK
  <2>5. Stages' /\ Ends'
    BY <1>1, <1>2, <1>3, <2>1, <2>2, <2>3 DEF Stages, Ends
  <2>6. Flow'
    <3> SUFFICES ASSUME hook = "running"
                 PROVE  Flow'
      BY <1>2 DEF Flow
    <3> DEFINE p == pos + 1
    <3>1. \A i \in Places(counted) \union Places(buf) : i < p /\ i # p /\ i # 0
      BY <1>1, <1>2, <1>3, <2>3 DEF Flow, Unsent
    <3>2. Increasing(buf') /\ Increasing(counted')
      BY <1>2, <1>3, <2>2, <3>1 DEF Flow
    <3>3. ~ Unsent' /\ p # 0
      BY <1>1, <2>2, <3>1 DEF Unsent
    <3>4. /\ Places(buf') = Places(buf) \union {p}
          /\ \A i : i \in Sent' <=> i \in Sent \/ i = p
      BY <2>2, <2>3
    <3> HIDE DEF p, Unsent
    <3> QED BY <1>2, <1>3, <2>3, <3>1, <3>2, <3>3, <3>4 DEF Flow
  <2>7. Over' /\ CrashCauses' /\ DeliveredRecorded'
    BY <1>2, <1>3, <2>2 DEF Over, CrashCauses, DeliveredRecorded
  <2> QED BY <2>4, <2>5, <2>6, <2>7 DEF ChannelInv
\* The channel has been closed.
<1>5. CASE pos < Len(body) /\ IsChunk(pos + 1) /\ Send(pos + 1) /\ crashed'
  <2>1. pos' = pos /\ told' = told
    BY <1>5
  <2> HIDE DEF MegRecv
  <2>2. chan = "closed" /\ chan' = chan /\ crashed' = TRUE /\ buf' = buf
    <3>1. pos + 1 \in Nat
      BY <1>1
    <3>2. crashed' # crashed
      BY <1>2, <1>5, Zenon
    <3> QED BY <1>5, <3>1, <3>2, SendStep
  <2>3. /\ Sent' = Sent /\ Delivered' = Delivered /\ (Failure' <=> Failure)
        /\ \A i : IsChunk(i)' <=> IsChunk(i)
    BY <1>2, <2>1, SameStream
  <2>4. Sequenced' /\ ChannelTypeOK' /\ Stages' /\ Over'
    BY <1>2, <1>3, <2>1, <2>2 DEF Sequenced, ChannelTypeOK, Stages, Over
  <2>5. Ends' /\ Flow' /\ CrashCauses'
    BY <1>2, <1>3, <2>1, <2>2, <2>3 DEF Ends, Flow, CrashCauses, Unsent
  <2>6. DeliveredRecorded'
    BY <1>2, <1>3, <2>1, <2>3 DEF DeliveredRecorded, Failure
  <2> QED BY <2>4, <2>5, <2>6 DEF ChannelInv
\* The end of the stream, or an error.
<1>6. CASE /\ ~ (pos < Len(body) /\ IsChunk(pos + 1)) /\ Close /\ ~ crashed' /\ told' = TRUE
           /\ pos' = IF pos < Len(body) /\ body[pos + 1] = Bad THEN pos + 1 ELSE pos
  <2> HIDE DEF MegRecv
  <2>1. /\ buf' = buf /\ pos' \in 0 .. Len(body) /\ raw \subseteq 1 .. pos'
        /\ chan = "open" /\ chan' = "closed" /\ crashed' = crashed
    <3>1. pos' \in 0 .. Len(body) /\ raw \subseteq 1 .. pos'
      BY <1>1, <1>3, <1>6 DEF ChannelTypeOK
    <3>2. CASE chan = "open"
      BY <1>6, <3>1, <3>2 DEF Close
    <3>3. CASE chan # "open"
      <4>1. crashed' = TRUE
        BY <1>6, <3>3 DEF Close, Crash
      <4> QED BY <1>6, <4>1, Zenon
    <3> QED BY <3>2, <3>3
  <2>2. /\ Sent' = Sent /\ Delivered' = Delivered /\ \A i : IsChunk(i)' <=> IsChunk(i)
    <3>1. CASE pos' = pos
      BY <1>2, <3>1, SameStream
    <3>2. CASE pos' = pos + 1
      <4>1. ~ IsChunk(pos + 1)
        BY <1>1, <1>6, <3>2
      <4> QED BY <1>1, <1>2, <3>2, <4>1, Further
    <3> QED BY <1>6, <3>1, <3>2
  <2>3. Sequenced' /\ ChannelTypeOK'
    BY <1>2, <1>3, <1>6, <2>1 DEF Sequenced, ChannelTypeOK
  <2>4. Stages' /\ Over' /\ CrashCauses'
    BY <1>2, <1>3, <1>6, <2>1 DEF Stages, Over, CrashCauses
  <2>5. Ends'
    BY <1>2, <1>3, <1>6, <2>1 DEF Ends
  <2>6. Flow'
    BY <1>2, <1>3, <2>1, <2>2 DEF Flow, Unsent
  <2>7. DeliveredRecorded'
    BY <1>2, <1>3, <1>6, <2>2 DEF DeliveredRecorded
  <2> QED BY <2>3, <2>4, <2>5, <2>6, <2>7 DEF ChannelInv
\* It was told before, or the hooks are turned off.
<1>7. CASE Close /\ crashed' /\ UNCHANGED <<pos, told>>
  <2> HIDE DEF MegRecv
  <2>1. buf' = buf /\ chan # "open" /\ chan' = chan /\ crashed' = TRUE
    <3>1. CASE chan = "open"
      <4>1. crashed' = crashed
        BY <1>7, <3>1 DEF Close
      <4> QED BY <1>2, <1>7, <4>1, Zenon
    <3>2. CASE chan # "open"
      BY <1>7, <3>2 DEF Close, Crash
    <3> QED BY <3>1, <3>2
  <2>2. /\ Sent' = Sent /\ Delivered' = Delivered /\ (Failure' <=> Failure)
        /\ \A i : IsChunk(i)' <=> IsChunk(i)
    BY <1>2, <1>7, SameStream
  <2>3. chan \in {"nil", "closed"} /\ (enabled => told)
    BY <1>2, <1>3, <2>1 DEF ChannelTypeOK, Ends
  <2>4. Sequenced' /\ ChannelTypeOK' /\ Stages' /\ Over' /\ CrashCauses'
    BY <1>2, <1>3, <1>7, <2>1, <2>3 DEF Sequenced, ChannelTypeOK, Stages, Over, CrashCauses
  <2>5. Ends' /\ Flow'
    BY <1>2, <1>3, <1>7, <2>1, <2>2 DEF Ends, Flow, Unsent
  <2>6. DeliveredRecorded'
    BY <1>2, <1>3, <1>7, <2>2 DEF DeliveredRecorded, Failure
  <2> QED BY <2>4, <2>5, <2>6 DEF ChannelInv
<1> QED BY <1>4, <1>5, <1>6, <1>7

\* What RecvRaw returns is neither sent nor delivered.
LEMMA MegRecvRawStep ==
  ASSUME ChannelInv, NEW l, l \in Meg, MegRecvRaw(l)
  PROVE  ChannelInv'
<1>1. /\ Len(body) \in Nat /\ pos \in Nat /\ raw \subseteq 1 .. pos
      /\ lib \in Meg /\ lib \notin Genai \union Eino
      /\ app = "stream" /\ ~ crashed /\ pos < Len(body) /\ pos' = pos + 1
      /\ raw' = raw \union {pos + 1}
      /\ UNCHANGED <<lib, body, enabled, present, app, told, ranged, cancelled, chan, buf,
                     hook, counted, span, status, recorded, crashed>>
  BY Numbers DEF MegRecvRaw, Live, Here, channel, call, trace
<1>2. /\ Sequenced /\ ChannelTypeOK /\ Stages /\ Ends /\ Flow /\ Over /\ CrashCauses
      /\ DeliveredRecorded
  BY DEF ChannelInv
<1>3. \A i : IsChunk(i)' <=> IsChunk(i)
  BY <1>1 DEF IsChunk
<1>4. \A i : i \in (1 .. pos') \ raw' <=> i \in (1 .. pos) \ raw
  BY <1>1
<1>5. Sent' = Sent /\ Delivered' = Delivered
  BY <1>1, <1>3, <1>4 DEF Sent, Delivered
<1>6. Sequenced' /\ ChannelTypeOK'
  <2>1. pos' \in 0 .. Len(body) /\ raw' \subseteq 1 .. pos'
    BY <1>1
  <2> QED BY <1>1, <1>2, <2>1 DEF Sequenced, ChannelTypeOK
<1>7. Stages' /\ Over' /\ CrashCauses'
  BY <1>1, <1>2 DEF Stages, Over, CrashCauses
<1>8. Ends'
  BY <1>1, <1>2 DEF Ends
<1>9. Flow'
  BY <1>1, <1>2, <1>3, <1>5 DEF Flow, Unsent
<1>10. DeliveredRecorded'
  BY <1>1, <1>2, <1>5 DEF DeliveredRecorded
<1> QED BY <1>6, <1>7, <1>8, <1>9, <1>10 DEF ChannelInv

LEMMA MegLeaveStep ==
  ASSUME ChannelInv, NEW l, l \in Meg, MegLeave(l)
  PROVE  ChannelInv'
<1> USE DEF MegLeave, Live, channel, call, progress, trace
<1>1. /\ Cap \in Nat /\ Cap > 0 /\ Len(body) \in Nat /\ pos \in Nat /\ ranged \in Nat
      /\ buf \in Seq(Nat) /\ counted \in Seq(Nat) /\ Len(buf) \in Nat
      /\ lib \in Genai \union Meg \union Eino /\ (lib \in Genai => lib \notin Meg \union Eino)
      /\ lib \in Meg => lib \notin Eino
      /\ raw \subseteq 1 .. pos /\ (raw # {} => lib \in Meg)
  BY Numbers
<1>2. Sent' = Sent /\ Delivered' = Delivered /\ (Failure' <=> Failure) /\ \A i : IsChunk(i)' <=> IsChunk(i)
  BY SameStream
<1>3. Sequenced'
  BY <1>1, PlacesAppend, PlacesTail DEF ChannelInv, Sequenced
<1>4. ChannelTypeOK'
  BY <1>1, PlacesAppend, PlacesTail DEF ChannelInv, ChannelTypeOK, Stages
<1>5. Stages'
  BY <1>1, <1>2, PlacesOfNone DEF ChannelInv, Stages, ChannelTypeOK, Ends
<1>6. Ends'
  BY <1>1, <1>2, PlacesOfNone DEF ChannelInv, Ends, Stages, ChannelTypeOK, Unsent
<1>7. Flow'
  BY <1>1, <1>2, PlacesOfNone DEF ChannelInv, Flow, Stages, Unsent, Ends
<1>8. Over'
  BY <1>1, <1>2, PlacesOfNone DEF ChannelInv, Over, Stages, Ends, ChannelTypeOK, Unsent
<1>9. CrashCauses'
  BY <1>1, <1>2, PlacesOfNone DEF ChannelInv, CrashCauses, Ends, Stages, ChannelTypeOK
<1>10. DeliveredRecorded'
  BY <1>1, <1>2, PlacesOfNone DEF ChannelInv, DeliveredRecorded, Over, Stages, Ends, ChannelTypeOK
<1> QED BY <1>4, <1>5, <1>6, <1>7, <1>8, <1>9, <1>10, <1>3 DEF ChannelInv

LEMMA MegHookStep ==
  ASSUME ChannelInv, NEW l, l \in Meg, MegHook(l)
  PROVE  ChannelInv'
<1> USE DEF MegHook, Live, channel, call, progress, trace
<1>1. /\ hook = "running" /\ lib \in Meg /\ span = "open" /\ ~ crashed /\ Flow /\ Ends
      /\ lib \notin Genai \union Eino
  BY Numbers DEF ChannelInv, Ends, ChannelTypeOK
<1>2. UNCHANGED <<lib, body, enabled, present, raw, app, pos, told, ranged, cancelled>>
  OBVIOUS
<1>3. ~ Unsent /\ \A i \in Sent : IsChunk(i) /\ i \in Delivered
  BY <1>1, Numbers DEF Flow, Sent, Delivered
<1>4. CASE /\ buf # <<>> /\ buf' = Tail(buf) /\ counted' = Append(counted, Head(buf))
           /\ UNCHANGED <<chan, hook, trace, crashed>>
  <2>1. Head(buf) \in Places(buf)
    BY <1>4, TakeStep
  <2>2. IsChunk(Head(buf))
    BY <1>1, <1>3, <2>1 DEF Flow, Unsent
  <2> QED BY <1>1, <1>2, <1>4, <2>2, HookTakes
<1>5. CASE Drained /\ End("unset", counted) /\ hook' = "gone" /\ UNCHANGED <<channel, counted, crashed>>
  <2>1. /\ chan = "closed" /\ Places(buf) = {} /\ buf' = buf
        /\ span' = "ended" /\ status' = "unset" /\ recorded' = counted
    BY <1>1, <1>5, PlacesOfNone DEF Drained, End
  <2>2. Places(counted) = Delivered
    <3>1. Places(counted) = Sent
      BY <1>1, <2>1 DEF Flow
    <3>2. Delivered \subseteq Sent
      BY <1>1 DEF Delivered, Sent
    <3> QED BY <1>3, <3>1, <3>2
  <2>3. Delivered' = Delivered
    BY <1>2, SameStream
  <2>4. DeliveredRecorded'
    BY <1>1, <1>2, <2>1, <2>2, <2>3 DEF DeliveredRecorded, Flow
  <2> QED BY <1>1, <1>2, <1>5, <2>1, <2>4, HookEnds
<1> QED BY <1>4, <1>5

LEMMA EinoStartStep ==
  ASSUME ChannelInv, NEW l, l \in Eino, EinoStart(l)
  PROVE  ChannelInv'
<1> USE DEF EinoStart, Live, channel, call, progress, trace
<1>1. /\ Cap \in Nat /\ Cap > 0 /\ Len(body) \in Nat /\ pos \in Nat /\ ranged \in Nat
      /\ buf \in Seq(Nat) /\ counted \in Seq(Nat) /\ Len(buf) \in Nat
      /\ lib \in Genai \union Meg \union Eino /\ (lib \in Genai => lib \notin Meg \union Eino)
      /\ lib \in Meg => lib \notin Eino
      /\ raw \subseteq 1 .. pos /\ (raw # {} => lib \in Meg)
  BY Numbers
<1>2. Sent' = Sent /\ Delivered' = Delivered /\ (Failure' <=> Failure) /\ \A i : IsChunk(i)' <=> IsChunk(i)
  BY SameStream
<1>3. Sequenced'
  BY <1>1, PlacesAppend, PlacesTail DEF ChannelInv, Sequenced
<1>4. ChannelTypeOK'
  BY <1>1, PlacesAppend, PlacesTail DEF ChannelInv, ChannelTypeOK, Stages
<1>5. Stages'
  BY <1>1, <1>2, PlacesOfNone DEF ChannelInv, Stages, ChannelTypeOK, Ends
<1>6. Ends'
  BY <1>1, <1>2, PlacesOfNone DEF ChannelInv, Ends, Stages, ChannelTypeOK, Unsent
<1>7. Flow'
  BY <1>1, <1>2, PlacesOfNone DEF ChannelInv, Flow, Stages, Unsent, Ends
<1>8. Over'
  BY <1>1, <1>2, PlacesOfNone DEF ChannelInv, Over, Stages, Ends, ChannelTypeOK, Unsent
<1>9. CrashCauses'
  BY <1>1, <1>2, PlacesOfNone DEF ChannelInv, CrashCauses, Ends, Stages, ChannelTypeOK
<1>10. DeliveredRecorded'
  BY <1>1, <1>2, PlacesOfNone DEF ChannelInv, DeliveredRecorded, Over, Stages, Ends, ChannelTypeOK
<1> QED BY <1>4, <1>5, <1>6, <1>7, <1>8, <1>9, <1>10, <1>3 DEF ChannelInv

LEMMA EinoEndStep ==
  ASSUME ChannelInv, NEW l, l \in Eino, EinoEnd(l)
  PROVE  ChannelInv'
<1> USE DEF EinoEnd, Live, End, call, progress, trace
<1>1. /\ Cap \in Nat /\ Cap > 0 /\ Len(body) \in Nat /\ pos \in Nat /\ ranged \in Nat
      /\ buf \in Seq(Nat) /\ counted \in Seq(Nat) /\ Len(buf) \in Nat
      /\ lib \in Genai \union Meg \union Eino /\ (lib \in Genai => lib \notin Meg \union Eino)
      /\ lib \in Meg => lib \notin Eino
      /\ raw \subseteq 1 .. pos /\ (raw # {} => lib \in Meg)
  BY Numbers
<1>2. Sent' = Sent /\ Delivered' = Delivered /\ (Failure' <=> Failure) /\ \A i : IsChunk(i)' <=> IsChunk(i)
  BY SameStream
<1>3. Sequenced'
  BY <1>1, PlacesAppend, PlacesTail DEF ChannelInv, Sequenced
<1>4. ChannelTypeOK'
  BY <1>1, PlacesAppend, PlacesTail DEF ChannelInv, ChannelTypeOK, Stages
<1>5. Stages'
  BY <1>1, <1>2, PlacesOfNone DEF ChannelInv, Stages, ChannelTypeOK, Ends
<1>6. Ends'
  BY <1>1, <1>2, PlacesOfNone DEF ChannelInv, Ends, Stages, ChannelTypeOK, Unsent
<1>7. Flow'
  <2>1. pos = 0 /\ buf' = <<>> /\ counted' = <<>>
    BY <1>1 DEF ChannelInv, Stages
  <2> QED BY <1>1, <1>2, <2>1, NothingYet, PlacesOfNone DEF Flow, Unsent
<1>8. Over'
  BY <1>1, <1>2, PlacesOfNone DEF ChannelInv, Over, Stages, Ends, ChannelTypeOK, Unsent
<1>9. CrashCauses'
  BY <1>1, <1>2, PlacesOfNone DEF ChannelInv, CrashCauses, Ends, Stages, ChannelTypeOK
<1>10. DeliveredRecorded'
  BY <1>1, <1>2, PlacesOfNone DEF ChannelInv, DeliveredRecorded, Over, Stages, Ends, ChannelTypeOK
<1> QED BY <1>4, <1>5, <1>6, <1>7, <1>8, <1>9, <1>10, <1>3 DEF ChannelInv

LEMMA EinoProduceStep ==
  ASSUME ChannelInv, EinoProduce
  PROVE  ChannelInv'
<1>1. /\ Cap \in Nat /\ Cap > 0 /\ Len(body) \in Nat /\ pos \in Nat
      /\ buf \in Seq(Nat) /\ counted \in Seq(Nat) /\ Len(buf) \in Nat
      /\ lib \in Eino /\ lib \notin Genai \union Meg /\ raw = {}
  BY Numbers DEF EinoProduce
<1>2. /\ app = "stream" /\ ~ crashed /\ span # "ended"
      /\ UNCHANGED <<lib, body, enabled, present, raw, told, ranged, cancelled, hook, counted,
                     span, status, recorded, crashed>>
  BY <1>1 DEF EinoProduce, Live, call, trace, ChannelInv, Over
<1>3. /\ Sequenced /\ ChannelTypeOK /\ Stages /\ Ends /\ Flow /\ Over /\ CrashCauses
  BY DEF ChannelInv
<1>4. Over' /\ DeliveredRecorded' /\ CrashCauses'
  BY <1>2, <1>3 DEF Over, DeliveredRecorded, CrashCauses
<1>5. CASE /\ pos < Len(body) /\ buf' = Append(buf, pos + 1) /\ pos' = pos + 1
           /\ UNCHANGED <<app, chan>>
  <2>1. /\ buf' \in Seq(Nat) /\ Places(buf') = Places(buf) \union {pos + 1} /\ pos + 1 \in Nat
        /\ (\A j \in Places(buf) : j < pos + 1) /\ Increasing(buf) => Increasing(buf')
    BY <1>1, <1>5, PlacesAppend
  <2>2. /\ \A i : IsChunk(i)' <=> IsChunk(i)
        /\ \A i : i \in Sent' <=> i \in Sent \/ i = pos + 1
        /\ \A i \in Sent : i \in 1 .. pos
    BY <1>1, <1>2, <1>5, Further
  <2>3. Sequenced' /\ ChannelTypeOK'
    BY <1>1, <1>2, <1>3, <1>5, <2>1 DEF Sequenced, ChannelTypeOK
  <2>4. Stages' /\ Ends'
    BY <1>1, <1>2, <1>3, <1>5 DEF Stages, Ends
  <2>5. Flow'
    <3> SUFFICES ASSUME hook = "running"
                 PROVE  Flow'
      BY <1>2 DEF Flow
    <3> DEFINE p == pos + 1
    <3>1. \A i \in Places(counted) \union Places(buf) : i < p /\ i # p /\ i # 0
      BY <1>1, <1>2, <1>3, <2>2 DEF Flow, Unsent
    <3>2. Increasing(buf') /\ Increasing(counted')
      BY <1>2, <1>3, <2>1, <3>1 DEF Flow
    <3>3. ~ Unsent' /\ p # 0
      BY <1>1, <2>1, <3>1 DEF Unsent
    <3>4. /\ Places(buf') = Places(buf) \union {p}
          /\ \A i : i \in Sent' <=> i \in Sent \/ i = p
      BY <2>1, <2>2
    <3> HIDE DEF p, Unsent
    <3> QED BY <1>2, <1>3, <2>2, <3>1, <3>2, <3>3, <3>4 DEF Flow
  <2> QED BY <1>4, <2>3, <2>4, <2>5 DEF ChannelInv
<1>6. CASE app' = "over" /\ chan' = "closed" /\ UNCHANGED <<buf, pos>>
  <2>1. /\ Sent' = Sent /\ Delivered' = Delivered /\ \A i : IsChunk(i)' <=> IsChunk(i)
    BY <1>2, <1>6, SameStream
  <2>2. Sequenced' /\ ChannelTypeOK'
    BY <1>1, <1>2, <1>3, <1>6 DEF Sequenced, ChannelTypeOK
  <2>3. Stages' /\ Ends'
    BY <1>1, <1>2, <1>3, <1>6 DEF Stages, Ends
  <2>4. Flow'
    BY <1>2, <1>3, <1>6, <2>1 DEF Flow, Unsent
  <2> QED BY <1>4, <2>2, <2>3, <2>4 DEF ChannelInv
<1> QED BY <1>5, <1>6 DEF EinoProduce, Here

LEMMA EinoHookStep ==
  ASSUME ChannelInv, NEW l, l \in Eino, EinoHook(l)
  PROVE  ChannelInv'
<1> USE DEF EinoHook, Live, channel, call, progress, trace
<1>1. /\ hook = "running" /\ lib \in Eino /\ span = "open" /\ ~ crashed /\ Flow /\ Ends
      /\ lib \notin Genai \union Meg /\ raw = {}
  BY Numbers DEF ChannelInv, Ends, ChannelTypeOK
<1>2. UNCHANGED <<lib, body, enabled, present, raw, app, pos, told, ranged, cancelled, crashed>>
  OBVIOUS
<1>3. CASE /\ buf # <<>> /\ buf' = Tail(buf) /\ UNCHANGED <<chan, hook, trace>>
           /\ counted' = IF IsChunk(Head(buf)) THEN Append(counted, Head(buf)) ELSE counted
  BY <1>1, <1>2, <1>3, HookTakes
<1>4. CASE /\ Drained /\ hook' = "gone" /\ UNCHANGED <<channel, counted>>
           /\ End("unset", None) \/ End("unset", counted)
  <2>1. /\ chan = "closed" /\ Places(buf) = {} /\ buf' = buf
        /\ span' = "ended" /\ status' = "unset" /\ recorded' \in {None, counted}
    BY <1>1, <1>4, PlacesOfNone DEF Drained, End
  <2>2. Places(counted) = Delivered
    BY <1>1, <2>1 DEF Flow, Sent, Delivered
  <2>3. Delivered' = Delivered
    BY <1>2, SameStream
  <2>4. DeliveredRecorded'
    BY <1>1, <1>2, <2>1, <2>2, <2>3 DEF DeliveredRecorded, Flow
  <2> QED BY <1>1, <1>2, <1>4, <2>1, <2>4, HookEnds
\* The goroutine panicked: the span stays open.
<1>5. CASE Drained /\ hook' = "gone" /\ UNCHANGED <<channel, counted>> /\ UNCHANGED trace
  <2>1. chan = "closed" /\ Sent' = Sent /\ \A i : IsChunk(i)' <=> IsChunk(i)
    BY <1>2, <1>5, SameStream DEF Drained
  <2>2. Sequenced' /\ ChannelTypeOK' /\ Stages'
    BY <1>1, <1>2, <1>5 DEF ChannelInv, Sequenced, ChannelTypeOK, Stages
  <2> HIDE DEF EinoHook
  <2>3. Ends'
    BY <1>1, <1>2, <1>5 DEF Ends
  <2>4. Flow' /\ Over' /\ CrashCauses' /\ DeliveredRecorded'
    BY <1>1, <1>2, <1>5 DEF Flow, Over, CrashCauses, DeliveredRecorded
  <2> QED BY <2>2, <2>3, <2>4 DEF ChannelInv
<1> QED BY <1>3, <1>4, <1>5

LEMMA ChannelSame ==
  ASSUME ChannelInv, UNCHANGED channelVars
  PROVE  ChannelInv'
<1> USE DEF channelVars, call, progress, channel, trace
<1>1. /\ Sent' = Sent /\ Delivered' = Delivered /\ (Failure' <=> Failure)
      /\ \A i : IsChunk(i)' <=> IsChunk(i)
  BY SameStream
<1>2. Sequenced' /\ ChannelTypeOK' /\ Stages' /\ CrashCauses'
  BY DEF ChannelInv, Sequenced, ChannelTypeOK, Stages, CrashCauses
<1>3. Ends' /\ Flow' /\ Over' /\ DeliveredRecorded'
  BY <1>1 DEF ChannelInv, Ends, Flow, Over, DeliveredRecorded, Unsent, Failure
<1> QED BY <1>2, <1>3 DEF ChannelInv

LEMMA ChannelStep == ChannelInv /\ [ChannelNext]_channelVars => ChannelInv'
<1> SUFFICES ASSUME ChannelInv, [ChannelNext]_channelVars
             PROVE  ChannelInv'
  OBVIOUS
<1>1. /\ "genai v1.36" \in Genai /\ "genai v1.45" \in Genai /\ "genai v1.59" \in Genai
      /\ "completion" \in Meg /\ "chat" \in Meg
      /\ "eino model" \in Eino /\ "eino tool" \in Eino /\ "eino tools node" \in Eino
  BY DEF Genai, Meg, Eino
<1>2. ASSUME NEW l \in Genai, Stream(l) PROVE ChannelInv'
  BY <1>2, GenaiFailStep, GenaiFailedStep, GenaiOpenedStep, GenaiRangeStep, GenaiYieldStep,
     GenaiRangedStep DEF Stream
<1>3. CASE GenaiNext
  BY <1>1, <1>2, <1>3, GenaiEnterStep, CancelStep
     DEF GenaiNext, Enter36, Enter45, Enter59, Stream36, Stream45, Stream59
<1>4. CASE MegNext
  BY <1>1, <1>4, MegEnterStep, MegExitStep, MegRecvStep, MegRecvRawStep, MegLeaveStep
     DEF MegNext, CompletionStreamEnter, CompletionStreamExit, ChatStreamEnter, ChatStreamExit
<1>5. CASE EinoNext
  BY <1>1, <1>5, EinoStartStep, EinoEndStep, EinoProduceStep
     DEF EinoNext, ModelStart, ModelEnd, ToolStart, ToolEnd, ToolsNodeStart, ToolsNodeEnd
<1>6. CASE Hook
  BY <1>6, GenaiHookStep, MegHookStep, EinoHookStep DEF Hook
<1>7. CASE UNCHANGED channelVars
  BY <1>7, ChannelSame
<1> QED BY <1>3, <1>4, <1>5, <1>6, <1>7 DEF ChannelNext

\* The invariant of StreamChannels: as long as the hook runs each item that was sent
\* is in the channel or was taken, and who has gone left the channel closed.
THEOREM ChannelAlways == ChannelSpec => []ChannelInv
BY ChannelInitial, ChannelStep, PTL DEF ChannelSpec

\* A channel that the hook, the library and the application share makes none of
\* them crash or wait for good, but in the uses named; for channels of any size.
THEOREM ChannelsHarmless == ChannelSpec => []Unharmed
<1>1. ChannelInv => Unharmed
  <2> SUFFICES ASSUME ChannelInv PROVE Unharmed
    OBVIOUS
  <2>1. ASSUME Stuck PROVE (lib \in Genai /\ told) \/ (lib \in Meg /\ ~ enabled)
    <3>1. chan # "closed" /\ hook # "running" /\ chan \in {"nil", "open", "closed"}
      BY <2>1 DEF Stuck, ChannelInv, ChannelTypeOK
    <3>2. hook # "none" => hook = "gone"
      BY <3>1 DEF ChannelInv, ChannelTypeOK
    <3>3. CASE lib \in Genai /\ enabled /\ app = "ranging"
      BY <3>1, <3>2, <3>3, Numbers DEF ChannelInv, Ends
    <3>4. CASE lib \in Meg /\ app = "stream"
      BY <3>1, <3>2, <3>4, Numbers DEF ChannelInv, Ends
    <3> QED BY <2>1, <3>3, <3>4 DEF Stuck
  <2> QED BY <2>1 DEF ChannelInv, Unharmed, NeverStuck
<1> QED BY <1>1, ChannelAlways, PTL

\* An ended span has on it every chunk that was delivered, once and in order,
\* and the error that stopped genai's conversion; for streams of any length.
THEOREM DeliveredAlwaysRecorded == ChannelSpec => []DeliveredRecorded
<1>1. ChannelInv => DeliveredRecorded
  BY DEF ChannelInv
<1> QED BY <1>1, ChannelAlways, PTL
-----------------------------------------------------------------------------
(* Lines and their events.                                                 *)

\* The line buffer has the line of the body that is not complete, and what was
\* accumulated are the events of the lines before it.
Buffered ==
  /\ lib \in OfBodies => /\ lineBuffer = Scan(body)[pos].line
                         /\ counted = Scan(body)[pos].events
  /\ lib \notin OfBodies \union {"go-openai"} /\ (lib \in Ollama => streams)
       => counted = SubSeq(body, 1, pos)

\* What the last read returned, and whether the span has ended with it.
Heard ==
  /\ at \in {"idle", "asked", "plain"} => heard.err = "none" /\ ~ heard.bytes
  /\ at \in {"idle", "asked"} /\ lib \in OfBodies => pos = 0
  /\ heard.err # "none" => lib \in OfBodies \union DeepSeek
  /\ at = "asked" => span = "open"
  /\ at = "stream" => lib \in OfBodies \union DeepSeek \union {"go-openai"}
  /\ at = "stream" /\ lib = "go-openai" => span = "ended"
  /\ at = "stream" /\ lib # "go-openai" =>
       /\ span = "ended" => heard.err # "none"
       /\ span = "open" /\ heard.err # "none" => lib \in OpenAI /\ heard.bytes

ResponseInv == TypeOK /\ Buffered /\ Heard /\ RecordedAll /\ EndedWhenDone

Scanned == [line : Seq(Nat), events : Seq(Event)]
NoNL(line) == \A i \in 1 .. Len(line) : line[i] # NL

\* A set of numbers that has one has a least one: induction over the numbers.
LEMMA LeastNumber ==
  ASSUME NEW T \in SUBSET Nat, T # {}
  PROVE  \E m \in T : \A n \in T : m <= n
<1>1. IsWellFoundedOn(OpToRel(<, Nat), Nat)
  BY NatLessThanWellFounded
<1>2. PICK m \in T : \A n \in T : ~ (<<n, m>> \in OpToRel(<, Nat))
  BY <1>1, WFMin
<1>3. \A n \in T : ~ (n < m)
  BY <1>2 DEF OpToRel
<1> QED BY <1>3

\* The loop over the bytes takes one after the other.
LEMMA ScanSteps ==
  ASSUME NEW b, Len(b) \in Nat
  PROVE  /\ Scan(b)[0] = [line |-> <<>>, events |-> <<>>]
         /\ \A i \in 1 .. Len(b) : Scan(b)[i] = After(Scan(b)[i - 1], b[i])
<1> DEFINE z == [line |-> <<>>, events |-> <<>>]
           n == Len(b)
           step(f, i) == IF i = 0 THEN z ELSE After(f[i - 1], b[i])
           good(m, f) == f = [i \in 0 .. m |-> step(f, i)]
           T == {m \in 0 .. n : ~ \E f : good(m, f)}
<1>1. T = {}
  <2> SUFFICES ASSUME T # {}
               PROVE  FALSE
    OBVIOUS
  <2>0. T \in SUBSET Nat
    OBVIOUS
  <2>1. PICK m \in T : \A k \in T : m <= k
    <3> HIDE DEF T
    <3> QED BY <2>0, LeastNumber
  <2>2. CASE m = 0
    <3>1. good(m, [i \in 0 .. 0 |-> z])
      BY <2>2
    <3> HIDE DEF good
    <3> QED BY <2>1, <3>1
  <2>3. CASE m # 0
    <3>1. m - 1 \in 0 .. n /\ m - 1 \notin T /\ m \in Nat
      BY <2>1, <2>3, SMTT(30)
    <3>2. PICK f : good(m - 1, f)
      <4> HIDE DEF good
      <4> QED BY <3>1
    <3> DEFINE g == [i \in 0 .. m |-> IF i = m THEN After(f[m - 1], b[m]) ELSE f[i]]
    <3>3. ASSUME NEW i \in 0 .. m
          PROVE  g[i] = step(g, i)
      <4>1. CASE i = m
        BY <2>3, <3>1, <4>1
      <4>2. CASE i # m
        <5>1. i \in 0 .. m - 1 /\ g[i] = f[i] /\ f[i] = step(f, i)
          BY <3>1, <3>2, <4>2
        <5>2. i # 0 => i - 1 \in 0 .. m /\ i - 1 # m
          BY <3>1
        <5>3. i # 0 => g[i - 1] = f[i - 1]
          BY <5>2
        <5> QED BY <5>1, <5>3
      <4> QED BY <4>1, <4>2
    <3>4. g = [i \in 0 .. m |-> step(g, i)]
      <4>1. g = [i \in 0 .. m |-> g[i]]
        OBVIOUS
      <4> HIDE DEF g, step
      <4> QED BY <3>3, <4>1
    <3> HIDE DEF g, step
    <3> QED BY <2>1, <3>4
  <2> QED BY <2>2, <2>3
<1>2. \E f : good(n, f)
  <2>1. n \in 0 .. n
    OBVIOUS
  <2> HIDE DEF good, n
  <2> QED BY <1>1, <2>1
<1>3. Scan(b) = CHOOSE f : good(n, f)
  BY DEF Scan
<1>4. good(n, Scan(b))
  <2> HIDE DEF good, n
  <2> QED BY <1>2, <1>3
<1>5. \A i \in 0 .. n : Scan(b)[i] = step(Scan(b), i)
  <2> DEFINE sc == Scan(b)
  <2>1. sc = [i \in 0 .. n |-> step(sc, i)]
    BY <1>4
  <2> HIDE DEF sc, step
  <2> QED BY <2>1 DEF sc
<1> QED BY <1>5

LEMMA ParsedType ==
  ASSUME NEW line
  PROVE  Parsed(line) \in Seq(Event)
<1>1. CASE \E e \in Event : line = Text(e)
  <2>1. PICK e \in Event : line = Text(e)
    BY <1>1
  <2>2. line[1] \in Event
    BY <2>1 DEF Text
  <2> QED BY <1>1, <2>2 DEF Parsed
<1>2. CASE ~ \E e \in Event : line = Text(e)
  BY <1>2 DEF Parsed
<1> QED BY <1>1, <1>2

LEMMA AfterType ==
  ASSUME NEW was \in Scanned, NoNL(was.line), NEW byte \in Nat
  PROVE  After(was, byte) \in Scanned /\ NoNL(After(was, byte).line)
<1>1. was.line \in Seq(Nat) /\ was.events \in Seq(Event)
  BY DEF Scanned
<1>2. CASE byte = NL
  <2>1. After(was, byte) = [line |-> <<>>, events |-> was.events \o Parsed(was.line)]
    BY <1>2 DEF After
  <2>2. was.events \o Parsed(was.line) \in Seq(Event)
    BY <1>1, ParsedType, ConcatProperties
  <2> QED BY <2>1, <2>2 DEF Scanned, NoNL
<1>3. CASE byte # NL
  <2> DEFINE l == Append(was.line, byte)
  <2>1. After(was, byte) = [line |-> l, events |-> was.events]
    BY <1>3 DEF After, Scanned
  <2>2. /\ l \in Seq(Nat) /\ Len(l) = Len(was.line) + 1
        /\ \A i \in 1 .. Len(l) : l[i] = IF i <= Len(was.line) THEN was.line[i] ELSE byte
    BY <1>1, AppendProperties
  <2> HIDE DEF l
  <2>3. NoNL(l)
    <3> SUFFICES ASSUME NEW i \in 1 .. Len(l)
                 PROVE  l[i] # NL
      BY DEF NoNL
    <3>1. Len(was.line) \in Nat
      BY <1>1
    <3>2. CASE i <= Len(was.line)
      <4>1. i \in 1 .. Len(was.line)
        BY <2>2, <3>1, <3>2
      <4> QED BY <2>2, <3>2, <4>1 DEF NoNL
    <3> QED BY <1>3, <2>2, <3>2
  <2> QED BY <1>1, <2>1, <2>2, <2>3 DEF Scanned
<1> QED BY <1>2, <1>3

LEMMA ScanType ==
  ASSUME NEW b \in Seq(Nat)
  PROVE  \A i \in 0 .. Len(b) : Scan(b)[i] \in Scanned /\ NoNL(Scan(b)[i].line)
<1> DEFINE ok(i) == Scan(b)[i] \in Scanned /\ NoNL(Scan(b)[i].line)
           T == {i \in 0 .. Len(b) : ~ ok(i)}
<1>1. Len(b) \in Nat /\ \A i \in 1 .. Len(b) : b[i] \in Nat
  OBVIOUS
<1>2. ok(0)
  <2>1. Scan(b)[0] = [line |-> <<>>, events |-> <<>>]
    BY <1>1, ScanSteps
  <2>2. NoNL(<<>>)
    BY DEF NoNL
  <2> QED BY <2>1, <2>2 DEF Scanned
<1>3. CASE T # {}
  <2>0. T \in SUBSET Nat
    BY <1>1
  <2>1. PICK m \in T : \A k \in T : m <= k
    <3> HIDE DEF T
    <3> QED BY <1>3, <2>0, LeastNumber
  <2> HIDE DEF ok
  <2>2. m # 0 /\ m \in 1 .. Len(b)
    BY <1>1, <1>2, <2>1
  <2>3. m - 1 \in 0 .. Len(b) /\ m - 1 \notin T
    BY <1>1, <2>1, <2>2
  <2>4. ok(m - 1)
    BY <2>3
  <2>5. Scan(b)[m] = After(Scan(b)[m - 1], b[m]) /\ b[m] \in Nat
    BY <1>1, <2>2, ScanSteps
  <2>6. ok(m)
    BY <2>4, <2>5, AfterType DEF ok
  <2> QED BY <2>1, <2>6
<1> QED BY <1>3

\* The next element of a sequence goes to the end of the ones before it.
LEMMA NextElement ==
  ASSUME NEW S, NEW s \in Seq(S), NEW i \in 1 .. Len(s)
  PROVE  SubSeq(s, 1, i) = Append(SubSeq(s, 1, i - 1), s[i])
<1> DEFINE u == SubSeq(s, 1, i)
           v == SubSeq(s, 1, i - 1)
<1>1. /\ Len(s) \in Nat /\ i \in Int /\ i - 1 \in Int
      /\ \A j \in 1 .. i : s[j] \in S
  OBVIOUS
<1>2. /\ u \in Seq(S) /\ Len(u) = i
      /\ \A j \in 1 .. i : u[j] = s[j]
  BY <1>1, SubSeqProperties
<1>3. /\ v \in Seq(S) /\ Len(v) = i - 1
      /\ \A j \in 1 .. i - 1 : v[j] = s[j]
  BY <1>1, SubSeqProperties
<1> HIDE DEF u, v
<1>4. /\ Append(v, s[i]) \in Seq(S) /\ Len(Append(v, s[i])) = i
      /\ \A j \in 1 .. i : Append(v, s[i])[j] = IF j <= i - 1 THEN v[j] ELSE s[i]
  BY <1>1, <1>3, AppendProperties
<1>5. u = Append(v, s[i])
  <2>1. \A j \in 1 .. i : u[j] = Append(v, s[i])[j]
    BY <1>2, <1>3, <1>4
  <2> QED BY <1>2, <1>4, <2>1, SeqEqual
<1> QED BY <1>5 DEF u, v

\* The first elements of a sequence.
LEMMA Prefix ==
  ASSUME NEW S, NEW s \in Seq(S), NEW n \in 0 .. Len(s)
  PROVE  /\ SubSeq(s, 1, n) \in Seq(S) /\ Len(SubSeq(s, 1, n)) = n
         /\ \A i \in 1 .. n : SubSeq(s, 1, n)[i] = s[i]
<1>1. 1 \in Int /\ n \in Int /\ n \in Nat /\ \A i \in 1 .. n : s[i] \in S
  OBVIOUS
<1> DEFINE u == SubSeq(s, 1, n)
<1>2. /\ u \in Seq(S)
      /\ Len(u) = IF 1 <= n THEN n - 1 + 1 ELSE 0
      /\ \A i \in 1 .. n - 1 + 1 : u[i] = s[1 + i - 1]
  BY <1>1, SubSeqProperties
<1> HIDE DEF u
<1> QED BY <1>1, <1>2 DEF u

\* Bytes without NL are the line so far.
LEMMA ScanQuiet ==
  ASSUME NEW s \in Seq(Nat), NEW n \in 0 .. Len(s), \A i \in 1 .. n : s[i] # NL
  PROVE  Scan(s)[n] = [line |-> SubSeq(s, 1, n), events |-> <<>>]
<1> DEFINE ok(i) == Scan(s)[i] = [line |-> SubSeq(s, 1, i), events |-> <<>>]
           T == {i \in 0 .. n : ~ ok(i)}
<1>1. Len(s) \in Nat /\ \A i \in 1 .. Len(s) : s[i] \in Nat
  OBVIOUS
<1>2. ok(0)
  <2>1. Scan(s)[0] = [line |-> <<>>, events |-> <<>>]
    BY <1>1, ScanSteps
  <2>2. SubSeq(s, 1, 0) = <<>>
    BY SubSeqEmpty
  <2> QED BY <2>1, <2>2
<1>3. T = {}
  <2> SUFFICES ASSUME T # {}
               PROVE  FALSE
    OBVIOUS
  <2>0. T \in SUBSET Nat
    BY <1>1
  <2>1. PICK m \in T : \A k \in T : m <= k
    <3> HIDE DEF T
    <3> QED BY <2>0, LeastNumber
  <2> HIDE DEF ok
  <2>2. m # 0 /\ m \in 1 .. Len(s) /\ m \in 1 .. n
    BY <1>1, <1>2, <2>1
  <2>3. m - 1 \in 0 .. n /\ m - 1 \notin T
    BY <1>1, <2>1, <2>2
  <2>4. ok(m - 1)
    BY <2>3
  <2>5. Scan(s)[m] = After(Scan(s)[m - 1], s[m]) /\ s[m] # NL
    BY <1>1, <2>2, ScanSteps
  <2>6. SubSeq(s, 1, m) = Append(SubSeq(s, 1, m - 1), s[m])
    BY <2>2, NextElement
  <2>7. Scan(s)[m] = [line |-> Append(SubSeq(s, 1, m - 1), s[m]), events |-> <<>>]
    <3> DEFINE x == SubSeq(s, 1, m - 1)
               y == s[m]
    <3>1. Scan(s)[m] = After([line |-> x, events |-> <<>>], y) /\ y # NL
      BY <2>4, <2>5 DEF ok
    <3> HIDE DEF x, y
    <3>2. Scan(s)[m] = [line |-> Append(x, y), events |-> <<>>]
      BY <3>1 DEF After
    <3> QED BY <3>2 DEF x, y
  <2>8. ok(m)
    BY <2>6, <2>7 DEF ok
  <2> QED BY <2>1, <2>8
<1>4. n \notin T
  BY <1>3
<1> QED BY <1>4

\* Read in two pieces, the line so far with the second, the bytes give the same
\* lines and the same events as read in one.
LEMMA ScanPiece ==
  ASSUME NEW b \in Seq(Nat), NEW p \in 0 .. Len(b), NEW k \in 0 .. Len(b) - p
  PROVE  LET s == Scan(b)[p].line \o SubSeq(b, p + 1, p + k)
         IN  /\ s \in Seq(Nat)
             /\ Scan(s)[Len(s)].line = Scan(b)[p + k].line
             /\ Scan(b)[p].events \o Scan(s)[Len(s)].events = Scan(b)[p + k].events
<1> DEFINE l == Scan(b)[p].line
           e == Scan(b)[p].events
           d == SubSeq(b, p + 1, p + k)
           s == l \o d
           n == Len(l)
           ok(j) == /\ Scan(s)[n + j].line = Scan(b)[p + j].line
                    /\ e \o Scan(s)[n + j].events = Scan(b)[p + j].events
           T == {j \in 0 .. k : ~ ok(j)}
<1>1. /\ Len(b) \in Nat /\ \A i \in 1 .. Len(b) : b[i] \in Nat
      /\ p \in Nat /\ k \in Nat /\ p + k <= Len(b)
  OBVIOUS
<1>2. /\ l \in Seq(Nat) /\ e \in Seq(Event) /\ n \in Nat
      /\ \A i \in 1 .. n : l[i] # NL
  <2>1. Scan(b)[p] \in Scanned /\ NoNL(Scan(b)[p].line)
    BY ScanType
  <2>2. l \in Seq(Nat) /\ e \in Seq(Event)
    BY <2>1 DEF Scanned
  <2> QED BY <2>1, <2>2 DEF NoNL
<1> HIDE DEF l, e
<1>4. /\ s \in Seq(Nat) /\ Len(s) = n + k
      /\ \A i \in 1 .. n + k : s[i] = IF i <= n THEN l[i] ELSE b[p + (i - n)]
  <2>2. /\ d \in Seq(Nat) /\ Len(d) = k
        /\ \A j \in 1 .. k : d[j] = b[p + j]
    <3>1. p + 1 \in Int /\ p + k \in Int /\ \A i \in p + 1 .. p + k : b[i] \in Nat
      BY <1>1
    <3>2. /\ d \in Seq(Nat)
          /\ Len(d) = IF p + 1 <= p + k THEN (p + k) - (p + 1) + 1 ELSE 0
          /\ \A i \in 1 .. (p + k) - (p + 1) + 1 : d[i] = b[(p + 1) + i - 1]
      BY <3>1, SubSeqProperties
    <3> HIDE DEF d
    <3>3. Len(d) = k
      BY <1>1, <3>2
    <3>4. ASSUME NEW j \in 1 .. k
          PROVE  d[j] = b[p + j]
      <4>1. j \in 1 .. (p + k) - (p + 1) + 1 /\ (p + 1) + j - 1 = p + j
        BY <1>1
      <4> QED BY <3>2, <4>1
    <3> QED BY <3>2, <3>3, <3>4
  <2> HIDE DEF d
  <2>3. /\ s \in Seq(Nat) /\ Len(s) = n + k
        /\ \A i \in 1 .. n + k : s[i] = IF i <= n THEN l[i] ELSE d[i - n]
    BY <1>2, <2>2, ConcatProperties
  <2> HIDE DEF n, s
  <2>4. ASSUME NEW i \in 1 .. n + k
        PROVE  s[i] = IF i <= n THEN l[i] ELSE b[p + (i - n)]
    <3>1. s[i] = IF i <= n THEN l[i] ELSE d[i - n]
      BY <2>3
    <3>2. CASE i > n
      <4>1. i - n \in 1 .. k
        BY <1>1, <1>2, <3>2
      <4> QED BY <1>1, <1>2, <2>2, <3>1, <3>2, <4>1
    <3> QED BY <1>1, <1>2, <3>1, <3>2
  <2> QED BY <2>3, <2>4
<1> HIDE DEF d, n, s
<1> HIDE DEF ok
<1>5. Scan(s)[n] = [line |-> l, events |-> <<>>]
  <2>1. n \in 0 .. Len(s) /\ \A i \in 1 .. n : s[i] = l[i] /\ l[i] # NL
    BY <1>1, <1>2, <1>4
  <2>2. Scan(s)[n] = [line |-> SubSeq(s, 1, n), events |-> <<>>]
    BY <1>4, <2>1, ScanQuiet
  <2>3. /\ SubSeq(s, 1, n) \in Seq(Nat) /\ Len(SubSeq(s, 1, n)) = n
        /\ \A i \in 1 .. n : SubSeq(s, 1, n)[i] = s[i]
    BY <1>4, <2>1, Prefix
  <2>4. SubSeq(s, 1, n) = l
    <3>1. Len(SubSeq(s, 1, n)) = Len(l) /\ \A i \in 1 .. n : SubSeq(s, 1, n)[i] = l[i]
      BY <2>1, <2>3 DEF n
    <3> QED BY <1>2, <2>3, <3>1, SeqEqual DEF n
  <2> QED BY <2>2, <2>4
<1>6. ok(0)
  <2>1. Scan(s)[n + 0] = Scan(s)[n] /\ Scan(b)[p + 0] = Scan(b)[p]
    BY <1>1, <1>2
  <2>2. e \o <<>> = e
    BY <1>2, ConcatEmptySeq
  <2>3. e \o Scan(s)[n].events = e
    BY <1>5, <2>2
  <2>4. Scan(s)[n].line = l
    BY <1>5
  <2> QED BY <2>1, <2>3, <2>4 DEF ok, e, l
<1>7. T = {}
  <2> SUFFICES ASSUME T # {}
               PROVE  FALSE
    OBVIOUS
  <2>0. T \in SUBSET Nat
    BY <1>1
  <2>1. PICK m \in T : \A j \in T : m <= j
    <3> HIDE DEF T
    <3> QED BY <2>0, LeastNumber
  <2>2. m \in 1 .. k
    BY <1>1, <1>6, <2>1
  <2>3. ~ ok(m) /\ m - 1 \in 0 .. k /\ m - 1 \notin T
    BY <1>1, <2>1, <2>2
  <2>4. ok(m - 1)
    BY <2>3
  <2> HIDE DEF T
  <2> DEFINE was == Scan(b)[p + (m - 1)]
             now == Scan(s)[n + (m - 1)]
  <2>5. now.line = was.line /\ e \o now.events = was.events
    BY <2>4 DEF ok
  <2>6. Scan(b)[p + m] = After(was, b[p + m])
    <3>1. p + m \in 1 .. Len(b) /\ (p + m) - 1 = p + (m - 1)
      BY <1>1, <2>2
    <3> QED BY <1>1, <3>1, ScanSteps
  <2>7. Scan(s)[n + m] = After(now, b[p + m])
    <3>1. /\ n + m \in 1 .. Len(s) /\ (n + m) - 1 = n + (m - 1)
          /\ ~ (n + m <= n) /\ (n + m) - n = m /\ n + m \in 1 .. n + k
      BY <1>1, <1>2, <1>4, <2>2
    <3>2. s[n + m] = b[p + m]
      BY <1>4, <3>1
    <3>3. Len(s) \in Nat
      BY <1>4
    <3>4. \A i \in 1 .. Len(s) : Scan(s)[i] = After(Scan(s)[i - 1], s[i])
      BY <3>3, ScanSteps
    <3>5. Scan(s)[n + m] = After(Scan(s)[(n + m) - 1], s[n + m])
      BY <3>1, <3>4
    <3> QED BY <3>1, <3>2, <3>5
  <2>8. /\ was \in Scanned /\ now \in Scanned
    <3>1. p + (m - 1) \in 0 .. Len(b) /\ n + (m - 1) \in 0 .. Len(s)
      BY <1>1, <1>2, <1>4, <2>2
    <3> QED BY <1>4, <3>1, ScanType
  <2> HIDE DEF was, now
  <2>9. CASE b[p + m] = NL
    <3>1. /\ After(was, NL) = [line |-> <<>>, events |-> was.events \o Parsed(was.line)]
          /\ After(now, NL) = [line |-> <<>>, events |-> now.events \o Parsed(now.line)]
      BY DEF After
    <3>3. /\ Scan(b)[p + m].line = <<>> /\ Scan(s)[n + m].line = <<>>
          /\ Scan(b)[p + m].events = was.events \o Parsed(was.line)
          /\ Scan(s)[n + m].events = now.events \o Parsed(was.line)
      <4>1. /\ Scan(b)[p + m] = After(was, NL) /\ Scan(s)[n + m] = After(now, NL)
            /\ now.line = was.line
        BY <2>5, <2>6, <2>7, <2>9
      <4> DEFINE v == was.events \o Parsed(was.line)
                 w == now.events \o Parsed(now.line)
      <4>2. w = now.events \o Parsed(was.line)
        BY <4>1
      <4>3. /\ Scan(b)[p + m] = [line |-> <<>>, events |-> v]
            /\ Scan(s)[n + m] = [line |-> <<>>, events |-> w]
        BY <3>1, <4>1
      <4> HIDE DEF v, w
      <4>4. /\ Scan(b)[p + m].line = <<>> /\ Scan(s)[n + m].line = <<>>
            /\ Scan(b)[p + m].events = v /\ Scan(s)[n + m].events = w
        BY <4>3
      <4> QED BY <4>2, <4>4 DEF v
    <3>2. (e \o now.events) \o Parsed(was.line) = e \o (now.events \o Parsed(was.line))
      <4>1. now.events \in Seq(Event)
        BY <2>8 DEF Scanned
      <4> DEFINE f == Parsed(was.line)
                 v == now.events
      <4>2. f \in Seq(Event)
        BY ParsedType
      <4> HIDE DEF f, v
      <4>3. e \in Seq(Event) /\ v \in Seq(Event)
        BY <1>2, <4>1 DEF v
      <4>4. (e \o v) \o f = e \o (v \o f)
        BY <4>2, <4>3, ConcatAssociative, SMTT(30)
      <4> QED BY <4>4 DEF f, v
    <3> QED BY <2>3, <2>5, <3>2, <3>3 DEF ok
  <2>10. CASE b[p + m] # NL
    <3>1. /\ Scan(b)[p + m].line = Append(was.line, b[p + m])
          /\ Scan(s)[n + m].line = Append(now.line, b[p + m])
          /\ Scan(b)[p + m].events = was.events
          /\ Scan(s)[n + m].events = now.events
      BY <2>6, <2>7, <2>8, <2>10 DEF After, Scanned
    <3> QED BY <2>3, <2>5, <3>1 DEF ok
  <2> QED BY <2>9, <2>10
<1>8. ok(k)
  <2>1. k \in 0 .. k /\ k \notin T
    <3> HIDE DEF T
    <3> QED BY <1>1, <1>7
  <2> QED BY <2>1
<1> QED BY <1>4, <1>8 DEF ok, s, d, l, e

\* Which library is of which kind.
LEMMA Kinds ==
  /\ \A l \in OfBodies : /\ l \notin DeepSeek /\ l \notin Ollama /\ l \notin NewAPI
                         /\ l # "go-openai" /\ (l = "anthropic" \/ l \in OpenAI)
  /\ \A l \in OpenAI : l \in OfBodies /\ l # "anthropic"
  /\ "anthropic" \in OfBodies
  /\ \A l \in DeepSeek : /\ l \notin OfBodies /\ l \notin OpenAI /\ l # "anthropic"
                         /\ l \notin Ollama /\ l \notin NewAPI /\ l # "go-openai"
  /\ \A l \in Ollama : /\ l \notin OfBodies /\ l \notin OpenAI /\ l # "anthropic"
                       /\ l \notin DeepSeek /\ l \notin NewAPI /\ l # "go-openai"
  /\ \A l \in NewAPI : /\ l \notin OfBodies /\ l \notin OpenAI /\ l # "anthropic"
                       /\ l \notin DeepSeek /\ l \notin Ollama /\ l # "go-openai"
  /\ "go-openai" \notin OfBodies
BY DEF OfBodies, OpenAI, DeepSeek, Ollama, NewAPI

\* What there is of an answer at each place of it.
LEMMA Answer ==
  ASSUME TypeOK
  PROVE  /\ Len(body) \in Nat /\ pos \in 0 .. Len(body) /\ Received \in Seq(Event)
         /\ lib \in OfBodies =>
              /\ body \in Seq(Nat)
              /\ Scan(body)[0] = [line |-> <<>>, events |-> <<>>]
              /\ \A i \in 0 .. Len(body) : Scan(body)[i].line \in Seq(Nat) /\ Scan(body)[i].events \in Seq(Event)
         /\ lib \notin OfBodies =>
              /\ body \in Seq(Event)
              /\ SubSeq(body, 1, 0) = <<>>
              /\ \A i \in 0 .. Len(body) : SubSeq(body, 1, i) \in Seq(Event)
              /\ \A i \in 1 .. Len(body) : /\ body[i] \in Event
                                            /\ SubSeq(body, 1, i) = Append(SubSeq(body, 1, i - 1), body[i])
<1>1. CASE lib \in OfBodies
  <2>1. body \in Seq(Nat) /\ pos \in 0 .. Len(body)
    BY <1>1, ResponseAssumption DEF TypeOK
  <2>2. Len(body) \in Nat
    BY <2>1
  <2>3. Scan(body)[0] = [line |-> <<>>, events |-> <<>>]
    BY <2>2, ScanSteps
  <2>4. \A i \in 0 .. Len(body) : Scan(body)[i] \in Scanned
    BY <2>1, ScanType
  <2>5. \A i \in 0 .. Len(body) : Scan(body)[i].line \in Seq(Nat) /\ Scan(body)[i].events \in Seq(Event)
    BY <2>4 DEF Scanned
  <2> QED BY <1>1, <2>1, <2>2, <2>3, <2>5 DEF Received
<1>2. CASE lib \notin OfBodies
  <2>1. body \in Seq(Event) /\ pos \in 0 .. Len(body)
    BY <1>2, ResponseAssumption DEF TypeOK
  <2>2. Len(body) \in Nat
    BY <2>1
  <2>3. SubSeq(body, 1, 0) = <<>>
    BY SubSeqEmpty
  <2>4. \A i \in 0 .. Len(body) : SubSeq(body, 1, i) \in Seq(Event)
    BY <2>1, Prefix
  <2>5. \A i \in 1 .. Len(body) : /\ body[i] \in Event
                                  /\ SubSeq(body, 1, i) = Append(SubSeq(body, 1, i - 1), body[i])
    BY <2>1, NextElement
  <2> QED BY <1>2, <2>1, <2>2, <2>3, <2>4, <2>5 DEF Received
<1> QED BY <1>1, <1>2

\* The span as it ends.
LEMMA Ended ==
  ASSUME NEW how, NEW chunks, End(how, chunks)
  PROVE  /\ span' = "ended"
         /\ span = "open" => status' = how /\ recorded' = chunks
         /\ span # "open" => status' = status /\ recorded' = recorded
BY DEF End

LEMMA ResponseStarts ==
  Init => ResponseInv
<1> SUFFICES ASSUME Init
             PROVE  ResponseInv
  OBVIOUS
<1>1. /\ lib \in Library /\ body \in (IF lib \in OfBodies THEN Bodies ELSE Chunks)
      /\ at = "idle" /\ streams \in BOOLEAN
      /\ span = "none" /\ status = "unset" /\ recorded = None
      /\ pos = 0 /\ lineBuffer = <<>> /\ counted = <<>>
      /\ heard = [bytes |-> FALSE, err |-> "none"]
  BY DEF Init
<1>2. Len(body) \in Nat
  BY <1>1, ResponseAssumption
<1>3. TypeOK
  BY <1>1, <1>2 DEF TypeOK
<1>4. Buffered
  BY <1>1, <1>3, Answer DEF Buffered
<1>5. Heard /\ RecordedAll /\ EndedWhenDone
  BY <1>1, <1>3 DEF Heard, RecordedAll, EndedWhenDone
<1> QED BY <1>3, <1>4, <1>5 DEF ResponseInv

LEMMA AskStep ==
  ASSUME ResponseInv, NEW l, Ask(l)
  PROVE  ResponseInv'
<1>1. /\ at = "idle"
      /\ (at' = "asked" /\ span' = "open") \/ (at' = "plain" /\ span' = span)
      /\ lib' = lib /\ body' = body /\ streams' = streams /\ status' = status
      /\ recorded' = recorded /\ pos' = pos /\ lineBuffer' = lineBuffer
      /\ counted' = counted /\ heard' = heard
  BY DEF Ask, server, reading
<1>2. TypeOK /\ Buffered /\ Heard
  BY DEF ResponseInv
<1>3. span = "none"
  BY <1>1, <1>2 DEF TypeOK
<1>4. TypeOK'
  BY <1>1, <1>2, <1>3 DEF TypeOK
<1>5. Buffered'
  BY <1>1, <1>2 DEF Buffered
<1>6. Heard'
  BY <1>1, <1>2, <1>3 DEF Heard
<1>7. RecordedAll' /\ EndedWhenDone'
  BY <1>1, <1>3, <1>4 DEF RecordedAll, EndedWhenDone
<1> QED BY <1>4, <1>5, <1>6, <1>7 DEF ResponseInv

LEMMA FailedStep ==
  ASSUME ResponseInv, NEW l, NEW how \in {"unset", "error"}, Failed(l, how)
  PROVE  ResponseInv'
<1>1. /\ at = "asked" /\ at' = "over" /\ End(how, None)
      /\ lib' = lib /\ body' = body /\ streams' = streams
      /\ pos' = pos /\ lineBuffer' = lineBuffer /\ counted' = counted /\ heard' = heard
  BY DEF Failed, server, reading
<1>2. TypeOK /\ Buffered /\ Heard
  BY DEF ResponseInv
<1>3. span' = "ended" /\ status' = how /\ recorded' = None
  BY <1>1, <1>2, Ended DEF Heard
<1>4. TypeOK'
  BY <1>1, <1>2, <1>3 DEF TypeOK
<1>5. Buffered'
  BY <1>1, <1>2 DEF Buffered
<1>6. Heard'
  BY <1>1, <1>2, <1>3 DEF Heard
<1>7. RecordedAll' /\ EndedWhenDone'
  BY <1>1, <1>3, <1>4 DEF RecordedAll, EndedWhenDone
<1> QED BY <1>4, <1>5, <1>6, <1>7 DEF ResponseInv

LEMMA StreamingStep ==
  ASSUME ResponseInv, NEW l \in OfBodies \union DeepSeek, Streaming(l)
  PROVE  ResponseInv'
<1>1. /\ lib = l /\ at = "asked" /\ at' = "stream"
      /\ lib' = lib /\ body' = body /\ streams' = streams /\ span' = span /\ status' = status
      /\ recorded' = recorded /\ pos' = pos /\ lineBuffer' = lineBuffer
      /\ counted' = counted /\ heard' = heard
  BY DEF Streaming, server, reading
<1>2. TypeOK /\ Buffered /\ Heard
  BY DEF ResponseInv
<1>3. span = "open" /\ heard.err = "none"
  BY <1>1, <1>2 DEF Heard
<1>4. TypeOK'
  BY <1>1, <1>2, <1>3 DEF TypeOK
<1>5. Buffered'
  BY <1>1, <1>2 DEF Buffered
<1>6. Heard'
  BY <1>1, <1>2, <1>3, Kinds DEF Heard
<1>7. RecordedAll' /\ EndedWhenDone'
  BY <1>1, <1>3, <1>4 DEF RecordedAll, EndedWhenDone
<1> QED BY <1>4, <1>5, <1>6, <1>7 DEF ResponseInv

LEMMA WholeStep ==
  ASSUME ResponseInv, NEW l \in OfBodies, Whole(l)
  PROVE  ResponseInv'
<1>1. /\ lib = l /\ at = "asked" /\ at' = "over"
      /\ lib' = lib /\ body' = body /\ streams' = streams
      /\ pos' = pos /\ lineBuffer' = lineBuffer /\ counted' = counted /\ heard' = heard
  BY DEF Whole, server, reading
<1>2. TypeOK /\ Buffered /\ Heard
  BY DEF ResponseInv
<1>3. PICK events \in {None, Scan(body)[Len(body)].events} : End("unset", events)
  BY DEF Whole
<1>4. span' = "ended" /\ status' = "unset" /\ recorded' = events
  BY <1>1, <1>2, <1>3, Ended DEF Heard
<1>5. heard.err = "none" /\ pos = 0
  BY <1>1, <1>2 DEF Heard
<1>6. recorded' = None \/ recorded' \in Seq(Event)
  <2>1. Len(body) \in 0 .. Len(body) /\ Scan(body)[Len(body)].events \in Seq(Event)
    BY <1>1, <1>2, Answer
  <2> QED BY <1>3, <1>4, <2>1
<1>7. TypeOK'
  BY <1>1, <1>2, <1>4, <1>6 DEF TypeOK
<1>8. Buffered'
  BY <1>1, <1>2 DEF Buffered
<1>9. Heard'
  BY <1>1, <1>2, <1>4 DEF Heard
<1>10. RecordedAll' /\ EndedWhenDone'
  BY <1>1, <1>4, <1>5, <1>7 DEF RecordedAll, EndedWhenDone
<1> QED BY <1>7, <1>8, <1>9, <1>10 DEF ResponseInv

\* What one read leaves: the lines after the bytes read, as if read in one piece.
LEMMA Pieces ==
  ASSUME ResponseInv, lib \in OfBodies,
         NEW k \in 0 .. Len(body) - pos, NEW all,
         all = lineBuffer \o SubSeq(body, pos + 1, pos + k)
  PROVE  /\ Scan(all)[Len(all)].line = Scan(body)[pos + k].line
         /\ counted \o Scan(all)[Len(all)].events = Scan(body)[pos + k].events
<1>1. TypeOK /\ Buffered
  BY DEF ResponseInv
<1>2. lineBuffer = Scan(body)[pos].line /\ counted = Scan(body)[pos].events
  BY <1>1 DEF Buffered
<1>3. body \in Seq(Nat) /\ pos \in 0 .. Len(body)
  BY <1>1, Answer
<1> HIDE DEF OfBodies
<1> QED BY <1>2, <1>3, ScanPiece

LEMMA Processed ==
  ASSUME ResponseInv, lib \in OfBodies, NEW k \in 0 .. Len(body) - pos,
         ProcessSSELines(SubSeq(body, pos + 1, pos + k))
  PROVE  /\ lineBuffer' = Scan(body)[pos + k].line
         /\ counted' = Scan(body)[pos + k].events
<1> DEFINE all == lineBuffer \o SubSeq(body, pos + 1, pos + k)
<1>1. /\ counted' = counted \o Scan(all)[Len(all)].events
      /\ lineBuffer' = Scan(all)[Len(all)].line
  BY DEF ProcessSSELines
<1>2. /\ Scan(all)[Len(all)].line = Scan(body)[pos + k].line
      /\ counted \o Scan(all)[Len(all)].events = Scan(body)[pos + k].events
  BY Pieces
<1> HIDE DEF all
<1> QED BY <1>1, <1>2

\* What a read that returns does to the place, and what it tells.
LEMMA Returned ==
  ASSUME ResponseInv, lib \in OfBodies, NEW k \in 0 .. Len(body) - pos,
         NEW e \in {"none", "eof", "broken"}, Returns(k, e)
  PROVE  /\ pos' = pos + k /\ pos' \in 0 .. Len(body)
         /\ heard' \in [bytes : BOOLEAN, err : {"none", "eof", "broken"}]
         /\ heard'.err = e /\ (heard'.bytes <=> k > 0)
         /\ heard.err # "none" => k = 0 /\ e = heard.err
         /\ k = 0 => e # "none"
         /\ Scan(body)[pos + k].line \in Seq(Nat) /\ Scan(body)[pos + k].events \in Seq(Event)
<1>1. TypeOK
  BY DEF ResponseInv
<1>2. Len(body) \in Nat /\ pos \in 0 .. Len(body)
  BY <1>1, Answer
<1>3. pos + k \in 0 .. Len(body)
  BY <1>2
<1>4. Scan(body)[pos + k].line \in Seq(Nat) /\ Scan(body)[pos + k].events \in Seq(Event)
  BY <1>1, <1>3, Answer
<1>5. /\ k = 0 => e # "none"
      /\ heard.err # "none" => k = 0 /\ e = heard.err
      /\ pos' = pos + k
      /\ heard' = [bytes |-> k > 0, err |-> e]
  BY DEF Returns
<1>6. (k > 0) \in BOOLEAN
  OBVIOUS
<1>7. /\ heard' \in [bytes : BOOLEAN, err : {"none", "eof", "broken"}]
      /\ heard'.err = e /\ (heard'.bytes <=> k > 0)
  BY <1>5, <1>6
<1> QED BY <1>3, <1>4, <1>5, <1>7

LEMMA AnthropicReadStep ==
  ASSUME ResponseInv, NEW k \in 0 .. Len(body) - pos,
         NEW e \in {"none", "eof", "broken"}, AnthropicRead(k, e)
  PROVE  ResponseInv'
<1>1. /\ lib = "anthropic" /\ at = "stream" /\ at' = at
      /\ lib' = lib /\ body' = body /\ streams' = streams
      /\ Returns(k, e) /\ ProcessSSELines(SubSeq(body, pos + 1, pos + k))
      /\ e = "none" => span' = span /\ status' = status /\ recorded' = recorded
      /\ e # "none" => End(IF e = "eof" THEN "unset" ELSE "error", counted')
  BY DEF AnthropicRead, server
<1>2. TypeOK /\ Buffered /\ Heard /\ RecordedAll /\ lib \in OfBodies
  BY <1>1, Kinds DEF ResponseInv
<1>3. /\ pos' = pos + k /\ pos' \in 0 .. Len(body)
      /\ heard' \in [bytes : BOOLEAN, err : {"none", "eof", "broken"}]
      /\ heard'.err = e /\ (heard'.bytes <=> k > 0)
      /\ heard.err # "none" => k = 0 /\ e = heard.err
      /\ k = 0 => e # "none"
      /\ Scan(body)[pos + k].line \in Seq(Nat) /\ Scan(body)[pos + k].events \in Seq(Event)
  BY <1>1, <1>2, Returned
<1>4. /\ lineBuffer' = Scan(body)[pos + k].line
      /\ counted' = Scan(body)[pos + k].events
  BY <1>1, <1>2, Processed
<1>5. Received' = counted'
  BY <1>1, <1>2, <1>3, <1>4 DEF Received
<1>6. /\ span # "none" /\ span \in {"none", "open", "ended"} /\ status \in {"unset", "error"}
      /\ span = "ended" <=> heard.err # "none"
  BY <1>1, <1>2, Kinds DEF TypeOK, Heard
<1>7. CASE e = "none"
  <2>1. span' = "open" /\ status' = status /\ recorded' = recorded
    BY <1>1, <1>3, <1>6, <1>7
  <2>2. TypeOK'
    BY <1>1, <1>2, <1>3, <1>4, <2>1 DEF TypeOK
  <2>3. Buffered'
    BY <1>1, <1>2, <1>3, <1>4, Kinds DEF Buffered
  <2>4. Heard'
    BY <1>1, <1>2, <1>3, <1>7, <2>1, Kinds DEF Heard
  <2>5. RecordedAll' /\ EndedWhenDone'
    BY <1>1, <2>1, <2>2 DEF RecordedAll, EndedWhenDone
  <2> QED BY <2>2, <2>3, <2>4, <2>5 DEF ResponseInv
<1>8. CASE e # "none"
  <2>1. /\ span' = "ended"
        /\ span = "open" => /\ status' = IF e = "eof" THEN "unset" ELSE "error"
                            /\ recorded' = counted'
        /\ span # "open" => status' = status /\ recorded' = recorded
    BY <1>1, <1>8, Ended
  <2>2. TypeOK'
    <3>1. status' \in {"unset", "error"} /\ (recorded' = None \/ recorded' \in Seq(Event))
      BY <1>2, <1>3, <1>4, <1>6, <2>1 DEF TypeOK
    <3> QED BY <1>1, <1>2, <1>3, <1>4, <2>1, <3>1 DEF TypeOK
  <2>3. Buffered'
    BY <1>1, <1>2, <1>3, <1>4, Kinds DEF Buffered
  <2>4. Heard'
    BY <1>1, <1>2, <1>3, <1>8, <2>1, Kinds DEF Heard
  <2>5. RecordedAll'
    <3>1. CASE span = "open"
      <4>1. recorded' = Received' /\ (heard'.err = "broken" => status' = "error")
        BY <1>3, <1>5, <2>1, <3>1
      <4> QED BY <4>1 DEF RecordedAll
    <3>2. CASE span # "open"
      <4>1. span = "ended" /\ heard.err # "none" /\ k = 0 /\ e = heard.err
        BY <1>3, <1>6, <3>2
      <4>2. counted' = counted /\ Received = counted
        <5>1. pos + k = pos
          BY <1>2, <4>1, Answer
        <5>2. counted = Scan(body)[pos].events
          BY <1>2 DEF Buffered
        <5> QED BY <1>2, <1>4, <5>1, <5>2 DEF Received
      <4>3. recorded' = recorded /\ status' = status
        BY <2>1, <3>2
      <4>4. recorded # None => /\ recorded = Received
                               /\ heard.err = "broken" => status = "error"
        BY <1>1, <1>2, <4>1 DEF RecordedAll
      <4>5. recorded' # None => /\ recorded' = Received'
                                /\ heard'.err = "broken" => status' = "error"
        BY <1>3, <1>5, <4>1, <4>2, <4>3, <4>4
      <4> QED BY <4>5 DEF RecordedAll
    <3> QED BY <3>1, <3>2
  <2>6. EndedWhenDone'
    BY <1>1, <2>1, <2>2 DEF EndedWhenDone
  <2> QED BY <2>2, <2>3, <2>4, <2>5, <2>6 DEF ResponseInv
<1> QED BY <1>7, <1>8

\* Where the body, and the place in it, stay.
LEMMA ReceivedStays ==
  ASSUME lib' = lib, body' = body, pos' = pos
  PROVE  Received' = Received
BY DEF Received

LEMMA AnthropicCloseStep ==
  ASSUME ResponseInv, AnthropicClose
  PROVE  ResponseInv'
<1>1. /\ lib = "anthropic" /\ at = "stream" /\ at' = "over" /\ End("unset", counted)
      /\ lib' = lib /\ body' = body /\ streams' = streams
      /\ pos' = pos /\ lineBuffer' = lineBuffer /\ counted' = counted /\ heard' = heard
  BY DEF AnthropicClose, server, reading
<1>2. TypeOK /\ Buffered /\ Heard /\ RecordedAll /\ lib \in OfBodies
  BY <1>1, Kinds DEF ResponseInv
<1>3. /\ span' = "ended"
      /\ span = "open" => status' = "unset" /\ recorded' = counted
      /\ span # "open" => status' = status /\ recorded' = recorded
  BY <1>1, Ended
<1>4. /\ span \in {"open", "ended"}
      /\ span = "ended" <=> heard.err # "none"
  BY <1>1, <1>2, Kinds DEF TypeOK, Heard
<1>5. Received' = Received /\ counted = Received
  BY <1>1, <1>2, ReceivedStays DEF Buffered, Received
<1>6. TypeOK'
  BY <1>1, <1>2, <1>3 DEF TypeOK
<1>7. Buffered'
  BY <1>1, <1>2 DEF Buffered
<1>8. Heard'
  BY <1>1, <1>2, <1>3 DEF Heard
<1>9. RecordedAll'
  <2>1. CASE span = "open"
    <3>1. recorded' = Received' /\ heard'.err = "none"
      BY <1>1, <1>3, <1>4, <1>5, <2>1
    <3> QED BY <3>1 DEF RecordedAll
  <2>2. CASE span # "open"
    <3>1. recorded # None => /\ recorded = Received
                             /\ heard.err = "broken" => status = "error"
      BY <1>1, <1>2, <1>4, <2>2 DEF RecordedAll
    <3>2. recorded' # None => /\ recorded' = Received'
                              /\ heard'.err = "broken" => status' = "error"
      BY <1>1, <1>3, <1>5, <2>2, <3>1
    <3> QED BY <3>2 DEF RecordedAll
  <2> QED BY <2>1, <2>2
<1>10. EndedWhenDone'
  BY <1>3, <1>6 DEF EndedWhenDone
<1> QED BY <1>6, <1>7, <1>8, <1>9, <1>10 DEF ResponseInv

LEMMA OpenAIReadStep ==
  ASSUME ResponseInv, NEW l \in OpenAI, NEW k \in 0 .. Len(body) - pos,
         NEW e \in {"none", "eof", "broken"}, OpenAIRead(l, k, e)
  PROVE  ResponseInv'
<1>1. /\ lib = l /\ at = "stream" /\ at' = at
      /\ lib' = lib /\ body' = body /\ streams' = streams
      /\ Returns(k, e)
      /\ k > 0 => /\ ProcessSSELines(SubSeq(body, pos + 1, pos + k))
                  /\ span' = span /\ status' = status /\ recorded' = recorded
      /\ ~ (k > 0) => End(status, counted) /\ lineBuffer' = lineBuffer /\ counted' = counted
  BY DEF OpenAIRead, server
<1>2. TypeOK /\ Buffered /\ Heard /\ RecordedAll /\ lib \in OfBodies /\ lib # "anthropic"
  BY <1>1, Kinds DEF ResponseInv
<1>3. /\ pos' = pos + k /\ pos' \in 0 .. Len(body)
      /\ heard' \in [bytes : BOOLEAN, err : {"none", "eof", "broken"}]
      /\ heard'.err = e /\ (heard'.bytes <=> k > 0)
      /\ heard.err # "none" => k = 0 /\ e = heard.err
      /\ k = 0 => e # "none"
      /\ Scan(body)[pos + k].line \in Seq(Nat) /\ Scan(body)[pos + k].events \in Seq(Event)
  BY <1>1, <1>2, Returned
<1>4. /\ span \in {"open", "ended"} /\ status \in {"unset", "error"}
      /\ span = "ended" => heard.err # "none"
      /\ pos \in 0 .. Len(body) /\ Len(body) \in Nat
      /\ lib \in OpenAI /\ lib \notin DeepSeek
  BY <1>1, <1>2, Kinds, Answer DEF TypeOK, Heard
<1>5. CASE k > 0
  <2>1. /\ span' = "open" /\ status' = status /\ recorded' = recorded
        /\ lineBuffer' = Scan(body)[pos + k].line /\ counted' = Scan(body)[pos + k].events
    <3>1. k # 0
      BY <1>5
    <3>2. span = "open"
      BY <1>3, <1>4, <3>1
    <3> QED BY <1>1, <1>2, <1>5, <3>2, Processed
  <2>2. TypeOK'
    BY <1>1, <1>2, <1>3, <2>1 DEF TypeOK
  <2>3. Buffered'
    BY <1>1, <1>2, <1>3, <2>1, Kinds DEF Buffered
  <2>4. Heard'
    <3>1. heard'.bytes /\ lib' \in OpenAI
      BY <1>1, <1>3, <1>5
    <3> QED BY <1>1, <1>2, <2>1, <3>1, Kinds DEF Heard
  <2>5. RecordedAll' /\ EndedWhenDone'
    BY <1>1, <2>1, <2>2 DEF RecordedAll, EndedWhenDone
  <2> QED BY <2>2, <2>3, <2>4, <2>5 DEF ResponseInv
<1>6. CASE ~ (k > 0)
  <2>1. k = 0 /\ pos' = pos /\ e # "none"
    BY <1>3, <1>4, <1>6
  <2>2. /\ span' = "ended" /\ status' = status /\ counted' = counted /\ lineBuffer' = lineBuffer
        /\ span = "open" => recorded' = counted
        /\ span # "open" => recorded' = recorded
    BY <1>1, <1>6, Ended
  <2>3. TypeOK'
    <3>1. recorded' = None \/ recorded' \in Seq(Event)
      BY <1>2, <2>2 DEF TypeOK
    <3> QED BY <1>1, <1>2, <1>3, <2>2, <3>1 DEF TypeOK
  <2>4. Buffered'
    BY <1>1, <1>2, <2>1, <2>2 DEF Buffered
  <2>5. Heard'
    BY <1>1, <1>2, <1>3, <2>1, <2>2, Kinds DEF Heard
  <2>6. RecordedAll'
    <3>1. Received' = Received /\ counted = Received
      BY <1>1, <1>2, <2>1, ReceivedStays DEF Buffered, Received
    <3>2. recorded' # None => recorded' = Received'
      <4>1. CASE span = "open"
        BY <2>2, <3>1, <4>1
      <4>2. CASE span # "open"
        BY <1>1, <1>2, <1>4, <2>2, <3>1, <4>2, Kinds DEF RecordedAll
      <4> QED BY <4>1, <4>2
    <3>3. lib' \notin {"anthropic"} \union DeepSeek
      BY <1>1, <1>2, <1>4
    <3> QED BY <3>2, <3>3 DEF RecordedAll
  <2>7. EndedWhenDone'
    BY <1>1, <2>2, <2>3 DEF EndedWhenDone
  <2> QED BY <2>3, <2>4, <2>5, <2>6, <2>7 DEF ResponseInv
<1> QED BY <1>5, <1>6

\* The application is done with a stream, the hook does not see it.
LEMMA DoneStep ==
  ASSUME ResponseInv, at = "stream", at' = "over", lib \in OfBodies \union DeepSeek,
         lib = "anthropic" => heard.err # "none",
         UNCHANGED <<server, streams, span, status, recorded, reading>>
  PROVE  ResponseInv'
<1>1. /\ lib' = lib /\ body' = body /\ streams' = streams /\ span' = span /\ status' = status
      /\ recorded' = recorded /\ pos' = pos /\ lineBuffer' = lineBuffer
      /\ counted' = counted /\ heard' = heard
  BY DEF server, reading
<1>2. TypeOK /\ Buffered /\ Heard /\ RecordedAll
  BY DEF ResponseInv
<1>3. /\ lib # "go-openai" /\ lib \in {"anthropic"} \union OpenAI \union DeepSeek
      /\ span \in {"open", "ended"} /\ (lib = "anthropic" => lib \notin OpenAI)
      /\ span = "open" /\ heard.err # "none" => lib \in OpenAI /\ heard.bytes
  BY <1>2, Kinds DEF TypeOK, Heard
<1>4. TypeOK'
  BY <1>1, <1>2, <1>3 DEF TypeOK
<1>5. Buffered'
  BY <1>1, <1>2 DEF Buffered
<1>6. Heard'
  BY <1>1, <1>2 DEF Heard
<1>7. RecordedAll'
  <2>1. Received' = Received
    BY <1>1, ReceivedStays
  <2> QED BY <1>1, <1>2, <2>1 DEF RecordedAll
<1>8. EndedWhenDone'
  BY <1>1, <1>3, <1>4 DEF EndedWhenDone
<1> QED BY <1>4, <1>5, <1>6, <1>7, <1>8 DEF ResponseInv

LEMMA RecvStep ==
  ASSUME ResponseInv, NEW l \in DeepSeek, NEW e \in {"none", "eof", "broken"}, Recv(l, e)
  PROVE  ResponseInv'
<1>1. /\ lib = l /\ at = "stream" /\ at' = at
      /\ lib' = lib /\ body' = body /\ streams' = streams /\ lineBuffer' = lineBuffer
      /\ heard.err # "none" => e = heard.err
      /\ heard' = [bytes |-> e = "none", err |-> e]
      /\ e = "none" => /\ pos < Len(body) /\ pos' = pos + 1
                       /\ counted' = Append(counted, body[pos + 1])
                       /\ span' = span /\ status' = status /\ recorded' = recorded
      /\ e # "none" => /\ End(IF e = "eof" THEN "unset" ELSE "error", counted)
                       /\ pos' = pos /\ counted' = counted
  BY DEF Recv, server
<1>2. TypeOK /\ Buffered /\ Heard /\ RecordedAll /\ lib \in DeepSeek
  BY <1>1 DEF ResponseInv
<1>3. /\ lib \notin OfBodies /\ lib \notin Ollama /\ lib # "go-openai" /\ lib \notin OpenAI
      /\ pos \in 0 .. Len(body) /\ Len(body) \in Nat
  BY <1>2, Kinds, Answer
<1>4. heard' \in [bytes : BOOLEAN, err : {"none", "eof", "broken"}] /\ heard'.err = e
  <2>1. (e = "none") \in BOOLEAN
    OBVIOUS
  <2> QED BY <1>1, <2>1
<1>5. /\ span \in {"open", "ended"} /\ status \in {"unset", "error"}
      /\ span = "ended" <=> heard.err # "none"
      /\ counted = SubSeq(body, 1, pos)
  BY <1>1, <1>2, <1>3 DEF TypeOK, Heard, Buffered
<1>6. CASE e = "none"
  <2>1. span' = "open" /\ status' = status /\ recorded' = recorded /\ pos' = pos + 1
    BY <1>1, <1>5, <1>6
  <2>2. pos + 1 \in 1 .. Len(body) /\ (pos + 1) - 1 = pos /\ pos' \in 0 .. Len(body)
    BY <1>1, <1>3, <1>6
  <2>3. counted' = SubSeq(body, 1, pos + 1) /\ counted' \in Seq(Event)
    <3>1. SubSeq(body, 1, pos + 1) = Append(SubSeq(body, 1, (pos + 1) - 1), body[pos + 1])
      BY <1>2, <1>3, <2>2, Answer
    <3>2. SubSeq(body, 1, pos + 1) \in Seq(Event)
      BY <1>2, <1>3, <2>1, <2>2, Answer
    <3>3. counted' = Append(SubSeq(body, 1, pos), body[pos + 1])
      BY <1>1, <1>5, <1>6
    <3> QED BY <2>2, <3>1, <3>2, <3>3
  <2>4. TypeOK'
    BY <1>1, <1>2, <1>4, <2>1, <2>2, <2>3 DEF TypeOK
  <2>5. Buffered'
    BY <1>1, <1>3, <2>1, <2>3 DEF Buffered
  <2>6. Heard'
    BY <1>1, <1>2, <1>3, <1>4, <1>6, <2>1 DEF Heard
  <2>7. RecordedAll' /\ EndedWhenDone'
    BY <1>1, <2>1, <2>4 DEF RecordedAll, EndedWhenDone
  <2> QED BY <2>4, <2>5, <2>6, <2>7 DEF ResponseInv
<1>7. CASE e # "none"
  <2>1. /\ span' = "ended" /\ pos' = pos /\ counted' = counted
        /\ span = "open" => /\ status' = IF e = "eof" THEN "unset" ELSE "error"
                            /\ recorded' = counted
        /\ span # "open" => status' = status /\ recorded' = recorded
    BY <1>1, <1>7, Ended
  <2>2. TypeOK'
    <3>1. status' \in {"unset", "error"} /\ (recorded' = None \/ recorded' \in Seq(Event))
      BY <1>2, <1>5, <2>1 DEF TypeOK
    <3> QED BY <1>1, <1>2, <1>4, <2>1, <3>1 DEF TypeOK
  <2>3. Buffered'
    BY <1>1, <1>2, <2>1 DEF Buffered
  <2>4. Heard'
    BY <1>1, <1>2, <1>3, <1>4, <1>7, <2>1 DEF Heard
  <2>5. RecordedAll'
    <3>1. Received' = Received /\ counted = Received
      BY <1>1, <1>3, <1>5, <2>1, ReceivedStays DEF Received
    <3>2. CASE span = "open"
      <4>1. recorded' = Received' /\ (heard'.err = "broken" => status' = "error")
        BY <1>4, <2>1, <3>1, <3>2
      <4> QED BY <4>1 DEF RecordedAll
    <3>3. CASE span # "open"
      <4>1. span = "ended" /\ e = heard.err
        BY <1>1, <1>5, <3>3
      <4>2. recorded # None => /\ recorded = Received
                               /\ heard.err = "broken" => status = "error"
        BY <1>1, <1>2, <1>3, <4>1 DEF RecordedAll
      <4>3. recorded' # None => /\ recorded' = Received'
                                /\ heard'.err = "broken" => status' = "error"
        BY <1>4, <2>1, <3>1, <3>3, <4>1, <4>2
      <4> QED BY <4>3 DEF RecordedAll
    <3> QED BY <3>2, <3>3
  <2>6. EndedWhenDone'
    BY <1>1, <2>1, <2>2 DEF EndedWhenDone
  <2> QED BY <2>2, <2>3, <2>4, <2>5, <2>6 DEF ResponseInv
<1> QED BY <1>6, <1>7

\* A chunk in a callback of the call.
LEMMA ChunkStep ==
  ASSUME ResponseInv, NEW l \in Ollama \union NewAPI, Chunk(l),
         counted' = Append(counted, body[pos + 1]), l \in Ollama => streams
  PROVE  ResponseInv'
<1>1. /\ lib = l /\ at = "asked" /\ at' = at /\ pos < Len(body) /\ pos' = pos + 1
      /\ lib' = lib /\ body' = body /\ streams' = streams /\ span' = span /\ status' = status
      /\ recorded' = recorded /\ lineBuffer' = lineBuffer /\ heard' = heard
  BY DEF Chunk, server
<1>2. TypeOK /\ Buffered /\ Heard
  BY DEF ResponseInv
<1>3. /\ lib \notin OfBodies /\ lib # "go-openai"
      /\ pos \in 0 .. Len(body) /\ Len(body) \in Nat
  BY <1>1, <1>2, Kinds, Answer
<1>4. span = "open" /\ counted = SubSeq(body, 1, pos)
  BY <1>1, <1>2, <1>3 DEF Heard, Buffered
<1>5. pos + 1 \in 1 .. Len(body) /\ (pos + 1) - 1 = pos /\ pos' \in 0 .. Len(body)
  BY <1>1, <1>3
<1>6. counted' = SubSeq(body, 1, pos + 1) /\ counted' \in Seq(Event)
  <2>1. SubSeq(body, 1, pos + 1) = Append(SubSeq(body, 1, (pos + 1) - 1), body[pos + 1])
    BY <1>2, <1>3, <1>5, Answer
  <2>2. SubSeq(body, 1, pos + 1) \in Seq(Event)
    BY <1>1, <1>2, <1>3, <1>5, Answer
  <2> QED BY <1>4, <1>5, <2>1, <2>2
<1>7. TypeOK'
  BY <1>1, <1>2, <1>5, <1>6 DEF TypeOK
<1>8. Buffered'
  BY <1>1, <1>3, <1>6 DEF Buffered
<1>9. Heard'
  BY <1>1, <1>2, <1>3 DEF Heard
<1>10. RecordedAll' /\ EndedWhenDone'
  BY <1>1, <1>4, <1>7 DEF RecordedAll, EndedWhenDone
<1> QED BY <1>7, <1>8, <1>9, <1>10 DEF ResponseInv

LEMMA OllamaChunkStep ==
  ASSUME ResponseInv, NEW l \in Ollama, OllamaChunk(l)
  PROVE  ResponseInv'
<1>1. CASE streams /\ Chunk(l) /\ counted' = Append(counted, body[pos + 1])
  BY <1>1, ChunkStep
<1>2. CASE /\ ~streams /\ lib = l /\ at = "asked" /\ pos < Len(body) /\ pos' = Len(body)
           /\ UNCHANGED <<server, at, streams, span, status, recorded, lineBuffer, counted, heard>>
  <2>1. /\ lib = l /\ at = "asked" /\ at' = at /\ ~ streams /\ pos' = Len(body)
        /\ lib' = lib /\ body' = body /\ streams' = streams /\ span' = span /\ status' = status
        /\ recorded' = recorded /\ lineBuffer' = lineBuffer /\ counted' = counted /\ heard' = heard
    BY <1>2 DEF server
  <2>2. TypeOK /\ Heard /\ lib \in Ollama
    BY <2>1 DEF ResponseInv
  <2>3. lib \notin OfBodies /\ Len(body) \in Nat /\ Len(body) \in 0 .. Len(body) /\ span = "open"
    BY <2>1, <2>2, Kinds, Answer DEF Heard
  <2>4. TypeOK'
    BY <2>1, <2>2, <2>3 DEF TypeOK
  <2>5. Buffered' /\ Heard'
    BY <2>1, <2>2, <2>3 DEF Buffered, Heard
  <2>6. RecordedAll' /\ EndedWhenDone'
    BY <2>1, <2>3, <2>4 DEF RecordedAll, EndedWhenDone
  <2> QED BY <2>4, <2>5, <2>6 DEF ResponseInv
<1> QED BY <1>1, <1>2 DEF OllamaChunk

\* The call whose chunks were seen returns.
LEMMA ExitStep ==
  ASSUME ResponseInv, lib \in Ollama \union NewAPI, at = "asked", at' = "over",
         NEW how \in {"unset", "error"}, NEW chunks \in {None, SubSeq(body, 1, pos)},
         End(how, chunks), UNCHANGED <<server, streams, reading>>
  PROVE  ResponseInv'
<1>1. /\ lib' = lib /\ body' = body /\ streams' = streams
      /\ pos' = pos /\ lineBuffer' = lineBuffer /\ counted' = counted /\ heard' = heard
  BY DEF server, reading
<1>2. TypeOK /\ Buffered /\ Heard
  BY DEF ResponseInv
<1>3. lib \notin OfBodies /\ lib \notin DeepSeek /\ lib # "anthropic"
  BY Kinds
<1>4. span' = "ended" /\ status' = how /\ recorded' = chunks
  BY <1>2, Ended DEF Heard
<1>5. SubSeq(body, 1, pos) = Received /\ Received' = Received /\ Received \in Seq(Event)
  BY <1>1, <1>2, <1>3, ReceivedStays, Answer DEF Received
<1>6. TypeOK'
  BY <1>1, <1>2, <1>4, <1>5 DEF TypeOK
<1>7. Buffered'
  BY <1>1, <1>2 DEF Buffered
<1>8. Heard'
  BY <1>1, <1>2, <1>4 DEF Heard
<1>9. RecordedAll'
  <2>1. recorded' # None => recorded' = Received'
    BY <1>4, <1>5
  <2>2. lib' \notin {"anthropic"} \union DeepSeek
    BY <1>1, <1>3
  <2> QED BY <2>1, <2>2 DEF RecordedAll
<1>10. EndedWhenDone'
  BY <1>4, <1>6 DEF EndedWhenDone
<1> QED BY <1>6, <1>7, <1>8, <1>9, <1>10 DEF ResponseInv

LEMMA OllamaExitStep ==
  ASSUME ResponseInv, NEW l \in Ollama, OllamaExit(l)
  PROVE  ResponseInv'
<1>1. lib = l /\ at = "asked" /\ at' = "over" /\ UNCHANGED <<server, streams, reading>>
  BY DEF OllamaExit
<1>2. CASE End("error", None)
  BY <1>1, <1>2, ExitStep
<1>3. CASE End("unset", IF streams THEN counted ELSE SubSeq(body, 1, pos))
  <2>1. (IF streams THEN counted ELSE SubSeq(body, 1, pos)) = SubSeq(body, 1, pos)
    BY <1>1, Kinds DEF ResponseInv, Buffered
  <2> QED BY <1>1, <1>3, <2>1, ExitStep
<1> QED BY <1>2, <1>3 DEF OllamaExit

LEMMA NewAPIExitStep ==
  ASSUME ResponseInv, NEW l \in NewAPI, NewAPIExit(l)
  PROVE  ResponseInv'
<1>1. lib = l /\ at = "asked" /\ at' = "over" /\ UNCHANGED <<server, streams, reading>>
  BY DEF NewAPIExit
<1>2. PICK how \in {"unset", "error"} : End(how, counted)
  BY DEF NewAPIExit
<1>3. counted = SubSeq(body, 1, pos)
  BY <1>1, Kinds DEF ResponseInv, Buffered
<1> QED BY <1>1, <1>2, <1>3, ExitStep

LEMMA GoOpenAIStep ==
  ASSUME ResponseInv, CreateStreamExit \/ UnseenRecv
  PROVE  ResponseInv'
<1>1. TypeOK /\ Buffered /\ Heard /\ RecordedAll
  BY DEF ResponseInv
<1>2. CASE Failed("go-openai", "error")
  BY <1>2, FailedStep
<1>3. CASE /\ lib = "go-openai" /\ at = "asked" /\ at' = "stream"
           /\ End("unset", <<>>) /\ UNCHANGED <<server, streams, reading>>
  <2>1. /\ lib' = lib /\ body' = body /\ streams' = streams
        /\ pos' = pos /\ lineBuffer' = lineBuffer /\ counted' = counted /\ heard' = heard
    BY <1>3 DEF server, reading
  <2>2. span' = "ended" /\ status' = "unset" /\ recorded' = <<>>
    BY <1>1, <1>3, Ended DEF Heard
  <2>3. TypeOK'
    BY <1>1, <1>3, <2>1, <2>2, EmptySeq DEF TypeOK
  <2>4. Buffered'
    BY <1>1, <2>1 DEF Buffered
  <2>5. Heard'
    BY <1>1, <1>3, <2>1, <2>2 DEF Heard
  <2>6. RecordedAll' /\ EndedWhenDone'
    BY <1>3, <2>1, <2>2, <2>3 DEF RecordedAll, EndedWhenDone
  <2> QED BY <2>3, <2>4, <2>5, <2>6 DEF ResponseInv
<1>4. CASE UnseenRecv
  <2>1. /\ lib = "go-openai" /\ at = "stream"
        /\ lib' = lib /\ body' = body /\ streams' = streams /\ span' = span /\ status' = status
        /\ recorded' = recorded /\ lineBuffer' = lineBuffer /\ counted' = counted /\ heard' = heard
        /\ (pos < Len(body) /\ pos' = pos + 1 /\ at' = at) \/ (at' = "over" /\ pos' = pos)
    BY <1>4 DEF UnseenRecv, server
  <2>2. Len(body) \in Nat /\ pos \in 0 .. Len(body) /\ lib \notin OfBodies /\ span = "ended"
    BY <1>1, <2>1, Answer, Kinds DEF Heard
  <2>3. pos' \in 0 .. Len(body)
    BY <2>1, <2>2
  <2>4. TypeOK'
    BY <1>1, <2>1, <2>2, <2>3 DEF TypeOK
  <2>5. Buffered' /\ Heard'
    BY <1>1, <2>1, <2>2 DEF Buffered, Heard
  <2>6. RecordedAll' /\ EndedWhenDone'
    BY <2>1, <2>2, <2>4 DEF RecordedAll, EndedWhenDone
  <2> QED BY <2>4, <2>5, <2>6 DEF ResponseInv
<1> QED BY <1>2, <1>3, <1>4 DEF CreateStreamExit

LEMMA ResponseStays ==
  ASSUME ResponseInv, UNCHANGED vars
  PROVE  ResponseInv'
<1>1. /\ lib' = lib /\ body' = body /\ at' = at /\ streams' = streams /\ span' = span
      /\ status' = status /\ recorded' = recorded /\ pos' = pos /\ lineBuffer' = lineBuffer
      /\ counted' = counted /\ heard' = heard
  BY DEF vars
<1>2. TypeOK /\ Buffered /\ Heard /\ RecordedAll /\ EndedWhenDone
  BY DEF ResponseInv
<1>3. TypeOK'
  BY <1>1, <1>2 DEF TypeOK
<1>4. Buffered' /\ Heard'
  BY <1>1, <1>2 DEF Buffered, Heard
<1>5. RecordedAll'
  <2>1. Received' = Received
    BY <1>1, ReceivedStays
  <2> QED BY <1>1, <1>2, <2>1 DEF RecordedAll
<1>6. EndedWhenDone'
  BY <1>1, <1>2, <1>3 DEF EndedWhenDone
<1> QED BY <1>3, <1>4, <1>5, <1>6 DEF ResponseInv

\* The libraries by name.
LEMMA Names ==
  /\ {"openai", "openai-v2 chat", "openai-v2 completion",
      "openai-v3 chat", "openai-v3 completion"} \subseteq OpenAI
  /\ "deepseek" \in DeepSeek /\ "deepseek fim" \in DeepSeek
  /\ "ollama generate" \in Ollama /\ "ollama chat" \in Ollama
  /\ {"new-api text", "new-api claude", "new-api gemini", "new-api audio"} \subseteq NewAPI
BY DEF OpenAI, DeepSeek, Ollama, NewAPI

LEMMA AnthropicSteps ==
  ASSUME ResponseInv, AnthropicNext
  PROVE  ResponseInv'
<1>1. CASE AnthropicAsk
  BY <1>1, AskStep DEF AnthropicAsk
<1>2. CASE AnthropicAnswer
  <2>1. "anthropic" \in OfBodies
    BY Kinds
  <2> QED BY <1>2, <2>1, FailedStep, StreamingStep, WholeStep DEF AnthropicAnswer
<1>3. CASE AnthropicClose
  BY <1>3, AnthropicCloseStep
<1>4. CASE \E k \in 0..Len(body) - pos, e \in {"none", "eof", "broken"} : AnthropicRead(k, e)
  BY <1>4, AnthropicReadStep
<1> QED BY <1>1, <1>2, <1>3, <1>4 DEF AnthropicNext

LEMMA OpenAISteps ==
  ASSUME ResponseInv, OpenAINext
  PROVE  ResponseInv'
<1>1. CASE \E l \in OpenAI : Ask(l)
  BY <1>1, AskStep
<1>2. CASE \E l \in OpenAI : OpenAIAnswer(l)
  <2>1. PICK l \in OpenAI : OpenAIAnswer(l)
    BY <1>2
  <2>2. l \in OfBodies
    BY Kinds
  <2> QED BY <2>1, <2>2, FailedStep, StreamingStep, WholeStep DEF OpenAIAnswer
<1>3. CASE \E l \in OpenAI, k \in 0..Len(body) - pos, e \in {"none", "eof", "broken"} : OpenAIRead(l, k, e)
  BY <1>3, OpenAIReadStep
<1>4. CASE \E l \in OpenAI : PlainClose(l)
  <2>1. PICK l \in OpenAI : PlainClose(l)
    BY <1>4
  <2>2. lib \in OfBodies /\ lib # "anthropic"
    BY <2>1, Kinds DEF PlainClose
  <2> QED BY <2>1, <2>2, DoneStep DEF PlainClose
<1>5. (\E l \in OpenAI : Ask(l)) \/ (\E l \in OpenAI : OpenAIAnswer(l))
        \/ (\E l \in OpenAI, k \in 0..Len(body) - pos, e \in {"none", "eof", "broken"} : OpenAIRead(l, k, e))
        \/ \E l \in OpenAI : PlainClose(l)
  BY Names DEF OpenAINext, OpenAIv1Ask, OpenAIv1Answer, OpenAIv2ChatAsk, OpenAIv2ChatAnswer,
       OpenAIv2CompletionAsk, OpenAIv2CompletionAnswer, OpenAIv3ChatAsk, OpenAIv3ChatAnswer,
       OpenAIv3CompletionAsk, OpenAIv3CompletionAnswer, OpenAIv1Read, OpenAIv2ChatRead,
       OpenAIv2CompletionRead, OpenAIv3ChatRead, OpenAIv3CompletionRead
<1> QED BY <1>1, <1>2, <1>3, <1>4, <1>5

LEMMA DeepSeekSteps ==
  ASSUME ResponseInv, DeepSeekNext
  PROVE  ResponseInv'
<1>1. CASE \E l \in DeepSeek : Ask(l)
  BY <1>1, AskStep
<1>2. CASE \E l \in DeepSeek : DeepSeekExit(l)
  BY <1>2, FailedStep, StreamingStep DEF DeepSeekExit
<1>3. CASE \E l \in DeepSeek, e \in {"none", "eof", "broken"} : Recv(l, e)
  BY <1>3, RecvStep
<1>4. CASE \E l \in DeepSeek : PlainClose(l)
  <2>1. PICK l \in DeepSeek : PlainClose(l)
    BY <1>4
  <2>2. lib \in DeepSeek /\ lib # "anthropic"
    BY <2>1, Kinds DEF PlainClose
  <2> QED BY <2>1, <2>2, DoneStep DEF PlainClose
<1>5. (\E l \in DeepSeek : Ask(l)) \/ (\E l \in DeepSeek : DeepSeekExit(l))
        \/ (\E l \in DeepSeek, e \in {"none", "eof", "broken"} : Recv(l, e))
        \/ \E l \in DeepSeek : PlainClose(l)
  BY Names DEF DeepSeekNext, DeepSeekChatEnter, DeepSeekChatExit, DeepSeekFIMEnter,
       DeepSeekFIMExit, DeepSeekChatRecv, DeepSeekFIMRecv
<1> QED BY <1>1, <1>2, <1>3, <1>4, <1>5

LEMMA CallbackSteps ==
  ASSUME ResponseInv, OllamaNext \/ NewAPINext \/ GoOpenAINext
  PROVE  ResponseInv'
<1>1. CASE \E l \in Library : Ask(l)
  BY <1>1, AskStep
<1>2. CASE \E l \in Ollama : OllamaChunk(l) \/ OllamaExit(l)
  BY <1>2, OllamaChunkStep, OllamaExitStep
<1>3. CASE \E l \in NewAPI : NewAPIExit(l)
  BY <1>3, NewAPIExitStep
<1>4. CASE HandleStreamFormat
  <2>1. PICK l \in NewAPI : Chunk(l) /\ counted' = Append(counted, body[pos + 1])
    BY <1>4 DEF HandleStreamFormat
  <2>2. l \notin Ollama
    BY Kinds
  <2> QED BY <2>1, <2>2, ChunkStep
<1>5. CASE CreateStreamExit \/ UnseenRecv
  BY <1>5, GoOpenAIStep
<1>6. \/ \E l \in Library : Ask(l)
      \/ \E l \in Ollama : OllamaChunk(l) \/ OllamaExit(l)
      \/ \E l \in NewAPI : NewAPIExit(l)
      \/ HandleStreamFormat \/ CreateStreamExit \/ UnseenRecv
  <2>1. {"go-openai"} \union Ollama \union NewAPI \subseteq Library
    BY DEF Library
  <2> QED BY <2>1, Names DEF OllamaNext, NewAPINext, GoOpenAINext, OllamaGenerateEnter,
            OllamaGenerateChunk, OllamaGenerateExit, OllamaChatEnter, OllamaChatChunk,
            OllamaChatExit, TextHelperEnter, TextHelperExit, ClaudeHelperEnter, ClaudeHelperExit,
            GeminiHelperEnter, GeminiHelperExit, AudioHelperEnter, AudioHelperExit, CreateStreamEnter
<1> QED BY <1>1, <1>2, <1>3, <1>4, <1>5, <1>6

\* The invariant of StreamedResponse, for any answers: the events accumulated are
\* those of the lines that ended within the bytes read, however they were cut, the
\* line that has not ended waits, and a span that ended carries what there was.
THEOREM ResponseAlways == Spec => []ResponseInv
<1>1. ResponseInv /\ [Next]_vars => ResponseInv'
  <2> SUFFICES ASSUME ResponseInv, [Next]_vars
               PROVE  ResponseInv'
    OBVIOUS
  <2>1. CASE Leave
    <3>1. lib = "anthropic" => heard.err # "none"
      BY <2>1 DEF Leave
    <3> QED BY <2>1, <3>1, DoneStep DEF Leave
  <2>2. CASE UNCHANGED vars
    BY <2>2, ResponseStays
  <2> QED BY <2>1, <2>2, AnthropicSteps, OpenAISteps, DeepSeekSteps, CallbackSteps DEF Next
<1> QED BY <1>1, ResponseStarts, PTL DEF Spec

\* However a body is cut into reads, the wrapper has accumulated exactly the events
\* of the lines that the application has received, in their order: what
\* processSSELines keeps of one read is enough for the next.
THEOREM AlwaysReassembled == Spec => []Reassembled
<1>1. ResponseInv => Reassembled
  BY DEF ResponseInv, Buffered, Reassembled, Received
<1> QED BY <1>1, ResponseAlways, PTL

\* The span of a stream that ended carries every event the application received,
\* and in anthropic and deepseek that the stream broke.
THEOREM AlwaysRecordedAll == Spec => []RecordedAll
<1>1. ResponseInv => RecordedAll
  BY DEF ResponseInv
<1> QED BY <1>1, ResponseAlways, PTL

\* A response the application is done with has a span that ended, but for a stream
\* of openai-go or deepseek that is closed, or ends along with its last bytes.
THEOREM AlwaysEndedWhenDone == Spec => []EndedWhenDone
<1>1. ResponseInv => EndedWhenDone
  BY DEF ResponseInv
<1> QED BY <1>1, ResponseAlways, PTL
=============================================================================
