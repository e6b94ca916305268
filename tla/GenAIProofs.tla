---------------------------- MODULE GenAIProofs -----------------------------
(* Proofs about CompletionUpload, for any number of callers, closers and   *)
(* workers, and about GenAIHandler, for any number of invocations, spans and *)
(* calls side by side.  What links a call to its span is in Linked: nobody *)
(* may start an invocation again while a call on it is under way.          *)
EXTENDS CompletionUpload, GenAIHandler, SequenceTheorems, FiniteSetTheorems,
        FunctionTheorems, TLAPS

(* The upload hook.                                                        *)

CallStates == [at : {"idle", "stamped", "send", "note"}, ref : Ref \union {NoRef}]

\* A caller inside the select holds the read lock, so the queue is open.
OpenWhileRead == closed => Readers = {}

\* A caller between its send and seen.add has had its ref accepted.
NotedWasAccepted == \A c \in Caller :
  call[c].at = "note" => call[c].ref \in Ref /\ accepted[c][call[c].ref] > 0

\* What the stamp, check and send steps know of their ref.
BusyHasRef == \A c \in Caller : call[c].at # "idle" => call[c].ref \in Ref

UInv == /\ UploadTypeOK
        /\ OpenWhileRead
        /\ NotedWasAccepted
        /\ BusyHasRef
        /\ NeverSendsOnClosed
        /\ SeenWasAccepted
        /\ SeenIsBoundedSet
        /\ ExitedMeansEmpty

\* boundedSet.add: a bounded set stays one, and holds nothing new but the ref.
LEMMA AddSeenProperties ==
  ASSUME NEW s \in Seq(Ref), NEW r \in Ref, Len(s) <= DedupCap,
         \A i, j \in 1 .. Len(s) : s[i] = s[j] => i = j
  PROVE  LET t == AddSeen(s, r)
         IN  /\ t \in Seq(Ref)
             /\ Len(t) <= DedupCap
             /\ \A i, j \in 1 .. Len(t) : t[i] = t[j] => i = j
             /\ \A i \in 1 .. Len(t) : t[i] = r \/ \E j \in 1 .. Len(s) : t[i] = s[j]
<1>0. Len(s) \in Nat
  BY LenProperties
<1>1. CASE Contains(s, r)
  BY <1>1 DEF AddSeen
<1>2. CASE ~ Contains(s, r) /\ Len(s) >= DedupCap
  <2> DEFINE u == Tail(s)
             t == Append(u, r)
  <2>1. /\ u \in Seq(Ref) /\ Len(u) = Len(s) - 1
        /\ \A i \in 1 .. Len(u) : u[i] = s[i + 1]
    <3>1. s # <<>>
      BY <1>2, UploadAssumption
    <3> QED BY <3>1, HeadTailProperties
  <2>2. /\ t \in Seq(Ref) /\ Len(t) = Len(s)
        /\ \A i \in 1 .. Len(u) : t[i] = s[i + 1]
        /\ t[Len(s)] = r
    <3>1. /\ t \in Seq(Ref) /\ Len(t) = Len(u) + 1
          /\ \A i \in 1 .. Len(u) : t[i] = u[i]
          /\ t[Len(u) + 1] = r
      BY <2>1, AppendProperties
    <3> QED BY <1>0, <2>1, <3>1
  <2>3. AddSeen(s, r) = t
    BY <1>2 DEF AddSeen
  <2> HIDE DEF t, u
  <2>4. \A i \in 1 .. Len(t) : i = Len(s) \/ (i \in 1 .. Len(u) /\ i + 1 \in 1 .. Len(s))
    BY <1>0, <2>1, <2>2
  <2>5. \A i \in 1 .. Len(s) : s[i] # r
    BY <1>2 DEF Contains
  <2>6. ASSUME NEW i \in 1 .. Len(t), NEW j \in 1 .. Len(t), t[i] = t[j]
        PROVE  i = j
    <3>1. CASE i = Len(s) /\ j = Len(s)
      BY <3>1
    <3>2. CASE i # Len(s) /\ j # Len(s)
      <4>1. /\ i + 1 \in 1 .. Len(s) /\ j + 1 \in 1 .. Len(s)
            /\ s[i + 1] = s[j + 1]
        BY <2>2, <2>4, <2>6, <3>2
      <4>2. i + 1 = j + 1
        BY <4>1
      <4> QED BY <4>2
    <3>3. CASE i = Len(s) /\ j # Len(s)
      BY <2>2, <2>4, <2>5, <2>6, <3>3
    <3>4. CASE i # Len(s) /\ j = Len(s)
      BY <2>2, <2>4, <2>5, <2>6, <3>4
    <3> QED BY <3>1, <3>2, <3>3, <3>4
  <2>7. \A i \in 1 .. Len(t) : t[i] = r \/ \E j \in 1 .. Len(s) : t[i] = s[j]
    BY <2>2, <2>4
  <2> QED
    BY <2>2, <2>3, <2>6, <2>7
<1>3. CASE ~ Contains(s, r) /\ ~ (Len(s) >= DedupCap)
  <2> DEFINE t == Append(s, r)
  <2>1. /\ t \in Seq(Ref) /\ Len(t) = Len(s) + 1
        /\ \A i \in 1 .. Len(s) : t[i] = s[i]
        /\ t[Len(s) + 1] = r
    BY AppendProperties
  <2>2. AddSeen(s, r) = t
    BY <1>3 DEF AddSeen
  <2> HIDE DEF t
  <2>3. \A i \in 1 .. Len(t) : i = Len(s) + 1 \/ i \in 1 .. Len(s)
    BY <1>0, <2>1
  <2>4. \A i \in 1 .. Len(s) : s[i] # r
    BY <1>3 DEF Contains
  <2>5. Len(t) <= DedupCap
    BY <1>0, <1>3, <2>1, UploadAssumption
  <2>6. ASSUME NEW i \in 1 .. Len(t), NEW j \in 1 .. Len(t), t[i] = t[j]
        PROVE  i = j
    BY <2>1, <2>3, <2>4, <2>6
  <2>7. \A i \in 1 .. Len(t) : t[i] = r \/ \E j \in 1 .. Len(s) : t[i] = s[j]
    BY <2>1, <2>3
  <2> QED
    BY <2>1, <2>2, <2>5, <2>6, <2>7
<1> QED
  BY <1>1, <1>2, <1>3

LEMMA UInit == UploadInit => UInv
<1> SUFFICES ASSUME UploadInit PROVE UInv
  OBVIOUS
<1>1. UploadTypeOK
  <2>1. jobs \in Seq(Ref) /\ Len(jobs) <= QueueSize /\ seen \in Seq(Ref)
    BY UploadAssumption DEF UploadInit
  <2>2. Idle \in CallStates
    BY DEF Idle, CallStates
  <2>3. 0 \in 0 .. CallBound
    BY UploadAssumption
  <2> QED
    BY <2>1, <2>2, <2>3 DEF UploadInit, UploadTypeOK, CallStates
<1>2. \A c \in Caller : call[c].at = "idle"
  BY DEF UploadInit, Idle
<1>3. OpenWhileRead /\ NotedWasAccepted /\ BusyHasRef /\ NeverSendsOnClosed
  BY <1>2 DEF UploadInit, OpenWhileRead, NotedWasAccepted, BusyHasRef, NeverSendsOnClosed
<1>4. SeenWasAccepted /\ SeenIsBoundedSet
  BY UploadAssumption DEF UploadInit, SeenWasAccepted, SeenIsBoundedSet
<1>5. ExitedMeansEmpty
  BY UploadAssumption DEF UploadInit, ExitedMeansEmpty, Exited
<1> QED
  BY <1>1, <1>3, <1>4, <1>5 DEF UInv

\* The steps of a caller.
LEMMA UStamp ==
  ASSUME UInv, NEW c \in Caller, NEW r \in Ref, Stamp(c, r)
  PROVE  UInv'
<1>1. /\ call' = [call EXCEPT ![c] = [at |-> "stamped", ref |-> r]]
      /\ called' = [called EXCEPT ![c] = @ + 1] /\ called[c] < CallBound
      /\ call[c].at = "idle"
      /\ UNCHANGED <<jobs, closed, waiting, seen, worker, closer, accepted,
                     enqueued, attempted, evicted, panicked>>
  BY DEF Stamp
<1>2. /\ call'[c] = [at |-> "stamped", ref |-> r]
      /\ \A d \in Caller \ {c} : call'[d] = call[d]
  BY <1>1 DEF UInv, UploadTypeOK
<1>3. UploadTypeOK'
  <2>1. call' \in [Caller -> CallStates]
    BY <1>1 DEF UInv, UploadTypeOK, CallStates
  <2>2. called' \in [Caller -> 0 .. CallBound]
    BY <1>1, UploadAssumption DEF UInv, UploadTypeOK
  <2> QED
    BY <1>1, <2>1, <2>2 DEF UInv, UploadTypeOK, CallStates
<1>4. Readers' = Readers
  BY <1>1, <1>2 DEF Readers
<1>5. NotedWasAccepted' /\ BusyHasRef'
  BY <1>1, <1>2 DEF UInv, NotedWasAccepted, BusyHasRef
<1> QED
  BY <1>1, <1>3, <1>4, <1>5 DEF UInv, OpenWhileRead, NeverSendsOnClosed,
     SeenWasAccepted, SeenIsBoundedSet, ExitedMeansEmpty

LEMMA UCheck ==
  ASSUME UInv, NEW c \in Caller, Check(c)
  PROVE  UInv'
<1> DEFINE next == IF closed \/ Contains(seen, call[c].ref) THEN Idle
                   ELSE [call[c] EXCEPT !.at = "send"]
<1>1. /\ call' = [call EXCEPT ![c] = next]
      /\ call[c].at = "stamped"
      /\ UNCHANGED <<called, jobs, closed, waiting, seen, worker, closer, accepted,
                     enqueued, attempted, evicted, panicked>>
  BY DEF Check
<1>2. /\ next \in CallStates
      /\ next.at \in {"idle", "send"}
      /\ next.at = "send" => ~ closed /\ next.ref = call[c].ref
  BY DEF UInv, UploadTypeOK, CallStates, Idle
<1> HIDE DEF next
<1>3. /\ call'[c] = next
      /\ \A d \in Caller \ {c} : call'[d] = call[d]
  BY <1>1 DEF UInv, UploadTypeOK
<1>4. UploadTypeOK'
  BY <1>1, <1>2 DEF UInv, UploadTypeOK, CallStates
<1>5. closed => Readers' = {}
  BY <1>2, <1>3 DEF UInv, OpenWhileRead, Readers
<1>6. NotedWasAccepted' /\ BusyHasRef'
  BY <1>1, <1>2, <1>3 DEF UInv, NotedWasAccepted, BusyHasRef
<1> QED
  BY <1>1, <1>4, <1>5, <1>6 DEF UInv, OpenWhileRead, NeverSendsOnClosed,
     SeenWasAccepted, SeenIsBoundedSet, ExitedMeansEmpty

LEMMA USend ==
  ASSUME UInv, NEW c \in Caller, Send(c)
  PROVE  UInv'
<1> DEFINE r == call[c].ref
<1>1. c \in Readers /\ ~ closed /\ r \in Ref
  BY DEF Send, UInv, OpenWhileRead, BusyHasRef, Readers
<1>2. UNCHANGED <<called, closed, waiting, seen, worker, closer, attempted, evicted, panicked>>
  BY <1>1 DEF Send
<1>3. CASE /\ Len(jobs) < QueueSize
           /\ jobs' = Append(jobs, r)
           /\ accepted' = [accepted EXCEPT ![c][r] = @ + 1]
           /\ enqueued' = [enqueued EXCEPT ![r] = @ + 1]
           /\ call' = [call EXCEPT ![c].at = "note"]
  <2>1. /\ call'[c].at = "note" /\ call'[c].ref = r
        /\ \A d \in Caller \ {c} : call'[d] = call[d]
        /\ accepted'[c][r] > 0
        /\ \A d \in Caller, q \in Ref : accepted'[d][q] >= accepted[d][q]
        /\ \A d \in Caller, q \in Ref : accepted[d][q] \in Nat /\ accepted'[d][q] \in Nat
    BY <1>1, <1>3, SMTT(30) DEF UInv, UploadTypeOK
  <2>2. UploadTypeOK'
    <3>1. jobs' \in Seq(Ref) /\ Len(jobs') = Len(jobs) + 1
      BY <1>1, <1>3, AppendProperties DEF UInv, UploadTypeOK
    <3>2. Len(jobs') <= QueueSize
      BY <1>3, <3>1, LenProperties, UploadAssumption DEF UInv, UploadTypeOK
    <3>3. call' \in [Caller -> CallStates]
      BY <1>3 DEF UInv, UploadTypeOK, CallStates
    <3>4. accepted' \in [Caller -> [Ref -> Nat]] /\ enqueued' \in [Ref -> Nat]
      BY <1>1, <1>3 DEF UInv, UploadTypeOK
    <3> QED
      BY <1>2, <3>1, <3>2, <3>3, <3>4 DEF UInv, UploadTypeOK, CallStates
  <2>3. NotedWasAccepted' /\ BusyHasRef'
    BY <1>1, <2>1 DEF UInv, NotedWasAccepted, BusyHasRef
  <2>4. SeenWasAccepted'
    <3>1. \A i \in 1 .. Len(seen) : seen[i] \in Ref
      BY ElementOfSeq DEF UInv, UploadTypeOK
    <3> QED
      BY <1>2, <2>1, <3>1 DEF UInv, SeenWasAccepted
  <2>5. ExitedMeansEmpty'
    BY <1>1, <1>2 DEF UInv, ExitedMeansEmpty
  <2> QED
    BY <1>1, <1>2, <2>2, <2>3, <2>4, <2>5 DEF UInv, OpenWhileRead,
       NeverSendsOnClosed, SeenIsBoundedSet
<1>4. CASE call' = [call EXCEPT ![c] = Idle] /\ UNCHANGED <<jobs, accepted, enqueued>>
  <2>1. /\ call'[c].at = "idle"
        /\ \A d \in Caller \ {c} : call'[d] = call[d]
    BY <1>4 DEF UInv, UploadTypeOK, Idle
  <2>2. UploadTypeOK'
    BY <1>2, <1>4 DEF UInv, UploadTypeOK, Idle
  <2>3. NotedWasAccepted' /\ BusyHasRef'
    BY <1>4, <2>1 DEF UInv, NotedWasAccepted, BusyHasRef
  <2> QED
    BY <1>1, <1>2, <1>4, <2>2, <2>3 DEF UInv, OpenWhileRead, NeverSendsOnClosed,
       SeenWasAccepted, SeenIsBoundedSet, ExitedMeansEmpty
<1> QED
  BY <1>1, <1>3, <1>4 DEF Send

LEMMA UNote ==
  ASSUME UInv, NEW c \in Caller, Note(c)
  PROVE  UInv'
<1> DEFINE r == call[c].ref
<1>1. /\ call' = [call EXCEPT ![c] = Idle]
      /\ seen' = AddSeen(seen, r)
      /\ evicted' = evicted \union {q \in Ref : Contains(seen, q) /\ ~ Contains(seen', q)}
      /\ c \in Readers /\ ~ closed /\ r \in Ref /\ accepted[c][r] > 0
      /\ UNCHANGED <<called, jobs, closed, waiting, worker, closer, accepted,
                     enqueued, attempted, panicked>>
  BY DEF Note, UInv, NotedWasAccepted, OpenWhileRead, Readers
<1>2. /\ call'[c].at = "idle"
      /\ \A d \in Caller \ {c} : call'[d] = call[d]
  BY <1>1 DEF UInv, UploadTypeOK, Idle
<1>3. /\ seen' \in Seq(Ref)
      /\ Len(seen') <= DedupCap
      /\ \A i, j \in 1 .. Len(seen') : seen'[i] = seen'[j] => i = j
      /\ \A i \in 1 .. Len(seen') :
           seen'[i] = r \/ \E j \in 1 .. Len(seen) : seen'[i] = seen[j]
  <2>1. r \in Ref /\ seen' = AddSeen(seen, r)
    BY <1>1
  <2>2. /\ seen \in Seq(Ref) /\ Len(seen) <= DedupCap
        /\ \A i, j \in 1 .. Len(seen) : seen[i] = seen[j] => i = j
    BY DEF UInv, UploadTypeOK, SeenIsBoundedSet
  <2> QED
    BY <2>1, <2>2, AddSeenProperties
<1>4. UploadTypeOK'
  <2>1. evicted' \subseteq Ref
    <3>1. evicted \subseteq Ref /\ {q \in Ref : Contains(seen, q) /\ ~ Contains(seen', q)} \subseteq Ref
      BY DEF UInv, UploadTypeOK
    <3> QED BY <1>1, <3>1
  <2>2. call' \in [Caller -> CallStates]
    BY <1>1 DEF UInv, UploadTypeOK, Idle, CallStates
  <2> QED
    BY <1>1, <1>3, <2>1, <2>2 DEF UInv, UploadTypeOK, CallStates
<1>5. NotedWasAccepted' /\ BusyHasRef'
  BY <1>1, <1>2 DEF UInv, NotedWasAccepted, BusyHasRef
<1>6. SeenWasAccepted'
  BY <1>1, <1>3 DEF UInv, SeenWasAccepted
<1>7. SeenIsBoundedSet'
  BY <1>3 DEF SeenIsBoundedSet
<1> QED
  BY <1>1, <1>4, <1>5, <1>6, <1>7 DEF UInv, OpenWhileRead, NeverSendsOnClosed,
     ExitedMeansEmpty

\* The steps of a worker.
LEMMA UTake ==
  ASSUME UInv, NEW w \in Worker, Take(w)
  PROVE  UInv'
<1>1. /\ worker' = [worker EXCEPT ![w] = Head(jobs)] /\ jobs' = Tail(jobs)
      /\ jobs # <<>>
      /\ UNCHANGED <<callerVars, closed, waiting, closer, attempted>>
  BY DEF Take
<1>2. Head(jobs) \in Ref /\ jobs' \in Seq(Ref) /\ Len(jobs') = Len(jobs) - 1
  BY <1>1, HeadTailProperties DEF UInv, UploadTypeOK
<1>3. UploadTypeOK'
  <2>1. Len(jobs') <= QueueSize
    BY <1>2, LenProperties, UploadAssumption DEF UInv, UploadTypeOK
  <2>2. worker' \in [Worker -> Ref \union {NoRef, Exited}]
    BY <1>1, <1>2 DEF UInv, UploadTypeOK
  <2> QED
    BY <1>1, <1>2, <2>1, <2>2 DEF UInv, UploadTypeOK, callerVars
<1>4. ExitedMeansEmpty'
  <2>1. \A v \in Worker : worker[v] # Exited
    BY <1>1 DEF UInv, ExitedMeansEmpty
  <2>2. \A v \in Worker : worker'[v] # Exited
    BY <1>1, <1>2, <2>1, UploadAssumption DEF UInv, UploadTypeOK, Exited
  <2> QED BY <2>2 DEF ExitedMeansEmpty
<1> QED
  BY <1>1, <1>3, <1>4 DEF UInv, OpenWhileRead, NotedWasAccepted, BusyHasRef,
     NeverSendsOnClosed, SeenWasAccepted, SeenIsBoundedSet, Readers, callerVars

LEMMA UUploaded ==
  ASSUME UInv, NEW w \in Worker, Uploaded(w)
  PROVE  UInv'
<1>1. /\ worker' = [worker EXCEPT ![w] = NoRef] /\ worker[w] \in Ref
      /\ attempted' = [attempted EXCEPT ![worker[w]] = @ + 1]
      /\ UNCHANGED <<callerVars, jobs, closed, waiting, closer>>
  BY DEF Uploaded
<1>2. UploadTypeOK'
  BY <1>1 DEF UInv, UploadTypeOK, callerVars
<1>3. ExitedMeansEmpty'
  BY <1>1, UploadAssumption DEF UInv, UploadTypeOK, ExitedMeansEmpty, Exited, Readers, callerVars
<1> QED
  BY <1>1, <1>2, <1>3 DEF UInv, OpenWhileRead, NotedWasAccepted, BusyHasRef,
     NeverSendsOnClosed, SeenWasAccepted, SeenIsBoundedSet, Readers, callerVars

LEMMA UExit ==
  ASSUME UInv, NEW w \in Worker, WorkerExit(w)
  PROVE  UInv'
<1>1. /\ worker' = [worker EXCEPT ![w] = Exited] /\ jobs = <<>> /\ closed
      /\ UNCHANGED <<callerVars, jobs, closed, waiting, closer, attempted>>
  BY DEF WorkerExit
<1>2. UploadTypeOK'
  BY <1>1 DEF UInv, UploadTypeOK, callerVars
<1>3. ExitedMeansEmpty'
  BY <1>1 DEF UInv, OpenWhileRead, ExitedMeansEmpty, Readers, callerVars
<1> QED
  BY <1>1, <1>2, <1>3 DEF UInv, OpenWhileRead, NotedWasAccepted, BusyHasRef,
     NeverSendsOnClosed, SeenWasAccepted, SeenIsBoundedSet, Readers, callerVars

\* The steps of a closer.
LEMMA UCloser ==
  ASSUME UInv, NEW k \in Closer,
         ShutdownLock(k) \/ Close(k) \/ Drained(k) \/ Expire(k)
  PROVE  UInv'
<1>1. /\ UNCHANGED <<callerVars, jobs, worker, attempted>>
      /\ closed' = closed \/ (closed' = TRUE /\ Readers = {})
      /\ \E s \in {"locking", "nil", "draining", "drained", "error"} :
           closer' = [closer EXCEPT ![k] = s]
      /\ waiting' \subseteq waiting \union {k}
  <2>1. CASE ShutdownLock(k)
    BY <2>1 DEF ShutdownLock
  <2>2. CASE Close(k)
    BY <2>2 DEF Close
  <2>3. CASE Drained(k)
    BY <2>3 DEF Drained
  <2>4. CASE Expire(k)
    BY <2>4 DEF Expire
  <2> QED BY <2>1, <2>2, <2>3, <2>4
<1>2. UploadTypeOK'
  BY <1>1 DEF UInv, UploadTypeOK, callerVars
<1>3. OpenWhileRead' /\ ExitedMeansEmpty'
  BY <1>1 DEF UInv, OpenWhileRead, ExitedMeansEmpty, Readers, callerVars
<1> QED
  BY <1>1, <1>2, <1>3 DEF UInv, NotedWasAccepted, BusyHasRef, NeverSendsOnClosed,
     SeenWasAccepted, SeenIsBoundedSet, callerVars

LEMMA UNext == UInv /\ [UploadNext]_uploadVars => UInv'
<1> SUFFICES ASSUME UInv, [UploadNext]_uploadVars PROVE UInv'
  OBVIOUS
<1>1. ASSUME NEW c \in Caller, NEW r \in Ref, Stamp(c, r) PROVE UInv'
  BY <1>1, UStamp
<1>2. ASSUME NEW c \in Caller, CallerStep(c) PROVE UInv'
  BY <1>2, UCheck, USend, UNote DEF CallerStep
<1>3. ASSUME NEW w \in Worker, WorkerStep(w) PROVE UInv'
  BY <1>3, UTake, UUploaded, UExit DEF WorkerStep
<1>4. ASSUME NEW k \in Closer,
             ShutdownLock(k) \/ Close(k) \/ Drained(k) \/ Expire(k)
      PROVE  UInv'
  BY <1>4, UCloser
<1>5. CASE UNCHANGED uploadVars
  BY <1>5 DEF uploadVars, UInv, UploadTypeOK, OpenWhileRead, NotedWasAccepted, BusyHasRef,
     NeverSendsOnClosed, SeenWasAccepted, SeenIsBoundedSet, ExitedMeansEmpty, Readers
<1> QED
  BY <1>1, <1>2, <1>3, <1>4, <1>5 DEF UploadNext

\* The invariant that carries the properties below.
THEOREM UploadInvariance == UploadSpec => []UInv
BY UInit, UNext, PTL DEF UploadSpec, Safety

\* No interleaving of OnCompletion and Shutdown sends on the closed channel.
THEOREM NoPanic == UploadSpec => []NeverSendsOnClosed
<1>1. UInv => NeverSendsOnClosed
  BY DEF UInv
<1> QED
  BY <1>1, UploadInvariance, PTL

\* Content the hook skips as seen has been accepted for upload.
THEOREM SkipsOnlyAccepted == UploadSpec => []SeenWasAccepted
<1>1. UInv => SeenWasAccepted
  BY DEF UInv
<1> QED
  BY <1>1, UploadInvariance, PTL

\* The set of seen refs stays within its capacity and free of duplicates.
THEOREM BoundedSeen == UploadSpec => []SeenIsBoundedSet
<1>1. UInv => SeenIsBoundedSet
  BY DEF UInv
<1> QED
  BY <1>1, UploadInvariance, PTL

\* What a caller has had accepted is seen, forgotten, or about to be noted.
Marked == \A c \in Caller, r \in Ref :
  accepted[c][r] > 0 => \/ Contains(seen, r)
                        \/ r \in evicted
                        \/ call[c].at = "note" /\ call[c].ref = r

\* A caller sends only what it never had accepted, or what was forgotten.
SendsFresh == \A c \in Caller :
  call[c].at = "send" => accepted[c][call[c].ref] = 0 \/ call[c].ref \in evicted

OInv == Marked /\ SendsFresh /\ AtMostOncePerCaller

\* boundedSet.add puts the ref in; what it drops is forgotten (see Note).
LEMMA AddSeenContains ==
  ASSUME NEW s \in Seq(Ref), NEW r \in Ref
  PROVE  Contains(AddSeen(s, r), r)
<1>0. Len(s) \in Nat
  BY LenProperties
<1>1. CASE Contains(s, r)
  BY <1>1 DEF AddSeen
<1>2. ASSUME NEW u \in Seq(Ref) PROVE Contains(Append(u, r), r)
  <2>1. Len(Append(u, r)) = Len(u) + 1 /\ Append(u, r)[Len(u) + 1] = r /\ Len(u) \in Nat
    BY AppendProperties, LenProperties
  <2>2. Len(u) + 1 \in 1 .. Len(Append(u, r))
    BY <2>1
  <2> QED
    BY <2>1, <2>2 DEF Contains
<1>3. CASE ~ Contains(s, r) /\ Len(s) >= DedupCap
  <2>1. s # <<>>
    BY <1>3, UploadAssumption
  <2>2. Tail(s) \in Seq(Ref)
    BY <2>1, HeadTailProperties
  <2> QED
    BY <1>2, <1>3, <2>2 DEF AddSeen
<1>4. CASE ~ Contains(s, r) /\ ~ (Len(s) >= DedupCap)
  BY <1>2, <1>4 DEF AddSeen
<1> QED
  BY <1>1, <1>3, <1>4

LEMMA ONext == UInv /\ OInv /\ [UploadNext]_uploadVars => OInv'
<1> SUFFICES ASSUME UInv, OInv, [UploadNext]_uploadVars PROVE OInv'
  OBVIOUS
<1>0. \A c \in Caller, r \in Ref : accepted[c][r] \in Nat
  BY DEF UInv, UploadTypeOK
<1>1. ASSUME NEW c \in Caller, NEW r \in Ref, Stamp(c, r) PROVE OInv'
  <2>1. /\ call' = [call EXCEPT ![c] = [at |-> "stamped", ref |-> r]]
        /\ call[c].at = "idle" /\ UNCHANGED <<seen, accepted, evicted>>
    BY <1>1 DEF Stamp
  <2>2. call'[c].at = "stamped" /\ \A d \in Caller \ {c} : call'[d] = call[d]
    BY <2>1 DEF UInv, UploadTypeOK
  <2> QED
    BY <2>1, <2>2 DEF OInv, Marked, SendsFresh, AtMostOncePerCaller
<1>2. ASSUME NEW c \in Caller, Check(c) PROVE OInv'
  <2> DEFINE next == IF closed \/ Contains(seen, call[c].ref) THEN Idle
                     ELSE [call[c] EXCEPT !.at = "send"]
  <2>1. /\ call' = [call EXCEPT ![c] = next]
        /\ call[c].at = "stamped" /\ UNCHANGED <<seen, accepted, evicted>>
    BY <1>2 DEF Check
  <2>2. /\ next.at \in {"idle", "send"}
        /\ next.at = "send" => next.ref = call[c].ref /\ ~ Contains(seen, call[c].ref)
    BY DEF UInv, UploadTypeOK, Idle
  <2> HIDE DEF next
  <2>3. call'[c] = next /\ \A d \in Caller \ {c} : call'[d] = call[d]
    BY <2>1 DEF UInv, UploadTypeOK
  <2>4. call[c].ref \in Ref
    BY <2>1 DEF UInv, BusyHasRef
  <2>5. accepted[c][call[c].ref] = 0 \/ call[c].ref \in evicted
        \/ Contains(seen, call[c].ref)
    BY <1>0, <2>1, <2>4 DEF OInv, Marked
  <2>6. Marked'
    BY <2>1, <2>2, <2>3 DEF OInv, Marked, Contains
  <2>7. SendsFresh'
    BY <2>1, <2>2, <2>3, <2>5 DEF OInv, SendsFresh
  <2> QED
    BY <2>1, <2>6, <2>7 DEF OInv, AtMostOncePerCaller
<1>3. ASSUME NEW c \in Caller, Send(c) PROVE OInv'
  <2>1. call[c].at = "send" /\ call[c].ref \in Ref /\ UNCHANGED <<seen, evicted>>
    BY <1>3 DEF Send, UInv, BusyHasRef
  <2>2. CASE /\ accepted' = [accepted EXCEPT ![c][call[c].ref] = @ + 1]
             /\ call' = [call EXCEPT ![c].at = "note"]
    <3>1. /\ call'[c] = [at |-> "note", ref |-> call[c].ref]
          /\ \A d \in Caller \ {c} : call'[d] = call[d]
      BY <2>2 DEF UInv, UploadTypeOK
    <3>2. /\ accepted'[c][call[c].ref] = accepted[c][call[c].ref] + 1
          /\ \A d \in Caller, q \in Ref :
               (d # c \/ q # call[c].ref) => accepted'[d][q] = accepted[d][q]
      BY <2>1, <2>2 DEF UInv, UploadTypeOK
    <3>3. Marked'
      <4> SUFFICES ASSUME NEW d \in Caller, NEW q \in Ref, accepted'[d][q] > 0
                   PROVE  \/ Contains(seen', q) \/ q \in evicted'
                          \/ call'[d].at = "note" /\ call'[d].ref = q
        BY DEF Marked
      <4>1. CASE d = c /\ q = call[c].ref
        BY <3>1, <4>1
      <4>2. CASE d # c \/ q # call[c].ref
        <5>2. seen' = seen /\ evicted' = evicted
          BY <2>1
        <5>3. CASE d = c
          <6>1. accepted[d][q] > 0 /\ call[d].at = "send"
            BY <2>1, <3>2, <4>2, <5>3
          <6>2. Contains(seen, q) \/ q \in evicted
            BY <6>1 DEF OInv, Marked
          <6> QED BY <5>2, <6>2
        <5>4. CASE d # c
          <6>1. accepted[d][q] > 0 /\ call'[d] = call[d]
            BY <3>1, <3>2, <5>4
          <6>2. Contains(seen, q) \/ q \in evicted \/ (call[d].at = "note" /\ call[d].ref = q)
            BY <6>1 DEF OInv, Marked
          <6> QED BY <5>2, <6>1, <6>2
        <5> QED BY <5>3, <5>4
      <4> QED BY <4>1, <4>2
    <3>4. SendsFresh'
      BY <2>1, <3>1, <3>2 DEF OInv, SendsFresh, UInv, BusyHasRef
    <3>5. AtMostOncePerCaller'
      BY <1>0, <2>1, <3>2 DEF OInv, SendsFresh, AtMostOncePerCaller
    <3> QED
      BY <3>3, <3>4, <3>5 DEF OInv
  <2>3. CASE call' = [call EXCEPT ![c] = Idle] /\ UNCHANGED accepted
    <3>1. call'[c].at = "idle" /\ \A d \in Caller \ {c} : call'[d] = call[d]
      BY <2>3 DEF UInv, UploadTypeOK, Idle
    <3> QED
      BY <2>1, <2>3, <3>1 DEF OInv, Marked, SendsFresh, AtMostOncePerCaller, Contains
  <2> QED
    BY <1>3, <2>2, <2>3 DEF Send
<1>4. ASSUME NEW c \in Caller, Note(c) PROVE OInv'
  <2>1. /\ call[c].at = "note" /\ call[c].ref \in Ref
        /\ seen' = AddSeen(seen, call[c].ref)
        /\ evicted' = evicted \union {q \in Ref : Contains(seen, q) /\ ~ Contains(seen', q)}
        /\ call' = [call EXCEPT ![c] = Idle]
        /\ UNCHANGED accepted
    BY <1>4 DEF Note, UInv, BusyHasRef
  <2>2. call'[c].at = "idle" /\ \A d \in Caller \ {c} : call'[d] = call[d]
    BY <2>1 DEF UInv, UploadTypeOK, Idle
  <2>3. Contains(seen', call[c].ref)
    BY <2>1, AddSeenContains DEF UInv, UploadTypeOK
  <2>4. \A q \in Ref : Contains(seen, q) \/ q \in evicted
                      => Contains(seen', q) \/ q \in evicted'
    BY <2>1
  <2>5. Marked'
    BY <2>1, <2>2, <2>3, <2>4 DEF OInv, Marked
  <2>6. SendsFresh' /\ AtMostOncePerCaller'
    BY <2>1, <2>2 DEF OInv, SendsFresh, AtMostOncePerCaller
  <2> QED
    BY <2>5, <2>6 DEF OInv
<1>5. CASE UNCHANGED callerVars
  BY <1>5 DEF callerVars, OInv, Marked, SendsFresh, AtMostOncePerCaller, Contains
<1>6. ASSUME NEW w \in Worker, WorkerStep(w) PROVE UNCHANGED callerVars
  BY <1>6 DEF WorkerStep, Take, Uploaded, WorkerExit
<1>7. ASSUME NEW k \in Closer,
             ShutdownLock(k) \/ Close(k) \/ Drained(k) \/ Expire(k)
      PROVE  UNCHANGED callerVars
  BY <1>7 DEF ShutdownLock, Close, Drained, Expire
<1>8. CASE UNCHANGED uploadVars
  BY <1>5, <1>8 DEF uploadVars, callerVars
<1> QED
  BY <1>1, <1>2, <1>3, <1>4, <1>5, <1>6, <1>7, <1>8 DEF UploadNext, CallerStep

\* A caller has a ref accepted twice only if the set forgot it in between.
THEOREM OncePerCaller == UploadSpec => []AtMostOncePerCaller
<1>1. UploadInit => OInv
  BY DEF UploadInit, OInv, Marked, SendsFresh, AtMostOncePerCaller, Idle
<1>2. OInv => AtMostOncePerCaller
  BY DEF OInv
<1> QED
  BY <1>1, <1>2, ONext, UploadInvariance, PTL DEF UploadSpec, Safety

\* No worker leaves while a job is queued or can still be queued.
THEOREM WorkersLeaveLast == UploadSpec => []ExitedMeansEmpty
<1>1. UInv => ExitedMeansEmpty
  BY DEF UInv
<1> QED
  BY <1>1, UploadInvariance, PTL

\* What the hook remembers of a ref is true, whoever races with whom.
THEOREM SeenSoundAlways == UploadSpec => []SeenSound
<1>1. SeenWasAccepted /\ SeenIsBoundedSet /\ AtMostOncePerCaller => SeenSound
  BY DEF SeenSound
<1> QED
  BY <1>1, SkipsOnlyAccepted, BoundedSeen, OncePerCaller, PTL

\* Every variable keeps its type, and the buffer its capacity.
THEOREM TypeCorrect == UploadSpec => []UploadTypeOK
<1>1. UInv => UploadTypeOK
  BY DEF UInv
<1> QED
  BY <1>1, UploadInvariance, PTL
-----------------------------------------------------------------------------
(* Every accepted upload is in the buffer, with a worker, or attempted.    *)

Occurrences(s, r) == {i \in 1 .. Len(s) : s[i] = r}
Uploading(f, r) == {w \in Worker : f[w] = r}

\* A ref that was put into the buffer is still in it, or a worker uploads it,
\* or Upload has returned: nothing is lost and nothing is counted twice.
Conserved == \A r \in Ref :
  enqueued[r] = attempted[r] + Cardinality(Occurrences(jobs, r))
                             + Cardinality(Uploading(worker, r))

\* wg.Wait returned to a closer only when no worker was left.
DrainedMeansExited ==
  (\E k \in Closer : closer[k] = "drained") => \A w \in Worker : worker[w] = Exited

CInv == Conserved /\ DrainedMeansExited

\* A finite sequence has finitely many positions.
LEMMA OccurrencesFinite ==
  ASSUME NEW s \in Seq(Ref), NEW r
  PROVE  IsFiniteSet(Occurrences(s, r))
<1>1. Len(s) \in Nat
  BY LenProperties
<1>2. IsFiniteSet(1 .. Len(s))
  BY <1>1, FS_Interval
<1> QED
  BY <1>2, FS_Subset DEF Occurrences

\* Append adds one occurrence, of the element appended.
LEMMA OccurrencesAppend ==
  ASSUME NEW s \in Seq(Ref), NEW e \in Ref, NEW r \in Ref
  PROVE  Cardinality(Occurrences(Append(s, e), r))
           = Cardinality(Occurrences(s, r)) + (IF e = r THEN 1 ELSE 0)
<1> DEFINE t == Append(s, e)
<1>1. /\ Len(s) \in Nat
      /\ Len(t) = Len(s) + 1
      /\ \A i \in 1 .. Len(s) : t[i] = s[i]
      /\ t[Len(s) + 1] = e
  BY LenProperties, AppendProperties
<1>2. Len(s) + 1 \notin Occurrences(s, r)
  BY <1>1 DEF Occurrences
<1>3. Occurrences(t, r) = IF e = r THEN Occurrences(s, r) \union {Len(s) + 1}
                                   ELSE Occurrences(s, r)
  <2> HIDE DEF t
  <2>1. 1 .. Len(t) = (1 .. Len(s)) \union {Len(s) + 1}
    BY <1>1
  <2> QED
    BY <1>1, <2>1 DEF Occurrences
<1>4. IsFiniteSet(Occurrences(s, r)) /\ Cardinality(Occurrences(s, r)) \in Nat
  BY OccurrencesFinite, FS_CardinalityType
<1>5. CASE e = r
  BY <1>2, <1>3, <1>4, <1>5, FS_AddElement
<1>6. CASE e # r
  BY <1>3, <1>4, <1>6
<1> QED
  BY <1>5, <1>6

\* Tail drops one occurrence, of the head.
LEMMA OccurrencesTail ==
  ASSUME NEW s \in Seq(Ref), s # <<>>, NEW r \in Ref
  PROVE  Cardinality(Occurrences(s, r))
           = Cardinality(Occurrences(Tail(s), r)) + (IF Head(s) = r THEN 1 ELSE 0)
<1> DEFINE t == Tail(s)
           S == Occurrences(s, r)
           T == Occurrences(t, r)
           shift == [i \in T |-> i + 1]
<1>1. /\ Len(s) \in Nat /\ Len(s) >= 1
      /\ t \in Seq(Ref) /\ Len(t) = Len(s) - 1
      /\ Head(s) = s[1]
      /\ \A i \in 1 .. Len(t) : t[i] = s[i + 1]
  BY LenProperties, EmptySeq, HeadTailProperties
<1> HIDE DEF t
<1>2. IsFiniteSet(S) /\ IsFiniteSet(T)
  BY <1>1, OccurrencesFinite
<1>3. /\ \A i \in T : i + 1 \in S \ {1} /\ i \in Nat
      /\ \A j \in S \ {1} : j - 1 \in T /\ j \in Nat
  BY <1>1 DEF Occurrences
<1>4. shift \in Bijection(T, S \ {1})
  <2> HIDE DEF S, T
  <2>1. shift \in [T -> S \ {1}]
    BY <1>3
  <2>2. \A i, j \in T : shift[i] = shift[j] => i = j
    BY <1>3
  <2>3. \A j \in S \ {1} : \E i \in T : shift[i] = j
    <3> SUFFICES ASSUME NEW j \in S \ {1} PROVE \E i \in T : shift[i] = j
      OBVIOUS
    <3>1. j - 1 \in T /\ shift[j - 1] = j
      BY <1>3
    <3> QED BY <3>1
  <2> QED
    BY <2>1, <2>2, <2>3, Fun_IsBij
<1>5. Cardinality(S \ {1}) = Cardinality(T)
  <2> HIDE DEF S, T, shift
  <2>1. ExistsBijection(T, S \ {1})
    BY <1>4, Fun_ExistsBij
  <2> QED
    BY <1>2, <2>1, FS_Bijection
<1>6. 1 \in S <=> Head(s) = r
  BY <1>1 DEF Occurrences
<1>7. Cardinality(S) \in Nat /\ Cardinality(T) \in Nat
  BY <1>2, FS_CardinalityType
<1>8. Cardinality(S \ {1}) = IF 1 \in S THEN Cardinality(S) - 1 ELSE Cardinality(S)
  BY <1>2, FS_RemoveElement
<1> QED
  <2> HIDE DEF S, T
  <2>1. Cardinality(S) = Cardinality(T) + (IF Head(s) = r THEN 1 ELSE 0)
    BY <1>5, <1>6, <1>7, <1>8
  <2> QED
    BY <2>1 DEF S, T, t

\* A worker that goes from one state to another is counted with the latter.
LEMMA UploadingMoves ==
  ASSUME NEW f, NEW g, NEW w \in Worker, NEW v, f[w] # v, NEW r,
         g[w] = v, \A x \in Worker \ {w} : g[x] = f[x]
  PROVE  /\ v = r => Cardinality(Uploading(g, r)) = Cardinality(Uploading(f, r)) + 1
         /\ f[w] = r => Cardinality(Uploading(g, r)) = Cardinality(Uploading(f, r)) - 1
         /\ v # r /\ f[w] # r => Cardinality(Uploading(g, r)) = Cardinality(Uploading(f, r))
<1> DEFINE S == Uploading(f, r)
<1>1. g[w] = v /\ \A x \in Worker \ {w} : g[x] = f[x]
  OBVIOUS
<1>2. IsFiniteSet(S) /\ Cardinality(S) \in Nat
  <2>1. S \in SUBSET Worker
    BY DEF Uploading
  <2> QED
    BY <2>1, FS_Subset, FS_CardinalityType, UploadAssumption
<1> SUFFICES /\ v = r => Cardinality(Uploading(g, r)) = Cardinality(S) + 1
             /\ f[w] = r => Cardinality(Uploading(g, r)) = Cardinality(S) - 1
             /\ v # r /\ f[w] # r => Cardinality(Uploading(g, r)) = Cardinality(S)
  OBVIOUS
<1> HIDE DEF S
<1>3. CASE v = r
  <2>1. Uploading(g, r) = S \union {w} /\ w \notin S /\ f[w] # r
    BY <1>1, <1>3 DEF S, Uploading
  <2>2. Cardinality(S \union {w}) = Cardinality(S) + 1
    BY <1>2, <2>1, FS_AddElement
  <2> QED
    BY <1>2, <1>3, <2>1, <2>2
<1>4. CASE f[w] = r
  <2>1. Uploading(g, r) = S \ {w} /\ w \in S /\ v # r
    BY <1>1, <1>4 DEF S, Uploading
  <2>2. Cardinality(S \ {w}) = Cardinality(S) - 1
    BY <1>2, <2>1, FS_RemoveElement
  <2> QED
    BY <1>2, <1>4, <2>1, <2>2
<1>5. CASE v # r /\ f[w] # r
  <2>1. Uploading(g, r) = S
    BY <1>1, <1>5 DEF S, Uploading
  <2> QED
    BY <1>2, <1>5, <2>1
<1> QED
  BY <1>3, <1>4, <1>5

\* Every step keeps both parts.
LEMMA CNext == UInv /\ UInv' /\ CInv /\ [UploadNext]_uploadVars => CInv'
<1> SUFFICES ASSUME UInv, UInv', CInv, [UploadNext]_uploadVars PROVE CInv'
  OBVIOUS
<1>0. /\ jobs \in Seq(Ref) /\ worker \in [Worker -> Ref \union {NoRef, Exited}]
      /\ enqueued \in [Ref -> Nat] /\ attempted \in [Ref -> Nat]
      /\ NoRef # Exited /\ \A r \in Ref : r # NoRef /\ r # Exited
      /\ \A r \in Ref : Cardinality(Occurrences(jobs, r)) \in Nat
      /\ \A r \in Ref : Cardinality(Uploading(worker, r)) \in Nat
  <2>1. \A r \in Ref : Uploading(worker, r) \in SUBSET Worker
    BY DEF Uploading
  <2>2. \A r \in Ref : IsFiniteSet(Uploading(worker, r))
    BY <2>1, FS_Subset, UploadAssumption
  <2>3. jobs \in Seq(Ref)
    BY DEF UInv, UploadTypeOK
  <2>4. \A r \in Ref : IsFiniteSet(Occurrences(jobs, r))
    BY <2>3, OccurrencesFinite
  <2> QED
    BY <2>2, <2>4, FS_CardinalityType, UploadAssumption DEF UInv, UploadTypeOK, Exited
<1>1. ASSUME NEW c \in Caller, Send(c), jobs' # jobs \/ enqueued' # enqueued PROVE CInv'
  <2> DEFINE q == call[c].ref
  <2>1. /\ q \in Ref /\ jobs' = Append(jobs, q)
        /\ enqueued' = [enqueued EXCEPT ![q] = @ + 1]
        /\ UNCHANGED <<worker, closer, attempted>>
    BY <1>1 DEF Send, UInv, BusyHasRef
  <2> HIDE DEF q
  <2>2. ASSUME NEW r \in Ref
        PROVE  enqueued'[r] = attempted'[r] + Cardinality(Occurrences(jobs', r))
                                            + Cardinality(Uploading(worker', r))
    <3>1. Cardinality(Occurrences(jobs', r))
            = Cardinality(Occurrences(jobs, r)) + (IF q = r THEN 1 ELSE 0)
      BY <1>0, <2>1, OccurrencesAppend
    <3>2. enqueued'[r] = enqueued[r] + (IF q = r THEN 1 ELSE 0)
      BY <1>0, <2>1
    <3>3. enqueued[r] = attempted[r] + Cardinality(Occurrences(jobs, r))
                                     + Cardinality(Uploading(worker, r))
      BY DEF CInv, Conserved
    <3> QED
      BY <1>0, <2>1, <3>1, <3>2, <3>3
  <2> QED
    BY <2>1, <2>2 DEF CInv, Conserved, DrainedMeansExited
<1>2. ASSUME NEW w \in Worker, Take(w) PROVE CInv'
  <2>1. /\ worker[w] = NoRef /\ jobs # <<>> /\ jobs' = Tail(jobs)
        /\ worker' = [worker EXCEPT ![w] = Head(jobs)]
        /\ Head(jobs) \in Ref
        /\ UNCHANGED <<enqueued, closer, attempted>>
    BY <1>0, <1>2, HeadTailProperties DEF Take, callerVars
  <2>2. ASSUME NEW r \in Ref
        PROVE  enqueued'[r] = attempted'[r] + Cardinality(Occurrences(jobs', r))
                                            + Cardinality(Uploading(worker', r))
    <3>1. Cardinality(Occurrences(jobs, r))
            = Cardinality(Occurrences(jobs', r)) + (IF Head(jobs) = r THEN 1 ELSE 0)
      BY <1>0, <2>1, OccurrencesTail
    <3>2. Cardinality(Uploading(worker', r))
            = Cardinality(Uploading(worker, r)) + (IF Head(jobs) = r THEN 1 ELSE 0)
      <4>1. /\ worker[w] # Head(jobs) /\ worker[w] # r /\ worker'[w] = Head(jobs)
            /\ \A x \in Worker \ {w} : worker'[x] = worker[x]
        BY <1>0, <2>1
      <4>2. /\ Head(jobs) = r => Cardinality(Uploading(worker', r))
                                   = Cardinality(Uploading(worker, r)) + 1
            /\ Head(jobs) # r => Cardinality(Uploading(worker', r))
                                   = Cardinality(Uploading(worker, r))
        BY <4>1, UploadingMoves
      <4> QED
        BY <1>0, <4>2
    <3>3. enqueued[r] = attempted[r] + Cardinality(Occurrences(jobs, r))
                                     + Cardinality(Uploading(worker, r))
      BY DEF CInv, Conserved
    <3>4. Cardinality(Occurrences(jobs', r)) \in Nat
      <4>1. jobs' \in Seq(Ref)
        BY DEF UInv, UploadTypeOK
      <4> QED
        BY <4>1, OccurrencesFinite, FS_CardinalityType
    <3>5. enqueued'[r] = enqueued[r] /\ attempted'[r] = attempted[r] /\ attempted[r] \in Nat
      BY <1>0, <2>1
    <3>6. /\ Cardinality(Occurrences(jobs, r)) \in Nat
          /\ Cardinality(Uploading(worker, r)) \in Nat
      BY <1>0
    <3> QED
      BY <3>1, <3>2, <3>3, <3>4, <3>5, <3>6
  <2>3. DrainedMeansExited'
    BY <1>0, <2>1 DEF CInv, DrainedMeansExited
  <2> QED
    BY <2>2, <2>3 DEF CInv, Conserved
<1>3. ASSUME NEW w \in Worker, Uploaded(w) PROVE CInv'
  <2> DEFINE q == worker[w]
  <2>1. /\ q \in Ref /\ q # NoRef
        /\ worker' = [worker EXCEPT ![w] = NoRef]
        /\ attempted' = [attempted EXCEPT ![q] = @ + 1]
        /\ UNCHANGED <<enqueued, closer, jobs>>
    BY <1>0, <1>3 DEF Uploaded, callerVars
  <2>2. ASSUME NEW r \in Ref
        PROVE  enqueued'[r] = attempted'[r] + Cardinality(Occurrences(jobs', r))
                                            + Cardinality(Uploading(worker', r))
    <3>1. Cardinality(Uploading(worker', r))
            = Cardinality(Uploading(worker, r)) - (IF q = r THEN 1 ELSE 0)
      <4>1. /\ worker[w] # NoRef /\ NoRef # r /\ worker'[w] = NoRef
            /\ \A x \in Worker \ {w} : worker'[x] = worker[x]
        BY <1>0, <2>1
      <4>2. /\ worker[w] = r => Cardinality(Uploading(worker', r))
                                  = Cardinality(Uploading(worker, r)) - 1
            /\ worker[w] # r => Cardinality(Uploading(worker', r))
                                  = Cardinality(Uploading(worker, r))
        BY <4>1, UploadingMoves
      <4> QED
        BY <1>0, <4>2
    <3>2. attempted'[r] = attempted[r] + (IF q = r THEN 1 ELSE 0)
      BY <1>0, <2>1
    <3>3. enqueued[r] = attempted[r] + Cardinality(Occurrences(jobs, r))
                                     + Cardinality(Uploading(worker, r))
      BY DEF CInv, Conserved
    <3> HIDE DEF q
    <3> QED
      BY <1>0, <2>1, <3>1, <3>2, <3>3
  <2>3. DrainedMeansExited'
    BY <1>0, <2>1 DEF CInv, DrainedMeansExited
  <2> QED
    BY <2>2, <2>3 DEF CInv, Conserved
<1>4. ASSUME NEW w \in Worker, WorkerExit(w) PROVE CInv'
  <2>1. /\ worker[w] = NoRef /\ worker' = [worker EXCEPT ![w] = Exited]
        /\ UNCHANGED <<enqueued, closer, jobs, attempted>>
    BY <1>4 DEF WorkerExit, callerVars
  <2>2. \A r \in Ref : Uploading(worker', r) = Uploading(worker, r)
    BY <1>0, <2>1 DEF Uploading
  <2>3. Conserved'
    BY <2>1, <2>2 DEF CInv, Conserved, Occurrences
  <2>4. DrainedMeansExited'
    BY <1>0, <2>1 DEF CInv, DrainedMeansExited
  <2> QED
    BY <2>3, <2>4 DEF CInv
<1>5. ASSUME UNCHANGED <<jobs, worker, enqueued, attempted>> PROVE Conserved'
  BY <1>5 DEF CInv, Conserved, Occurrences, Uploading
<1>6. ASSUME NEW k \in Closer, Drained(k) PROVE CInv'
  BY <1>5, <1>6 DEF Drained, callerVars, CInv, DrainedMeansExited
<1>7. ASSUME NEW k \in Closer, ShutdownLock(k) \/ Close(k) \/ Expire(k) PROVE CInv'
  <2>1. /\ UNCHANGED <<jobs, worker, enqueued, attempted>>
        /\ \E s \in {"locking", "nil", "draining", "error"} :
             closer' = [closer EXCEPT ![k] = s]
    BY <1>7 DEF ShutdownLock, Close, Expire, callerVars
  <2>2. DrainedMeansExited'
    BY <2>1 DEF CInv, DrainedMeansExited, UInv, UploadTypeOK
  <2> QED
    BY <1>5, <2>1, <2>2 DEF CInv
<1>8. ASSUME UNCHANGED <<jobs, worker, enqueued, attempted, closer>> PROVE CInv'
  BY <1>5, <1>8 DEF CInv, DrainedMeansExited
<1>9. ASSUME NEW c \in Caller, CallerStep(c) PROVE CInv'
  BY <1>1, <1>8, <1>9 DEF CallerStep, Check, Send, Note
<1>10. ASSUME NEW c \in Caller, NEW r \in Ref, Stamp(c, r) PROVE CInv'
  BY <1>8, <1>10 DEF Stamp
<1>11. CASE UNCHANGED uploadVars
  BY <1>8, <1>11 DEF uploadVars
<1> QED
  BY <1>2, <1>3, <1>4, <1>6, <1>7, <1>9, <1>10, <1>11 DEF UploadNext, WorkerStep

\* CInv holds from the start on.
LEMMA CInvariance == UploadSpec => []CInv
<1>1. UploadInit => CInv
  <2> SUFFICES ASSUME UploadInit PROVE CInv
    OBVIOUS
  <2>1. \A r \in Ref : Occurrences(jobs, r) = {} /\ Uploading(worker, r) = {}
    BY UploadAssumption DEF UploadInit, Occurrences, Uploading
  <2>2. \A r \in Ref : enqueued[r] = 0 /\ attempted[r] = 0
    BY DEF UploadInit
  <2>3. Conserved
    BY <2>1, <2>2, FS_EmptySet DEF Conserved
  <2> QED
    BY <2>3 DEF UploadInit, CInv, DrainedMeansExited
<1> QED
  BY <1>1, CNext, UploadInvariance, PTL DEF UploadSpec, Safety, CInv

\* No accepted upload is ever lost or attempted twice for one acceptance,
\* whatever callers, workers and closers do, and however many there are.
THEOREM NothingLost == UploadSpec => []Conserved
<1>1. CInv => Conserved
  BY DEF CInv
<1> QED
  BY <1>1, CInvariance, PTL

\* When the Shutdown that closed the queue has waited for the workers, every
\* accepted upload has been attempted and none is running.
THEOREM ShutdownDrains == UploadSpec => []DrainedMeansDone
<1>1. UInv /\ CInv => DrainedMeansDone
  <2> SUFFICES ASSUME UInv, CInv, NEW k \in Closer, closer[k] = "drained"
               PROVE  /\ \A r \in Ref : enqueued[r] = attempted[r]
                      /\ \A w \in Worker : worker[w] \notin Ref
    BY DEF DrainedMeansDone, UInv
  <2>1. \A w \in Worker : worker[w] = Exited
    BY DEF CInv, DrainedMeansExited
  <2>2. jobs = <<>>
    BY <2>1, UploadAssumption DEF UInv, ExitedMeansEmpty
  <2>3. \A w \in Worker : worker[w] \notin Ref
    BY <2>1, UploadAssumption DEF Exited
  <2>4. \A r \in Ref : Occurrences(jobs, r) = {} /\ Uploading(worker, r) = {}
    BY <2>2, <2>3 DEF Occurrences, Uploading
  <2>5. \A r \in Ref : /\ enqueued[r] = attempted[r] + 0 + 0
                        /\ attempted[r] \in Nat
    BY <2>4, FS_EmptySet DEF CInv, Conserved, UInv, UploadTypeOK
  <2> QED
    BY <2>3, <2>5
<1> QED
  BY <1>1, UploadInvariance, CInvariance, PTL
-----------------------------------------------------------------------------
(* The telemetry handler.                                                  *)

\* Which steps the kinds of invocations have.
Takes(k, at) ==
  /\ at = "measure" => k \in Measured
  /\ at = "offload" => k = "llm"
  /\ at = "emit"    => k \in {"llm", "agent"}

\* The step after a step is one of the same kind, and the error is reported first
\* and by calls of Fail alone.
LEMMA StepAfter ==
  ASSUME NEW k \in Kinds, NEW how \in Hows,
         NEW at \in {"apply", "error", "measure", "offload", "emit"}, Takes(k, at)
  PROVE  LET x == After(k, how, at)
         IN  /\ x \in Steps \ Over
             /\ Takes(k, x)
             /\ x = "error" <=> at = "apply" /\ how # "stop"
<1>1. CASE k = "llm"
  BY <1>1 DEF After, Takes, Handled, LLM, Steps, Over, Measured
<1>2. CASE k = "embedding"
  BY <1>2 DEF After, Takes, Handled, Embedding, MeasuredOnly, Steps, Over, Measured
<1>3. CASE k = "tool"
  BY <1>3 DEF After, Takes, Handled, Tool, MeasuredOnly, Steps, Over, Measured
<1>4. CASE k = "agent"
  BY <1>4 DEF After, Takes, Handled, Agent, Steps, Over, Measured
<1>5. CASE k = "create"
  BY <1>5 DEF After, Takes, Handled, Create, Unmeasured, Steps, Over, Measured
<1>6. CASE k = "retrieve"
  BY <1>6 DEF After, Takes, Handled, Retrieve, Unmeasured, Steps, Over, Measured
<1>7. CASE k = "rerank"
  BY <1>7 DEF After, Takes, Handled, Rerank, Unmeasured, Steps, Over, Measured
<1> QED
  BY <1>1, <1>2, <1>3, <1>4, <1>5, <1>6, <1>7 DEF Kinds, Has

\* The attributes of a span are known ones, and content is among them only if the
\* environment asks for it.
LEMMA AppliedAttributes ==
  ASSUME NEW k \in Kinds, NEW f \in SUBSET Fields
  PROVE  /\ Applied(k, f) \in SUBSET Attrs
         /\ "content" \in Applied(k, f) => CapturesInSpan
<1> USE DEF Applied, Attrs, Fields, AskedFields, AnsweredFields, Content
<1>1. CASE k = "llm"
  BY <1>1 DEF ApplyLLM, LLMAttributes, GetLLMCommonAttributes, GetLLMRequestAttributes,
              GetLLMResponseAttributes
<1>2. CASE k = "embedding"
  BY <1>2 DEF ApplyEmbedding
<1>3. CASE k = "tool"
  BY <1>3 DEF ApplyTool
<1>4. CASE k = "agent"
  BY <1>4 DEF ApplyAgent
<1>5. CASE k = "create"
  BY <1>5 DEF ApplyCreate
<1>6. CASE k = "retrieve"
  BY <1>6 DEF ApplyRetrieve
<1>7. CASE k = "rerank"
  BY <1>7 DEF ApplyRerank
<1> QED
  BY <1>1, <1>2, <1>3, <1>4, <1>5, <1>6, <1>7 DEF Kinds, Has

Measurement == [hist : Histograms, attrs : SUBSET Attrs, error : BOOLEAN]

\* What a call measures is well formed.
LEMMA MeasuredValues ==
  ASSUME NEW k \in Measured, NEW f \in SUBSET Fields, NEW how, NEW ran
  PROVE  Measurements(k, f, how, ran) \in SUBSET Measurement
<1>1. ASSUME NEW h \in Histograms, NEW A \in SUBSET Attrs
      PROVE  Recorded(h, A, how) \in Measurement
  BY <1>1 DEF Recorded, Measurement
<1>2. ASSUME NEW S \in SUBSET Histograms, NEW A \in SUBSET Attrs
      PROVE  {Recorded(h, A, how) : h \in S} \in SUBSET Measurement
  BY <1>1, <1>2
<1>3. /\ ClientAttrs(f) \in SUBSET Attrs
      /\ f \intersect {"target", "type"} \in SUBSET Attrs
      /\ f \intersect {"target", "id", "version"} \in SUBSET Attrs
  BY DEF ClientAttrs, Attrs, Fields, AskedFields, AnsweredFields
<1>4. \A h \in Durations : Lasting(h, ran) \in SUBSET Histograms
  BY DEF Lasting, Histograms
<1>5. \A H \in SUBSET Histograms : Known(H, f) \in SUBSET Histograms
  BY DEF Known
<1>6. CASE k = "llm"
  <2> DEFINE S == Lasting("operation.duration", ran)
                    \union Known({"token.usage", "first_chunk"}, f)
  <2>1. S \in SUBSET Histograms
    BY <1>4, <1>5 DEF Durations, Histograms
  <2>2. Measurements(k, f, how, ran) = {Recorded(h, ClientAttrs(f), how) : h \in S}
    BY <1>6 DEF Measurements, RecordLLM
  <2> HIDE DEF S
  <2> QED
    BY <1>2, <1>3, <2>1, <2>2
<1>7. CASE k = "embedding"
  <2> DEFINE S == Lasting("operation.duration", ran) \union Known({"token.usage"}, f)
  <2>1. S \in SUBSET Histograms
    BY <1>4, <1>5 DEF Durations, Histograms
  <2>2. Measurements(k, f, how, ran) = {Recorded(h, ClientAttrs(f), how) : h \in S}
    BY <1>7 DEF Measurements, RecordEmbedding
  <2> HIDE DEF S
  <2> QED
    BY <1>2, <1>3, <2>1, <2>2
<1>8. CASE k = "tool"
  <2>1. Lasting("execute_tool.duration", ran) \in SUBSET Histograms
    BY <1>4 DEF Durations
  <2> QED
    BY <1>2, <1>3, <1>8, <2>1 DEF Measurements, RecordTool
<1>9. CASE k = "agent"
  <2>1. Lasting("invoke_agent.duration", ran) \in SUBSET Histograms
    BY <1>4 DEF Durations
  <2> QED
    BY <1>2, <1>3, <1>9, <2>1 DEF Measurements, RecordAgent
<1> QED
  BY <1>6, <1>7, <1>8, <1>9 DEF Measured

\* An event is emitted only if the environment asks for events, and has content
\* only if it asks for content in them.
LEMMA EmittedEvents ==
  ASSUME NEW k \in {"llm", "agent"}, NEW f \in SUBSET Fields
  PROVE  /\ Events(k, f) \in SUBSET SUBSET Attrs
         /\ \A e \in Events(k, f) :
              EmitsEvents /\ ("content" \in e => CapturesInEvent)
<1> USE DEF Events, EventContent, Attrs, Fields, AskedFields, AnsweredFields
<1>1. CASE k = "llm"
  BY <1>1 DEF EmitLLMEvent, LLMAttributes, GetLLMCommonAttributes, GetLLMRequestAttributes,
              GetLLMResponseAttributes
<1>2. CASE k = "agent"
  BY <1>2 DEF EmitInvokeAgentEvent
<1> QED
  BY <1>1, <1>2
-----------------------------------------------------------------------------
(* The invariant.                                                          *)

\* There is no span without a handler; an invocation and a call refer to spans
\* that were started; a call that is under way is on the span its invocation has,
\* at a step of its kind; and only a call of Fail reports an error.
Linked ==
  /\ handler = {} => spans = << >>
  /\ \A i \in Inv : inv[i].span <= Len(spans)
  /\ \A n \in DOMAIN calls :
       /\ calls[n].span <= Len(spans)
       /\ calls[n].at \notin Over => inv[calls[n].inv].span = calls[n].span
       /\ Takes(kind[calls[n].inv], calls[n].at)
       /\ calls[n].at = "error" => calls[n].how # "stop"

\* Call n has gone to step x, and is the same call.
Moved(n, x) ==
  /\ calls' \in Seq(CallType) /\ Len(calls') = Len(calls)
  /\ \A m \in DOMAIN calls \ {n} : calls'[m] = calls[m]
  /\ calls'[n].inv = calls[n].inv /\ calls'[n].span = calls[n].span
  /\ calls'[n].how = calls[n].how /\ calls'[n].fields = calls[n].fields
  /\ calls'[n].at = x

\* To write one record into the sequence of calls.
LEMMA OneCall ==
  ASSUME calls \in Seq(CallType), NEW n \in DOMAIN calls, NEW r \in CallType,
         r.inv = calls[n].inv, r.span = calls[n].span, r.how = calls[n].how,
         r.fields = calls[n].fields, calls' = [calls EXCEPT ![n] = r]
  PROVE  Moved(n, r.at) /\ calls'[n] = r
BY DEF Moved

\* What the fields of a call are.
LEMMA CallFields ==
  ASSUME NEW c \in CallType
  PROVE  /\ c.inv \in Inv /\ c.span \in 1..MaxSpans /\ c.how \in Hows
         /\ c.at \in Steps /\ c.fields \in SUBSET Fields
BY DEF CallType

\* What a call that is at step x knows: its span, its kind, and where it goes next.
LEMMA UnderWay ==
  ASSUME TypeOK, Linked, NEW n \in DOMAIN calls, calls[n].at \notin Over
  PROVE  /\ calls[n] \in CallType
         /\ kind[calls[n].inv] \in Kinds
         /\ SpanOf(n) = calls[n].span /\ SpanOf(n) \in DOMAIN spans
         /\ Takes(kind[calls[n].inv], calls[n].at)
         /\ calls[n].at # "end" =>
              /\ Following(n) \in Steps \ (Over \union {"error"})
              /\ Takes(kind[calls[n].inv], Following(n))
<1>1. calls[n] \in CallType
  BY DEF TypeOK
<1>2. /\ calls[n].inv \in Inv /\ calls[n].span \in 1..MaxSpans /\ calls[n].how \in Hows
      /\ calls[n].at \in Steps
  BY <1>1, CallFields
<1>3. kind[calls[n].inv] \in Kinds
  BY <1>2 DEF TypeOK
<1>4. SpanOf(n) = calls[n].span /\ Takes(kind[calls[n].inv], calls[n].at)
  BY DEF Linked, SpanOf
<1>5. calls[n].span \in DOMAIN spans
  <2>1. calls[n].span <= Len(spans)
    BY DEF Linked
  <2>2. calls[n].span \in Nat /\ calls[n].span >= 1
    BY <1>2, HandlerAssumption
  <2>3. DOMAIN spans = 1..Len(spans) /\ Len(spans) \in Nat
    BY DEF TypeOK
  <2> QED
    BY <2>1, <2>2, <2>3
<1>6. ASSUME calls[n].at # "end"
      PROVE  /\ Following(n) \in Steps \ (Over \union {"error"})
             /\ Takes(kind[calls[n].inv], Following(n))
  <2>1. calls[n].at \in {"error", "measure", "offload", "emit"}
    BY <1>2, <1>6 DEF Steps
  <2> QED
    BY <1>2, <1>3, <1>4, <2>1, StepAfter DEF Following
<1> QED
  BY <1>1, <1>3, <1>4, <1>5, <1>6
-----------------------------------------------------------------------------
(* The steps of a call: each moves it to its next step, and records no     *)
(* more than it says.                                                      *)

\* The event and the reference of call n are as before.
NothingTold(n) == calls'[n].events = calls[n].events /\ calls'[n].ref = calls[n].ref

\* ApplyError tells the span alone.
LEMMA ErrorMoves ==
  ASSUME TypeOK, Linked, NEW n, ApplyError(n)
  PROVE  /\ n \in DOMAIN calls /\ calls[n].at = "error"
         /\ Moved(n, Following(n)) /\ NothingTold(n)
<1>1. n \in DOMAIN calls /\ calls[n].at = "error"
  BY DEF ApplyError, At
<1>2. calls[n] \in CallType /\ Following(n) \in Steps
  BY <1>1, UnderWay DEF Over
<1> DEFINE r == [calls[n] EXCEPT !.at = Following(n)]
<1>3. r \in CallType /\ r.at = Following(n)
  BY <1>2 DEF CallType
<1>4. /\ r.inv = calls[n].inv /\ r.span = calls[n].span /\ r.how = calls[n].how
      /\ r.fields = calls[n].fields /\ r.events = calls[n].events /\ r.ref = calls[n].ref
  BY <1>2 DEF CallType
<1>5. calls' = [calls EXCEPT ![n] = r]
  BY <1>1 DEF ApplyError
<1> HIDE DEF r
<1> QED
  BY <1>1, <1>3, <1>4, <1>5, OneCall DEF TypeOK, NothingTold

\* Measure records measurements that are well formed, and no more.
LEMMA MeasureMoves ==
  ASSUME TypeOK, Linked, NEW n, Measure(n)
  PROVE  /\ n \in DOMAIN calls /\ calls[n].at = "measure"
         /\ Moved(n, Following(n)) /\ NothingTold(n)
<1>1. n \in DOMAIN calls /\ calls[n].at = "measure"
  BY DEF Measure, At
<1>2. /\ calls[n] \in CallType /\ Following(n) \in Steps
      /\ kind[calls[n].inv] \in Measured
  BY <1>1, UnderWay DEF Over, Takes
<1> DEFINE i == calls[n].inv
           due == inv[i].passed /\ ~inv[i].turned
           made == Measurements(kind[i], calls[n].fields, calls[n].how,
                                now - inv[i].startS)
           r == [calls[n] EXCEPT !.at = Following(n), !.due = due, !.measured = made]
<1>3. due \in BOOLEAN
  OBVIOUS
<1>4. made \in SUBSET Measurement
  BY <1>2, CallFields, MeasuredValues
<1>5. calls' = [calls EXCEPT ![n] = r]
  BY <1>1 DEF Measure
<1> HIDE DEF due, made
<1>6. r \in CallType /\ r.at = Following(n)
  BY <1>2, <1>3, <1>4 DEF CallType, Measurement
<1>7. /\ r.inv = calls[n].inv /\ r.span = calls[n].span /\ r.how = calls[n].how
      /\ r.fields = calls[n].fields /\ r.events = calls[n].events /\ r.ref = calls[n].ref
  BY <1>2 DEF CallType
<1> HIDE DEF r
<1> QED
  BY <1>1, <1>5, <1>6, <1>7, OneCall DEF TypeOK, NothingTold

\* A reference is given by a handler with a hook.
LEMMA OffloadMoves ==
  ASSUME TypeOK, Linked, NEW n, Offload(n)
  PROVE  /\ n \in DOMAIN calls /\ calls[n].at = "offload"
         /\ Moved(n, Following(n)) \/ Moved(n, "panicked")
         /\ calls'[n].events = calls[n].events
         /\ calls'[n].ref => calls[n].ref \/ handler = {"custom"}
<1>1. n \in DOMAIN calls /\ calls[n].at = "offload"
  BY DEF Offload, At
<1>2. /\ calls[n] \in CallType /\ Following(n) \in Steps /\ SpanOf(n) \in DOMAIN spans
  BY <1>1, UnderWay DEF Over
<1>3. handler = {"noop"} \/ handler = {"custom"}
  <2>1. spans # << >>
    BY <1>2
  <2> QED
    BY <2>1 DEF TypeOK, Linked, Hooks
<1>4. CASE calls' = [calls EXCEPT ![n].at = Following(n),
                       ![n].ref = handler # {"noop"} /\ "content" \in calls[n].fields]
  <2> DEFINE given == handler # {"noop"} /\ "content" \in calls[n].fields
             r == [calls[n] EXCEPT !.at = Following(n), !.ref = given]
  <2>1. given \in BOOLEAN /\ (given => handler = {"custom"})
    BY <1>3
  <2>2. calls' = [calls EXCEPT ![n] = r]
    BY <1>1, <1>4
  <2> HIDE DEF given
  <2>3. r \in CallType /\ r.at = Following(n) /\ r.ref = given
    BY <1>2, <2>1 DEF CallType
  <2>4. /\ r.inv = calls[n].inv /\ r.span = calls[n].span /\ r.how = calls[n].how
        /\ r.fields = calls[n].fields /\ r.events = calls[n].events
    BY <1>2 DEF CallType
  <2> HIDE DEF r
  <2>5. Moved(n, r.at) /\ calls'[n] = r
    BY <1>1, <2>2, <2>3, <2>4, OneCall DEF TypeOK
  <2> QED
    BY <1>1, <2>1, <2>3, <2>4, <2>5
<1>5. CASE calls' = [calls EXCEPT ![n].at = "panicked"]
  <2> DEFINE r == [calls[n] EXCEPT !.at = "panicked"]
  <2>1. r \in CallType /\ r.at = "panicked"
    BY <1>2 DEF CallType, Steps, Over
  <2>2. /\ r.inv = calls[n].inv /\ r.span = calls[n].span /\ r.how = calls[n].how
        /\ r.fields = calls[n].fields /\ r.events = calls[n].events /\ r.ref = calls[n].ref
    BY <1>2 DEF CallType
  <2>3. calls' = [calls EXCEPT ![n] = r]
    BY <1>1, <1>5
  <2> HIDE DEF r
  <2>4. Moved(n, r.at) /\ calls'[n] = r
    BY <1>1, <2>1, <2>2, <2>3, OneCall DEF TypeOK
  <2> QED
    BY <1>1, <2>1, <2>2, <2>4
<1> QED
  BY <1>4, <1>5 DEF Offload

\* An event is told only as the environment asks for it.
LEMMA EmitMoves ==
  ASSUME TypeOK, Linked, NEW n, Emit(n)
  PROVE  /\ n \in DOMAIN calls /\ calls[n].at = "emit"
         /\ Moved(n, Following(n)) /\ calls'[n].ref = calls[n].ref
         /\ \A e \in calls'[n].events :
              EmitsEvents /\ ("content" \in e => CapturesInEvent)
<1>1. n \in DOMAIN calls /\ calls[n].at = "emit"
  BY DEF Emit, At
<1>2. /\ calls[n] \in CallType /\ Following(n) \in Steps
      /\ kind[calls[n].inv] \in {"llm", "agent"}
  BY <1>1, UnderWay DEF Over, Takes
<1> DEFINE told == Events(kind[calls[n].inv], calls[n].fields)
           r == [calls[n] EXCEPT !.at = Following(n), !.events = told]
<1>3. /\ told \in SUBSET SUBSET Attrs
      /\ \A e \in told : EmitsEvents /\ ("content" \in e => CapturesInEvent)
  BY <1>2, CallFields, EmittedEvents
<1>4. calls' = [calls EXCEPT ![n] = r]
  BY <1>1 DEF Emit
<1> HIDE DEF told
<1>5. r \in CallType /\ r.at = Following(n) /\ r.events = told
  BY <1>2, <1>3 DEF CallType
<1>6. /\ r.inv = calls[n].inv /\ r.span = calls[n].span /\ r.how = calls[n].how
      /\ r.fields = calls[n].fields /\ r.ref = calls[n].ref
  BY <1>2 DEF CallType
<1> HIDE DEF r
<1>7. Moved(n, r.at) /\ calls'[n] = r
  BY <1>1, <1>4, <1>5, <1>6, OneCall DEF TypeOK
<1> QED
  BY <1>1, <1>3, <1>5, <1>6, <1>7

\* End is the last step of a call, and tells nothing.
LEMMA EndMoves ==
  ASSUME TypeOK, Linked, NEW n, End(n)
  PROVE  /\ n \in DOMAIN calls /\ calls[n].at = "end"
         /\ Moved(n, "done") /\ NothingTold(n)
<1>1. n \in DOMAIN calls /\ calls[n].at = "end"
  BY DEF End, At
<1>2. calls[n] \in CallType
  BY <1>1 DEF TypeOK
<1> DEFINE r == [calls[n] EXCEPT !.at = "done"]
<1>3. r \in CallType /\ r.at = "done"
  BY <1>2 DEF CallType, Steps, Over
<1>4. /\ r.inv = calls[n].inv /\ r.span = calls[n].span /\ r.how = calls[n].how
      /\ r.fields = calls[n].fields /\ r.events = calls[n].events /\ r.ref = calls[n].ref
  BY <1>2 DEF CallType
<1>5. calls' = [calls EXCEPT ![n] = r]
  BY <1>1 DEF End
<1> HIDE DEF r
<1> QED
  BY <1>1, <1>3, <1>4, <1>5, OneCall DEF TypeOK, NothingTold
-----------------------------------------------------------------------------
(* The steps that begin a span, and those that change one.                 *)

\* The spans after one of them was changed to t, which the SDK does if it is open.
Changed(s, t) ==
  /\ spans' \in Seq(SpanType) /\ Len(spans') = Len(spans)
  /\ \A q \in DOMAIN spans \ {s} : spans'[q] = spans[q]
  /\ spans'[s] = IF spans[s].open THEN t ELSE spans[s]

\* To change one span, as the SDK does.
LEMMA OneSpan ==
  ASSUME spans \in Seq(SpanType), NEW s \in DOMAIN spans, NEW t \in SpanType,
         spans' = Change(s, t)
  PROVE  Changed(s, t)
BY DEF Change, Changed

\* ApplyError and End change the span of their call.
LEMMA ErrorChanges ==
  ASSUME TypeOK, Linked, NEW n, ApplyError(n)
  PROVE  /\ calls[n].span \in DOMAIN spans
         /\ Changed(calls[n].span, [spans[calls[n].span] EXCEPT !.status = "error"])
<1>1. calls[n].span \in DOMAIN spans /\ SpanOf(n) = calls[n].span
  BY UnderWay DEF ApplyError, At, Over
<1>2. spans[calls[n].span] \in SpanType
  BY <1>1 DEF TypeOK
<1>3. [spans[calls[n].span] EXCEPT !.status = "error"] \in SpanType
  BY <1>2 DEF SpanType
<1> QED
  BY <1>1, <1>3, OneSpan DEF TypeOK, ApplyError

\* End closes the span of its call, and changes nothing else of it.
LEMMA EndChanges ==
  ASSUME TypeOK, Linked, NEW n, End(n)
  PROVE  /\ calls[n].span \in DOMAIN spans
         /\ Changed(calls[n].span, [spans[calls[n].span] EXCEPT !.open = FALSE])
<1>1. calls[n].span \in DOMAIN spans /\ SpanOf(n) = calls[n].span
  BY UnderWay DEF End, At, Over
<1>2. spans[calls[n].span] \in SpanType
  BY <1>1 DEF TypeOK
<1>3. [spans[calls[n].span] EXCEPT !.open = FALSE] \in SpanType
  BY <1>2 DEF SpanType
<1> QED
  BY <1>1, <1>3, OneSpan DEF TypeOK, End

\* The span of a call as Finish leaves it.
Filled(i) ==
  [spans[inv[i].span] EXCEPT
     !.attrs = @ \union Applied(kind[i], inv[i].fields),
     !.name = IF kind[i] = "llm" THEN Name(kind[i], inv[i].fields) ELSE @]

\* The call that Finish begins.
Begun(i, how) ==
  [inv |-> i, span |-> inv[i].span, how |-> how, at |-> After(kind[i], how, "apply"),
   fields |-> inv[i].fields, due |-> FALSE, measured |-> {}, events |-> {},
   ref |-> FALSE]

\* What the fields of an invocation are.
LEMMA InvFields ==
  ASSUME TypeOK, NEW i \in Inv
  PROVE  /\ inv[i].span \in 0..MaxSpans /\ inv[i].fields \in SUBSET Fields
         /\ kind[i] \in Kinds
BY DEF TypeOK

\* Finish fills in the span of the invocation and begins a call on it, at a step of
\* its kind; the error comes first if the call is one of Fail.
LEMMA FinishBegins ==
  ASSUME TypeOK, Linked, NEW i \in Inv, NEW how \in Hows, Finish(i, how)
  PROVE  /\ inv[i].span \in DOMAIN spans
         /\ Filled(i) \in SpanType /\ Changed(inv[i].span, Filled(i))
         /\ Begun(i, how) \in CallType
         /\ calls' = Append(calls, Begun(i, how))
         /\ Begun(i, how).at \in Steps \ Over
         /\ Takes(kind[i], Begun(i, how).at)
         /\ Begun(i, how).at = "error" <=> how # "stop"
<1>1. /\ inv[i].span \in 1..MaxSpans /\ inv[i].fields \in SUBSET Fields
      /\ kind[i] \in Kinds
  BY InvFields, HandlerAssumption DEF Finish
<1>2. inv[i].span \in DOMAIN spans
  <2>1. DOMAIN spans = 1..Len(spans) /\ Len(spans) \in Nat
    BY DEF TypeOK
  <2> QED
    BY <1>1, <2>1, HandlerAssumption DEF Linked
<1>3. spans[inv[i].span] \in SpanType
  BY <1>2 DEF TypeOK
<1>4. Filled(i) \in SpanType
  <2>1. Applied(kind[i], inv[i].fields) \in SUBSET Attrs
    BY <1>1, AppliedAttributes
  <2>2. Name(kind[i], inv[i].fields) \in SUBSET Fields
    BY <1>1 DEF Name
  <2> QED
    BY <1>3, <2>1, <2>2 DEF Filled, SpanType
<1>5. spans' = Change(inv[i].span, Filled(i))
  BY DEF Finish, Filled
<1>6. Changed(inv[i].span, Filled(i))
  BY <1>2, <1>4, <1>5, OneSpan DEF TypeOK
<1>7. calls' = Append(calls, Begun(i, how))
  BY DEF Finish, Begun
<1>8. /\ After(kind[i], how, "apply") \in Steps \ Over
      /\ Takes(kind[i], After(kind[i], how, "apply"))
      /\ After(kind[i], how, "apply") = "error" <=> how # "stop"
  <2>1. Takes(kind[i], "apply")
    BY DEF Takes
  <2> QED
    BY <1>1, <2>1, StepAfter
<1>9. Begun(i, how) \in CallType
  BY <1>1, <1>8 DEF Begun, CallType
<1> QED
  BY <1>2, <1>4, <1>6, <1>7, <1>8, <1>9 DEF Begun
-----------------------------------------------------------------------------
(* The steps that write an invocation.                                     *)

InvType == [span : 0..MaxSpans, startS : 0..MaxNow, fields : SUBSET Fields,
            passed : BOOLEAN, turned : BOOLEAN]

\* The span Start begins.
Fresh(i) == [inv |-> i, name |-> Name(kind[i], inv[i].fields), attrs |-> {},
             status |-> "unset", open |-> TRUE]

\* Start begins a span and gives it to the invocation, whatever it had.
LEMMA StartBegins ==
  ASSUME TypeOK, NEW i \in Inv, Start(i)
  PROVE  /\ spans' = Append(spans, Fresh(i)) /\ Fresh(i) \in SpanType
         /\ inv' \in [Inv -> InvType] /\ inv'[i].span = Len(spans) + 1
         /\ \A j \in Inv \ {i} : inv'[j] = inv[j]
<1>1. Fresh(i) \in SpanType
  BY InvFields DEF Fresh, SpanType, Name
<1>2. spans' = Append(spans, Fresh(i))
  BY DEF Start, Fresh
<1>3. inv[i] \in InvType /\ inv \in [Inv -> InvType]
  BY DEF TypeOK, InvType
<1> DEFINE r == [inv[i] EXCEPT !.span = Len(spans) + 1, !.startS = now,
                               !.passed = FALSE, !.turned = FALSE]
<1>4. Len(spans) + 1 \in 0..MaxSpans /\ now \in 0..MaxNow
  BY HandlerAssumption DEF TypeOK, Start
<1>5. r \in InvType /\ r.span = Len(spans) + 1
  BY <1>3, <1>4 DEF InvType
<1>6. inv' = [inv EXCEPT ![i] = r]
  BY <1>3 DEF Start
<1> HIDE DEF r
<1> QED
  BY <1>1, <1>2, <1>3, <1>5, <1>6

\* The application, and the clock, leave the spans of invocations alone.
SameSpans == inv' \in [Inv -> InvType] /\ \A j \in Inv : inv'[j].span = inv[j].span

\* What the application fills in leaves the spans of invocations alone.
LEMMA Written ==
  ASSUME TypeOK, NEW i \in Inv, Ask(i) \/ Answer(i)
  PROVE  SameSpans
<1>1. inv[i] \in InvType /\ inv \in [Inv -> InvType]
  BY DEF TypeOK, InvType
<1>2. PICK F \in SUBSET Fields :
        inv' = [inv EXCEPT ![i] = [inv[i] EXCEPT !.fields = inv[i].fields \union F]]
  <2>1. CASE Ask(i)
    <3>1. AskedFields \intersect Has[kind[i]] \in SUBSET Fields
      BY DEF Fields
    <3> QED
      BY <1>1, <2>1, <3>1 DEF Ask
  <2>2. CASE Answer(i)
    <3>1. AnsweredFields \intersect Has[kind[i]] \in SUBSET Fields
      BY DEF Fields
    <3> QED
      BY <1>1, <2>2, <3>1 DEF Answer
  <2> QED
    BY <2>1, <2>2
<1>3. [inv[i] EXCEPT !.fields = inv[i].fields \union F] \in InvType
  BY <1>1 DEF InvType
<1>4. [inv[i] EXCEPT !.fields = inv[i].fields \union F].span = inv[i].span
  BY <1>1 DEF InvType
<1> QED
  BY <1>1, <1>2, <1>3, <1>4 DEF SameSpans

\* The clock leaves the spans of invocations alone.
LEMMA Passed ==
  ASSUME TypeOK, Tick \/ SetBack
  PROVE  SameSpans /\ now' \in 0..MaxNow
<1>1. inv \in [Inv -> InvType] /\ now \in 0..MaxNow
  BY DEF TypeOK, InvType
<1>2. CASE Tick
  <2>1. inv' = [i \in Inv |-> [inv[i] EXCEPT !.passed = TRUE]]
    BY <1>2 DEF Tick
  <2>2. \A i \in Inv : /\ [inv[i] EXCEPT !.passed = TRUE] \in InvType
                       /\ [inv[i] EXCEPT !.passed = TRUE].span = inv[i].span
    BY <1>1 DEF InvType
  <2>3. SameSpans
    BY <2>1, <2>2 DEF SameSpans
  <2>4. now' \in 0..MaxNow
    BY <1>1, <1>2, HandlerAssumption DEF Tick
  <2> QED
    BY <2>3, <2>4
<1>3. CASE SetBack
  <2>1. inv' = [i \in Inv |-> [inv[i] EXCEPT !.turned = TRUE]]
    BY <1>3 DEF SetBack
  <2>2. \A i \in Inv : /\ [inv[i] EXCEPT !.turned = TRUE] \in InvType
                       /\ [inv[i] EXCEPT !.turned = TRUE].span = inv[i].span
    BY <1>1 DEF InvType
  <2>3. SameSpans
    BY <2>1, <2>2 DEF SameSpans
  <2>4. now' \in 0..MaxNow
    BY <1>1, <1>3, HandlerAssumption DEF SetBack
  <2> QED
    BY <2>3, <2>4
<1> QED
  BY <1>2, <1>3
-----------------------------------------------------------------------------
(* Types.                                                                  *)

\* Every step keeps the state well formed.
LEMMA TypesKept == TypeOK /\ Linked /\ [Next]_vars => TypeOK'
<1> SUFFICES ASSUME TypeOK, Linked, [Next]_vars PROVE TypeOK'
  OBVIOUS
<1> USE DEF TypeOK
<1>1. CASE UNCHANGED vars
  BY <1>1 DEF vars
<1>2. ASSUME NEW hook \in Hooks, GetTelemetryHandler(hook) PROVE TypeOK'
  BY <1>2 DEF GetTelemetryHandler
<1>3. ASSUME NEW i \in Inv, Ask(i) \/ Answer(i) PROVE TypeOK'
  BY <1>3, Written DEF Ask, Answer, SameSpans, InvType
<1>4. ASSUME NEW i \in Inv, Start(i) PROVE TypeOK'
  <2>1. spans' \in Seq(SpanType) /\ Len(spans') <= MaxSpans
    <3>1. /\ spans' = Append(spans, Fresh(i)) /\ Fresh(i) \in SpanType
          /\ Len(spans) < MaxSpans
      BY <1>4, StartBegins DEF Start
    <3> QED
      BY <3>1, HandlerAssumption
  <2>2. UNCHANGED <<handler, env, kind, calls, now>>
    BY <1>4 DEF Start
  <2>3. inv' \in [Inv -> InvType]
    BY <1>4, StartBegins
  <2> QED
    BY <2>1, <2>2, <2>3 DEF InvType
<1>5. ASSUME NEW i \in Inv, NEW how \in Hows, Finish(i, how) PROVE TypeOK'
  <2>1. calls' \in Seq(CallType) /\ Len(calls') <= MaxCalls
    <3>1. /\ calls' = Append(calls, Begun(i, how)) /\ Begun(i, how) \in CallType
          /\ Len(calls) < MaxCalls
      BY <1>5, FinishBegins DEF Finish
    <3> QED
      BY <3>1, HandlerAssumption
  <2>2. spans' \in Seq(SpanType) /\ Len(spans') <= MaxSpans
    BY <1>5, FinishBegins DEF Changed
  <2>3. UNCHANGED <<handler, env, kind, inv, now>>
    BY <1>5 DEF Finish
  <2> QED
    BY <2>1, <2>2, <2>3
<1>6. ASSUME NEW n \in 1..MaxCalls, ApplyError(n) PROVE TypeOK'
  BY <1>6, ErrorMoves, ErrorChanges DEF ApplyError, Moved, Changed
<1>7. ASSUME NEW n \in 1..MaxCalls, Measure(n) PROVE TypeOK'
  BY <1>7, MeasureMoves DEF Measure, Moved
<1>8. ASSUME NEW n \in 1..MaxCalls, Offload(n) PROVE TypeOK'
  BY <1>8, OffloadMoves DEF Offload, Moved
<1>9. ASSUME NEW n \in 1..MaxCalls, Emit(n) PROVE TypeOK'
  BY <1>9, EmitMoves DEF Emit, Moved
<1>10. ASSUME NEW n \in 1..MaxCalls, End(n) PROVE TypeOK'
  BY <1>10, EndMoves, EndChanges DEF End, Moved, Changed
<1>11. CASE Tick \/ SetBack
  BY <1>11, Passed DEF Tick, SetBack, SameSpans, InvType
<1> QED
  BY <1>1, <1>2, <1>3, <1>4, <1>5, <1>6, <1>7, <1>8, <1>9, <1>10, <1>11 DEF Next
-----------------------------------------------------------------------------
(* Links.                                                                  *)

\* A call that goes on to a step of its kind stays on its span.
LEMMA LinkedMoved ==
  ASSUME TypeOK, Linked, NEW n \in DOMAIN calls, calls[n].at \notin Over,
         NEW x, Moved(n, x), Takes(kind[calls[n].inv], x), x # "error",
         Len(spans') = Len(spans), UNCHANGED <<handler, kind, inv>>
  PROVE  Linked'
<1>1. handler # {}
  BY UnderWay DEF Linked
<1>2. DOMAIN calls' = DOMAIN calls
  BY DEF Moved, TypeOK
<1>3. ASSUME NEW m \in DOMAIN calls
      PROVE  /\ calls'[m].span <= Len(spans)
             /\ calls'[m].at \notin Over => inv[calls'[m].inv].span = calls'[m].span
             /\ Takes(kind[calls'[m].inv], calls'[m].at)
             /\ calls'[m].at = "error" => calls'[m].how # "stop"
  BY DEF Linked, Moved
<1> QED
  BY <1>1, <1>2, <1>3 DEF Linked, Takes

\* Every step keeps calls on the spans of their invocations: Start waits for calls
\* on its invocation, and Finish takes the span the invocation has.
LEMMA LinkedKept == TypeOK /\ Linked /\ [Next]_vars => Linked'
<1> SUFFICES ASSUME TypeOK, Linked, [Next]_vars PROVE Linked'
  OBVIOUS
<1>1. CASE UNCHANGED vars
  BY <1>1 DEF vars, Linked, Takes
<1>2. ASSUME NEW hook \in Hooks, GetTelemetryHandler(hook) PROVE Linked'
  <2>1. handler' # {} /\ UNCHANGED <<kind, inv, spans, calls>>
    BY <1>2 DEF GetTelemetryHandler
  <2> QED
    BY <2>1 DEF Linked, Takes
<1>3. ASSUME SameSpans, UNCHANGED <<handler, kind, spans, calls>> PROVE Linked'
  <2>1. \A n \in DOMAIN calls : calls[n].inv \in Inv
    BY CallFields DEF TypeOK
  <2> QED
    BY <1>3, <2>1 DEF Linked, Takes, SameSpans
<1>4. ASSUME NEW i \in Inv, Start(i) PROVE Linked'
  <2>1. /\ Len(spans') = Len(spans) + 1 /\ Len(spans) \in Nat
        /\ inv'[i].span = Len(spans) + 1 /\ \A j \in Inv \ {i} : inv'[j] = inv[j]
    BY <1>4, StartBegins DEF TypeOK
  <2>2. handler' # {} /\ UNCHANGED <<kind, calls>>
    BY <1>4 DEF Start
  <2>3. \A j \in Inv : inv'[j].span <= Len(spans')
    <3>1. \A j \in Inv : inv[j].span \in Nat
      BY InvFields, HandlerAssumption
    <3> QED
      BY <2>1, <3>1 DEF Linked
  <2>4. ASSUME NEW n \in DOMAIN calls
        PROVE  /\ calls[n].span <= Len(spans')
               /\ calls[n].at \notin Over => inv'[calls[n].inv].span = calls[n].span
    <3>1. calls[n].inv \in Inv /\ calls[n].span \in Nat
      BY CallFields, HandlerAssumption DEF TypeOK
    <3>2. calls[n].at \notin Over => calls[n].inv # i
      BY <1>4 DEF Start, Free
    <3> QED
      BY <2>1, <3>1, <3>2 DEF Linked
  <2> QED
    BY <2>2, <2>3, <2>4 DEF Linked, Takes
<1>5. ASSUME NEW i \in Inv, NEW how \in Hows, Finish(i, how) PROVE Linked'
  <2>1. /\ UNCHANGED <<handler, kind, inv>> /\ Len(spans') = Len(spans)
        /\ inv[i].span \in DOMAIN spans
    BY <1>5, FinishBegins DEF Finish, Changed
  <2>2. /\ calls' = Append(calls, Begun(i, how))
        /\ Begun(i, how).inv = i /\ Begun(i, how).span = inv[i].span
        /\ Takes(kind[i], Begun(i, how).at)
        /\ Begun(i, how).at = "error" => Begun(i, how).how # "stop"
    BY <1>5, FinishBegins DEF Begun
  <2> DEFINE c == Begun(i, how)
  <2> HIDE DEF c
  <2>3. /\ calls' = Append(calls, c) /\ c.inv = i /\ c.span = inv[i].span
        /\ Takes(kind[i], c.at) /\ (c.at = "error" => c.how # "stop")
    BY <2>2 DEF c
  <2>4. /\ DOMAIN calls' = DOMAIN calls \union {Len(calls) + 1}
        /\ calls'[Len(calls) + 1] = c
        /\ \A m \in DOMAIN calls : calls'[m] = calls[m]
    BY <2>3 DEF TypeOK
  <2>5. handler # {}
    BY <2>1 DEF Linked
  <2>6. \A m \in DOMAIN calls' :
          /\ calls'[m].span <= Len(spans')
          /\ calls'[m].at \notin Over => inv[calls'[m].inv].span = calls'[m].span
          /\ Takes(kind[calls'[m].inv], calls'[m].at)
          /\ calls'[m].at = "error" => calls'[m].how # "stop"
    BY <2>1, <2>3, <2>4 DEF Linked
  <2> QED
    BY <2>1, <2>5, <2>6 DEF Linked, Takes
<1>6. ASSUME NEW n \in 1..MaxCalls, ApplyError(n) PROVE Linked'
  <2>1. n \in DOMAIN calls /\ calls[n].at = "error" /\ Moved(n, Following(n))
    BY <1>6, ErrorMoves
  <2>2. Takes(kind[calls[n].inv], Following(n)) /\ Following(n) # "error"
    BY <2>1, UnderWay DEF Over
  <2>3. Len(spans') = Len(spans) /\ UNCHANGED <<handler, kind, inv>>
    BY <1>6, ErrorChanges DEF Changed, ApplyError
  <2> QED
    BY <2>1, <2>2, <2>3, LinkedMoved DEF Over
<1>7. ASSUME NEW n \in 1..MaxCalls, Measure(n) PROVE Linked'
  <2>1. n \in DOMAIN calls /\ calls[n].at = "measure" /\ Moved(n, Following(n))
    BY <1>7, MeasureMoves
  <2>2. Takes(kind[calls[n].inv], Following(n)) /\ Following(n) # "error"
    BY <2>1, UnderWay DEF Over
  <2>3. UNCHANGED <<handler, kind, inv, spans>>
    BY <1>7 DEF Measure
  <2> QED
    BY <2>1, <2>2, <2>3, LinkedMoved DEF Over
<1>8. ASSUME NEW n \in 1..MaxCalls, Offload(n) PROVE Linked'
  <2>1. /\ n \in DOMAIN calls /\ calls[n].at = "offload"
        /\ Moved(n, Following(n)) \/ Moved(n, "panicked")
    BY <1>8, OffloadMoves
  <2>2. Takes(kind[calls[n].inv], Following(n)) /\ Following(n) # "error"
    BY <2>1, UnderWay DEF Over
  <2>3. UNCHANGED <<handler, kind, inv, spans>>
    BY <1>8 DEF Offload
  <2>4. Takes(kind[calls[n].inv], "panicked")
    BY DEF Takes
  <2> QED
    BY <2>1, <2>2, <2>3, <2>4, LinkedMoved DEF Over
<1>9. ASSUME NEW n \in 1..MaxCalls, Emit(n) PROVE Linked'
  <2>1. n \in DOMAIN calls /\ calls[n].at = "emit" /\ Moved(n, Following(n))
    BY <1>9, EmitMoves
  <2>2. Takes(kind[calls[n].inv], Following(n)) /\ Following(n) # "error"
    BY <2>1, UnderWay DEF Over
  <2>3. UNCHANGED <<handler, kind, inv, spans>>
    BY <1>9 DEF Emit
  <2> QED
    BY <2>1, <2>2, <2>3, LinkedMoved DEF Over
<1>10. ASSUME NEW n \in 1..MaxCalls, End(n) PROVE Linked'
  <2>1. n \in DOMAIN calls /\ calls[n].at = "end" /\ Moved(n, "done")
    BY <1>10, EndMoves
  <2>2. Len(spans') = Len(spans) /\ UNCHANGED <<handler, kind, inv>>
    BY <1>10, EndChanges DEF Changed, End
  <2>3. Takes(kind[calls[n].inv], "done")
    BY DEF Takes
  <2> QED
    BY <2>1, <2>2, <2>3, LinkedMoved DEF Over
<1>11. ASSUME NEW i \in Inv, Ask(i) \/ Answer(i) PROVE Linked'
  BY <1>3, <1>11, Written DEF Ask, Answer
<1>12. CASE Tick \/ SetBack
  BY <1>3, <1>12, Passed DEF Tick, SetBack
<1> QED
  BY <1>1, <1>2, <1>4, <1>5, <1>6, <1>7, <1>8, <1>9, <1>10, <1>11, <1>12 DEF Next
-----------------------------------------------------------------------------
(* Settled.                                                                *)

SettledOn(s) ==
  /\ spans[s].open <=> \A n \in CallsOn(s) : calls[n].at # "done"
  /\ spans[s].status = "error" => \E n \in CallsOn(s) : Failed(calls[n])
  /\ \A n \in CallsOn(s) :
       Failed(calls[n]) /\ calls[n].at # "error" /\ spans[s].status # "error" =>
         \E m \in CallsOn(s) \ {n} : calls[m].at = "done"

\* The calls on a span are the same after a step of one of them.
LEMMA SameCalls ==
  ASSUME TypeOK, NEW n \in DOMAIN calls, NEW x, Moved(n, x)
  PROVE  /\ DOMAIN calls' = DOMAIN calls
         /\ \A s : CallsOn(s)' = CallsOn(s)
         /\ \A m \in DOMAIN calls : /\ calls'[m].how = calls[m].how
                                    /\ calls'[m].span = calls[m].span
                                    /\ m # n => calls'[m].at = calls[m].at
         /\ calls'[n].at = x
<1>1. DOMAIN calls' = DOMAIN calls
  BY DEF Moved, TypeOK
<1>2. \A m \in DOMAIN calls : /\ calls'[m].how = calls[m].how
                              /\ calls'[m].span = calls[m].span
                              /\ m # n => calls'[m].at = calls[m].at
  BY DEF Moved
<1>3. ASSUME NEW s PROVE CallsOn(s)' = CallsOn(s)
  BY <1>1, <1>2 DEF CallsOn
<1> QED
  BY <1>1, <1>2, <1>3 DEF Moved

\* A step that is neither an error nor the end tells the span nothing.
LEMMA SettledMoved ==
  ASSUME TypeOK, Settled, NEW n \in DOMAIN calls, NEW x, Moved(n, x),
         calls[n].at \notin Over \union {"error"}, x # "done", UNCHANGED spans
  PROVE  Settled'
<1> SUFFICES ASSUME NEW s \in DOMAIN spans PROVE SettledOn(s)'
  BY DEF Settled, SettledOn
<1>1. SettledOn(s)
  BY DEF Settled, SettledOn
<1>2. CallsOn(s) \subseteq DOMAIN calls
  BY DEF CallsOn
<1>3. /\ CallsOn(s)' = CallsOn(s)
      /\ \A m \in DOMAIN calls : /\ calls'[m].how = calls[m].how
                                 /\ m # n => calls'[m].at = calls[m].at
      /\ calls'[n].at = x
  BY SameCalls
<1>4. calls[n].at # "done" /\ calls[n].at # "error"
  BY DEF Over
<1> QED
  BY <1>1, <1>2, <1>3, <1>4 DEF SettledOn, Failed

\* Every step keeps spans as Settled says: the error is reported before a call may
\* end its span, and only a call that ends it closes it.
LEMMA SettledKept == TypeOK /\ Linked /\ Settled /\ [Next]_vars => Settled'
<1> SUFFICES ASSUME TypeOK, Linked, Settled, [Next]_vars PROVE Settled'
  OBVIOUS
<1>0. \A s \in DOMAIN spans : SettledOn(s)
  BY DEF Settled, SettledOn
<1>1. ASSUME UNCHANGED <<spans, calls>> PROVE Settled'
  BY <1>1 DEF Settled, CallsOn, Failed
<1>2. ASSUME NEW i \in Inv, Start(i) PROVE Settled'
  <2>1. spans' = Append(spans, Fresh(i)) /\ UNCHANGED calls
    BY <1>2, StartBegins DEF Start
  <2>2. /\ DOMAIN spans' = DOMAIN spans \union {Len(spans) + 1}
        /\ spans'[Len(spans) + 1] = Fresh(i)
        /\ \A s \in DOMAIN spans : spans'[s] = spans[s]
    BY <2>1 DEF TypeOK
  <2>3. ASSUME NEW s \in DOMAIN spans PROVE SettledOn(s)'
    BY <1>0, <2>1, <2>2, <2>3 DEF SettledOn, CallsOn, Failed
  <2>4. ASSUME NEW s, s = Len(spans) + 1 PROVE SettledOn(s)'
    <3>1. ASSUME NEW n \in DOMAIN calls PROVE calls[n].span # s
      <4>1. calls[n].span <= Len(spans) /\ calls[n].span \in Nat /\ Len(spans) \in Nat
        BY CallFields, HandlerAssumption DEF TypeOK, Linked
      <4> QED
        BY <4>1, <2>4
    <3>2. CallsOn(s)' = {}
      BY <2>1, <3>1 DEF CallsOn
    <3>3. spans'[s].open = TRUE /\ spans'[s].status = "unset"
      BY <2>2, <2>4 DEF Fresh
    <3> QED
      BY <3>2, <3>3 DEF SettledOn
  <2> QED
    BY <2>2, <2>3, <2>4 DEF Settled, SettledOn
<1>3. ASSUME NEW i \in Inv, NEW how \in Hows, Finish(i, how) PROVE Settled'
  <2> DEFINE c == Begun(i, how)  p == inv[i].span
  <2>1. /\ calls' = Append(calls, c) /\ p \in DOMAIN spans /\ Changed(p, Filled(i))
        /\ c.at \notin Over /\ (c.at = "error" <=> how # "stop")
    BY <1>3, FinishBegins
  <2>2. c.span = p /\ c.how = how
    BY DEF Begun
  <2>3. Filled(i).open = spans[p].open /\ Filled(i).status = spans[p].status
    <3>1. spans[p] \in SpanType
      BY <2>1 DEF TypeOK
    <3> QED
      BY <3>1 DEF Filled, SpanType
  <2> HIDE DEF c
  <2>4. /\ DOMAIN calls' = DOMAIN calls \union {Len(calls) + 1}
        /\ calls'[Len(calls) + 1] = c /\ Len(calls) + 1 \notin DOMAIN calls
        /\ \A m \in DOMAIN calls : calls'[m] = calls[m]
    BY <2>1 DEF TypeOK
  <2>5. /\ DOMAIN spans' = DOMAIN spans
        /\ \A s \in DOMAIN spans : /\ spans'[s].open = spans[s].open
                                   /\ spans'[s].status = spans[s].status
    BY <2>1, <2>3 DEF Changed, TypeOK
  <2>6. ASSUME NEW s \in DOMAIN spans PROVE SettledOn(s)'
    <3>1. CallsOn(s)' = CallsOn(s) \union (IF s = p THEN {Len(calls) + 1} ELSE {})
      BY <2>2, <2>4 DEF CallsOn
    <3>2. CallsOn(s) \subseteq DOMAIN calls
      BY DEF CallsOn
    <3>3. SettledOn(s)
      BY <1>0
    <3>4. c.at # "done" /\ (Failed(c) => c.at = "error")
      BY <2>1, <2>2 DEF Over, Failed
    <3> HIDE DEF p
    <3> QED
      BY <2>4, <2>5, <3>1, <3>2, <3>3, <3>4 DEF SettledOn, Failed
  <2> QED
    BY <2>5, <2>6 DEF Settled, SettledOn
<1>4. ASSUME NEW n \in 1..MaxCalls, ApplyError(n) PROVE Settled'
  <2> DEFINE p == calls[n].span
  <2>1. n \in DOMAIN calls /\ calls[n].at = "error" /\ Moved(n, Following(n))
    BY <1>4, ErrorMoves
  <2>2. p \in DOMAIN spans /\ Changed(p, [spans[p] EXCEPT !.status = "error"])
    BY <1>4, ErrorChanges
  <2>3. /\ DOMAIN spans' = DOMAIN spans
        /\ \A s \in DOMAIN spans : spans'[s].open = spans[s].open
        /\ \A s \in DOMAIN spans \ {p} : spans'[s].status = spans[s].status
        /\ spans'[p].status = IF spans[p].open THEN "error" ELSE spans[p].status
    <3>1. spans[p] \in SpanType
      BY <2>2 DEF TypeOK
    <3>2. [spans[p] EXCEPT !.status = "error"].open = spans[p].open
      BY <3>1 DEF SpanType
    <3>3. [spans[p] EXCEPT !.status = "error"].status = "error"
      BY <3>1 DEF SpanType
    <3>4. DOMAIN spans' = DOMAIN spans
      BY <2>2 DEF Changed, TypeOK
    <3>5. \A s \in DOMAIN spans \ {p} : spans'[s] = spans[s]
      BY <2>2 DEF Changed
    <3>6. CASE spans[p].open
      <4>1. spans'[p] = [spans[p] EXCEPT !.status = "error"]
        BY <2>2, <3>6 DEF Changed
      <4> HIDE DEF p
      <4> QED
        BY <3>2, <3>3, <3>4, <3>5, <3>6, <4>1
    <3>7. CASE ~spans[p].open
      <4>1. spans'[p] = spans[p]
        BY <2>2, <3>7 DEF Changed
      <4> HIDE DEF p
      <4> QED
        BY <3>4, <3>5, <3>7, <4>1
    <3> QED
      BY <3>6, <3>7
  <2>4. /\ \A s : CallsOn(s)' = CallsOn(s)
        /\ \A m \in DOMAIN calls : /\ calls'[m].how = calls[m].how
                                   /\ m # n => calls'[m].at = calls[m].at
        /\ calls'[n].at # "done" /\ calls'[n].at # "error"
    BY <2>1, SameCalls, UnderWay DEF Over
  <2>5. Failed(calls[n]) /\ n \in CallsOn(p)
    BY <2>1 DEF Linked, Failed, CallsOn
  <2>6. ASSUME NEW s \in DOMAIN spans PROVE SettledOn(s)'
    <3>1. CallsOn(s) \subseteq DOMAIN calls /\ (n \in CallsOn(s) <=> s = p)
      BY <2>1 DEF CallsOn
    <3>2. SettledOn(s)
      BY <1>0
    <3> HIDE DEF p
    <3>3. CASE s # p
      BY <2>3, <2>4, <2>6, <3>1, <3>2, <3>3 DEF SettledOn, Failed
    <3>4. CASE s = p /\ spans[p].open
      <4>1. spans'[s].status = "error" /\ spans'[s].open /\ spans[s].open
        BY <2>3, <3>4
      <4>2. n \in CallsOn(s)' /\ Failed(calls[n])'
        BY <2>1, <2>4, <2>5, <3>4 DEF Failed
      <4>3. \A m \in CallsOn(s)' : calls'[m].at # "done"
        BY <2>4, <3>1, <3>2, <4>1 DEF SettledOn
      <4> QED
        BY <4>1, <4>2, <4>3 DEF SettledOn
    <3>5. CASE s = p /\ ~spans[p].open
      <4>1. spans'[s].status = spans[s].status /\ spans'[s].open = spans[s].open
        BY <2>3, <3>5
      <4>2. PICK d \in CallsOn(s) : calls[d].at = "done"
        BY <3>2, <3>5 DEF SettledOn
      <4>3. d # n /\ d \in CallsOn(s)' /\ calls'[d].at = "done"
        BY <2>1, <2>4, <3>1, <4>2
      <4>4. ~spans'[s].open
        BY <3>5, <4>1
      <4>5. spans[s].status = "error" => \E m \in CallsOn(s)' : Failed(calls[m])'
        BY <2>4, <3>1, <3>2 DEF SettledOn, Failed
      <4>6. ASSUME NEW k \in CallsOn(s), Failed(calls[k])', calls'[k].at # "error",
                   spans[s].status # "error"
            PROVE  \E m \in CallsOn(s)' \ {k} : calls'[m].at = "done"
        <5>1. CASE k = n
          BY <4>3, <5>1
        <5>2. CASE k # n
          <6>1. PICK m \in CallsOn(s) \ {k} : calls[m].at = "done"
            BY <2>4, <3>1, <3>2, <4>6, <5>2 DEF SettledOn, Failed
          <6>2. m # n /\ m \in CallsOn(s)' /\ calls'[m].at = "done"
            BY <2>1, <2>4, <3>1, <6>1
          <6> QED
            BY <6>1, <6>2
        <5> QED
          BY <5>1, <5>2
      <4>7. CallsOn(s)' = CallsOn(s)
        BY <2>4
      <4> QED
        BY <4>1, <4>3, <4>4, <4>5, <4>6, <4>7 DEF SettledOn
    <3> QED
      BY <3>3, <3>4, <3>5
  <2> QED
    BY <2>3, <2>6 DEF Settled, SettledOn
<1>5. ASSUME NEW n \in 1..MaxCalls, Measure(n) PROVE Settled'
  <2>1. n \in DOMAIN calls /\ calls[n].at = "measure" /\ Moved(n, Following(n))
    BY <1>5, MeasureMoves
  <2>2. Following(n) # "done" /\ UNCHANGED spans
    BY <1>5, <2>1, UnderWay DEF Over, Measure
  <2> QED
    BY <2>1, <2>2, SettledMoved DEF Over
<1>6. ASSUME NEW n \in 1..MaxCalls, Offload(n) PROVE Settled'
  <2>1. /\ n \in DOMAIN calls /\ calls[n].at = "offload"
        /\ Moved(n, Following(n)) \/ Moved(n, "panicked")
    BY <1>6, OffloadMoves
  <2>2. Following(n) # "done" /\ UNCHANGED spans
    BY <1>6, <2>1, UnderWay DEF Over, Offload
  <2> QED
    BY <2>1, <2>2, SettledMoved DEF Over
<1>7. ASSUME NEW n \in 1..MaxCalls, Emit(n) PROVE Settled'
  <2>1. n \in DOMAIN calls /\ calls[n].at = "emit" /\ Moved(n, Following(n))
    BY <1>7, EmitMoves
  <2>2. Following(n) # "done" /\ UNCHANGED spans
    BY <1>7, <2>1, UnderWay DEF Over, Emit
  <2> QED
    BY <2>1, <2>2, SettledMoved DEF Over
<1>8. ASSUME NEW n \in 1..MaxCalls, End(n) PROVE Settled'
  <2> DEFINE p == calls[n].span
  <2>1. n \in DOMAIN calls /\ calls[n].at = "end" /\ Moved(n, "done")
    BY <1>8, EndMoves
  <2>2. p \in DOMAIN spans /\ Changed(p, [spans[p] EXCEPT !.open = FALSE])
    BY <1>8, EndChanges
  <2>3. /\ DOMAIN spans' = DOMAIN spans
        /\ \A s \in DOMAIN spans : spans'[s].status = spans[s].status
        /\ \A s \in DOMAIN spans \ {p} : spans'[s].open = spans[s].open
        /\ spans'[p].open = FALSE
    <3>1. spans[p] \in SpanType
      BY <2>2 DEF TypeOK
    <3>2. [spans[p] EXCEPT !.open = FALSE].status = spans[p].status
      BY <3>1 DEF SpanType
    <3>3. [spans[p] EXCEPT !.open = FALSE].open = FALSE /\ spans[p].open \in BOOLEAN
      BY <3>1 DEF SpanType
    <3>4. DOMAIN spans' = DOMAIN spans
      BY <2>2 DEF Changed, TypeOK
    <3>5. \A s \in DOMAIN spans \ {p} : spans'[s] = spans[s]
      BY <2>2 DEF Changed
    <3>6. spans'[p].open = FALSE /\ spans'[p].status = spans[p].status
      <4>1. CASE spans[p].open
        <5>1. spans'[p] = [spans[p] EXCEPT !.open = FALSE]
          BY <2>2, <4>1 DEF Changed
        <5> QED
          BY <3>2, <3>3, <5>1
      <4>2. CASE ~spans[p].open
        <5>1. spans'[p] = spans[p]
          BY <2>2, <4>2 DEF Changed
        <5> QED
          BY <3>3, <4>2, <5>1
      <4> QED
        BY <4>1, <4>2
    <3> HIDE DEF p
    <3> QED
      BY <3>4, <3>5, <3>6
  <2>4. /\ \A s : CallsOn(s)' = CallsOn(s)
        /\ \A m \in DOMAIN calls : /\ calls'[m].how = calls[m].how
                                   /\ m # n => calls'[m].at = calls[m].at
        /\ calls'[n].at = "done"
    BY <2>1, SameCalls
  <2>5. ASSUME NEW s \in DOMAIN spans PROVE SettledOn(s)'
    <3>1. CallsOn(s) \subseteq DOMAIN calls /\ (n \in CallsOn(s) <=> s = p)
      BY <2>1 DEF CallsOn
    <3>2. SettledOn(s)
      BY <1>0
    <3> HIDE DEF p
    <3> QED
      BY <2>1, <2>3, <2>4, <3>1, <3>2 DEF SettledOn, Failed
  <2> QED
    BY <2>3, <2>5 DEF Settled, SettledOn
<1> QED
  BY <1>1, <1>2, <1>3, <1>4, <1>5, <1>6, <1>7, <1>8
     DEF Next, vars, GetTelemetryHandler, Ask, Answer, Tick, SetBack
-----------------------------------------------------------------------------
(* Private.                                                                *)

PrivateSpan(t) == "content" \in t.attrs => CapturesInSpan
PrivateCall(c) ==
  /\ \A e \in c.events : EmitsEvents /\ ("content" \in e => CapturesInEvent)
  /\ c.ref => handler = {"custom"}

\* Private speaks of one span and one call at a time.
LEMMA PrivateParts ==
  Private <=> /\ \A s \in DOMAIN spans : PrivateSpan(spans[s])
              /\ \A n \in DOMAIN calls : PrivateCall(calls[n])
<1>1. ASSUME NEW t
      PROVE  PrivateSpan(t) <=>
               ("content" \in t.attrs =>
                  env.experimental /\ env.capture \in {"span", "both"})
  BY DEF PrivateSpan, CapturesInSpan
<1>2. ASSUME NEW c
      PROVE  PrivateCall(c) <=>
               /\ \A e \in c.events :
                    /\ env.experimental /\ env.emit
                    /\ "content" \in e => env.capture \in {"event", "both"}
               /\ c.ref => handler = {"custom"}
  BY DEF PrivateCall, EmitsEvents, CapturesInEvent
<1> QED
  BY <1>1, <1>2 DEF Private

\* A change that leaves the attributes of a span alone.
LEMMA SameAttributes ==
  ASSUME TypeOK, NEW s \in DOMAIN spans, NEW t, t.attrs = spans[s].attrs, Changed(s, t)
  PROVE  /\ DOMAIN spans' = DOMAIN spans
         /\ \A q \in DOMAIN spans : spans'[q].attrs = spans[q].attrs
<1>1. DOMAIN spans' = DOMAIN spans
  BY DEF Changed, TypeOK
<1>2. spans'[s] = t \/ spans'[s] = spans[s]
  BY DEF Changed
<1>3. \A q \in DOMAIN spans \ {s} : spans'[q] = spans[q]
  BY DEF Changed
<1> QED
  BY <1>1, <1>2, <1>3

\* Every step keeps content private: nothing changes the environment, and the
\* handler is not replaced once it is there.
LEMMA PrivateKept == TypeOK /\ Linked /\ Private /\ [Next]_vars => Private'
<1> SUFFICES ASSUME TypeOK, Linked, Private, [Next]_vars PROVE Private'
  OBVIOUS
<1>0. /\ \A s \in DOMAIN spans : PrivateSpan(spans[s])
      /\ \A n \in DOMAIN calls : PrivateCall(calls[n])
  BY PrivateParts
<1>1. ASSUME UNCHANGED <<handler, env, spans, calls>> PROVE Private'
  BY <1>1 DEF Private
<1>2. ASSUME NEW hook \in Hooks, GetTelemetryHandler(hook) PROVE Private'
  <2>1. UNCHANGED <<env, spans, calls>> /\ (handler # {} => handler' = handler)
    BY <1>2 DEF GetTelemetryHandler
  <2>2. ASSUME handler = {}, NEW n \in DOMAIN calls PROVE FALSE
    <3>1. /\ calls[n].span <= Len(spans) /\ calls[n].span \in Nat
          /\ calls[n].span >= 1
      BY CallFields, HandlerAssumption DEF TypeOK, Linked
    <3>2. Len(spans) = 0
      BY <2>2 DEF Linked
    <3> QED
      BY <3>1, <3>2
  <2> QED
    BY <2>1, <2>2 DEF Private
<1>3. ASSUME UNCHANGED <<handler, env, calls>>, DOMAIN spans' = DOMAIN spans,
             \A s \in DOMAIN spans : spans'[s].attrs = spans[s].attrs
      PROVE  Private'
  BY <1>3 DEF Private
<1>4. ASSUME NEW n \in DOMAIN calls, NEW x, Moved(n, x), UNCHANGED <<handler, env>>,
             PrivateCall(calls'[n]), DOMAIN spans' = DOMAIN spans,
             \A s \in DOMAIN spans : spans'[s].attrs = spans[s].attrs
      PROVE  Private'
  <2>1. DOMAIN calls' = DOMAIN calls
    BY <1>4 DEF Moved, TypeOK
  <2>2. \A m \in DOMAIN calls : PrivateCall(calls'[m])
    BY <1>0, <1>4 DEF Moved
  <2>3. \A m \in DOMAIN calls' : PrivateCall(calls[m])'
    BY <1>4, <2>1, <2>2 DEF PrivateCall, EmitsEvents, CapturesInEvent
  <2>4. \A s \in DOMAIN spans' : PrivateSpan(spans[s])'
    BY <1>0, <1>4 DEF PrivateSpan, CapturesInSpan
  <2> QED
    BY <2>3, <2>4
       DEF Private, PrivateSpan, PrivateCall, CapturesInSpan, EmitsEvents,
           CapturesInEvent
<1>5. ASSUME NEW i \in Inv, Start(i) PROVE Private'
  <2>1. /\ spans' = Append(spans, Fresh(i)) /\ Fresh(i).attrs = {}
        /\ UNCHANGED <<handler, env, calls>>
    BY <1>5, StartBegins DEF Start, Fresh
  <2>2. \A s \in DOMAIN spans' : s \in DOMAIN spans \/ spans'[s] = Fresh(i)
    BY <2>1 DEF TypeOK
  <2>3. \A s \in DOMAIN spans : spans'[s] = spans[s]
    BY <2>1 DEF TypeOK
  <2>4. \A s \in DOMAIN spans' : "content" \in spans'[s].attrs =>
                                  "content" \in spans[s].attrs /\ s \in DOMAIN spans
    BY <2>1, <2>2, <2>3
  <2> QED
    BY <2>1, <2>4 DEF Private
<1>6. ASSUME NEW i \in Inv, NEW how \in Hows, Finish(i, how) PROVE Private'
  <2> DEFINE p == inv[i].span
             c == Begun(i, how)
  <2>1. /\ calls' = Append(calls, c) /\ p \in DOMAIN spans /\ Changed(p, Filled(i))
        /\ UNCHANGED <<handler, env>>
    BY <1>6, FinishBegins DEF Finish
  <2>2. PrivateCall(c)
    BY DEF Begun, PrivateCall
  <2>3. PrivateSpan(Filled(i))
    <3>1. spans[p] \in SpanType /\ PrivateSpan(spans[p])
      BY <1>0, <2>1 DEF TypeOK
    <3>2. "content" \in Applied(kind[i], inv[i].fields) => CapturesInSpan
      BY InvFields, AppliedAttributes
    <3>3. Filled(i).attrs = spans[p].attrs \union Applied(kind[i], inv[i].fields)
      BY <3>1 DEF Filled, SpanType
    <3> QED
      BY <3>1, <3>2, <3>3 DEF PrivateSpan
  <2> HIDE DEF c, p
  <2>4. \A n \in DOMAIN calls' : PrivateCall(calls[n])'
    <3>1. /\ DOMAIN calls' = DOMAIN calls \union {Len(calls) + 1}
          /\ calls'[Len(calls) + 1] = c
          /\ \A m \in DOMAIN calls : calls'[m] = calls[m]
      BY <2>1 DEF TypeOK
    <3>2. \A n \in DOMAIN calls' : PrivateCall(calls'[n])
      BY <1>0, <2>2, <3>1
    <3> QED
      BY <2>1, <3>2 DEF PrivateCall, EmitsEvents, CapturesInEvent
  <2>5. \A s \in DOMAIN spans' : PrivateSpan(spans[s])'
    <3>1. /\ DOMAIN spans' = DOMAIN spans
          /\ \A s \in DOMAIN spans \ {p} : spans'[s] = spans[s]
          /\ spans'[p] = Filled(i) \/ spans'[p] = spans[p]
      BY <2>1 DEF Changed, TypeOK
    <3>2. \A s \in DOMAIN spans' : PrivateSpan(spans'[s])
      BY <1>0, <2>1, <2>3, <3>1
    <3> QED
      BY <2>1, <3>2 DEF PrivateSpan, CapturesInSpan
  <2> QED
    BY <2>4, <2>5
       DEF Private, PrivateSpan, PrivateCall, CapturesInSpan, EmitsEvents,
           CapturesInEvent
<1>7. ASSUME NEW n \in 1..MaxCalls, ApplyError(n) PROVE Private'
  <2> DEFINE p == calls[n].span
  <2>1. n \in DOMAIN calls /\ Moved(n, Following(n)) /\ NothingTold(n)
    BY <1>7, ErrorMoves
  <2>2. p \in DOMAIN spans /\ Changed(p, [spans[p] EXCEPT !.status = "error"])
    BY <1>7, ErrorChanges
  <2>3. [spans[p] EXCEPT !.status = "error"].attrs = spans[p].attrs
    BY <2>2 DEF TypeOK, SpanType
  <2>4. /\ DOMAIN spans' = DOMAIN spans
        /\ \A s \in DOMAIN spans : spans'[s].attrs = spans[s].attrs
    BY <2>2, <2>3, SameAttributes
  <2>5. PrivateCall(calls'[n])
    BY <1>0, <2>1 DEF PrivateCall, NothingTold
  <2>6. UNCHANGED <<handler, env>>
    BY <1>7 DEF ApplyError
  <2> QED
    BY <1>4, <2>1, <2>4, <2>5, <2>6
<1>8. ASSUME NEW n \in 1..MaxCalls, End(n) PROVE Private'
  <2> DEFINE p == calls[n].span
  <2>1. n \in DOMAIN calls /\ Moved(n, "done") /\ NothingTold(n)
    BY <1>8, EndMoves
  <2>2. p \in DOMAIN spans /\ Changed(p, [spans[p] EXCEPT !.open = FALSE])
    BY <1>8, EndChanges
  <2>3. [spans[p] EXCEPT !.open = FALSE].attrs = spans[p].attrs
    BY <2>2 DEF TypeOK, SpanType
  <2>4. /\ DOMAIN spans' = DOMAIN spans
        /\ \A s \in DOMAIN spans : spans'[s].attrs = spans[s].attrs
    BY <2>2, <2>3, SameAttributes
  <2>5. PrivateCall(calls'[n])
    BY <1>0, <2>1 DEF PrivateCall, NothingTold
  <2>6. UNCHANGED <<handler, env>>
    BY <1>8 DEF End
  <2> QED
    BY <1>4, <2>1, <2>4, <2>5, <2>6
<1>9. ASSUME NEW n \in 1..MaxCalls, Measure(n) PROVE Private'
  <2>1. n \in DOMAIN calls /\ Moved(n, Following(n)) /\ NothingTold(n)
    BY <1>9, MeasureMoves
  <2>2. PrivateCall(calls'[n])
    BY <1>0, <2>1 DEF PrivateCall, NothingTold
  <2>3. UNCHANGED <<handler, env, spans>>
    BY <1>9 DEF Measure
  <2> QED
    BY <1>4, <2>1, <2>2, <2>3
<1>10. ASSUME NEW n \in 1..MaxCalls, Offload(n) PROVE Private'
  <2>1. /\ n \in DOMAIN calls /\ \E x : Moved(n, x)
        /\ calls'[n].events = calls[n].events
        /\ calls'[n].ref => calls[n].ref \/ handler = {"custom"}
    BY <1>10, OffloadMoves
  <2>2. PrivateCall(calls'[n])
    BY <1>0, <2>1 DEF PrivateCall
  <2>3. UNCHANGED <<handler, env, spans>>
    BY <1>10 DEF Offload
  <2> QED
    BY <1>4, <2>1, <2>2, <2>3
<1>11. ASSUME NEW n \in 1..MaxCalls, Emit(n) PROVE Private'
  <2>1. /\ n \in DOMAIN calls /\ Moved(n, Following(n)) /\ calls'[n].ref = calls[n].ref
        /\ \A e \in calls'[n].events :
             EmitsEvents /\ ("content" \in e => CapturesInEvent)
    BY <1>11, EmitMoves
  <2>2. PrivateCall(calls'[n])
    BY <1>0, <2>1 DEF PrivateCall
  <2>3. UNCHANGED <<handler, env, spans>>
    BY <1>11 DEF Emit
  <2> QED
    BY <1>4, <2>1, <2>2, <2>3
<1> QED
  BY <1>1, <1>2, <1>5, <1>6, <1>7, <1>8, <1>9, <1>10, <1>11
     DEF Next, vars, Ask, Answer, Tick, SetBack
-----------------------------------------------------------------------------
(* Agree.  What makes it hold is Said: what is filled in only grows, and   *)
(* fits the kind; a call tells of what it was given at its beginning; and  *)
(* nobody but the one call on a span writes the name and the attributes of *)
(* that span, which was open then.                                         *)

\* What is filled in fits the kind of the invocation, the invocation is the one its
\* span was started for, and the clock that nobody set back tells that time passed.
Asked(i) ==
  /\ inv[i].fields \subseteq Has[kind[i]]
  /\ inv[i].span # 0 => spans[inv[i].span].inv = i
  /\ ~inv[i].turned => /\ inv[i].startS <= now
                       /\ inv[i].passed => inv[i].startS < now

\* A span is named after what is filled in.
Named(t) == t.name \subseteq {"target"} \intersect inv[t.inv].fields

Emitting == {"llm", "agent"}

\* What a call has recorded is made of what it was given.
Tells(c) ==
  /\ c.fields \subseteq Has[kind[c.inv]]
  /\ \/ c.measured = {} /\ ~c.due
     \/ /\ kind[c.inv] \in Measured
        /\ \E ran \in Int : /\ c.measured = Measurements(kind[c.inv], c.fields, c.how, ran)
                            /\ c.due => ran > 0
  /\ c.events # {} => kind[c.inv] \in Emitting
  /\ kind[c.inv] \in Emitting =>
       /\ c.events = {} \/ c.events = Events(kind[c.inv], c.fields)
       /\ c.at \in {"end", "done"} => c.events = Events(kind[c.inv], c.fields)

\* The span t shows what its only call c was given.
Shows(t, c) ==
  /\ Applied(kind[c.inv], c.fields) \subseteq t.attrs
  /\ t.name \subseteq c.fields \intersect {"target"}
  /\ kind[c.inv] = "llm" => t.name = c.fields \intersect {"target"}

Said ==
  /\ \A i \in Inv : Asked(i)
  /\ \A s \in DOMAIN spans : Named(spans[s])
  /\ \A n \in DOMAIN calls :
       /\ Tells(calls[n])
       /\ Only(n) => Shows(spans[calls[n].span], calls[n])

\* The attributes of a span tell what the kind of its invocation has, all that is
\* filled in but content and what is listed.
LEMMA AppliedTells ==
  ASSUME NEW k \in Kinds, NEW f \in SUBSET Has[k]
  PROVE  /\ f \ ({"content"} \union OffSpan[k]) \subseteq Applied(k, f)
         /\ {"target"} \intersect f \subseteq Applied(k, f)
         /\ "content" \in f /\ CapturesInSpan => "content" \in Applied(k, f)
<1> USE DEF Applied, Has, Own, AnsweredFields, Content, OffSpan, Kinds
<1>1. CASE k = "llm"
  BY <1>1 DEF ApplyLLM, LLMAttributes, GetLLMCommonAttributes, GetLLMRequestAttributes,
              GetLLMResponseAttributes, LLMInvocation
<1>2. CASE k = "embedding"
  BY <1>2 DEF ApplyEmbedding, EmbeddingInvocation
<1>3. CASE k = "tool"
  BY <1>3 DEF ApplyTool, ExecuteToolInvocation
<1>4. CASE k = "agent"
  BY <1>4 DEF ApplyAgent, InvokeAgentInvocation
<1>5. CASE k = "create"
  BY <1>5 DEF ApplyCreate, CreateAgentInvocation
<1>6. CASE k = "retrieve"
  BY <1>6 DEF ApplyRetrieve, RetrieveInvocation
<1>7. CASE k = "rerank"
  BY <1>7 DEF ApplyRerank, RerankInvocation
<1> QED
  BY <1>1, <1>2, <1>3, <1>4, <1>5, <1>6, <1>7 DEF Kinds

\* The measurements M tell what the span of the call tells, but for what is listed.
Agreeing(M, k, f, how) ==
  \A m \in M :
    /\ m.attrs \intersect Fields = f \ ({"content"} \union OffMetrics[k])
    /\ m.attrs \subseteq Applied(k, f)
    /\ m.error <=> how = "fail"
Timed(M) == \E m \in M : m.hist \in Durations

\* What is measured tells what the span tells, and a duration is there if the clock
\* shows one.
LEMMA MeasuredTells ==
  ASSUME NEW k \in Measured, NEW f \in SUBSET Has[k], NEW how \in Hows, NEW ran \in Int
  PROVE  /\ Agreeing(Measurements(k, f, how, ran), k, f, how)
         /\ ran > 0 => Timed(Measurements(k, f, how, ran))
<1>1. ASSUME NEW h, NEW A
      PROVE  /\ Recorded(h, A, how).attrs = A /\ Recorded(h, A, how).hist = h
             /\ Recorded(h, A, how).error <=> how = "fail"
  BY DEF Recorded
<1>2. ASSUME NEW A, NEW S,
             A \intersect Fields = f \ ({"content"} \union OffMetrics[k]),
             A \subseteq Applied(k, f),
             Measurements(k, f, how, ran) = {Recorded(h, A, how) : h \in S},
             ran > 0 => \E h \in S : h \in Durations
      PROVE  /\ Agreeing(Measurements(k, f, how, ran), k, f, how)
             /\ ran > 0 => Timed(Measurements(k, f, how, ran))
  BY <1>1, <1>2 DEF Agreeing, Timed
<1>3. \A h : ran > 0 => h \in Lasting(h, ran)
  BY DEF Lasting
<1>4. CASE k = "llm"
  <2> DEFINE S == Lasting("operation.duration", ran)
                    \union Known({"token.usage", "first_chunk"}, f)
  <2>1. ClientAttrs(f) \intersect Fields = f \ ({"content"} \union OffMetrics[k])
    BY <1>4 DEF ClientAttrs, OffMetrics, Has, Own, LLMInvocation, Fields, AskedFields,
                AnsweredFields
  <2>2. ClientAttrs(f) \subseteq Applied(k, f)
    BY <1>4 DEF ClientAttrs, Applied, ApplyLLM, LLMAttributes, GetLLMCommonAttributes,
                GetLLMResponseAttributes
  <2>3. Measurements(k, f, how, ran) = {Recorded(h, ClientAttrs(f), how) : h \in S}
    BY <1>4 DEF Measurements, RecordLLM
  <2>4. ran > 0 => \E h \in S : h \in Durations
    BY <1>3 DEF Durations
  <2> HIDE DEF S
  <2> QED
    BY <1>2, <2>1, <2>2, <2>3, <2>4
<1>5. CASE k = "embedding"
  <2> DEFINE S == Lasting("operation.duration", ran) \union Known({"token.usage"}, f)
  <2>1. ClientAttrs(f) \intersect Fields = f \ ({"content"} \union OffMetrics[k])
    BY <1>5 DEF ClientAttrs, OffMetrics, Has, Own, EmbeddingInvocation, Fields,
                AskedFields, AnsweredFields
  <2>2. ClientAttrs(f) \subseteq Applied(k, f)
    BY <1>5 DEF ClientAttrs, Applied, ApplyEmbedding
  <2>3. Measurements(k, f, how, ran) = {Recorded(h, ClientAttrs(f), how) : h \in S}
    BY <1>5 DEF Measurements, RecordEmbedding
  <2>4. ran > 0 => \E h \in S : h \in Durations
    BY <1>3 DEF Durations
  <2> HIDE DEF S
  <2> QED
    BY <1>2, <2>1, <2>2, <2>3, <2>4
<1>6. CASE k = "tool"
  <2> DEFINE told == f \intersect {"target", "type"}
  <2>1. told \intersect Fields = f \ ({"content"} \union OffMetrics[k])
    BY <1>6 DEF OffMetrics, Has, Own, ExecuteToolInvocation, Fields, AskedFields
  <2>2. told \subseteq Applied(k, f)
    BY <1>6 DEF Applied, ApplyTool
  <2>3. Measurements(k, f, how, ran)
          = {Recorded(h, told, how) : h \in Lasting("execute_tool.duration", ran)}
    BY <1>6 DEF Measurements, RecordTool
  <2>4. ran > 0 => \E h \in Lasting("execute_tool.duration", ran) : h \in Durations
    BY <1>3 DEF Durations
  <2> HIDE DEF told
  <2> QED
    BY <1>2, <2>1, <2>2, <2>3, <2>4
<1>7. CASE k = "agent"
  <2> DEFINE told == f \intersect {"target", "id", "version"}
  <2>1. told \intersect Fields = f \ ({"content"} \union OffMetrics[k])
    BY <1>7 DEF OffMetrics, Has, Own, InvokeAgentInvocation, Fields, AskedFields
  <2>2. told \subseteq Applied(k, f)
    BY <1>7 DEF Applied, ApplyAgent
  <2>3. Measurements(k, f, how, ran)
          = {Recorded(h, told, how) : h \in Lasting("invoke_agent.duration", ran)}
    BY <1>7 DEF Measurements, RecordAgent
  <2>4. ran > 0 => \E h \in Lasting("invoke_agent.duration", ran) : h \in Durations
    BY <1>3 DEF Durations
  <2> HIDE DEF told
  <2> QED
    BY <1>2, <2>1, <2>2, <2>3, <2>4
<1> QED
  BY <1>4, <1>5, <1>6, <1>7 DEF Measured

\* An event is there if events are asked for; it tells what its span tells, but for
\* what is listed, and content where this is asked for.
LEMMA EventsTell ==
  ASSUME NEW k \in Emitting, NEW f \in SUBSET Has[k]
  PROVE  /\ EmitsEvents => Events(k, f) # {}
         /\ \A e \in Events(k, f) :
              /\ f \ ({"content"} \union OffEvent[k]) \subseteq e
              /\ e \subseteq Applied(k, f) \union {"content"}
              /\ "content" \in f /\ CapturesInEvent => "content" \in e
<1> USE DEF Events, EventContent, Applied, Has, Own, AnsweredFields, OffEvent
<1>1. CASE k = "llm"
  BY <1>1 DEF EmitLLMEvent, ApplyLLM, LLMAttributes, GetLLMCommonAttributes,
              GetLLMRequestAttributes, GetLLMResponseAttributes, LLMInvocation
<1>2. CASE k = "agent"
  BY <1>2 DEF EmitInvokeAgentEvent, ApplyAgent, InvokeAgentInvocation
<1> QED
  BY <1>1, <1>2 DEF Emitting

\* What was said agrees.
LEMMA SaidAgrees == TypeOK /\ Linked /\ Settled /\ Said => Agree
<1> SUFFICES ASSUME TypeOK, Linked, Settled, Said,
                    NEW n \in DOMAIN calls, calls[n].at = "done", Only(n)
             PROVE  LET c == calls[n]
                        k == kind[c.inv]
                        t == spans[c.span]
                        Plain == c.fields \ {"content"}
                    IN  /\ Plain \ OffSpan[k] \subseteq t.attrs
                        /\ k = "llm" => t.name = c.fields \intersect {"target"}
                        /\ "content" \in c.fields /\ CapturesInSpan =>
                             "content" \in t.attrs
                        /\ t.name \subseteq t.attrs
                        /\ \A m \in c.measured :
                             /\ m.attrs \intersect Fields = Plain \ OffMetrics[k]
                             /\ m.attrs \subseteq t.attrs
                             /\ m.error <=> t.status = "error" /\ c.how = "fail"
                        /\ EmitsEvents /\ k \in {"llm", "agent"} => c.events # {}
                        /\ \A e \in c.events :
                             /\ Plain \ OffEvent[k] \subseteq e
                             /\ e \subseteq t.attrs \union {"content"}
                             /\ "content" \in c.fields /\ CapturesInEvent =>
                                  "content" \in e
                        /\ c.due /\ k \in Measured =>
                             \E m \in c.measured : m.hist \in Durations
  BY DEF Agree
<1> DEFINE c == calls[n]
           k == kind[c.inv]
           t == spans[c.span]
<1>1. c \in CallType /\ c.inv \in Inv /\ k \in Kinds
  BY CallFields, InvFields DEF TypeOK
<1>2. Tells(c) /\ Shows(t, c)
  BY DEF Said
<1>3. c.fields \in SUBSET Has[k]
  BY <1>2 DEF Tells
<1>4. c.how = "fail" => t.status = "error"
  <2>1. c.span \in DOMAIN spans
    <3>1. c.span \in 1..MaxSpans /\ c.span <= Len(spans)
      BY <1>1, CallFields DEF Linked
    <3> QED
      BY <3>1, HandlerAssumption DEF TypeOK
  <2>2. n \in CallsOn(c.span) /\ CallsOn(c.span) \ {n} = {}
    BY DEF Only
  <2> QED
    BY <2>1, <2>2 DEF Settled, Failed
<1>5. /\ c.fields \ ({"content"} \union OffSpan[k]) \subseteq Applied(k, c.fields)
      /\ {"target"} \intersect c.fields \subseteq Applied(k, c.fields)
      /\ "content" \in c.fields /\ CapturesInSpan => "content" \in Applied(k, c.fields)
  BY <1>1, <1>3, AppliedTells
<1>6. Applied(k, c.fields) \subseteq t.attrs
  BY <1>2 DEF Shows
<1>7. /\ t.name \subseteq c.fields \intersect {"target"}
      /\ k = "llm" => t.name = c.fields \intersect {"target"}
  BY <1>2 DEF Shows
<1>8. Agreeing(c.measured, k, c.fields, c.how) /\ (c.due => Timed(c.measured))
  <2>1. CASE c.measured = {} /\ ~c.due
    BY <2>1 DEF Agreeing
  <2>2. ASSUME k \in Measured, NEW ran \in Int,
               c.measured = Measurements(k, c.fields, c.how, ran), c.due => ran > 0
        PROVE  /\ Agreeing(c.measured, k, c.fields, c.how)
               /\ c.due => Timed(c.measured)
    <3>1. c.how \in Hows
      BY <1>1, CallFields
    <3>2. /\ Agreeing(Measurements(k, c.fields, c.how, ran), k, c.fields, c.how)
          /\ ran > 0 => Timed(Measurements(k, c.fields, c.how, ran))
      <4> HIDE DEF c, k
      <4> QED
        BY <1>3, <2>2, <3>1, MeasuredTells
    <3> HIDE DEF c, k
    <3> QED
      BY <2>2, <3>2
  <2> QED
    BY <1>2, <2>1, <2>2 DEF Tells
<1>9. /\ EmitsEvents /\ k \in {"llm", "agent"} => c.events # {}
      /\ \A e \in c.events :
           /\ c.fields \ ({"content"} \union OffEvent[k]) \subseteq e
           /\ e \subseteq Applied(k, c.fields) \union {"content"}
           /\ "content" \in c.fields /\ CapturesInEvent => "content" \in e
  <2>1. CASE k \in Emitting
    <3>1. c.events = Events(k, c.fields)
      BY <1>2, <2>1 DEF Tells
    <3> QED
      BY <1>3, <2>1, <3>1, EventsTell
  <2>2. CASE k \notin Emitting
    <3>1. c.events = {}
      BY <1>2, <2>2 DEF Tells
    <3> QED
      BY <2>2, <3>1 DEF Emitting
  <2> QED
    BY <2>1, <2>2
<1>10. t.name \subseteq t.attrs
  BY <1>5, <1>6, <1>7
<1> HIDE DEF c, k, t
<1>11. \A m \in c.measured : m.error <=> t.status = "error" /\ c.how = "fail"
  BY <1>4, <1>8 DEF Agreeing
<1>12. \A e \in c.events : e \subseteq t.attrs \union {"content"}
  BY <1>6, <1>9
<1>13. \A m \in c.measured :
         /\ m.attrs \intersect Fields = c.fields \ ({"content"} \union OffMetrics[k])
         /\ m.attrs \subseteq t.attrs
  BY <1>6, <1>8 DEF Agreeing
<1>14. /\ c.fields \ ({"content"} \union OffSpan[k]) \subseteq t.attrs
       /\ "content" \in c.fields /\ CapturesInSpan => "content" \in t.attrs
  BY <1>5, <1>6
<1>15. \A F : c.fields \ ({"content"} \union F) = (c.fields \ {"content"}) \ F
  OBVIOUS
<1>16. /\ (c.fields \ {"content"}) \ OffSpan[k] \subseteq t.attrs
       /\ \A m \in c.measured :
            m.attrs \intersect Fields = (c.fields \ {"content"}) \ OffMetrics[k]
       /\ \A e \in c.events : (c.fields \ {"content"}) \ OffEvent[k] \subseteq e
  BY <1>9, <1>13, <1>14, <1>15
<1> QED
  BY <1>7, <1>8, <1>9, <1>10, <1>11, <1>12, <1>13, <1>14, <1>16 DEF c, k, t, Timed
-----------------------------------------------------------------------------
(* Said is kept.                                                           *)

\* What the application writes, and the clock, only add to what is filled in and
\* leave the spans of invocations alone.
LEMMA InvGrows ==
  ASSUME TypeOK, Said, NEW i \in Inv, [Next]_vars, UNCHANGED spans
  PROVE  /\ inv[i].fields \subseteq inv'[i].fields
         /\ Asked(i)'
<1>1. inv[i] \in InvType /\ inv \in [Inv -> InvType] /\ now \in 0..MaxNow /\ MaxNow \in Nat
  BY HandlerAssumption DEF TypeOK, InvType
<1>2. /\ inv[i].fields \subseteq Has[kind[i]]
      /\ inv[i].span # 0 => spans[inv[i].span].inv = i
      /\ ~inv[i].turned => /\ inv[i].startS <= now
                           /\ inv[i].passed => inv[i].startS < now
  BY DEF Said, Asked
<1>3. /\ inv[i].startS \in Int /\ now \in Int /\ inv[i].turned \in BOOLEAN
      /\ inv[i].passed \in BOOLEAN
  BY <1>1 DEF InvType
<1>4. CASE UNCHANGED <<kind, inv, now>>
  BY <1>2, <1>4 DEF Asked
<1>5. ASSUME NEW j \in Inv, Ask(j) \/ Answer(j)
      PROVE  inv[i].fields \subseteq inv'[i].fields /\ Asked(i)'
  <2>1. PICK F \in SUBSET Has[kind[j]] :
          inv' = [inv EXCEPT ![j] = [inv[j] EXCEPT !.fields = inv[j].fields \union F]]
    <3>1. AskedFields \intersect Has[kind[j]] \in SUBSET Has[kind[j]]
      OBVIOUS
    <3>2. AnsweredFields \intersect Has[kind[j]] \in SUBSET Has[kind[j]]
      OBVIOUS
    <3> QED
      BY <1>1, <1>5, <3>1, <3>2 DEF Ask, Answer
  <2>2. UNCHANGED <<kind, now>>
    BY <1>5 DEF Ask, Answer
  <2>3. CASE i = j
    <3>1. inv'[i] = [inv[i] EXCEPT !.fields = inv[i].fields \union F]
      BY <1>1, <2>1, <2>3
    <3>2. /\ inv'[i].fields = inv[i].fields \union F /\ inv'[i].span = inv[i].span
          /\ inv'[i].startS = inv[i].startS /\ inv'[i].passed = inv[i].passed
          /\ inv'[i].turned = inv[i].turned
      BY <1>1, <3>1 DEF InvType
    <3>3. F \subseteq Has[kind[i]]
      BY <2>3
    <3> QED
      BY <1>2, <2>2, <3>2, <3>3 DEF Asked
  <2>4. CASE i # j
    <3>1. inv'[i] = inv[i]
      BY <1>1, <2>1, <2>4
    <3> QED
      BY <1>2, <2>2, <3>1 DEF Asked
  <2> QED
    BY <2>3, <2>4
<1>6. CASE Tick
  <2>1. inv'[i] = [inv[i] EXCEPT !.passed = TRUE] /\ UNCHANGED kind /\ now' = now + 1
    BY <1>6 DEF Tick
  <2>2. /\ inv'[i].fields = inv[i].fields /\ inv'[i].span = inv[i].span
        /\ inv'[i].startS = inv[i].startS /\ inv'[i].turned = inv[i].turned
    BY <1>1, <2>1 DEF InvType
  <2>3. ~inv[i].turned => inv[i].startS < now + 1 /\ inv[i].startS <= now + 1
    BY <1>2, <1>3
  <2> QED
    BY <1>2, <2>1, <2>2, <2>3 DEF Asked
<1>7. CASE SetBack
  <2>1. inv'[i] = [inv[i] EXCEPT !.turned = TRUE] /\ UNCHANGED kind
    BY <1>7 DEF SetBack
  <2>2. /\ inv'[i].fields = inv[i].fields /\ inv'[i].span = inv[i].span
        /\ inv'[i].turned = TRUE
    BY <1>1, <2>1 DEF InvType
  <2> QED
    BY <1>2, <2>1, <2>2 DEF Asked
<1>8. ASSUME NEW j \in Inv, Start(j) PROVE FALSE
  <2>1. Len(spans') = Len(spans) + 1 /\ Len(spans) \in Nat
    BY <1>8, StartBegins DEF TypeOK
  <2> QED
    BY <2>1
<1>9. ASSUME \/ UNCHANGED vars
             \/ \E hook \in Hooks : GetTelemetryHandler(hook)
             \/ \E j \in Inv, how \in Hows : Finish(j, how)
             \/ \E n \in 1..MaxCalls : \/ ApplyError(n) \/ Measure(n) \/ Offload(n)
                                       \/ Emit(n) \/ End(n)
      PROVE  UNCHANGED <<kind, inv, now>>
  BY <1>9 DEF vars, GetTelemetryHandler, Finish, ApplyError, Measure, Offload, Emit, End
<1> QED
  BY <1>4, <1>5, <1>6, <1>7, <1>8, <1>9 DEF Next

\* A call of an LLM or an agent does not end without its event.
LEMMA EmitBeforeEnd ==
  ASSUME NEW k \in Emitting, NEW how \in Hows,
         NEW at \in {"apply", "error", "measure", "offload"}, Takes(k, at)
  PROVE  After(k, how, at) # "end"
<1>1. CASE k = "llm"
  BY <1>1 DEF After, Handled, LLM
<1>2. CASE k = "agent"
  BY <1>2 DEF After, Handled, Agent, Takes
<1> QED
  BY <1>1, <1>2 DEF Emitting

\* A call that moves on and records nothing tells what it told.
LEMMA StillTells ==
  ASSUME NEW c, NEW r, Tells(c), r.inv = c.inv, r.how = c.how, r.fields = c.fields,
         r.due = c.due, r.measured = c.measured, r.events = c.events,
         kind[c.inv] \in Emitting /\ r.at \in {"end", "done"} => c.at \in {"end", "done"}
  PROVE  Tells(r)
BY DEF Tells

\* Each step of a call leaves what it tells true.
LEMMA CallTells ==
  ASSUME TypeOK, Linked, Said, NEW n \in DOMAIN calls,
         ApplyError(n) \/ Measure(n) \/ Offload(n) \/ Emit(n) \/ End(n)
  PROVE  Tells(calls'[n])
<1> DEFINE c == calls[n]
           k == kind[c.inv]
<1>1. c \in CallType /\ k \in Kinds /\ c.how \in Hows
  BY CallFields, InvFields DEF TypeOK
<1>2. Tells(c)
  BY DEF Said
<1>3. ASSUME c.at \in {"error", "measure", "offload"}
      PROVE  Following(n) # "done" /\ (k \in Emitting => Following(n) # "end")
  <2>1. Following(n) # "done"
    BY <1>3, UnderWay DEF Over
  <2>2. k \in Emitting => Following(n) # "end"
    BY <1>1, <1>3, EmitBeforeEnd DEF Following, Linked
  <2> QED
    BY <2>1, <2>2
<1>4. CASE ApplyError(n)
  <2> DEFINE r == [c EXCEPT !.at = Following(n)]
  <2>1. calls'[n] = r
    BY <1>4 DEF ApplyError, TypeOK
  <2>2. /\ r.inv = c.inv /\ r.how = c.how /\ r.fields = c.fields /\ r.due = c.due
        /\ r.measured = c.measured /\ r.events = c.events /\ r.at = Following(n)
    BY <1>1 DEF CallType
  <2>3. c.at = "error"
    BY <1>4 DEF ApplyError, At
  <2> HIDE DEF r, c
  <2> QED
    BY <1>2, <1>3, <2>1, <2>2, <2>3, StillTells
<1>5. CASE Offload(n)
  <2>1. PICK r : /\ calls'[n] = r /\ r.inv = c.inv /\ r.how = c.how /\ r.fields = c.fields
                 /\ r.due = c.due /\ r.measured = c.measured /\ r.events = c.events
                 /\ r.at \in {Following(n), "panicked"}
    <3>1. CASE calls' = [calls EXCEPT ![n].at = Following(n),
                           ![n].ref = handler # {"noop"} /\ "content" \in calls[n].fields]
      <4> DEFINE given == handler # {"noop"} /\ "content" \in calls[n].fields
                 r == [c EXCEPT !.at = Following(n), !.ref = given]
      <4>1. calls'[n] = r
        BY <3>1 DEF TypeOK
      <4> HIDE DEF given
      <4>2. /\ r.inv = c.inv /\ r.how = c.how /\ r.fields = c.fields /\ r.due = c.due
            /\ r.measured = c.measured /\ r.events = c.events /\ r.at = Following(n)
        BY <1>1 DEF CallType
      <4> HIDE DEF r, c
      <4> QED
        BY <4>1, <4>2
    <3>2. CASE calls' = [calls EXCEPT ![n].at = "panicked"]
      <4> DEFINE r == [c EXCEPT !.at = "panicked"]
      <4>1. calls'[n] = r
        BY <3>2 DEF TypeOK
      <4>2. /\ r.inv = c.inv /\ r.how = c.how /\ r.fields = c.fields /\ r.due = c.due
            /\ r.measured = c.measured /\ r.events = c.events /\ r.at = "panicked"
        BY <1>1 DEF CallType
      <4> HIDE DEF r, c
      <4> QED
        BY <4>1, <4>2
    <3> QED
      BY <1>5, <3>1, <3>2 DEF Offload
  <2>2. c.at = "offload"
    BY <1>5 DEF Offload, At
  <2> HIDE DEF c
  <2> QED
    BY <1>2, <1>3, <2>1, <2>2, StillTells
<1>6. CASE End(n)
  <2> DEFINE r == [c EXCEPT !.at = "done"]
  <2>1. calls'[n] = r
    BY <1>6 DEF End, TypeOK
  <2>2. /\ r.inv = c.inv /\ r.how = c.how /\ r.fields = c.fields /\ r.due = c.due
        /\ r.measured = c.measured /\ r.events = c.events /\ r.at = "done"
    BY <1>1 DEF CallType
  <2>3. c.at = "end"
    BY <1>6 DEF End, At
  <2> HIDE DEF r, c
  <2> QED
    BY <1>2, <2>1, <2>2, <2>3, StillTells
<1>7. CASE Measure(n)
  <2> DEFINE ran == now - inv[c.inv].startS
             due == inv[c.inv].passed /\ ~inv[c.inv].turned
             made == Measurements(k, c.fields, c.how, ran)
             r == [c EXCEPT !.at = Following(n), !.due = due, !.measured = made]
  <2>1. calls'[n] = r
    BY <1>7 DEF Measure, TypeOK
  <2>2. c.at = "measure" /\ k \in Measured
    BY <1>7, UnderWay DEF Measure, At, Over, Takes
  <2>3. ran \in Int /\ (due => ran > 0)
    <3>1. c.inv \in Inv
      BY <1>1, CallFields
    <3>2. inv[c.inv] \in InvType /\ now \in Nat
      BY <3>1, HandlerAssumption DEF TypeOK, InvType
    <3>3. inv[c.inv].startS \in Nat
      BY <3>2, HandlerAssumption DEF InvType
    <3>4. due => inv[c.inv].startS < now
      BY <3>1 DEF Said, Asked
    <3> HIDE DEF c, due
    <3> QED
      BY <3>2, <3>3, <3>4
  <2> HIDE DEF ran, due, made
  <2>4. /\ r.inv = c.inv /\ r.how = c.how /\ r.fields = c.fields /\ r.due = due
        /\ r.measured = made /\ r.events = c.events /\ r.at = Following(n)
    BY <1>1 DEF CallType
  <2>5. k \in Emitting => r.at \notin {"end", "done"}
    BY <1>3, <2>2, <2>4
  <2>6. r.measured = Measurements(kind[r.inv], r.fields, r.how, ran)
    BY <2>4 DEF made
  <2> HIDE DEF r, c
  <2>7. /\ kind[r.inv] \in Measured /\ (r.due => ran > 0) /\ ran \in Int
        /\ kind[r.inv] = k
    BY <2>2, <2>3, <2>4 DEF k
  <2>8. /\ r.fields \subseteq Has[kind[r.inv]]
        /\ r.events # {} => kind[r.inv] \in Emitting
        /\ kind[r.inv] \in Emitting =>
             /\ r.events = {} \/ r.events = Events(kind[r.inv], r.fields)
             /\ r.at \notin {"end", "done"}
    BY <1>2, <2>4, <2>5, <2>7 DEF Tells
  <2>9. Tells(r)
    BY <2>6, <2>7, <2>8 DEF Tells
  <2> QED
    BY <2>1, <2>9
<1>8. CASE Emit(n)
  <2> DEFINE told == Events(k, c.fields)
             r == [c EXCEPT !.at = Following(n), !.events = told]
  <2>1. calls'[n] = r
    BY <1>8 DEF Emit, TypeOK
  <2>2. k \in Emitting
    BY <1>8, UnderWay DEF Emit, At, Over, Takes, Emitting
  <2> HIDE DEF told
  <2>3. /\ r.inv = c.inv /\ r.how = c.how /\ r.fields = c.fields /\ r.due = c.due
        /\ r.measured = c.measured /\ r.events = told
    BY <1>1 DEF CallType
  <2>4. r.events = Events(kind[r.inv], r.fields)
    BY <2>3 DEF told
  <2> HIDE DEF r, c
  <2>5. Tells(r)
    BY <1>2, <2>2, <2>3, <2>4 DEF Tells, k
  <2> QED
    BY <2>1, <2>5
<1> QED
  BY <1>4, <1>5, <1>6, <1>7, <1>8

\* Nobody writes the environment or the kinds: what is told and shown is the same
\* before a step and after it.
LEMMA SameTale ==
  ASSUME UNCHANGED <<env, kind>>
  PROVE  /\ \A m : Tells(calls'[m]) => Tells(calls[m])'
         /\ \A m, s : Shows(spans'[s], calls'[m]) => Shows(spans[s], calls[m])'
<1>1. \A k, f : Events(k, f)' = Events(k, f)
  BY DEF Events, EmitLLMEvent, EmitInvokeAgentEvent, EventContent, EmitsEvents,
         CapturesInEvent
<1>2. \A m : Tells(calls'[m]) => Tells(calls[m])'
  BY <1>1 DEF Tells
<1>3. \A k, f : Applied(k, f)' = Applied(k, f)
  BY DEF Applied, ApplyLLM, ApplyTool, ApplyAgent, ApplyRetrieve, ApplyRerank, Content,
         CapturesInSpan
<1>4. \A m, s : Shows(spans'[s], calls'[m]) => Shows(spans[s], calls[m])'
  BY <1>3 DEF Shows
<1> QED
  BY <1>2, <1>4

\* Steps of calls already begun, which leave the name and the attributes of spans.
LEMMA SaidMoved ==
  ASSUME TypeOK, Linked, Said, NEW n \in DOMAIN calls, NEW x, Moved(n, x),
         UNCHANGED <<env, kind, inv, now>>, Tells(calls'[n]),
         DOMAIN spans' = DOMAIN spans,
         \A s \in DOMAIN spans : /\ spans'[s].inv = spans[s].inv
                                 /\ spans'[s].name = spans[s].name
                                 /\ spans'[s].attrs = spans[s].attrs
  PROVE  Said'
<1>1. \A i \in Inv : Asked(i)'
  <2>1. \A i \in Inv : inv[i].span # 0 => inv[i].span \in DOMAIN spans
    <3>1. \A i \in Inv : inv[i].span \in Nat
      BY InvFields, HandlerAssumption
    <3> QED
      BY <3>1 DEF Linked, TypeOK
  <2> QED
    BY <2>1 DEF Said, Asked
<1>2. \A s \in DOMAIN spans' : Named(spans[s])'
  BY DEF Said, Named
<1>3. /\ DOMAIN calls' = DOMAIN calls /\ \A s : CallsOn(s)' = CallsOn(s)
      /\ \A m \in DOMAIN calls : /\ calls'[m].inv = calls[m].inv
                                 /\ calls'[m].fields = calls[m].fields
                                 /\ calls'[m].span = calls[m].span
  BY SameCalls DEF Moved, TypeOK
<1>4. \A m \in DOMAIN calls : Tells(calls'[m])
  BY DEF Moved, Said
<1>5. ASSUME NEW m \in DOMAIN calls, Only(m)'
      PROVE  Shows(spans'[calls'[m].span], calls'[m])
  <2>1. Only(m)
    BY <1>3, <1>5 DEF Only
  <2>2. Shows(spans[calls[m].span], calls[m])
    BY <2>1 DEF Said
  <2>3. calls[m].span \in DOMAIN spans
    <3>1. calls[m].span \in 1..MaxSpans /\ calls[m].span <= Len(spans)
      BY CallFields DEF Linked, TypeOK
    <3> QED
      BY <3>1, HandlerAssumption DEF TypeOK
  <2> QED
    BY <1>3, <2>2, <2>3 DEF Shows
<1>6. \A m \in DOMAIN calls' : Tells(calls[m])'
  BY <1>3, <1>4, SameTale
<1>7. \A m \in DOMAIN calls' : Only(m)' => Shows(spans[calls[m].span], calls[m])'
  BY <1>3, <1>5, SameTale
<1> QED
  BY <1>1, <1>2, <1>6, <1>7 DEF Said

\* Start gives an invocation a new span, named after what is filled in.
LEMMA SaidStarted ==
  ASSUME TypeOK, Linked, Said, NEW i \in Inv, Start(i)
  PROVE  Said'
<1>1. /\ spans' = Append(spans, Fresh(i)) /\ UNCHANGED <<env, kind, calls, now>>
      /\ inv \in [Inv -> InvType] /\ inv[i] \in InvType
  BY StartBegins DEF Start, TypeOK, InvType
<1>2. /\ DOMAIN spans' = DOMAIN spans \union {Len(spans) + 1}
      /\ spans'[Len(spans) + 1] = Fresh(i)
      /\ \A s \in DOMAIN spans : spans'[s] = spans[s]
      /\ Len(spans) + 1 # 0 /\ Len(spans) \in Nat
  BY <1>1 DEF TypeOK
<1>3. /\ inv'[i].span = Len(spans) + 1 /\ inv'[i].fields = inv[i].fields
      /\ inv'[i].startS = now /\ ~inv'[i].passed
      /\ \A j \in Inv \ {i} : inv'[j] = inv[j]
  <2> DEFINE r == [inv[i] EXCEPT !.span = Len(spans) + 1, !.startS = now,
                                 !.passed = FALSE, !.turned = FALSE]
  <2>1. inv' = [inv EXCEPT ![i] = r]
    BY <1>1 DEF Start
  <2>2. /\ r.span = Len(spans) + 1 /\ r.fields = inv[i].fields /\ r.startS = now
        /\ r.passed = FALSE
    BY <1>1 DEF InvType
  <2> HIDE DEF r
  <2> QED
    BY <1>1, <2>1, <2>2
<1>4. \A j \in Inv : inv[j].span # 0 => inv[j].span \in DOMAIN spans
  <2>1. \A j \in Inv : inv[j].span \in Nat
    BY InvFields, HandlerAssumption
  <2> QED
    BY <2>1 DEF Linked, TypeOK
<1>5. \A j \in Inv : Asked(j)'
  <2>1. Asked(i)'
    <3>1. Fresh(i).inv = i /\ inv[i].fields \subseteq Has[kind[i]] /\ now <= now
      BY HandlerAssumption DEF Fresh, Said, Asked, TypeOK
    <3> QED
      BY <1>1, <1>2, <1>3, <3>1 DEF Asked
  <2>2. ASSUME NEW j \in Inv \ {i} PROVE Asked(j)'
    BY <1>1, <1>2, <1>3, <1>4 DEF Said, Asked
  <2> QED
    BY <2>1, <2>2
<1>6. \A s \in DOMAIN spans' : Named(spans[s])'
  <2>1. \A j \in Inv : inv'[j].fields = inv[j].fields
    BY <1>3
  <2>2. ASSUME NEW s \in DOMAIN spans PROVE Named(spans[s])'
    <3>1. spans[s] \in SpanType
      BY DEF TypeOK
    <3>2. spans[s].inv \in Inv
      BY <3>1 DEF SpanType
    <3> QED
      BY <1>2, <2>1, <3>2 DEF Said, Named
  <2>3. /\ Fresh(i).inv = i
        /\ Fresh(i).name \subseteq {"target"} \intersect inv[i].fields
    <3>1. Handled[kind[i]].names \subseteq {"target"}
      <4>1. kind[i] \in Kinds
        BY InvFields
      <4> QED
        BY <4>1 DEF Kinds, Has, Handled, LLM, Embedding, Tool, Agent, Create, Retrieve,
                    Rerank
    <3> QED
      BY <3>1 DEF Fresh, Name
  <2> QED
    BY <1>2, <2>1, <2>2, <2>3 DEF Named
<1>7. \A m \in DOMAIN calls : Tells(calls'[m])
  BY <1>1 DEF Said
<1>8. ASSUME NEW m \in DOMAIN calls, Only(m)'
      PROVE  Shows(spans'[calls'[m].span], calls'[m])
  <2>1. Only(m)
    BY <1>1, <1>8 DEF Only, CallsOn
  <2>2. calls[m].span \in DOMAIN spans
    <3>1. calls[m].span \in 1..MaxSpans /\ calls[m].span <= Len(spans)
      BY CallFields DEF Linked, TypeOK
    <3> QED
      BY <3>1, HandlerAssumption DEF TypeOK
  <2> QED
    BY <1>1, <1>2, <2>1, <2>2 DEF Said
<1>9. /\ \A m \in DOMAIN calls' : Tells(calls[m])'
      /\ \A m \in DOMAIN calls' : Only(m)' => Shows(spans[calls[m].span], calls[m])'
  BY <1>1, <1>7, <1>8, SameTale
<1> QED
  BY <1>5, <1>6, <1>9 DEF Said

\* Finish fills in the span, which is open if no call was on it before, and begins a
\* call with all that the invocation has.
LEMMA SaidFinished ==
  ASSUME TypeOK, Linked, Settled, Said, NEW i \in Inv, NEW how \in Hows, Finish(i, how)
  PROVE  Said'
<1> DEFINE p == inv[i].span
           c == Begun(i, how)
           t == Filled(i)
           k == kind[i]
           f == inv[i].fields
<1>1. /\ UNCHANGED <<env, kind, inv, now>> /\ calls' = Append(calls, c)
      /\ p \in DOMAIN spans /\ Changed(p, t) /\ c \in CallType
  BY FinishBegins DEF Finish
<1>2. /\ c.inv = i /\ c.span = p /\ c.fields = f /\ c.measured = {} /\ c.events = {}
      /\ ~c.due /\ c.at = After(k, how, "apply")
  BY DEF Begun
<1>3. Asked(i) /\ k \in Kinds /\ f \subseteq Has[k]
  BY InvFields DEF Said, Asked
<1>4. spans[p] \in SpanType /\ spans[p].inv = i /\ Named(spans[p])
  <2>1. p # 0
    BY DEF Finish
  <2> QED
    BY <1>1, <1>3, <2>1 DEF TypeOK, Said, Asked
<1>5. /\ t.inv = i /\ t.attrs = spans[p].attrs \union Applied(k, f)
      /\ t.name = IF k = "llm" THEN Name(k, f) ELSE spans[p].name
  BY <1>4 DEF Filled, SpanType
<1>6. /\ DOMAIN spans' = DOMAIN spans
      /\ \A s \in DOMAIN spans \ {p} : spans'[s] = spans[s]
      /\ spans'[p] = IF spans[p].open THEN t ELSE spans[p]
  BY <1>1 DEF Changed, TypeOK
<1>7. /\ DOMAIN calls' = DOMAIN calls \union {Len(calls) + 1}
      /\ Len(calls) + 1 \notin DOMAIN calls /\ calls'[Len(calls) + 1] = c
      /\ \A m \in DOMAIN calls : calls'[m] = calls[m]
  BY <1>1 DEF TypeOK
<1>8. k = "llm" => Name(k, f) = f \intersect {"target"}
  BY DEF Name, Handled, LLM
<1>9. /\ t.name \subseteq {"target"} \intersect f
      /\ k = "llm" => t.name = f \intersect {"target"}
  BY <1>4, <1>5, <1>8 DEF Named
<1> HIDE DEF c, t, p
<1>10. \A j \in Inv : Asked(j)'
  <2>1. \A s \in DOMAIN spans : spans'[s].inv = spans[s].inv
    BY <1>4, <1>5, <1>6
  <2>2. \A j \in Inv : inv[j].span # 0 => inv[j].span \in DOMAIN spans
    <3>1. \A j \in Inv : inv[j].span \in Nat
      BY InvFields, HandlerAssumption
    <3> QED
      BY <3>1 DEF Linked, TypeOK
  <2> QED
    BY <1>1, <2>1, <2>2 DEF Said, Asked
<1>11. \A s \in DOMAIN spans' : Named(spans[s])'
  <2>1. Named(t)
    BY <1>5, <1>9 DEF Named
  <2>2. \A s \in DOMAIN spans' : Named(spans'[s])
    BY <1>6, <2>1 DEF Said
  <2> QED
    BY <1>1, <2>2 DEF Named
<1>12. \A m \in DOMAIN calls' : Tells(calls'[m])
  <2>1. c.at \notin {"end", "done"} \/ k \notin Emitting
    <3>1. k \in Emitting => c.at # "end"
      BY <1>2, EmitBeforeEnd DEF Takes
    <3>2. c.at # "done"
      BY FinishBegins DEF c, Over
    <3> QED
      BY <3>1, <3>2
  <2>2. Tells(c)
    BY <1>2, <1>3, <2>1 DEF Tells
  <2> QED
    BY <1>7, <2>2 DEF Said
<1>13. ASSUME NEW m \in DOMAIN calls', Only(m)'
       PROVE  Shows(spans'[calls'[m].span], calls'[m])
  <2>1. {q \in DOMAIN calls' : calls'[q].span = calls'[m].span} = {m}
    BY <1>13 DEF Only, CallsOn
  <2>2. CASE m = Len(calls) + 1
    <3>1. CallsOn(p) = {}
      BY <1>2, <1>7, <2>1, <2>2 DEF CallsOn
    <3>2. spans[p].open
      BY <1>1, <3>1 DEF Settled
    <3>3. spans'[p] = t
      BY <1>6, <3>2
    <3> QED
      BY <1>2, <1>5, <1>7, <1>9, <2>2, <3>3 DEF Shows
  <2>3. CASE m \in DOMAIN calls
    <3>1. calls[m].span # p
      BY <1>2, <1>7, <2>1, <2>3
    <3>2. Only(m)
      BY <1>7, <2>1, <2>3 DEF Only, CallsOn
    <3>3. calls[m].span \in DOMAIN spans
      <4>1. calls[m].span \in 1..MaxSpans /\ calls[m].span <= Len(spans)
        BY <2>3, CallFields DEF Linked, TypeOK
      <4> QED
        BY <4>1, HandlerAssumption DEF TypeOK
    <3> QED
      BY <1>6, <1>7, <2>3, <3>1, <3>2, <3>3 DEF Said
  <2> QED
    BY <1>7, <2>2, <2>3
<1>14. /\ \A m \in DOMAIN calls' : Tells(calls[m])'
       /\ \A m \in DOMAIN calls' : Only(m)' => Shows(spans[calls[m].span], calls[m])'
  BY <1>1, <1>12, <1>13, SameTale
<1> QED
  BY <1>10, <1>11, <1>14 DEF Said

\* Every step keeps what is said true.
LEMMA SaidKept == TypeOK /\ Linked /\ Settled /\ Said /\ [Next]_vars => Said'
<1> SUFFICES ASSUME TypeOK, Linked, Settled, Said, [Next]_vars PROVE Said'
  OBVIOUS
<1>1. ASSUME UNCHANGED <<env, kind, spans, calls>> PROVE Said'
  <2>1. \A i \in Inv : inv[i].fields \subseteq inv'[i].fields /\ Asked(i)'
    BY <1>1, InvGrows
  <2>2. \A s \in DOMAIN spans : Named(spans[s])'
    <3>1. \A s \in DOMAIN spans : spans[s] \in SpanType
      BY DEF TypeOK
    <3>2. \A s \in DOMAIN spans : spans[s].inv \in Inv
      BY <3>1 DEF SpanType
    <3> QED
      BY <1>1, <2>1, <3>2 DEF Said, Named
  <2>3. \A m \in DOMAIN calls : Tells(calls[m])'
    BY <1>1, SameTale DEF Said
  <2>4. \A m \in DOMAIN calls : Only(m)' => Shows(spans[calls[m].span], calls[m])'
    BY <1>1, SameTale DEF Said, Only, CallsOn
  <2> QED
    BY <1>1, <2>1, <2>2, <2>3, <2>4 DEF Said
<1>2. ASSUME NEW n \in 1..MaxCalls, ApplyError(n) PROVE Said'
  <2> DEFINE p == calls[n].span
             t == [spans[p] EXCEPT !.status = "error"]
  <2>1. n \in DOMAIN calls /\ Moved(n, Following(n))
    BY <1>2, ErrorMoves
  <2>2. p \in DOMAIN spans /\ Changed(p, t)
    BY <1>2, ErrorChanges
  <2>3. t.inv = spans[p].inv /\ t.name = spans[p].name /\ t.attrs = spans[p].attrs
    BY <2>2 DEF TypeOK, SpanType
  <2> HIDE DEF t
  <2>4. /\ DOMAIN spans' = DOMAIN spans
        /\ \A s \in DOMAIN spans : /\ spans'[s].inv = spans[s].inv
                                   /\ spans'[s].name = spans[s].name
                                   /\ spans'[s].attrs = spans[s].attrs
    BY <2>2, <2>3, SMTT(30) DEF Changed, TypeOK
  <2>5. UNCHANGED <<env, kind, inv, now>>
    BY <1>2 DEF ApplyError
  <2> QED
    BY <1>2, <2>1, <2>4, <2>5, CallTells, SaidMoved
<1>3. ASSUME NEW n \in 1..MaxCalls, End(n) PROVE Said'
  <2> DEFINE p == calls[n].span
             t == [spans[p] EXCEPT !.open = FALSE]
  <2>1. n \in DOMAIN calls /\ Moved(n, "done")
    BY <1>3, EndMoves
  <2>2. p \in DOMAIN spans /\ Changed(p, t)
    BY <1>3, EndChanges
  <2>3. t.inv = spans[p].inv /\ t.name = spans[p].name /\ t.attrs = spans[p].attrs
    BY <2>2 DEF TypeOK, SpanType
  <2> HIDE DEF t
  <2>4. /\ DOMAIN spans' = DOMAIN spans
        /\ \A s \in DOMAIN spans : /\ spans'[s].inv = spans[s].inv
                                   /\ spans'[s].name = spans[s].name
                                   /\ spans'[s].attrs = spans[s].attrs
    BY <2>2, <2>3, SMTT(30) DEF Changed, TypeOK
  <2>5. UNCHANGED <<env, kind, inv, now>>
    BY <1>3 DEF End
  <2> QED
    BY <1>3, <2>1, <2>4, <2>5, CallTells, SaidMoved
<1>4. ASSUME NEW n \in 1..MaxCalls, Measure(n) \/ Offload(n) \/ Emit(n) PROVE Said'
  <2>1. n \in DOMAIN calls /\ \E x : Moved(n, x)
    BY <1>4, MeasureMoves, OffloadMoves, EmitMoves
  <2>2. UNCHANGED <<env, kind, inv, now, spans>>
    BY <1>4 DEF Measure, Offload, Emit
  <2> QED
    BY <1>4, <2>1, <2>2, CallTells, SaidMoved
<1> QED
  BY <1>1, <1>2, <1>3, <1>4, SaidStarted, SaidFinished
     DEF Next, vars, GetTelemetryHandler, Ask, Answer, Tick, SetBack
-----------------------------------------------------------------------------
(* The theorems.                                                           *)

IInv == TypeOK /\ Linked /\ Settled /\ Private /\ Said

\* At the start there are neither spans nor calls.
LEMMA InitHolds == Init => IInv
<1> SUFFICES ASSUME Init PROVE IInv
  OBVIOUS
<1>1. /\ spans = << >> /\ calls = << >> /\ DOMAIN spans = {} /\ DOMAIN calls = {}
      /\ Len(spans) = 0 /\ Len(calls) = 0
  BY DEF Init
<1>2. inv \in [Inv -> InvType] /\ \A i \in Inv : inv[i].span = 0
  BY HandlerAssumption DEF Init, InvType
<1>3. TypeOK
  <2>1. spans \in Seq(SpanType) /\ calls \in Seq(CallType)
    BY <1>1
  <2>2. Len(spans) <= MaxSpans /\ Len(calls) <= MaxCalls /\ now \in 0..MaxNow
    BY <1>1, HandlerAssumption DEF Init
  <2> QED
    BY <1>2, <2>1, <2>2 DEF Init, TypeOK, InvType
<1>4. Linked
  BY <1>1, <1>2 DEF Linked
<1>5. Settled
  BY <1>1 DEF Settled
<1>6. Private
  BY <1>1 DEF Private
<1>7. Said
  <2>1. \A i \in Inv : Asked(i)
    BY <1>2 DEF Init, Asked
  <2> QED
    BY <1>1, <2>1 DEF Said
<1> QED
  BY <1>3, <1>4, <1>5, <1>6, <1>7 DEF IInv

\* The state is well formed, calls stay on the spans of their invocations, and what
\* Settled and Private say holds, in every state, whatever calls of Stop and Fail
\* do side by side.
THEOREM HandlerInvariance == Spec => []IInv
<1>1. IInv /\ [Next]_vars => IInv'
  BY TypesKept, LinkedKept, SettledKept, PrivateKept, SaidKept DEF IInv
<1> QED
  BY InitHolds, <1>1, PTL DEF Spec

\* A span is open until a call of Stop or Fail on it has gone through, and shows an
\* error if and only if a call reported one before.
THEOREM SettledAlways == Spec => []Settled
<1>1. IInv => Settled
  BY DEF IInv
<1> QED
  BY HandlerInvariance, <1>1, PTL

\* Content is on spans and in events only if the environment asks for it there, and
\* a reference to it is given only if there is a hook.
THEOREM PrivateAlways == Spec => []Private
<1>1. IInv => Private
  BY DEF IInv
<1> QED
  BY HandlerInvariance, <1>1, PTL

\* When one call has finished an invocation, its span, its histograms and its event
\* tell the same of it: all that was filled in by then and whether it failed.
THEOREM AgreeAlways == Spec => []Agree
<1>1. IInv => Agree
  BY SaidAgrees DEF IInv
<1> QED
  BY HandlerInvariance, <1>1, PTL
=============================================================================
