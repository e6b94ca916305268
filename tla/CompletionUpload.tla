-------------------------- MODULE CompletionUpload --------------------------
(***************************************************************************)
(* util-genai's UploadCompletionHook: callers enqueue content under its    *)
(* hash (ref), a pool of workers uploads it, a bounded set of recently     *)
(* seen refs saves uploading the same content again, and Shutdown closes   *)
(* the queue and waits for the workers.                                    *)
(*                                                                         *)
(* A step is what one goroutine does between two points at which another   *)
(* can interfere: the read lock keeps Shutdown out between Check and Note, *)
(* but not the other callers.  Payloads and their encoding are abstracted  *)
(* to the ref; the Uploader is external and may fail.                      *)
(***************************************************************************)
EXTENDS Integers, Sequences, FiniteSets

CONSTANTS Caller,      \* goroutines that call OnCompletion
          Closer,      \* goroutines that call Shutdown, once each
          Worker,      \* the workers started by NewUploadCompletionHook
          Ref,         \* content hashes
          NoRef,
          QueueSize,   \* capacity of jobs
          DedupCap,    \* capacity of seen
          CallBound    \* bounds the called each caller makes

ASSUME UploadAssumption == /\ NoRef \notin Ref
                           /\ "exited" \notin Ref \union {NoRef}
                           /\ QueueSize \in Nat \ {0}
                           /\ DedupCap \in Nat \ {0}
                           /\ CallBound \in Nat
                           /\ Worker # {} /\ IsFiniteSet(Worker)

VARIABLES
  call,      \* call[c] = [at, ref]: where caller c is in stampAndEnqueue
  called,    \* the number of called each caller has made
  jobs,      \* the buffer of the channel
  closed,    \* h.closed, and with it close(h.jobs)
  waiting,   \* the closers blocked in h.mu.Lock
  seen,      \* boundedSet: its refs, oldest first
  worker,    \* worker[w]: the ref it uploads, NoRef, or "exited"
  closer,    \* closer[k]: "new", "locking", "draining", "drained", "nil"
             \* (somebody else closed the queue) or "error" (ctx is done)
  accepted,  \* history: how often each caller put each ref into jobs
  enqueued,  \* history: how often anybody did
  attempted, \* history: how often Upload returned for each ref
  evicted,   \* history: the refs that seen had to forget
  panicked   \* a send on a closed channel

uploadVars == <<call, called, jobs, closed, waiting, seen, worker, closer,
                accepted, enqueued, attempted, evicted, panicked>>
callerVars == <<call, called, seen, accepted, enqueued, evicted, panicked>>

Idle == [at |-> "idle", ref |-> NoRef]
Exited == "exited"

UploadInit ==
  /\ call = [c \in Caller |-> Idle]
  /\ called = [c \in Caller |-> 0]
  /\ jobs = <<>>
  /\ closed = FALSE
  /\ waiting = {}
  /\ seen = <<>>
  /\ worker = [w \in Worker |-> NoRef]
  /\ closer = [k \in Closer |-> "new"]
  /\ accepted = [c \in Caller |-> [r \in Ref |-> 0]]
  /\ enqueued = [r \in Ref |-> 0]
  /\ attempted = [r \in Ref |-> 0]
  /\ evicted = {}
  /\ panicked = FALSE
-----------------------------------------------------------------------------
(* boundedSet.                                                             *)

Contains(s, r) == \E i \in 1 .. Len(s) : s[i] = r

\* add: a ref already there stays where it is; a full set loses its oldest.
AddSeen(s, r) ==
  IF Contains(s, r) THEN s
  ELSE IF Len(s) >= DedupCap THEN Append(Tail(s), r)
  ELSE Append(s, r)
-----------------------------------------------------------------------------
(* stampAndEnqueue.                                                        *)

\* The goroutines that hold h.mu for reading.
Readers == {c \in Caller : call[c].at \in {"send", "note"}}

\* OnCompletion turns one category of a completion into a ref and stamps it
\* on the span, whatever becomes of the upload.
Stamp(c, r) ==
  /\ call[c].at = "idle" /\ called[c] < CallBound
  /\ call' = [call EXCEPT ![c] = [at |-> "stamped", ref |-> r]]
  /\ called' = [called EXCEPT ![c] = @ + 1]
  /\ UNCHANGED <<jobs, closed, waiting, seen, worker, closer, accepted,
                 enqueued, attempted, evicted, panicked>>

\* RLock (a waiting writer keeps new readers out), then the early returns.
Check(c) ==
  /\ call[c].at = "stamped"
  /\ waiting = {}
  /\ call' = [call EXCEPT ![c] = IF closed \/ Contains(seen, @.ref) THEN Idle
                                 ELSE [@ EXCEPT !.at = "send"]]
  /\ UNCHANGED <<called, jobs, closed, waiting, seen, worker, closer, accepted,
                 enqueued, attempted, evicted, panicked>>

\* Mutant: content dropped at a full queue is remembered as seen.
SendThenNote(c) ==
  /\ call[c].at = "send"
  /\ ~ closed
  /\ call' = [call EXCEPT ![c].at = "note"]
  /\ IF Len(jobs) < QueueSize
     THEN /\ jobs' = Append(jobs, call[c].ref)
          /\ accepted' = [accepted EXCEPT ![c][call[c].ref] = @ + 1]
          /\ enqueued' = [enqueued EXCEPT ![call[c].ref] = @ + 1]
     ELSE UNCHANGED <<jobs, accepted, enqueued>>
  /\ UNCHANGED <<called, closed, waiting, seen, worker, closer, attempted, evicted, panicked>>

\* Mutant: one more job than the channel was made for.
SendPastSize(c) ==
  /\ call[c].at = "send" /\ ~ closed
  /\ Len(jobs) <= QueueSize
  /\ jobs' = Append(jobs, call[c].ref)
  /\ accepted' = [accepted EXCEPT ![c][call[c].ref] = @ + 1]
  /\ enqueued' = [enqueued EXCEPT ![call[c].ref] = @ + 1]
  /\ call' = [call EXCEPT ![c].at = "note"]
  /\ UNCHANGED <<called, closed, waiting, seen, worker, closer, attempted, evicted, panicked>>

\* The select: sends if the channel has room, drops the content otherwise.
Send(c) ==
  /\ call[c].at = "send"
  /\ \/ /\ closed
        /\ panicked' = TRUE
        /\ call' = [call EXCEPT ![c] = Idle]
        /\ UNCHANGED <<jobs, accepted, enqueued>>
     \/ /\ ~ closed /\ Len(jobs) < QueueSize
        /\ jobs' = Append(jobs, call[c].ref)
        /\ accepted' = [accepted EXCEPT ![c][call[c].ref] = @ + 1]
        /\ enqueued' = [enqueued EXCEPT ![call[c].ref] = @ + 1]
        /\ call' = [call EXCEPT ![c].at = "note"]
        /\ UNCHANGED panicked
     \/ /\ ~ closed /\ Len(jobs) >= QueueSize
        /\ call' = [call EXCEPT ![c] = Idle]
        /\ UNCHANGED <<jobs, accepted, enqueued, panicked>>
  /\ UNCHANGED <<called, closed, waiting, seen, worker, closer, attempted, evicted>>

\* seen.add, then the deferred RUnlock.
Note(c) ==
  /\ call[c].at = "note"
  /\ seen' = AddSeen(seen, call[c].ref)
  /\ evicted' = evicted \union {r \in Ref : Contains(seen, r) /\ ~ Contains(seen', r)}
  /\ call' = [call EXCEPT ![c] = Idle]
  /\ UNCHANGED <<called, jobs, closed, waiting, worker, closer, accepted,
                 enqueued, attempted, panicked>>
-----------------------------------------------------------------------------
(* worker.                                                                 *)

Take(w) ==
  /\ worker[w] = NoRef /\ jobs # <<>>
  /\ worker' = [worker EXCEPT ![w] = Head(jobs)]
  /\ jobs' = Tail(jobs)
  /\ UNCHANGED <<callerVars, closed, waiting, closer, attempted>>

\* Upload returns; an error is reported and the job is gone all the same.
Uploaded(w) ==
  /\ worker[w] \in Ref
  /\ attempted' = [attempted EXCEPT ![worker[w]] = @ + 1]
  /\ worker' = [worker EXCEPT ![w] = NoRef]
  /\ UNCHANGED <<callerVars, jobs, closed, waiting, closer>>

\* Mutant: a worker stops as soon as the hook is closed.
WorkerExitEarly(w) ==
  /\ worker[w] = NoRef /\ closed
  /\ worker' = [worker EXCEPT ![w] = Exited]
  /\ UNCHANGED <<callerVars, jobs, closed, waiting, closer, attempted>>

\* The range over the closed channel ends once its buffer is empty.
WorkerExit(w) ==
  /\ worker[w] = NoRef /\ jobs = <<>> /\ closed
  /\ worker' = [worker EXCEPT ![w] = Exited]
  /\ UNCHANGED <<callerVars, jobs, closed, waiting, closer, attempted>>
-----------------------------------------------------------------------------
(* Shutdown.                                                               *)

ShutdownLock(k) ==
  /\ closer[k] = "new"
  /\ closer' = [closer EXCEPT ![k] = "locking"]
  /\ waiting' = waiting \union {k}
  /\ UNCHANGED <<callerVars, jobs, closed, worker, attempted>>

\* Mutant: the queue is closed without excluding the senders.
CloseUnlocked(k) ==
  /\ closer[k] = "locking"
  /\ waiting' = waiting \ {k}
  /\ closed' = TRUE
  /\ closer' = [closer EXCEPT ![k] = IF closed THEN "nil" ELSE "draining"]
  /\ UNCHANGED <<callerVars, jobs, worker, attempted>>

\* The critical section, entered when the readers are gone.
Close(k) ==
  /\ closer[k] = "locking"
  /\ Readers = {}
  /\ waiting' = waiting \ {k}
  /\ closed' = TRUE
  /\ closer' = [closer EXCEPT ![k] = IF closed THEN "nil" ELSE "draining"]
  /\ UNCHANGED <<callerVars, jobs, worker, attempted>>

\* Mutant: the wait group counts one worker.
DrainedByFirst(k) ==
  /\ closer[k] = "draining"
  /\ \E w \in Worker : worker[w] = Exited
  /\ closer' = [closer EXCEPT ![k] = "drained"]
  /\ UNCHANGED <<callerVars, jobs, closed, waiting, worker, attempted>>

\* wg.Wait returned: no worker is left.
Drained(k) ==
  /\ closer[k] = "draining"
  /\ \A w \in Worker : worker[w] = Exited
  /\ closer' = [closer EXCEPT ![k] = "drained"]
  /\ UNCHANGED <<callerVars, jobs, closed, waiting, worker, attempted>>

\* ctx is done first.
Expire(k) ==
  /\ closer[k] = "draining"
  /\ closer' = [closer EXCEPT ![k] = "error"]
  /\ UNCHANGED <<callerVars, jobs, closed, waiting, worker, attempted>>

CallerStep(c) == Check(c) \/ Send(c) \/ Note(c)
WorkerStep(w) == Take(w) \/ Uploaded(w) \/ WorkerExit(w)

UploadNext == \/ \E c \in Caller : CallerStep(c) \/ \E r \in Ref : Stamp(c, r)
              \/ \E w \in Worker : WorkerStep(w)
              \/ \E k \in Closer : ShutdownLock(k) \/ Close(k) \/ Drained(k) \/ Expire(k)

Safety == UploadInit /\ [][UploadNext]_uploadVars

\* A call that has started goes on (no step of it blocks for ever: a closer
\* that waits for the lock only waits for readers, and they do not block);
\* Upload returns; a worker is scheduled.  Nobody has to call anything, and
\* a ctx need not expire.
Fairness == /\ \A c \in Caller : WF_uploadVars(CallerStep(c))
            /\ \A w \in Worker : WF_uploadVars(WorkerStep(w))
            /\ \A k \in Closer : WF_uploadVars(Close(k)) /\ WF_uploadVars(Drained(k))

UploadSpec == Safety /\ Fairness
-----------------------------------------------------------------------------
(* Properties.                                                             *)

\* Every variable has its type, and the buffer never exceeds its capacity.
UploadTypeOK ==
  /\ call \in [Caller -> [at : {"idle", "stamped", "send", "note"},
                          ref : Ref \union {NoRef}]]
  /\ called \in [Caller -> 0 .. CallBound]
  /\ jobs \in Seq(Ref) /\ Len(jobs) <= QueueSize
  /\ closed \in BOOLEAN
  /\ waiting \subseteq Closer
  /\ seen \in Seq(Ref)
  /\ worker \in [Worker -> Ref \union {NoRef, Exited}]
  /\ closer \in [Closer -> {"new", "locking", "draining", "drained", "nil", "error"}]
  /\ accepted \in [Caller -> [Ref -> Nat]]
  /\ enqueued \in [Ref -> Nat]
  /\ attempted \in [Ref -> Nat]
  /\ evicted \subseteq Ref
  /\ panicked \in BOOLEAN

\* No interleaving of OnCompletion and Shutdown sends on the closed channel,
\* which would take the instrumented program down.
NeverSendsOnClosed == ~ panicked

\* What the hook skips as already seen has really been put into the queue:
\* content dropped at a full queue can still be uploaded by a later call.
SeenWasAccepted == \A i \in 1 .. Len(seen) : \E c \in Caller : accepted[c][seen[i]] > 0

\* Callers that add the same ref at the same time do not put it into the set
\* twice, and the set stays within its capacity.
SeenIsBoundedSet == /\ Len(seen) <= DedupCap
                    /\ \A i, j \in 1 .. Len(seen) : seen[i] = seen[j] => i = j

\* A caller enqueues a ref again only if seen has forgotten it in between:
\* only callers that race, or eviction, can upload the same content again.
AtMostOncePerCaller ==
  \A c \in Caller, r \in Ref : accepted[c][r] > 1 => r \in evicted

\* seen never lies in either direction, for as long as it remembers: what is
\* skipped was accepted, and what was accepted from a caller is skipped.
SeenSound == SeenWasAccepted /\ SeenIsBoundedSet /\ AtMostOncePerCaller

\* A worker leaves only when the queue is closed and empty and no caller can
\* send any more, so no job is left without a worker to take it.
ExitedMeansEmpty == \A w \in Worker :
  worker[w] = Exited => closed /\ jobs = <<>> /\ Readers = {}

\* When the Shutdown that closed the queue has waited for the workers, every
\* accepted upload has been attempted, and no Upload is running; no worker has
\* left before that was certain.
DrainedMeansDone ==
  /\ ExitedMeansEmpty
  /\ (\E k \in Closer : closer[k] = "drained")
       => /\ \A r \in Ref : enqueued[r] = attempted[r]
          /\ \A w \in Worker : worker[w] \notin Ref

\* Accepted content is attempted in the end, whether or not anybody called
\* Shutdown, and also when its ctx expires.
AcceptedIsAttempted == \A r \in Ref :
  enqueued[r] > attempted[r] ~> enqueued[r] = attempted[r]

\* A Shutdown returns, whatever its ctx does: callers, workers and closers
\* never wait for each other in a circle.
ShutdownReturns == \A k \in Closer :
  closer[k] = "locking" ~> closer[k] \in {"drained", "nil", "error"}

\* Nobody who has handed work to the hook, or asked it to stop, waits for
\* ever: accepted content is attempted, and Shutdown returns.
Answers == AcceptedIsAttempted /\ ShutdownReturns
=============================================================================
