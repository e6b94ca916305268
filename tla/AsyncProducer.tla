---------------------------- MODULE AsyncProducer ----------------------------
(***************************************************************************)
(* The wrapper that the sarama hooks put around an AsyncProducer p, to     *)
(* give every message a span.  A goroutine (the loop) takes messages from  *)
(* the application, starts their spans and passes them on to p; two        *)
(* forwarders take p's successes and errors, end the spans and pass the    *)
(* messages back; a last goroutine ends the spans left over when both      *)
(* forwarders are gone.  They share the map producerMessageContexts.       *)
(*                                                                         *)
(* All channels of the wrapper are unbuffered, so sending and receiving is *)
(* one step.  The application sends each message once, does not send after *)
(* it closed the producer, and closes it once.  The library is external.   *)
(***************************************************************************)
EXTENDS Integers, FiniteSets

CONSTANTS Message,      \* the messages the application may send
          NoMessage,
          CacheMax,     \* producerContextCacheMax
          InFlightMax   \* what p takes before it stops reading its input

ASSUME ProducerAssumption == /\ NoMessage \notin Message
                             /\ CacheMax \in Nat
                             /\ InFlightMax \in Nat \ {0}

Channel == {"successes", "errors"}

VARIABLES
  returns,    \* Producer.Return: whether p reports successes, errors
  loop,       \* [at, msg]: where the loop is, and with which message
  contexts,   \* producerMessageContexts: the messages whose span ids it holds
  metadata,   \* msg.Metadata: what the application put there, or the span id
  span,       \* "none", "open", or how the span of each message was ended
  inFlight,   \* the messages p has taken and not reported
  outcome,    \* the channel p reports each message on, once it knows
  producer,   \* p: "open", "closing", "closed"
  forwarder,  \* [at, msg] of the goroutine that reads each channel of p
  cleaner,    \* the goroutine that waits for both: "waiting", "done"
  close,      \* what the application called: "none", "Close", "AsyncClose"
  returned,   \* Close has returned
  reported,   \* the messages in the error that Close returns
  received    \* what the application received from each of its channels

vars == <<returns, loop, contexts, metadata, span, inFlight, outcome, producer,
          forwarder, cleaner, close, returned, reported, received>>
library == <<inFlight, outcome, producer>>
application == <<returns, close, returned, reported, received>>

At(place, m) == [at |-> place, msg |-> m]
Selecting == At("select", NoMessage)
Gone == At("gone", NoMessage)
Ranging == At("range", NoMessage)

\* How a forwarder ends a span, by the channel that it reads.
Verdict == [successes |-> "acked", errors |-> "failed"]

\* Ending a span a second time shows.
Ended(s, how) == IF s = "open" THEN how ELSE "twice"

Init ==
  /\ returns \in [Channel -> BOOLEAN]
  /\ loop = Selecting
  /\ contexts = {}
  /\ metadata = [m \in Message |-> "own"]
  /\ span = [m \in Message |-> "none"]
  /\ inFlight = {}
  /\ outcome = [m \in Message |-> "unknown"]
  /\ producer = "open"
  /\ forwarder = [k \in Channel |-> Ranging]
  /\ cleaner = "waiting"
  /\ close = "none"
  /\ returned = FALSE
  /\ reported = {}
  /\ received = [k \in Channel |-> {}]
-----------------------------------------------------------------------------
(* The loop.                                                               *)

\* The application sends m; the loop starts its span and marks the message.
Input(m) ==
  /\ close = "none" /\ loop = Selecting /\ span[m] = "none"
  /\ loop' = At("check", m)
  /\ span' = [span EXCEPT ![m] = "open"]
  /\ metadata' = [metadata EXCEPT ![m] = "span"]
  /\ UNCHANGED <<library, application, contexts, forwarder, cleaner>>

\* Mutant: the size is tested with <= instead of <.
CheckPastMax ==
  /\ loop.at = "check"
  /\ IF returns["successes"] \/ Cardinality(contexts) <= CacheMax
     THEN /\ loop' = [loop EXCEPT !.at = "store"]
          /\ UNCHANGED span
     ELSE /\ loop' = [loop EXCEPT !.at = "forward"]
          /\ span' = [span EXCEPT ![loop.msg] = Ended(@, "plain")]
  /\ UNCHANGED <<library, application, contexts, metadata, forwarder, cleaner>>

\* Reads the size of the map without the lock; a message that the map has no
\* room for is done with: its span ends here.
Check ==
  /\ loop.at = "check"
  /\ IF returns["successes"] \/ Cardinality(contexts) < CacheMax
     THEN /\ loop' = [loop EXCEPT !.at = "store"]
          /\ UNCHANGED span
     ELSE /\ loop' = [loop EXCEPT !.at = "forward"]
          /\ span' = [span EXCEPT ![loop.msg] = Ended(@, "plain")]
  /\ UNCHANGED <<library, application, contexts, metadata, forwarder, cleaner>>

Store ==
  /\ loop.at = "store"
  /\ contexts' = contexts \union {loop.msg}
  /\ loop' = [loop EXCEPT !.at = "forward"]
  /\ UNCHANGED <<library, application, metadata, span, forwarder, cleaner>>

\* p takes the message from its input.
Forward ==
  /\ loop.at = "forward"
  /\ Cardinality(inFlight) < InFlightMax
  /\ inFlight' = inFlight \union {loop.msg}
  /\ loop' = Selecting
  /\ UNCHANGED <<application, outcome, producer, contexts, metadata, span,
                 forwarder, cleaner>>

\* closeSig: the loop calls p.Close, which asks p to stop and then waits.
CloseSignal ==
  /\ close = "Close" /\ loop = Selecting
  /\ loop' = At("closing", NoMessage)
  /\ producer' = "closing"
  /\ UNCHANGED <<application, inFlight, outcome, contexts, metadata, span,
                 forwarder, cleaner>>

\* Mutant: the loop ends, and p is never told.
AsyncCloseForgetsP ==
  /\ close = "AsyncClose" /\ loop = Selecting
  /\ loop' = Gone
  /\ UNCHANGED <<application, library, contexts, metadata, span, forwarder, cleaner>>

\* closeAsyncSig: the loop calls p.AsyncClose and ends.
AsyncCloseSignal ==
  /\ close = "AsyncClose" /\ loop = Selecting
  /\ loop' = Gone
  /\ producer' = "closing"
  /\ UNCHANGED <<application, inFlight, outcome, contexts, metadata, span,
                 forwarder, cleaner>>

\* p.Close returns once p's channels are closed, and Close gets the error.
CloseReturns ==
  /\ loop.at = "closing" /\ producer = "closed"
  /\ loop' = Gone
  /\ returned' = TRUE
  /\ UNCHANGED <<library, returns, close, reported, received, contexts,
                 metadata, span, forwarder, cleaner>>
-----------------------------------------------------------------------------
(* The library.                                                            *)

\* The brokers have answered, or p has given up.
Decide(m, k) ==
  /\ m \in inFlight /\ outcome[m] = "unknown"
  /\ outcome' = [outcome EXCEPT ![m] = k]
  /\ UNCHANGED <<application, loop, inFlight, producer, contexts, metadata,
                 span, forwarder, cleaner>>

\* An outcome that is not to be returned.
Discard(m) ==
  /\ m \in inFlight /\ outcome[m] # "unknown" /\ ~ returns[outcome[m]]
  /\ inFlight' = inFlight \ {m}
  /\ UNCHANGED <<application, loop, outcome, producer, contexts, metadata, span,
                 forwarder, cleaner>>

\* p.Close reads both channels itself; it keeps the errors.
Drain(m) ==
  /\ loop.at = "closing"
  /\ m \in inFlight /\ outcome[m] # "unknown" /\ returns[outcome[m]]
  /\ inFlight' = inFlight \ {m}
  /\ reported' = IF outcome[m] = "errors" THEN reported \union {m} ELSE reported
  /\ UNCHANGED <<returns, close, returned, received, loop, outcome, producer,
                 contexts, metadata, span, forwarder, cleaner>>

\* p closes its channels when nothing is in flight.
Shutdown ==
  /\ producer = "closing" /\ inFlight = {}
  /\ producer' = "closed"
  /\ UNCHANGED <<application, loop, inFlight, outcome, contexts, metadata, span,
                 forwarder, cleaner>>
-----------------------------------------------------------------------------
(* The forwarders and the cleaner.                                         *)

\* Mutant: the entry stays in the map.
ReceiveKeeps(k, m) ==
  /\ forwarder[k] = Ranging
  /\ m \in inFlight /\ outcome[m] = k /\ returns[k]
  /\ inFlight' = inFlight \ {m}
  /\ forwarder' = [forwarder EXCEPT ![k] = At("send", m)]
  /\ IF m \in contexts
     THEN /\ span' = [span EXCEPT ![m] = Ended(@, Verdict[k])]
          /\ metadata' = [metadata EXCEPT ![m] = "own"]
     ELSE UNCHANGED <<span, metadata>>
  /\ UNCHANGED <<application, loop, outcome, producer, contexts, cleaner>>

\* Mutant: only the forwarder of successes puts the metadata back.
ReceiveOwnOnSuccess(k, m) ==
  /\ forwarder[k] = Ranging
  /\ m \in inFlight /\ outcome[m] = k /\ returns[k]
  /\ inFlight' = inFlight \ {m}
  /\ forwarder' = [forwarder EXCEPT ![k] = At("send", m)]
  /\ IF m \in contexts
     THEN /\ contexts' = contexts \ {m}
          /\ span' = [span EXCEPT ![m] = Ended(@, Verdict[k])]
          /\ metadata' = [metadata EXCEPT ![m] = IF k = "successes" THEN "own" ELSE @]
     ELSE UNCHANGED <<contexts, span, metadata>>
  /\ UNCHANGED <<application, loop, outcome, producer, cleaner>>

\* A forwarder takes m from p and, under the lock, ends its span and puts its
\* metadata back, if the map knows it.
Receive(k, m) ==
  /\ forwarder[k] = Ranging
  /\ m \in inFlight /\ outcome[m] = k /\ returns[k]
  /\ inFlight' = inFlight \ {m}
  /\ forwarder' = [forwarder EXCEPT ![k] = At("send", m)]
  /\ IF m \in contexts
     THEN /\ contexts' = contexts \ {m}
          /\ span' = [span EXCEPT ![m] = Ended(@, Verdict[k])]
          /\ metadata' = [metadata EXCEPT ![m] = "own"]
     ELSE UNCHANGED <<contexts, span, metadata>>
  /\ UNCHANGED <<application, loop, outcome, producer, cleaner>>

\* The application receives the message.
Deliver(k) ==
  /\ forwarder[k].at = "send"
  /\ received' = [received EXCEPT ![k] = @ \union {forwarder[k].msg}]
  /\ forwarder' = [forwarder EXCEPT ![k] = Ranging]
  /\ UNCHANGED <<library, returns, close, returned, reported, loop, contexts,
                 metadata, span, cleaner>>

\* The range ends with p's channel; the wrapper's channel is closed.
ForwarderExit(k) ==
  /\ forwarder[k] = Ranging /\ producer = "closed"
  /\ forwarder' = [forwarder EXCEPT ![k] = Gone]
  /\ UNCHANGED <<library, application, loop, contexts, metadata, span, cleaner>>

\* Ends what is left in the map.
Clean ==
  /\ cleaner = "waiting"
  /\ \A k \in Channel : forwarder[k] = Gone
  /\ span' = [m \in Message |->
                IF m \in contexts THEN Ended(span[m], "plain") ELSE span[m]]
  /\ cleaner' = "done"
  /\ UNCHANGED <<library, application, loop, contexts, metadata, forwarder>>
-----------------------------------------------------------------------------
\* Close and AsyncClose of the wrapper: close(ap.input), then the signal.
Closing(how) ==
  /\ close = "none"
  /\ close' = how
  /\ UNCHANGED <<library, returns, returned, reported, received, loop, contexts,
                 metadata, span, forwarder, cleaner>>

LoopStep == \/ Check \/ Store \/ Forward
            \/ CloseSignal \/ AsyncCloseSignal \/ CloseReturns
ForwarderStep(k) == Deliver(k) \/ ForwarderExit(k) \/ \E m \in Message : Receive(k, m)

Next == \/ LoopStep
        \/ \E k \in Channel : ForwarderStep(k)
        \/ \E m \in Message : Input(m) \/ Discard(m) \/ Drain(m)
                              \/ \E k \in Channel : Decide(m, k)
        \/ Shutdown
        \/ Clean
        \/ \E how \in {"Close", "AsyncClose"} : Closing(how)

Safety == Init /\ [][Next]_vars

\* The goroutines of the wrapper are scheduled, p comes to an outcome of every
\* message, and the application reads both channels until they are closed, as
\* an AsyncProducer asks of it.  Nobody has to send or to close anything.
Fairness ==
  /\ WF_vars(LoopStep)
  /\ \A k \in Channel : WF_vars(ForwarderStep(k))
  /\ \A m \in Message : WF_vars(\E k \in Channel : Decide(m, k)) /\ WF_vars(Discard(m))
  /\ WF_vars(Shutdown)
  /\ WF_vars(Clean)

Spec == Safety /\ Fairness
-----------------------------------------------------------------------------
(* Properties.                                                             *)

Places(at) == [at : at, msg : Message \union {NoMessage}]

\* Every variable has its type; p holds no more than it takes, and without
\* successes, which alone empty it for certain, the map stays within its cap.
TypeOK ==
  /\ returns \in [Channel -> BOOLEAN]
  /\ loop \in Places({"select", "check", "store", "forward", "closing", "gone"})
  /\ contexts \subseteq Message
  /\ metadata \in [Message -> {"own", "span"}]
  /\ span \in [Message -> {"none", "open", "acked", "failed", "plain", "twice"}]
  /\ inFlight \subseteq Message /\ Cardinality(inFlight) <= InFlightMax
  /\ outcome \in [Message -> Channel \union {"unknown"}]
  /\ producer \in {"open", "closing", "closed"}
  /\ forwarder \in [Channel -> Places({"range", "send", "gone"})]
  /\ cleaner \in {"waiting", "done"}
  /\ close \in {"none", "Close", "AsyncClose"}
  /\ returned \in BOOLEAN
  /\ reported \subseteq Message
  /\ received \in [Channel -> SUBSET Message]
  /\ ~ returns["successes"] => Cardinality(contexts) <= CacheMax

\* The loop, the forwarders and the cleaner never end a span twice between
\* them, whichever of Close and AsyncClose is called, and whenever.
EndedOnce == \A m \in Message : span[m] # "twice"

\* When the cleaner is done no span is open any more, and none will be: what
\* it reads from the map is all there is.
CleanedUp == cleaner = "done" => \A m \in Message : span[m] # "open"

\* Every span the wrapper starts is ended once: never twice, and after the
\* cleaner none is open.
SpansSettled == EndedOnce /\ CleanedUp

\* As long as p returns successes, and the map therefore has room, what the
\* application gets back carries the metadata it had put there: the hook's
\* use of the field cannot be seen.
MetadataRestored ==
  returns["successes"] =>
    \A k \in Channel : \A m \in received[k] : metadata[m] = "own"

\* And its span tells the outcome the application was told.
OutcomeOnSpan ==
  returns["successes"] =>
    \A k \in Channel : \A m \in received[k] : span[m] = Verdict[k]

\* A message comes back as it was sent, with a span that says how it went.
ComesBackWhole == MetadataRestored /\ OutcomeOnSpan

\* After AsyncClose the application gets back every message that it sent.
AllDelivered ==
  close = "AsyncClose" /\ cleaner = "done" /\ (\A k \in Channel : returns[k])
    => \A m \in Message : span[m] # "none" => \E k \in Channel : m \in received[k]

\* A producer that is closed, in either way, comes to an end: Close returns,
\* the wrapper's channels are closed, the spans left over are ended, and after
\* AsyncClose every message has been delivered.
ClosedEnds == close # "none" ~> (cleaner = "done" /\ loop = Gone /\ AllDelivered)
=============================================================================
