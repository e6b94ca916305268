------------------------- MODULE AsyncProducerProofs -------------------------
(* Proofs about AsyncProducer, for any messages and capacities.            *)
EXTENDS AsyncProducer, FiniteSetTheorems, TLAPS

\* The types, without the bounds on sizes.
Types ==
  /\ returns \in [Channel -> BOOLEAN]
  /\ loop \in Places({"select", "check", "store", "forward", "closing", "gone"})
  /\ contexts \subseteq Message
  /\ metadata \in [Message -> {"own", "span"}]
  /\ span \in [Message -> {"none", "open", "acked", "failed", "plain", "twice"}]
  /\ inFlight \subseteq Message
  /\ outcome \in [Message -> Channel \union {"unknown"}]
  /\ forwarder \in [Channel -> Places({"range", "send", "gone"})]
  /\ received \in [Channel -> SUBSET Message]

\* Nobody leaves before the one that gives him work: the loop, p, the
\* forwarders, the cleaner, in this order.
Order ==
  /\ cleaner \in {"waiting", "done"}
  /\ producer \in {"open", "closing", "closed"}
  /\ cleaner = "done" => \A k \in Channel : forwarder[k] = Gone
  /\ \A k \in Channel : forwarder[k] = Gone => producer = "closed"
  /\ producer = "closed" => inFlight = {}
  /\ producer # "open" => loop.at \in {"closing", "gone"}

\* The loop has a message of its own exactly when it deals with one.
Handled == loop.at \in {"check", "store", "forward"} => loop.msg \in Message
Starting(m) == loop.at \in {"check", "store"} /\ loop.msg = m

\* Until the cleaner is done, the open spans are those that the map holds and
\* the one that the loop has just started; the map holds that one not yet.
OpenSpans ==
  /\ cleaner = "waiting" =>
       \A m \in Message : span[m] = "open" <=> (m \in contexts \/ Starting(m))
  /\ \A m \in contexts : ~ Starting(m)
  /\ cleaner = "done" => \A m \in Message : span[m] # "open"
  /\ EndedOnce

\* While p returns successes, the map knows every message in p's hands.
Known ==
  returns["successes"] =>
    /\ inFlight \subseteq contexts
    /\ loop.at = "forward" => loop.msg \in contexts

\* What is on its way back, or has arrived, is as the forwarder left it.
Settled(k, m) == span[m] = Verdict[k] /\ metadata[m] = "own"
Back ==
  /\ \A k \in Channel : forwarder[k].at = "send" => forwarder[k].msg \in Message
  /\ returns["successes"] =>
       \A k \in Channel : /\ forwarder[k].at = "send" => Settled(k, forwarder[k].msg)
                          /\ \A m \in received[k] : Settled(k, m)

\* The loop does not deal with a message that p has: each is started once.
Apart ==
  /\ \A m \in inFlight : span[m] # "none"
  /\ loop.at \in {"check", "store", "forward"} =>
       loop.msg \notin inFlight /\ span[loop.msg] # "none"

PInv == Types /\ Order /\ Handled /\ OpenSpans /\ Known /\ Back /\ Apart

LEMMA PInit == Init => PInv
<1> SUFFICES ASSUME Init PROVE PInv
  OBVIOUS
<1>1. Types
  BY DEF Init, Types, Places, At, Selecting, Ranging
<1>2. Order /\ Handled
  BY DEF Init, Order, Handled, At, Selecting, Ranging, Gone
<1>3. OpenSpans
  BY DEF Init, OpenSpans, Starting, EndedOnce, At, Selecting
<1>4. Known /\ Back
  BY DEF Init, Known, Back, Settled, At, Selecting, Ranging
<1>5. Apart
  BY DEF Init, Apart, At, Selecting
<1> QED
  BY <1>1, <1>2, <1>3, <1>4, <1>5 DEF PInv

\* Steps of the loop.
LEMMA PInput ==
  ASSUME PInv, NEW m \in Message, Input(m)
  PROVE  PInv'
<1> USE DEF library, application
<1>1. /\ loop.at = "select" /\ span[m] = "none"
      /\ loop'.at = "check" /\ loop'.msg = m /\ loop' = [at |-> "check", msg |-> m]
      /\ span' = [span EXCEPT ![m] = "open"]
      /\ metadata' = [metadata EXCEPT ![m] = "span"]
      /\ UNCHANGED <<library, application, contexts, forwarder, cleaner>>
  BY DEF Input, At, Selecting
<1>2. Types'
  BY <1>1 DEF PInv, Types, Places
<1>3. producer = "open" /\ cleaner = "waiting"
  BY <1>1 DEF PInv, Order, Channel
<1>4. Order' /\ Handled'
  BY <1>1, <1>3 DEF PInv, Order, Handled, Gone, At
<1>5. m \notin contexts
  BY <1>1, <1>3 DEF PInv, OpenSpans
<1>6. OpenSpans'
  BY <1>1, <1>3, <1>5 DEF PInv, Types, OpenSpans, Starting, EndedOnce
<1>7. Known'
  BY <1>1 DEF PInv, Known
<1>8. Back'
  <2>1. \A k \in Channel : Verdict[k] # "none"
    BY DEF Channel, Verdict
  <2> QED
    BY <1>1, <2>1 DEF PInv, Types, Back, Settled
<1>9. Apart'
  BY <1>1 DEF PInv, Types, Apart
<1> QED
  BY <1>2, <1>4, <1>6, <1>7, <1>8, <1>9 DEF PInv

LEMMA PCheck ==
  ASSUME PInv, Check
  PROVE  PInv'
<1> USE DEF library, application
<1> DEFINE m == loop.msg
<1>1. /\ loop.at = "check" /\ m \in Message
      /\ UNCHANGED <<library, application, contexts, metadata, forwarder, cleaner>>
  BY DEF Check, PInv, Handled
<1>2. producer = "open" /\ cleaner = "waiting" /\ m \notin contexts /\ span[m] = "open"
  BY <1>1 DEF PInv, Order, Channel, OpenSpans, Starting
<1>3. CASE loop' = [loop EXCEPT !.at = "store"] /\ UNCHANGED span
  <2>1. loop'.at = "store" /\ loop'.msg = m /\ loop' = [at |-> "store", msg |-> m]
    BY <1>3 DEF PInv, Types, Places
  <2>2. Types' /\ Order' /\ Handled'
    BY <1>1, <1>2, <1>3, <2>1 DEF PInv, Types, Places, Order, Handled, Gone, At
  <2>3. OpenSpans'
    BY <1>1, <1>2, <1>3, <2>1 DEF PInv, OpenSpans, Starting, EndedOnce
  <2>4. Known' /\ Back' /\ Apart'
    BY <1>1, <1>3, <2>1 DEF PInv, Known, Back, Settled, Apart
  <2> QED BY <2>2, <2>3, <2>4 DEF PInv
<1>4. CASE /\ ~ returns["successes"]
           /\ loop' = [loop EXCEPT !.at = "forward"]
           /\ span' = [span EXCEPT ![m] = Ended(@, "plain")]
  <2>1. loop'.at = "forward" /\ loop'.msg = m /\ loop' = [at |-> "forward", msg |-> m]
    BY <1>4 DEF PInv, Types, Places
  <2>2. span' = [span EXCEPT ![m] = "plain"]
    BY <1>2, <1>4 DEF Ended
  <2>3. Types' /\ Order' /\ Handled'
    BY <1>1, <1>2, <2>1, <2>2 DEF PInv, Types, Places, Order, Handled, Gone, At
  <2>4. OpenSpans'
    BY <1>1, <1>2, <2>1, <2>2 DEF PInv, Types, OpenSpans, Starting, EndedOnce
  <2>5. Known' /\ Back'
    BY <1>1, <1>4, <2>1 DEF PInv, Known, Back
  <2>6. Apart'
    BY <1>1, <2>1, <2>2 DEF PInv, Types, Apart
  <2> QED BY <2>3, <2>4, <2>5, <2>6 DEF PInv
<1> QED
  BY <1>3, <1>4 DEF Check

LEMMA PStore ==
  ASSUME PInv, Store
  PROVE  PInv'
<1> USE DEF library, application
<1> DEFINE m == loop.msg
<1>1. /\ loop.at = "store" /\ m \in Message
      /\ loop' = [loop EXCEPT !.at = "forward"]
      /\ contexts' = contexts \union {m}
      /\ UNCHANGED <<library, application, metadata, span, forwarder, cleaner>>
  BY DEF Store, PInv, Handled
<1>2. loop'.at = "forward" /\ loop'.msg = m /\ loop' = [at |-> "forward", msg |-> m]
  BY <1>1 DEF PInv, Types, Places
<1>3. Types' /\ Order' /\ Handled'
  BY <1>1, <1>2 DEF PInv, Types, Places, Order, Handled, Gone, At
<1>4. OpenSpans'
  BY <1>1, <1>2 DEF PInv, OpenSpans, Starting, EndedOnce
<1>5. Known' /\ Back' /\ Apart'
  BY <1>1, <1>2 DEF PInv, Known, Back, Settled, Apart
<1> QED
  BY <1>3, <1>4, <1>5 DEF PInv

LEMMA PForward ==
  ASSUME PInv, Forward
  PROVE  PInv'
<1> USE DEF library, application
<1>1. /\ loop.at = "forward" /\ loop.msg \in Message
      /\ loop'.at = "select" /\ loop' = [at |-> "select", msg |-> NoMessage]
      /\ inFlight' = inFlight \union {loop.msg}
      /\ UNCHANGED <<application, outcome, producer, contexts, metadata, span,
                     forwarder, cleaner>>
  BY DEF Forward, Selecting, At, PInv, Handled
<1>2. producer = "open"
  BY <1>1 DEF PInv, Order
<1>3. Types' /\ Order' /\ Handled'
  BY <1>1, <1>2 DEF PInv, Types, Places, Order, Handled, Gone, At
<1>4. OpenSpans'
  BY <1>1 DEF PInv, OpenSpans, Starting, EndedOnce
<1>5. Known' /\ Back' /\ Apart'
  BY <1>1 DEF PInv, Known, Back, Settled, Apart
<1> QED
  BY <1>3, <1>4, <1>5 DEF PInv

LEMMA PSignals ==
  ASSUME PInv, CloseSignal \/ AsyncCloseSignal \/ CloseReturns
  PROVE  PInv'
<1> USE DEF library, application
<1>1. /\ loop.at \in {"select", "closing"}
      /\ \E at \in {"closing", "gone"} : loop' = [at |-> at, msg |-> NoMessage]
      /\ producer' = producer \/ (producer' = "closing" /\ loop.at = "select")
      /\ UNCHANGED <<returns, received, inFlight, outcome, contexts, metadata,
                     span, forwarder, cleaner>>
  BY DEF CloseSignal, AsyncCloseSignal, CloseReturns, At, Gone, Selecting
<1>2. loop'.at \in {"closing", "gone"}
  BY <1>1
<1>3. loop.at = "select" => producer = "open"
  BY DEF PInv, Order
<1>4. Types' /\ Handled'
  BY <1>1, <1>2 DEF PInv, Types, Places, Handled
<1>5. Order'
  BY <1>1, <1>2, <1>3 DEF PInv, Order, Gone, At
<1>6. OpenSpans'
  BY <1>1, <1>2 DEF PInv, OpenSpans, Starting, EndedOnce
<1>7. Known' /\ Back' /\ Apart'
  BY <1>1, <1>2 DEF PInv, Known, Back, Settled, Apart
<1> QED
  BY <1>4, <1>5, <1>6, <1>7 DEF PInv

\* Steps of the library, and of the application when it closes the producer.
LEMMA PLibrary ==
  ASSUME PInv,
         \/ \E m \in Message : \/ Discard(m) \/ Drain(m)
                               \/ \E k \in Channel : Decide(m, k)
         \/ Shutdown
         \/ \E how \in {"Close", "AsyncClose"} : Closing(how)
  PROVE  PInv'
<1> USE DEF library, application
<1> DEFINE Shrinks ==
      /\ inFlight' \subseteq inFlight
      /\ outcome' \in [Message -> Channel \union {"unknown"}]
      /\ \/ producer' = producer
         \/ producer = "closing" /\ producer' = "closed" /\ inFlight' = {}
      /\ UNCHANGED <<returns, received, loop, contexts, metadata, span, forwarder, cleaner>>
<1>1. Shrinks
  <2>1. ASSUME NEW m \in Message, Discard(m) \/ Drain(m) PROVE Shrinks
    BY <2>1 DEF Discard, Drain, PInv, Types
  <2>2. ASSUME NEW m \in Message, NEW k \in Channel, Decide(m, k) PROVE Shrinks
    BY <2>2 DEF Decide, PInv, Types
  <2>3. CASE Shutdown
    BY <2>3 DEF Shutdown, PInv, Types
  <2>4. ASSUME NEW how \in {"Close", "AsyncClose"}, Closing(how) PROVE Shrinks
    BY <2>4 DEF Closing, PInv, Types
  <2> QED BY <2>1, <2>2, <2>3, <2>4
<1>2. Types' /\ Order' /\ Handled'
  BY <1>1 DEF PInv, Types, Order, Handled, Gone, At
<1>3. OpenSpans' /\ Known' /\ Back' /\ Apart'
  BY <1>1 DEF PInv, OpenSpans, Starting, EndedOnce, Known, Back, Settled, Apart
<1> QED
  BY <1>2, <1>3 DEF PInv

\* Steps of the forwarders and the cleaner.
LEMMA PReceive ==
  ASSUME PInv, NEW k \in Channel, NEW m \in Message, Receive(k, m)
  PROVE  PInv'
<1> USE DEF library, application
<1>1. /\ forwarder[k] = Ranging /\ m \in inFlight
      /\ inFlight' = inFlight \ {m}
      /\ forwarder' = [forwarder EXCEPT ![k] = [at |-> "send", msg |-> m]]
      /\ UNCHANGED <<application, loop, outcome, producer, cleaner>>
  BY DEF Receive, At
<1>2. /\ forwarder'[k].at = "send" /\ forwarder'[k].msg = m
      /\ \A j \in Channel \ {k} : forwarder'[j] = forwarder[j]
  BY <1>1 DEF PInv, Types
<1>3. Ranging # Gone
  BY DEF Ranging, Gone, At
<1>4. cleaner = "waiting" /\ producer # "closed"
  BY <1>1, <1>3 DEF PInv, Order
<1>5. Verdict[k] \in {"acked", "failed"}
  BY DEF Channel, Verdict
<1>6. CASE /\ m \in contexts
           /\ contexts' = contexts \ {m}
           /\ span' = [span EXCEPT ![m] = Ended(@, Verdict[k])]
           /\ metadata' = [metadata EXCEPT ![m] = "own"]
  <2>1. span[m] = "open" /\ ~ Starting(m)
    BY <1>4, <1>6 DEF PInv, OpenSpans
  <2>2. span' = [span EXCEPT ![m] = Verdict[k]]
    BY <1>6, <2>1 DEF Ended
  <2>3. Types' /\ Handled'
    BY <1>1, <1>5, <1>6, <2>2 DEF PInv, Types, Places, Handled
  <2>4. Order'
    BY <1>1, <1>2, <1>4 DEF PInv, Order, Gone, At
  <2>5. OpenSpans'
    BY <1>1, <1>4, <1>5, <1>6, <2>1, <2>2 DEF PInv, Types, OpenSpans, Starting, EndedOnce
  <2>6. Known'
    <3>1. loop.at = "forward" => loop.msg # m
      BY <1>1 DEF PInv, Apart
    <3> QED BY <1>1, <1>6, <3>1 DEF PInv, Known
  <2>7. Back'
    <3>1. \A j \in Channel : Verdict[j] # "open"
      BY DEF Channel, Verdict
    <3>2. span'[m] = Verdict[k] /\ metadata'[m] = "own"
          /\ \A n \in Message \ {m} : span'[n] = span[n] /\ metadata'[n] = metadata[n]
      BY <1>6, <2>2 DEF PInv, Types
    <3> QED
      BY <1>1, <1>2, <2>1, <3>1, <3>2 DEF PInv, Types, Back, Settled
  <2>8. Apart'
    BY <1>1, <1>5, <1>6, <2>2 DEF PInv, Types, Apart
  <2> QED BY <2>3, <2>4, <2>5, <2>6, <2>7, <2>8 DEF PInv
<1>7. CASE m \notin contexts /\ UNCHANGED <<contexts, span, metadata>>
  <2>1. ~ returns["successes"]
    BY <1>1, <1>7 DEF PInv, Known
  <2>2. Types' /\ Handled'
    BY <1>1, <1>7 DEF PInv, Types, Places, Handled
  <2>3. Order'
    BY <1>1, <1>2, <1>4 DEF PInv, Order, Gone, At
  <2>4. OpenSpans' /\ Known' /\ Apart'
    BY <1>1, <1>7, <2>1 DEF PInv, OpenSpans, Starting, EndedOnce, Known, Apart
  <2>5. Back'
    BY <1>1, <1>2, <2>1 DEF PInv, Types, Back
  <2> QED BY <2>2, <2>3, <2>4, <2>5 DEF PInv
<1> QED
  BY <1>6, <1>7 DEF Receive

LEMMA PDeliver ==
  ASSUME PInv, NEW k \in Channel, Deliver(k)
  PROVE  PInv'
<1> USE DEF library
<1> DEFINE m == forwarder[k].msg
<1>1. /\ forwarder[k].at = "send" /\ m \in Message
      /\ received' = [received EXCEPT ![k] = @ \union {m}]
      /\ forwarder' = [forwarder EXCEPT ![k] = Ranging]
      /\ UNCHANGED <<library, returns, loop, contexts, metadata, span, cleaner>>
  BY DEF Deliver, PInv, Back
<1>2. /\ forwarder'[k] = Ranging
      /\ \A j \in Channel \ {k} : forwarder'[j] = forwarder[j]
      /\ Ranging.at = "range" /\ Ranging # Gone /\ forwarder[k] # Gone
  BY <1>1 DEF PInv, Types, Ranging, Gone, At
<1>3. received'[k] = received[k] \union {m}
      /\ \A j \in Channel \ {k} : received'[j] = received[j]
  BY <1>1 DEF PInv, Types
<1>4. Types'
  BY <1>1 DEF PInv, Types, Places, Ranging, At
<1>5. Order' /\ Handled'
  BY <1>1, <1>2 DEF PInv, Order, Handled
<1>6. OpenSpans' /\ Known' /\ Apart'
  BY <1>1 DEF PInv, OpenSpans, Starting, EndedOnce, Known, Apart
<1>7. Back'
  <2>1. \A j \in Channel : forwarder'[j].at = "send" =>
          forwarder'[j] = forwarder[j]
    BY <1>2
  <2>2. returns["successes"] => \A j \in Channel : \A n \in received'[j] : Settled(j, n)
    BY <1>1, <1>3 DEF PInv, Back
  <2> QED
    BY <1>1, <2>1, <2>2 DEF PInv, Back, Settled
<1> QED
  BY <1>4, <1>5, <1>6, <1>7 DEF PInv

LEMMA PForwarderExit ==
  ASSUME PInv, NEW k \in Channel, ForwarderExit(k)
  PROVE  PInv'
<1> USE DEF library, application
<1>1. /\ producer = "closed"
      /\ forwarder' = [forwarder EXCEPT ![k] = Gone]
      /\ UNCHANGED <<library, application, loop, contexts, metadata, span, cleaner>>
  BY DEF ForwarderExit
<1>2. /\ forwarder'[k] = Gone /\ Gone.at = "gone"
      /\ \A j \in Channel \ {k} : forwarder'[j] = forwarder[j]
  BY <1>1 DEF PInv, Types, Gone, At
<1>3. Types'
  BY <1>1 DEF PInv, Types, Places, Gone, At
<1>4. Order' /\ Handled'
  BY <1>1, <1>2 DEF PInv, Order, Handled
<1>5. OpenSpans' /\ Known' /\ Apart'
  BY <1>1 DEF PInv, OpenSpans, Starting, EndedOnce, Known, Apart
<1>6. Back'
  BY <1>1, <1>2 DEF PInv, Back, Settled
<1> QED
  BY <1>3, <1>4, <1>5, <1>6 DEF PInv

\* The map still holds exactly the open spans: the loop starts none any more.
LEMMA PClean ==
  ASSUME PInv, Clean
  PROVE  PInv'
<1> USE DEF library, application
<1>1. /\ cleaner = "waiting" /\ cleaner' = "done"
      /\ \A k \in Channel : forwarder[k] = Gone
      /\ UNCHANGED <<library, application, loop, contexts, metadata, forwarder>>
  BY DEF Clean
<1>2. span' = [m \in Message |->
                 IF m \in contexts THEN Ended(span[m], "plain") ELSE span[m]]
  BY DEF Clean
<1>3. producer = "closed" /\ loop.at \in {"closing", "gone"} /\ inFlight = {}
  BY <1>1 DEF PInv, Order, Channel
<1>4. \A m \in Message : span[m] = "open" <=> m \in contexts
  BY <1>1, <1>3 DEF PInv, OpenSpans, Starting
<1>5. \A m \in Message : span'[m] = IF m \in contexts THEN "plain" ELSE span[m]
  BY <1>2, <1>4 DEF Ended
<1>6. Types'
  <2>1. span' \in [Message -> {"none", "open", "acked", "failed", "plain", "twice"}]
    BY <1>2, <1>5 DEF PInv, Types
  <2> QED BY <1>1, <2>1 DEF PInv, Types
<1>7. Order' /\ Handled' /\ Known' /\ Apart'
  BY <1>1, <1>3 DEF PInv, Order, Handled, Known, Apart
<1>8. OpenSpans'
  BY <1>1, <1>3, <1>4, <1>5 DEF PInv, OpenSpans, Starting, EndedOnce
<1>9. Back'
  <2>1. \A k \in Channel : Verdict[k] # "open"
    BY DEF Channel, Verdict
  <2>2. \A k \in Channel, m \in Message : Settled(k, m) => Settled(k, m)'
    BY <1>1, <1>4, <1>5, <2>1 DEF Settled
  <2> QED
    BY <1>1, <2>2 DEF PInv, Types, Back
<1> QED
  BY <1>6, <1>7, <1>8, <1>9 DEF PInv

LEMMA PNext == PInv /\ [Next]_vars => PInv'
<1> SUFFICES ASSUME PInv, [Next]_vars PROVE PInv'
  OBVIOUS
<1>1. CASE LoopStep
  BY <1>1, PCheck, PStore, PForward, PSignals DEF LoopStep
<1>2. ASSUME NEW k \in Channel, ForwarderStep(k) PROVE PInv'
  BY <1>2, PDeliver, PForwarderExit, PReceive DEF ForwarderStep
<1>3. ASSUME NEW m \in Message, Input(m) PROVE PInv'
  BY <1>3, PInput
<1>4. CASE \/ \E m \in Message : \/ Discard(m) \/ Drain(m)
                                \/ \E k \in Channel : Decide(m, k)
           \/ Shutdown
           \/ \E how \in {"Close", "AsyncClose"} : Closing(how)
  BY <1>4, PLibrary
<1>5. CASE Clean
  BY <1>5, PClean
<1>6. CASE UNCHANGED vars
  BY <1>6 DEF vars, PInv, Types, Order, Handled, OpenSpans, Starting, EndedOnce,
              Known, Back, Settled, Apart
<1> QED
  BY <1>1, <1>2, <1>3, <1>4, <1>5, <1>6 DEF Next

\* The wrapper's inductive invariant: nobody leaves before the one that gives
\* him work, and the map holds the open spans, but for the one just started.
THEOREM ProducerInvariance == Safety => []PInv
<1> QED
  BY PInit, PNext, PTL DEF Safety

\* However many messages, whatever the cache holds, and however the producer
\* is closed: the loop, the forwarders and the cleaner end no span twice.
THEOREM SpansEndOnce == Safety => []EndedOnce
<1>1. PInv => EndedOnce
  BY DEF PInv, OpenSpans
<1> QED
  BY ProducerInvariance, <1>1, PTL

\* After the cleaner no span of the producer is open, and none is opened.
THEOREM NothingLeftOpen == Safety => []CleanedUp
<1>1. PInv => CleanedUp
  BY DEF PInv, OpenSpans, CleanedUp
<1> QED
  BY ProducerInvariance, <1>1, PTL

\* With successes returned, a message comes back with the application's own
\* metadata.
THEOREM MetadataPutBack == Safety => []MetadataRestored
<1>1. PInv => MetadataRestored
  BY DEF PInv, Back, Settled, MetadataRestored
<1> QED
  BY ProducerInvariance, <1>1, PTL

\* And its span has the verdict of the channel that it comes back on.
THEOREM OutcomeTold == Safety => []OutcomeOnSpan
<1>1. PInv => OutcomeOnSpan
  BY DEF PInv, Back, Settled, OutcomeOnSpan
<1> QED
  BY ProducerInvariance, <1>1, PTL

\* Every span that the wrapper starts is ended exactly once.
THEOREM SpansAlwaysSettled == Safety => []SpansSettled
<1>1. EndedOnce /\ CleanedUp => SpansSettled
  BY DEF SpansSettled
<1> QED
  BY SpansEndOnce, NothingLeftOpen, <1>1, PTL

\* The application gets its message back whole, and the span agrees with it.
THEOREM AlwaysComesBackWhole == Safety => []ComesBackWhole
<1>1. MetadataRestored /\ OutcomeOnSpan => ComesBackWhole
  BY DEF ComesBackWhole
<1> QED
  BY MetadataPutBack, OutcomeTold, <1>1, PTL
-----------------------------------------------------------------------------
(* Sizes.                                                                  *)

\* p never holds more than it takes.
InFlightBounded == IsFiniteSet(inFlight) /\ Cardinality(inFlight) <= InFlightMax

\* Only the loop adds to the map, so the room it has seen before it stores is
\* still there: reading the size without the lock does no harm.
MapBounded ==
  /\ IsFiniteSet(contexts)
  /\ ~ returns["successes"] =>
       /\ Cardinality(contexts) <= CacheMax
       /\ loop.at = "store" => Cardinality(contexts) < CacheMax

\* What the types leave out of the invariant above.
Rest == returned \in BOOLEAN /\ reported \subseteq Message
        /\ close \in {"none", "Close", "AsyncClose"}

BInv == InFlightBounded /\ MapBounded /\ Rest

\* A smaller set is no larger, and one more element is one more at most.
LEMMA Sizes ==
  ASSUME NEW S, IsFiniteSet(S)
  PROVE  /\ Cardinality(S) \in Nat
         /\ \A x : /\ IsFiniteSet(S \ {x}) /\ Cardinality(S \ {x}) \in Nat
                  /\ Cardinality(S \ {x}) <= Cardinality(S)
         /\ \A x : /\ IsFiniteSet(S \union {x}) /\ Cardinality(S \union {x}) \in Nat
                  /\ Cardinality(S \union {x}) <= Cardinality(S) + 1
<1>1. Cardinality(S) \in Nat
  BY FS_CardinalityType
<1>2. ASSUME NEW x
      PROVE  /\ IsFiniteSet(S \ {x}) /\ Cardinality(S \ {x}) \in Nat
             /\ Cardinality(S \ {x}) <= Cardinality(S)
  <2>1. /\ IsFiniteSet(S \ {x})
        /\ \/ Cardinality(S \ {x}) = Cardinality(S) - 1 /\ S # {}
           \/ Cardinality(S \ {x}) = Cardinality(S)
    BY FS_RemoveElement
  <2>2. Cardinality(S \ {x}) \in Nat
    BY <2>1, FS_CardinalityType
  <2> QED
    BY <1>1, <2>1, <2>2
<1>3. ASSUME NEW x
      PROVE  /\ IsFiniteSet(S \union {x}) /\ Cardinality(S \union {x}) \in Nat
             /\ Cardinality(S \union {x}) <= Cardinality(S) + 1
  <2>1. /\ IsFiniteSet(S \union {x})
        /\ \/ Cardinality(S \union {x}) = Cardinality(S) + 1
           \/ Cardinality(S \union {x}) = Cardinality(S)
    BY FS_AddElement
  <2> QED
    BY <1>1, <2>1
<1> QED
  BY <1>1, <1>2, <1>3

\* p's library and the wrapper keep the bounds.
LEMMA BNext == PInv /\ BInv /\ [Next]_vars => BInv'
<1> SUFFICES ASSUME PInv, BInv, [Next]_vars PROVE BInv'
  OBVIOUS
<1> USE DEF library, application
<1>1. InFlightBounded'
  <2>1. CASE UNCHANGED inFlight
    BY <2>1 DEF BInv, InFlightBounded
  <2>2. CASE Forward
    <3>1. /\ IsFiniteSet(inFlight) /\ Cardinality(inFlight) < InFlightMax
          /\ inFlight' = inFlight \union {loop.msg}
      BY <2>2 DEF BInv, InFlightBounded, Forward
    <3>2. /\ IsFiniteSet(inFlight') /\ Cardinality(inFlight') \in Nat
          /\ Cardinality(inFlight) \in Nat
          /\ Cardinality(inFlight') <= Cardinality(inFlight) + 1
      BY <3>1, Sizes
    <3> QED
      BY <3>1, <3>2, ProducerAssumption DEF InFlightBounded
  <2>3. ASSUME NEW m, inFlight' = inFlight \ {m} PROVE InFlightBounded'
    BY <2>3, Sizes, ProducerAssumption DEF BInv, InFlightBounded
  <2>4. ASSUME NEW m \in Message,
               Discard(m) \/ Drain(m) \/ \E k \in Channel : Receive(k, m)
        PROVE  InFlightBounded'
    BY <2>3, <2>4 DEF Discard, Drain, Receive
  <2> QED
    BY <2>1, <2>2, <2>4 DEF Next, LoopStep, Check, Store, CloseSignal, AsyncCloseSignal,
       CloseReturns, ForwarderStep, Deliver, ForwarderExit, Input, Decide, Shutdown,
       Clean, Closing, vars
<1>2. MapBounded'
  <2>1. CASE UNCHANGED <<contexts, returns>> /\ loop'.at # "store"
    BY <2>1 DEF BInv, MapBounded
  <2>2. CASE UNCHANGED <<contexts, returns, loop>>
    BY <2>2 DEF BInv, MapBounded
  <2>3. CASE Check
    <3>1. CASE returns["successes"] \/ Cardinality(contexts) < CacheMax
      BY <2>3, <3>1 DEF Check, BInv, MapBounded
    <3>2. CASE ~ (returns["successes"] \/ Cardinality(contexts) < CacheMax)
      <4>1. loop'.at = "forward" /\ UNCHANGED <<contexts, returns>>
        BY <2>3, <3>2 DEF Check, PInv, Types, Places
      <4> QED BY <2>1, <4>1
    <3> QED BY <3>1, <3>2
  <2>4. CASE Store
    <3>1. /\ loop.at = "store" /\ loop'.at = "forward" /\ UNCHANGED returns
          /\ contexts' = contexts \union {loop.msg}
      BY <2>4 DEF Store, PInv, Types, Places
    <3>2. /\ IsFiniteSet(contexts') /\ Cardinality(contexts') \in Nat
          /\ Cardinality(contexts) \in Nat
          /\ Cardinality(contexts') <= Cardinality(contexts) + 1
      BY <3>1, Sizes DEF BInv, MapBounded
    <3>3. ~ returns["successes"] => Cardinality(contexts) < CacheMax
      BY <3>1 DEF BInv, MapBounded
    <3> QED
      BY <3>1, <3>2, <3>3, ProducerAssumption DEF MapBounded
  <2>5. ASSUME NEW k \in Channel, NEW m \in Message, Receive(k, m) PROVE MapBounded'
    <3>1. UNCHANGED <<returns, loop>> /\ (contexts' = contexts \ {m} \/ contexts' = contexts)
      BY <2>5 DEF Receive
    <3>2. CASE contexts' = contexts \ {m}
      <4>1. /\ IsFiniteSet(contexts') /\ Cardinality(contexts') \in Nat
            /\ Cardinality(contexts) \in Nat
            /\ Cardinality(contexts') <= Cardinality(contexts)
        BY <3>2, Sizes DEF BInv, MapBounded
      <4> QED
        BY <3>1, <4>1, ProducerAssumption DEF BInv, MapBounded
    <3> QED BY <2>2, <3>1, <3>2
  <2>6. CASE Forward \/ CloseSignal \/ AsyncCloseSignal \/ CloseReturns
             \/ \E m \in Message : Input(m)
    BY <2>1, <2>6 DEF Forward, CloseSignal, AsyncCloseSignal, CloseReturns, Input,
       At, Selecting, Gone
  <2> QED
    BY <2>2, <2>3, <2>4, <2>5, <2>6 DEF Next, LoopStep, ForwarderStep, Deliver,
       ForwarderExit, Discard, Drain, Decide, Shutdown, Clean, Closing, vars
<1>3. Rest'
  BY DEF BInv, Rest, Next, LoopStep, Check, Store, Forward, CloseSignal,
     AsyncCloseSignal, CloseReturns, ForwarderStep, Deliver, ForwarderExit, Receive,
     Input, Discard, Drain, Decide, Shutdown, Clean, Closing, vars
<1> QED
  BY <1>1, <1>2, <1>3 DEF BInv

\* Every variable has its type, p holds no more than it takes, and the map
\* stays within its cap although its size is read without the lock.
THEOREM TypeCorrect == Safety => []TypeOK
<1>1. Init => BInv
  <2>1. IsFiniteSet({}) /\ Cardinality({}) = 0
    BY FS_EmptySet
  <2>2. 0 <= InFlightMax /\ 0 <= CacheMax
    BY ProducerAssumption
  <2> SUFFICES ASSUME Init PROVE BInv
    OBVIOUS
  <2>3. inFlight = {} /\ contexts = {} /\ loop.at = "select"
    BY DEF Init, At, Selecting
  <2>4. InFlightBounded /\ MapBounded
    BY <2>1, <2>2, <2>3 DEF InFlightBounded, MapBounded
  <2>5. Rest
    BY DEF Init, Rest
  <2> QED
    BY <2>4, <2>5 DEF BInv
<1>2. PInv /\ BInv => TypeOK
  BY DEF PInv, Types, Order, BInv, InFlightBounded, MapBounded, Rest, TypeOK
<1> QED
  BY ProducerInvariance, BNext, <1>1, <1>2, PTL DEF Safety
-----------------------------------------------------------------------------
(* AsyncClose.                                                             *)

\* The loop has it, p has it, or a forwarder has it.
UnderWay(m) == \/ loop.at \in {"check", "store", "forward"} /\ loop.msg = m
               \/ m \in inFlight
               \/ \E k \in Channel : forwarder[k].at = "send" /\ forwarder[k].msg = m

\* As long as nobody calls Close, whose p.Close reads the channels too, what
\* the application has sent is under way or has come back.
NoneMissing ==
  /\ loop.at = "closing" => close = "Close"
  /\ (\A k \in Channel : returns[k]) /\ close # "Close" =>
       \A m \in Message : span[m] # "none" =>
         UnderWay(m) \/ \E k \in Channel : m \in received[k]

\* No step loses a message.
LEMMA NoneMissingNext == PInv /\ NoneMissing /\ [Next]_vars => NoneMissing'
<1> SUFFICES ASSUME PInv, NoneMissing, [Next]_vars PROVE NoneMissing'
  OBVIOUS
<1> USE DEF library, application
<1>1. CASE UNCHANGED <<returns, loop, span, inFlight, forwarder, received, close>>
  BY <1>1 DEF NoneMissing, UnderWay
<1>2. ASSUME NEW m \in Message, Input(m) PROVE NoneMissing'
  BY <1>2 DEF NoneMissing, UnderWay, Input, At, Selecting, PInv, Types
<1>3. CASE Check
  BY <1>3 DEF NoneMissing, UnderWay, Check, PInv, Types, Places, Ended
<1>4. CASE Store
  BY <1>4 DEF NoneMissing, UnderWay, Store, PInv, Types, Places
<1>5. CASE Forward
  BY <1>5 DEF NoneMissing, UnderWay, Forward, At, Selecting
<1>6. CASE CloseSignal \/ AsyncCloseSignal \/ CloseReturns
  BY <1>6 DEF NoneMissing, UnderWay, CloseSignal, AsyncCloseSignal, CloseReturns,
     At, Selecting, Gone
<1>7. ASSUME NEW m \in Message, Discard(m) PROVE NoneMissing'
  BY <1>7 DEF NoneMissing, UnderWay, Discard, PInv, Types
<1>8. ASSUME NEW m \in Message, Drain(m) PROVE NoneMissing'
  BY <1>8 DEF NoneMissing, UnderWay, Drain
<1>9. ASSUME NEW k \in Channel, NEW m \in Message, Receive(k, m) PROVE NoneMissing'
  <2>1. /\ forwarder[k].at # "send" /\ UNCHANGED <<loop, returns, close, received>>
        /\ inFlight' = inFlight \ {m}
        /\ forwarder'[k].at = "send" /\ forwarder'[k].msg = m
        /\ \A j \in Channel \ {k} : forwarder'[j] = forwarder[j]
        /\ \A n \in Message : span'[n] # "none" => n = m \/ span[n] # "none"
    BY <1>9 DEF Receive, Ranging, At, PInv, Types
  <2>2. \A n \in Message : UnderWay(n) => UnderWay(n)'
    BY <2>1 DEF UnderWay
  <2>3. UnderWay(m)'
    BY <2>1 DEF UnderWay
  <2> QED
    BY <2>1, <2>2, <2>3 DEF NoneMissing
<1>10. ASSUME NEW k \in Channel, Deliver(k) PROVE NoneMissing'
  <2>1. /\ UNCHANGED <<loop, returns, close, span, inFlight>>
        /\ received'[k] = received[k] \union {forwarder[k].msg}
        /\ \A j \in Channel \ {k} : /\ received'[j] = received[j]
                                     /\ forwarder'[j] = forwarder[j]
    BY <1>10 DEF Deliver, PInv, Types
  <2>2. \A n \in Message :
          UnderWay(n) \/ (\E j \in Channel : n \in received[j])
            => UnderWay(n)' \/ \E j \in Channel : n \in received'[j]
    BY <2>1 DEF UnderWay
  <2> QED
    BY <2>1, <2>2 DEF NoneMissing
<1>11. ASSUME NEW k \in Channel, ForwarderExit(k) PROVE NoneMissing'
  BY <1>11 DEF NoneMissing, UnderWay, ForwarderExit, Ranging, Gone, At, PInv, Types
<1>12. CASE Clean
  BY <1>12 DEF NoneMissing, UnderWay, Clean, PInv, Types, OpenSpans, Ended
<1>13. ASSUME NEW how \in {"Close", "AsyncClose"}, Closing(how) PROVE NoneMissing'
  BY <1>13 DEF NoneMissing, UnderWay, Closing
<1> QED
  BY <1>1, <1>2, <1>3, <1>4, <1>5, <1>6, <1>7, <1>8, <1>9, <1>10, <1>11, <1>12, <1>13
     DEF Next, LoopStep, ForwarderStep, Decide, Shutdown, vars

\* Once the cleaner is done after AsyncClose, with both channels returned, the
\* application has got back every message that it sent.
THEOREM AsyncCloseDelivers == Safety => []AllDelivered
<1>1. Init => NoneMissing
  BY DEF Init, NoneMissing, At, Selecting
<1>2. PInv /\ NoneMissing => AllDelivered
  <2> SUFFICES ASSUME PInv, NoneMissing, cleaner = "done", close = "AsyncClose",
                      \A k \in Channel : returns[k],
                      NEW m \in Message, span[m] # "none"
               PROVE  \E k \in Channel : m \in received[k]
    BY DEF AllDelivered
  <2>1. \A k \in Channel : forwarder[k].at = "gone"
    BY DEF PInv, Order, Gone, At
  <2>2. producer = "closed" /\ inFlight = {} /\ loop.at \in {"closing", "gone"}
    BY DEF PInv, Order, Channel
  <2> QED
    BY <2>1, <2>2 DEF NoneMissing, UnderWay
<1> QED
  BY ProducerInvariance, NoneMissingNext, <1>1, <1>2, PTL DEF Safety
=============================================================================
