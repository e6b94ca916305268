-------------------------- MODULE GoroutineBaggage --------------------------
(***************************************************************************)
(* The baggage the agent keeps in every goroutine, beside the span list of *)
(* TraceContext: a second field of runtime.g that the same rule on         *)
(* newproc1 hands to a new goroutine.  A file that replaces context.go of  *)
(* the OpenTelemetry baggage package stores what a context.Context gets    *)
(* and reads it when one carries none.                                     *)
(*                                                                         *)
(* A context.Context carries a list of members, or none (NoList), which is *)
(* also what it carries after it was given an empty baggage.  Whatever has *)
(* been made may be in some context of any goroutine: contexts travel, and *)
(* the propagator sends baggage to other processes and back.               *)
(*                                                                         *)
(* ContextWithoutBaggage leaves the goroutine's baggage alone, no handler  *)
(* clears it, and ClearBaggageInGLS and DeleteBaggageMemberInGLS are       *)
(* called from nowhere: a request on a goroutine that serves several reads *)
(* the baggage of the one before unless it brings its own.                 *)
(***************************************************************************)
EXTENDS TraceContext

CONSTANT StoreBound
ASSUME GBAssumption == StoreBound \in Nat

VARIABLES
  stores,     \* the number of calls of ContextWithBaggage so far
  made,       \* the number of baggages with members made so far
  container,  \* g.otel_baggage_container of each g structure
  stored,     \* history: what each goroutine has stored since it started
  inherited   \* history: what its parent read when it started

baggageVars == <<stores, made, container, stored, inherited>>

NoList == 0
NoBaggage == -1      \* a nil container
EmptyBaggage == 0    \* no members
Baggage(n) == 0 .. n

BaggageInit ==
  /\ Init
  /\ stores = 0 /\ made = 0
  /\ container = [g \in Goroutine |-> NoBaggage]
  /\ stored = [g \in Goroutine |-> {}]
  /\ inherited = [g \in Goroutine |-> EmptyBaggage]

\* FromContext: the goroutine's baggage if the context has none.
FromContext(g, list) ==
  IF list = NoList /\ container[g] # NoBaggage THEN container[g] ELSE list

\* ContextWithBaggage; Extract of the propagator calls it as well.
ContextWithBaggage(g, b) ==
  /\ g \in alive /\ stores < StoreBound
  /\ stores' = stores + 1
  /\ made' = IF b > made THEN b ELSE made
  /\ container' = [container EXCEPT ![g] = b]
  /\ stored' = [stored EXCEPT ![g] = @ \union {b}]
  /\ UNCHANGED <<vars, inherited>>

\* Mutant: a parent without a container leaves that of the new g alone.
PropagatedKept(g, c) == IF container[g] = NoBaggage THEN container[c] ELSE container[g]

\* contextPropagate: a copy of the parent's container, or nil.
Propagated(g, c) == container[g]

BaggageGo(g, c) ==
  /\ Go(g, c)
  /\ container' = [container EXCEPT ![c] = Propagated(g, c)]
  /\ inherited' = [inherited EXCEPT ![c] = FromContext(g, NoList)]
  /\ UNCHANGED <<stores, made, stored>>

BaggageExit(g) ==
  /\ Exit(g)
  /\ stored' = [stored EXCEPT ![g] = {}]
  /\ inherited' = [inherited EXCEPT ![g] = EmptyBaggage]
  /\ UNCHANGED <<stores, made, container>>

BaggageNext == \E g \in Goroutine :
  \/ /\ \/ \E ctx \in {NoSpan} \union Created : Start(g, ctx)
        \/ StartRoot(g)
        \/ \E s \in Created : End(g, s)
     /\ UNCHANGED baggageVars
  \/ \E b \in Baggage(made + 1) : ContextWithBaggage(g, b)
  \/ \E c \in Goroutine : BaggageGo(g, c)
  \/ BaggageExit(g)

BaggageSpec == BaggageInit /\ [][BaggageNext]_<<vars, baggageVars>>
-----------------------------------------------------------------------------
(* Properties.                                                             *)

BaggageTypeOK ==
  /\ stores \in 0 .. StoreBound /\ made \in 0 .. stores
  /\ container \in [Goroutine -> {NoBaggage} \union Baggage(made)]
  /\ stored \in [Goroutine -> SUBSET Baggage(made)]
  /\ inherited \in [Goroutine -> Baggage(made)]

\* The baggage of a context is read from it.  Where a context was lost the
\* goroutine reads what it stored itself since it started, or, if that is
\* nothing, what its parent read when it started it: never what a goroutine
\* has stored that ran on the same g before, or that is no ancestor.
BaggageSound ==
  /\ BaggageTypeOK
  /\ \A g \in alive :
       /\ \A list \in 1 .. made : FromContext(g, list) = list
       /\ FromContext(g, NoList) \in IF stored[g] = {} THEN {inherited[g]} ELSE stored[g]

\* No goroutine runs on the other g structures, and with that it is inductive.
BaggageInv ==
  /\ BaggageSound /\ alive \subseteq Goroutine
  /\ \A g \in Goroutine \ alive : stored[g] = {}
=============================================================================
