------------------------- MODULE ContextPropagation -------------------------
(***************************************************************************)
(* What the goroutine-local trace context promises to instrumented code,   *)
(* without the list that implements it: every goroutine holds a set of     *)
(* spans, and a span created without a usable context.Context becomes a    *)
(* child of the most recently created span its goroutine holds.            *)
(* TraceContext implements this specification.                             *)
(*                                                                         *)
(* Spans are numbered in the order of their creation, so "most recently    *)
(* created" is "largest"; 0 stands for "no span".                          *)
(***************************************************************************)
EXTENDS Integers, FiniteSets

CONSTANTS Goroutine,   \* the runtime's g structures, reused after an exit
          Main,        \* the goroutine that runs main.main
          MaxSpans,    \* the longest list a goroutine may hold
          SpanBound    \* bounds the number of spans ever created

VARIABLES alive,       \* the goroutines that run
          created,     \* the number of spans created so far
          latest,      \* how the newest span was created: its parent, and
                       \* whether the caller had no usable context
          held         \* the spans each goroutine holds

vars == <<alive, created, latest, held>>

NoSpan == 0

\* The most recently created span of a set of held spans.
Newest(S) == IF S = {} THEN NoSpan
             ELSE CHOOSE s \in S : \A t \in S : t <= s

Init == /\ alive = {Main}
        /\ created = 0
        /\ latest = [parent |-> NoSpan, implicit |-> FALSE]
        /\ held = [g \in Goroutine |-> {}]

\* A new span: a root or the child of the span in the context the caller
\* passed (p), or, with no such context, of the newest span held.  The
\* goroutine holds it from now on, unless its list is full.
Create(g) ==
  /\ g \in alive
  /\ created < SpanBound
  /\ created' = created + 1
  /\ \/ \E p \in 0 .. created : latest' = [parent |-> p, implicit |-> FALSE]
     \/ latest' = [parent |-> Newest(held[g]), implicit |-> TRUE]
  /\ \/ held' = [held EXCEPT ![g] = @ \union {created'}]
     \/ Cardinality(held[g]) = MaxSpans /\ UNCHANGED held
  /\ UNCHANGED alive

\* A goroutine that ends a span no longer holds it; others are not told.
Finish(g) ==
  /\ g \in alive
  /\ \E s \in 1 .. created : held' = [held EXCEPT ![g] = @ \ {s}]
  /\ UNCHANGED <<alive, created, latest>>

\* A new goroutine holds the newest span of the one that started it.
Spawn(g, c) ==
  /\ g \in alive /\ c \notin alive
  /\ alive' = alive \union {c}
  /\ held' = [held EXCEPT ![c] = IF held[g] = {} THEN {} ELSE {Newest(held[g])}]
  /\ UNCHANGED <<created, latest>>

Exit(g) ==
  /\ g \in alive \ {Main}
  /\ alive' = alive \ {g}
  /\ UNCHANGED <<created, latest, held>>

Next == \E g \in Goroutine :
          Create(g) \/ Finish(g) \/ Exit(g) \/ \E c \in Goroutine : Spawn(g, c)

Spec == Init /\ [][Next]_vars
=============================================================================
