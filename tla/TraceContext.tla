---------------------------- MODULE TraceContext ----------------------------
(***************************************************************************)
(* The span list the agent keeps in every goroutine.  A rule adds the      *)
(* field otel_trace_context to runtime.g; hooks on the OpenTelemetry SDK   *)
(* push a span when it is created and remove it when it is ended; a raw    *)
(* rule on runtime.newproc1 gives a new goroutine a snapshot of its        *)
(* parent's list; a hook on trace.SpanFromContext falls back on the list   *)
(* when the context.Context carries no span.                               *)
(*                                                                         *)
(* A goroutine's list (the chain of spanWrapper reached from sw) is a      *)
(* sequence with its tail(), the current span, last.  A list belongs to    *)
(* one goroutine and no method of it blocks, so each method is one step.   *)
(* A nil otel_trace_context is the empty list, as every reader treats it.  *)
(*                                                                         *)
(* clearTraceContext and the GLocalData stubs are called from nowhere.     *)
(***************************************************************************)
EXTENDS Integers, Sequences, FiniteSets

CONSTANTS Goroutine, Main, MaxSpans, SpanBound

ASSUME TCAssumption == /\ Main \in Goroutine
                       /\ MaxSpans \in Nat \ {0}
                       /\ SpanBound \in Nat

VARIABLES
  alive,     \* the goroutines that run
  gls,       \* g.otel_trace_context: [sw, n, lcs] of each g structure
  created,   \* the number of spans created so far
  latest,    \* the newest span: the parent the SDK gave it, and whether it
             \* was created without a usable context.Context
  origin,    \* history: the span each goroutine inherited
  mine,      \* history: the spans each goroutine created since it started
  ended      \* history: the listed spans it ended since it started

vars == <<alive, gls, created, latest, origin, mine, ended>>

Created == 1 .. created
NoSpan == 0

-----------------------------------------------------------------------------
(* The methods of traceContext.                                            *)

EmptyContext == [sw |-> <<>>, n |-> 0, lcs |-> NoSpan]

Current(tc) == IF tc.n = 0 THEN NoSpan ELSE tc.sw[Len(tc.sw)]

\* Mutant: the cap is tested with > instead of >=.
AddPastCap(tc, s) ==
  IF tc.n > MaxSpans THEN tc
  ELSE [sw  |-> Append(tc.sw, s),
        n   |-> tc.n + 1,
        lcs |-> IF tc.n = 0 THEN s ELSE tc.lcs]

\* add: a full list refuses the span; the first span of a list becomes the
\* local root.  The span has been started either way.
Add(tc, s) ==
  IF tc.n > 0 /\ tc.n >= MaxSpans THEN tc
  ELSE [sw  |-> Append(tc.sw, s),
        n   |-> tc.n + 1,
        lcs |-> IF tc.n = 0 THEN s ELSE tc.lcs]

Listed(tc, s) == \E i \in 1 .. Len(tc.sw) : tc.sw[i] = s

\* The entry the walk from the top of the list meets first.
TopIndex(l, s) == CHOOSE i \in 1 .. Len(l) :
                    /\ l[i] = s
                    /\ \A j \in (i + 1) .. Len(l) : l[j] # s

DropAt(l, k) == [i \in 1 .. (Len(l) - 1) |-> IF i < k THEN l[i] ELSE l[i + 1]]

\* del: unlinks the topmost entry for the span, wherever it is; keeps lcs.
Del(tc, s) ==
  IF tc.n = 0 \/ ~ Listed(tc, s) THEN tc
  ELSE [tc EXCEPT !.sw = DropAt(tc.sw, TopIndex(tc.sw, s)), !.n = @ - 1]

\* Mutant: the snapshot copies the local root along.
SnapShotWithRoot(tc) ==
  IF tc.n = 0 THEN EmptyContext
  ELSE [sw |-> <<Current(tc)>>, n |-> 1, lcs |-> tc.lcs]

\* Mutant: the snapshot takes the far end of the chain.
SnapShotOfOldest(tc) ==
  IF tc.n = 0 THEN EmptyContext
  ELSE [sw |-> <<tc.sw[1]>>, n |-> 1, lcs |-> NoSpan]

\* TakeSnapShot: only the current span is copied, and no local root.
TakeSnapShot(tc) ==
  IF tc.n = 0 THEN EmptyContext
  ELSE [sw |-> <<Current(tc)>>, n |-> 1, lcs |-> NoSpan]

\* trace.SpanFromContext with its exit hook: the span the context carries,
\* or, when it carries none, the goroutine's current span.
SpanFromContext(g, ctx) == IF ctx # NoSpan THEN ctx ELSE Current(gls[g])

\* The span the router hooks rename to the matched route.
LocalRootSpanFromGLS(g) == gls[g].lcs
-----------------------------------------------------------------------------

Init ==
  /\ alive = {Main}
  /\ gls = [g \in Goroutine |-> EmptyContext]
  /\ created = 0
  /\ latest = [parent |-> NoSpan, implicit |-> FALSE]
  /\ origin = [g \in Goroutine |-> NoSpan]
  /\ mine = [g \in Goroutine |-> {}]
  /\ ended = [g \in Goroutine |-> {}]

\* The SDK creates the next span; the exit hook of newRecordingSpan or
\* newNonRecordingSpan adds it to the list of the goroutine that runs it.
NewSpan(g, p, noCtx) ==
  /\ g \in alive
  /\ created < SpanBound
  /\ created' = created + 1
  /\ latest' = [parent |-> p, implicit |-> noCtx]
  /\ gls' = [gls EXCEPT ![g] = Add(@, created + 1)]
  /\ mine' = [mine EXCEPT ![g] = @ \union {created + 1}]
  /\ UNCHANGED <<alive, origin, ended>>

\* Tracer.Start(ctx) with the span ctx carries, if any.
Start(g, ctx) == NewSpan(g, SpanFromContext(g, ctx), ctx = NoSpan)

\* Tracer.Start(ctx, WithNewRoot()) looks at no other span.
StartRoot(g) == NewSpan(g, NoSpan, FALSE)

\* span.End(), in any goroutine and any number of times: the entry hook
\* looks for the span in the list of the goroutine that calls it.
End(g, s) ==
  /\ g \in alive
  /\ gls' = [gls EXCEPT ![g] = Del(@, s)]
  /\ ended' = IF Listed(gls[g], s) THEN [ended EXCEPT ![g] = @ \union {s}]
              ELSE ended
  /\ UNCHANGED <<alive, created, latest, origin, mine>>

\* A go statement: newproc1 takes a g structure, new or reused, and its
\* deferred rule overwrites whatever a previous goroutine left there.
Go(g, c) ==
  /\ g \in alive /\ c \notin alive
  /\ alive' = alive \union {c}
  /\ gls' = [gls EXCEPT ![c] = TakeSnapShot(gls[g])]
  /\ origin' = [origin EXCEPT ![c] = Current(gls[g])]
  /\ UNCHANGED <<created, latest, mine, ended>>

\* A goroutine returns; its g keeps the field until it is reused.
Exit(g) ==
  /\ g \in alive \ {Main}
  /\ alive' = alive \ {g}
  /\ origin' = [origin EXCEPT ![g] = NoSpan]
  /\ mine' = [mine EXCEPT ![g] = {}]
  /\ ended' = [ended EXCEPT ![g] = {}]
  /\ UNCHANGED <<gls, created, latest>>

Next == \E g \in Goroutine :
          \/ \E ctx \in {NoSpan} \union Created : Start(g, ctx)
          \/ StartRoot(g)
          \/ \E s \in Created : End(g, s)
          \/ \E c \in Goroutine : Go(g, c)
          \/ Exit(g)

Spec == Init /\ [][Next]_vars
-----------------------------------------------------------------------------
(* Properties.                                                             *)

Held(g) == {gls[g].sw[i] : i \in 1 .. Len(gls[g].sw)}

\* Every variable has its type; an entry of a list is a span that was created.
TypeOK ==
  /\ alive \subseteq Goroutine
  /\ created \in 0 .. SpanBound
  /\ gls \in [Goroutine -> [sw : Seq(Created), n : Nat, lcs : 0 .. created]]
  /\ latest \in [parent : 0 .. created, implicit : BOOLEAN]
  /\ origin \in [Goroutine -> 0 .. created]
  /\ mine \in [Goroutine -> SUBSET Created]
  /\ ended \in [Goroutine -> SUBSET Created]

\* The counter n, by which add, del and tail decide, is the length of the
\* chain at sw, and the cap of maxSpans is never passed.
CountMatches == \A g \in Goroutine : /\ gls[g].n = Len(gls[g].sw)
                                     /\ gls[g].n <= MaxSpans

\* A list is ordered by creation, its oldest span first: ends out of order,
\* snapshots and reused g structures never put an older span on top of a
\* newer one, so tail() is the most recently created span of the list.
NewestOnTop == \A g \in Goroutine : \A i, j \in 1 .. Len(gls[g].sw) :
                 i < j => gls[g].sw[i] < gls[g].sw[j]

\* A goroutine that has ended a span, its own or an inherited one, in any
\* order and however often, never finds it in its list again.  A stale entry
\* (a span already ended) can only come from an End in another goroutine.
StaleOnlyFromOthers == \A g \in alive : Held(g) \cap ended[g] = {}

\* A goroutine's list holds nothing but the spans it created itself since it
\* started and the one span it inherited: a reused g structure never passes
\* on the spans of the goroutine that ran on it before.
OwnOrInherited == \A g \in alive :
  Held(g) \subseteq mine[g] \union ({origin[g]} \ {NoSpan})

\* What a goroutine holds is a bounded, ordered list of its own spans that it
\* has not ended itself: the four statements above at once.
HeldSound == CountMatches /\ NewestOnTop /\ StaleOnlyFromOthers /\ OwnOrInherited

\* The local root that router hooks rename is never younger than a span the
\* list holds, and it was created in this goroutine, not inherited.
LocalRootIsOldest == \A g \in alive :
  LET root == LocalRootSpanFromGLS(g)
  IN  root # NoSpan => /\ root \in mine[g]
                       /\ \A s \in Held(g) : root <= s

\* A g structure on which no goroutine runs has no history, and what the
\* runs check above makes an inductive invariant with it.
DeadIsBlank == \A g \in Goroutine \ alive : mine[g] = {} /\ ended[g] = {}

IInv == /\ TypeOK
        /\ CountMatches
        /\ NewestOnTop
        /\ StaleOnlyFromOthers
        /\ OwnOrInherited
        /\ LocalRootIsOldest
        /\ DeadIsBlank

\* The promise of docs/user/context-propagation.md: a span created without a
\* usable context is a child of the most recently created span its goroutine
\* holds.  ContextPropagation states it over sets of held spans.
CP == INSTANCE ContextPropagation WITH held <- [g \in Goroutine |-> Held(g)]
Promise == CP!Spec
=============================================================================
