----------------------------- MODULE HookPairs -----------------------------
(***************************************************************************)
(* What the hooks of the libraries have in common: before a call (OnEnter) *)
(* a span is started, after it (OnExit) the span is ended, and what the    *)
(* call does in between is done under it.  A hook is a record of HookShape *)
(* that says how its two halves go about it.                               *)
(*                                                                         *)
(* One goroutine that makes calls, nested and one after the other, and the *)
(* goroutines that end a span later.  A context matters by its span, a     *)
(* span by its place in the sequence spans; 0 is no span.  The spans that  *)
(* the goroutine lists are those of TraceContext, without its limit.       *)
(***************************************************************************)
EXTENDS Integers, Sequences, HookShape

CONSTANTS Hooks,      \* the hooks
          Common,     \* bound: of the others one call is made, before, after,
                      \* around or within calls that have one of these
          Routers,    \* the router hooks, which rename the span of a request
          MaxDepth,   \* bound: frames, the application is one
          MaxCalls,   \* bound: calls in all, the application is one
          (* The exceptions to the properties, by the names of the hooks.    *)
          EndsOthers,    \* end a span that is not theirs
          LeavesOpen,    \* do not end theirs: <<name, outcome>>
          LosesErrors,   \* do not tell it of an error
          Unasked        \* start a span although they are disabled

ASSUME BoundsAssumption == MaxDepth \in Nat /\ MaxCalls \in Nat

\* The exceptions are just what the records say.  A hook that is not one of them
\* ends its own span or none; the half that starts a span asks, and the one that
\* ends it does not ask anew; it ends its span however the call ends, and tells it
\* of an error.
ASSUME HooksAssumption ==
  /\ Hooks \subseteq HookType /\ Common \subseteq Hooks /\ Routers \subseteq HookType
  /\ \A h \in Hooks :
       /\ h.name \notin EndsOthers =>
            h.bare = "nothing" /\ \A how \in Outcomes : h.ends[how] \in {"own", "nothing"}
       /\ h.name \notin Unasked => h.asks \intersect {"install", "enter"} # {}
       /\ h.when = "enter" =>
            \A how \in Outcomes : <<h.name, how>> \notin LeavesOpen =>
              \/ how = "error" /\ ~h.fails
              \/ /\ h.ends[how] = "own" /\ (how = "panic" => h.deferred)
                 /\ "exit" \in h.asks => h.asks \intersect {"install", "enter"} # {}
       /\ h.name \notin LosesErrors => ~h.fails \/ (h.shows /\ h.when # "over")
       /\ h.when = "over" => ~h.gives /\ ~h.server

VARIABLES
  enabled,  \* the switch of the instrumentations in the environment
  spans,    \* the spans started, see NewSpan
  gls,      \* the spans that the goroutine lists; a later one is a greater one
  lcs,      \* the span it listed first, which stays when it ends
  frames,   \* the calls that are under way, the innermost last
  made,     \* the calls made: the name of the hook and how it ended
  pending   \* ends that another goroutine has to do: [call, span, error]

vars == <<enabled, spans, gls, lcs, frames, made, pending>>

\* The application, with or without a span of its own, is the outermost frame.
App == [Hook("the application") EXCEPT !.asks = {}]
Frame(h, call, ctx, held, inside, stored) ==
  [hook |-> h, call |-> call, ctx |-> ctx, held |-> held, inside |-> inside,
   stored |-> stored, routed |-> FALSE, how |-> "running"]
NewSpan(under, by, call) ==
  [under |-> under, by |-> by, call |-> call, open |-> TRUE, endedBy |-> 0,
   error |-> FALSE, route |-> 0]

Init ==
  /\ enabled \in BOOLEAN /\ made = <<[name |-> App.name, how |-> "running"]>> /\ pending = {}
  /\ \/ /\ spans = <<>> /\ gls = {} /\ lcs = 0
        /\ frames = <<Frame(App, 1, 0, 0, 0, FALSE)>>
     \/ /\ spans = <<NewSpan(0, App.name, 1)>> /\ gls = {1} /\ lcs = 1
        /\ frames = <<Frame(App, 1, 0, 1, 1, TRUE)>>

Top == frames[Len(frames)]
SetTop(f) == [frames EXCEPT ![Len(frames)] = f]
Pop == SubSeq(frames, 1, Len(frames) - 1)
Newest == IF gls = {} THEN 0 ELSE CHOOSE s \in gls : \A t \in gls : t <= s
\* Mutant: without its exit hook, which looks at the list of the goroutine.
SpanOfContextOnly(ctx) == ctx

\* trace.SpanFromContext.
SpanOf(ctx) == IF ctx = 0 THEN Newest ELSE ctx
-----------------------------------------------------------------------------
(* Instrumenter.                                                           *)

Under(h, ctx) == IF h.under = "context" THEN SpanOf(ctx) ELSE Newest
Closed(s, call, err) == [s EXCEPT !.open = FALSE, !.endedBy = call, !.error = err]

\* Mutant: the local root is set once for the goroutine.
StartKeepsRoot(h, ctx, call) ==
  /\ spans' = Append(spans, NewSpan(Under(h, ctx), h.name, call))
  /\ gls' = gls \union {Len(spans) + 1}
  /\ lcs' = IF lcs = 0 THEN Len(spans) + 1 ELSE lcs

\* Start: the span is listed, and is the local root of an empty list.
Start(h, ctx, call) ==
  /\ spans' = Append(spans, NewSpan(Under(h, ctx), h.name, call))
  /\ gls' = gls \union {Len(spans) + 1}
  /\ lcs' = IF gls = {} THEN Len(spans) + 1 ELSE lcs

\* End: of two ends of a span the second has no effect.
End(s, call, err) ==
  /\ spans' = IF s # 0 /\ spans[s].open
              THEN [spans EXCEPT ![s] = Closed(@, call, err)] ELSE spans
  /\ gls' = gls \ {s}
  /\ UNCHANGED lcs

\* What it is to rename the local root span: it has no effect on one that is
\* over.
Renamed(all, root, call) ==
  IF root # 0 /\ all[root].open THEN [all EXCEPT ![root].route = call] ELSE all

\* StartAndEnd, or Start and End with the renaming between them.
StartAndEnd(h, ctx, call, err) ==
  LET id == Len(spans) + 1
      started == Append(spans, NewSpan(Under(h, ctx), h.name, call))
      root == IF gls = {} THEN id ELSE lcs
      named == IF h.routes THEN Renamed(started, root, call) ELSE started
  IN /\ spans' = [named EXCEPT ![id] = Closed(@, call, err)]
     /\ lcs' = root
     /\ UNCHANGED gls

NoSpanMoves == UNCHANGED <<spans, gls, lcs>>
-----------------------------------------------------------------------------
(* Calls.                                                                  *)

Asks(h, half) == half \in h.asks /\ ~enabled

\* OnEnter of h, for a call with the context ctx; skip is a call left alone.
Enter(h, ctx, skip) ==
  LET call == Len(made) + 1
      on == ~(Asks(h, "install") \/ Asks(h, "enter") \/ skip)
      starts == on /\ h.when # "exit"
      id == IF starts THEN Len(spans) + 1 ELSE 0
  IN /\ Top.how = "running" /\ Len(frames) < MaxDepth /\ call <= MaxCalls
     /\ made' = Append(made, [name |-> h.name, how |-> "running"])
     /\ frames' = Append(frames, Frame(h, call, ctx, id,
                                  IF starts /\ h.gives THEN id ELSE ctx, on))
     /\ \/ ~starts /\ NoSpanMoves
        \/ starts /\ h.when = "enter" /\ Start(h, ctx, call)
        \/ starts /\ h.when = "over" /\ StartAndEnd(h, ctx, call, FALSE)
     /\ UNCHANGED <<enabled, pending>>

\* The application makes a call with the context it has, or with one that knows
\* no span.
CommonNames == {h.name : h \in Common \union {App}}
Callable ==
  IF \A c \in DOMAIN made : made[c].name \in CommonNames THEN Hooks ELSE Common
Call ==
  \E h \in Callable, ctx \in {Top.inside, 0}, skip \in BOOLEAN :
    /\ skip => h.skips
    /\ h.server \/ h.routes => Len(frames) = 1  \* requests come from outside
    /\ Enter(h, ctx, skip)

\* The function is through.
Return(how) ==
  /\ Len(frames) > 1 /\ Top.how = "running" /\ (how = "error" => Top.hook.fails)
  /\ frames' = SetTop([Top EXCEPT !.how = how])
  /\ made' = [made EXCEPT ![Top.call].how = how]
  /\ UNCHANGED <<enabled, spans, gls, lcs, pending>>

\* Mutant: the second half returns early when the call failed.
DoesOnSuccess(f) ==
  IF (f.how = "panic" /\ ~f.hook.deferred) \/ Asks(f.hook, "install")
       \/ Asks(f.hook, "exit") \/ f.how = "error"
  THEN "nothing"
  ELSE IF f.stored THEN f.hook.ends[f.how] ELSE f.hook.bare

\* What the second half does to the frame f.
Does(f) ==
  IF (f.how = "panic" /\ ~f.hook.deferred) \/ Asks(f.hook, "install")
       \/ Asks(f.hook, "exit")
  THEN "nothing"
  ELSE IF f.stored THEN f.hook.ends[f.how] ELSE f.hook.bare

\* Mutant: the span is taken from the context that the call was given.
TargetOfCaller(f) == SpanOf(f.ctx)

\* The span that the second half ends.
Target(f) ==
  IF Does(f) = "own" THEN f.held
  ELSE IF Does(f) = "newest" THEN Newest
  ELSE IF f.hook.late THEN f.ctx  \* for the list of the other goroutine is empty
  ELSE SpanOf(f.ctx)

\* OnExit.
Exit ==
  LET f == Top  h == f.hook  err == f.how = "error" /\ h.shows
  IN /\ Len(frames) > 1 /\ f.how # "running"
     /\ frames' = Pop
     /\ \/ Does(f) = "nothing" /\ NoSpanMoves /\ UNCHANGED pending
        \/ /\ Does(f) # "nothing" /\ f.stored /\ h.when = "exit"
           /\ StartAndEnd(h, f.ctx, f.call, err) /\ UNCHANGED pending
        \/ /\ Does(f) # "nothing" /\ f.stored /\ h.when # "exit" /\ h.late
           /\ pending' = pending \union
                {[call |-> f.call, span |-> Target(f), error |-> err]}
           /\ NoSpanMoves
        \/ /\ Does(f) # "nothing" /\ ~(f.stored /\ (h.when = "exit" \/ h.late))
           /\ End(Target(f), f.call, err) /\ UNCHANGED pending
     /\ UNCHANGED <<enabled, made>>

\* Another goroutine ends a span: it does not find it in its own list.
EndLate(x) ==
  /\ x \in pending /\ pending' = pending \ {x}
  /\ spans' = IF x.span # 0 /\ spans[x.span].open
              THEN [spans EXCEPT ![x.span] = Closed(@, x.call, x.error)] ELSE spans
  /\ UNCHANGED <<enabled, gls, lcs, frames, made>>

\* A router has matched the request that the innermost call serves: its hook
\* renames the local root span.
Route(r) ==
  /\ r \in Routers /\ Top.how = "running" /\ Top.hook.server
  /\ ~Asks(r, "enter") /\ ~Asks(r, "install")
  /\ spans' = Renamed(spans, lcs, Top.call)
  /\ frames' = SetTop([Top EXCEPT !.routed = TRUE])
  /\ UNCHANGED <<enabled, gls, lcs, made, pending>>

Next ==
  \/ Call
  \/ \E how \in Outcomes : Return(how)
  \/ Exit
  \/ \E x \in pending : EndLate(x)
  \/ \E r \in Routers : Route(r)

Spec == Init /\ [][Next]_vars
-----------------------------------------------------------------------------
(* Properties.                                                             *)

Callers == Hooks \union {App}
CallerNames == {h.name : h \in Callers}

CallType == [name : CallerNames, how : Outcomes \union {"running"}]
SpanType == [under : Nat, by : CallerNames, call : Nat \ {0}, open : BOOLEAN,
             endedBy : Nat, error : BOOLEAN, route : Nat]
FrameType == [hook : Callers, call : Nat \ {0}, ctx : Nat, held : Nat,
              inside : Nat, stored : BOOLEAN, routed : BOOLEAN, how : Outcomes \union {"running"}]

\* A span, a context, an entry of the list and an end that is pending refer to
\* spans that were started, and frames and spans to calls that were made.
TypeOK ==
  /\ enabled \in BOOLEAN
  /\ made \in Seq(CallType) /\ spans \in Seq(SpanType) /\ frames \in Seq(FrameType)
  /\ frames # <<>>
  /\ lcs \in 0..Len(spans) /\ gls \in SUBSET (1..Len(spans))
  /\ pending \in SUBSET [call : 1..Len(made), span : 0..Len(spans), error : BOOLEAN]
  /\ \A s \in DOMAIN spans :
       /\ spans[s].under \in 0..(s - 1) /\ spans[s].call \in DOMAIN made
       /\ spans[s].endedBy \in 0..Len(made) /\ spans[s].route \in 0..Len(made)
  /\ \A i \in DOMAIN frames :
       /\ frames[i].call \in DOMAIN made
       /\ {frames[i].ctx, frames[i].held, frames[i].inside} \subseteq 0..Len(spans)

\* The second half of a pair ends the span that the first half started, for that
\* call, and no other span: neither the one of the caller, which goes on, nor the
\* one that the goroutine started last.
OwnSpanOnly == \A s \in DOMAIN spans :
  LET e == spans[s].endedBy
  IN e \in {0, spans[s].call} \/ made[e].name \in EndsOthers

\* With the instrumentations switched off in the environment there are no spans
\* but those of the application.
SwitchedOff == ~enabled =>
  \A s \in DOMAIN spans : spans[s].by \in {App.name} \union Unasked

\* Spans and contexts refer to spans that were started, a hook keeps to its own
\* span, and one that is switched off to none.
Confined == TypeOK /\ OwnSpanOnly /\ SwitchedOff

Running == {frames[i].call : i \in DOMAIN frames}
Owed == {x.call : x \in pending}

\* When a call is over, so is its span, or its end is under way.
EndedOnReturn == \A s \in DOMAIN spans :
  spans[s].open =>
    \/ spans[s].call \in Running \union Owed
    \/ LET c == made[spans[s].call] IN <<c.name, c.how>> \in LeavesOpen

\* A span that its own hook ended says whether the call failed.
ErrorShown == \A s \in DOMAIN spans :
  LET c == made[spans[s].call]
  IN (spans[s].endedBy = spans[s].call /\ c.how = "error") =>
       spans[s].error \/ c.name \in LosesErrors

Settled == EndedOnReturn /\ ErrorShown

\* No call so far was one of the exceptions that disturb the later ones.
Clean ==
  /\ \A c \in DOMAIN made : /\ made[c].name \notin EndsOthers
                            /\ <<made[c].name, made[c].how>> \notin LeavesOpen
  /\ pending = {} /\ \A s \in gls : spans[s].open

\* The frames that hold a span which is not over.
Holders == {i \in DOMAIN frames : frames[i].held # 0 /\ spans[frames[i].held].open}
Innermost == CHOOSE i \in Holders : \A j \in Holders : j <= i

\* A new span is a child of the span of the innermost call that has one.  Where a
\* hook does not give its context to the call it may be a sibling, but then too
\* its parent is the span of a call that is under way.
Nested ==
  [][\A s \in DOMAIN spans' \ DOMAIN spans : Clean =>
       LET p == spans'[s].under
       IN IF Holders = {} THEN p = 0
          ELSE \/ p = frames[Innermost].held
               \/ /\ ~frames[Innermost].hook.gives
                  /\ \E i \in Holders : p = frames[i].held]_vars

\* The route of a request is seen: it is on the span of the request, or on that
\* of the application if this was the local root, whatever calls the goroutine
\* made before and what they left as its local root.
RouteShown == \A i \in DOMAIN frames :
  LET f == frames[i]
  IN (f.routed /\ f.held # 0 /\ Clean) =>
       \E s \in DOMAIN spans :
         /\ s = f.held \/ spans[s].by = App.name
         /\ spans[s].open /\ spans[s].route = f.call
=============================================================================
