----------------------------- MODULE HookShape -----------------------------
(***************************************************************************)
(* A pair of hook functions as a record: how its first half (OnEnter)      *)
(* starts a span and how its second half (OnExit) ends it.  The modules    *)
(* WebHooks, RpcHooks, DbHooks, MessagingHooks and AiHooks hold one record *)
(* for each pair of functions, HookPairs says what the records mean.       *)
(***************************************************************************)

Outcomes == {"ok", "error", "panic"}
\* What the second half does: end the span it stored, the span of the caller's
\* context or the newest of the goroutine, or nothing, because it returns before
\* or because it panics, which the trampoline recovers.
Ends == {"own", "caller", "newest", "nothing"}

\* The hook that most are like: both halves ask whether the instrumentation is
\* enabled, the span is started under that of the context, the second half
\* returns early unless it finds what the first stored, and runs deferred.
Hook(name) ==
  [name |-> name,
   asks |-> {"enter", "exit"},  \* the halves that ask; "install": whether
                                \* there is a hook is asked when it is set up
   skips |-> FALSE,             \* some calls are left alone
   when |-> "enter",            \* "exit": the span is started afterwards too;
                                \* "over": it is ended before the call as well
   under |-> "context",         \* or "newest": started with context.Background
   gives |-> FALSE,             \* the call gets the context with the span
   fails |-> TRUE,              \* the function returns an error
   ends |-> [how \in Outcomes |-> "own"],
   bare |-> "nothing",          \* what it does when nothing was stored
   shows |-> TRUE,              \* it tells the span of an error
   deferred |-> TRUE,           \* it runs when the call panics
   server |-> FALSE,            \* the call serves an HTTP request
   routes |-> FALSE,            \* it renames the local root to the route
   late |-> FALSE]              \* the span is ended by another goroutine

HookType ==
  [name : STRING, asks : SUBSET {"install", "enter", "exit"}, skips : BOOLEAN,
   when : {"enter", "exit", "over"}, under : {"context", "newest"},
   gives : BOOLEAN, fails : BOOLEAN, ends : [Outcomes -> Ends], bare : Ends,
   shows : BOOLEAN, deferred : BOOLEAN, server : BOOLEAN, routes : BOOLEAN,
   late : BOOLEAN]

(* The kinds of hooks.                                                     *)

\* The hook was put into the library when it was configured, as middleware or
\* as a wrapper: the call runs inside it, and it ends the span without a defer.
Wrapper(name) == [Hook(name) EXCEPT !.asks = {"install"}, !.deferred = FALSE]
\* The second half relies on what the first half stored.
ByEnter(name) == [Hook(name) EXCEPT !.asks = {"enter"}]
\* Nothing is asked by the pair itself.
Always(name) == [Hook(name) EXCEPT !.asks = {}]
=============================================================================
