# A TLA+ model of loongsuite-go-agent

loongsuite-go-agent instruments Go programs at compile time.  The `otel` tool
adds hook packages to a module, runs `go build -toolexec`, and rewrites the
functions its rules name so that they call hooks on entry and on exit.  The
instrumented program carries a runtime part: trace context and baggage kept in
the goroutine, instrumenters that start and end spans, hooks for some seventy
libraries, and a library for GenAI telemetry.

This directory models the parts of that system that decide something:
concurrent code, code that keeps state over several calls, code that rewrites
code, and the tables by which one pattern is applied to every library.

## Inventory

### 1. Goroutine-local trace context and baggage (runtime part)

Source: `pkg/rules/otel-sdk`, `pkg/rules/otel-context`, `pkg/rules/runtime`,
the `runtime` rules of `tool/data/rules/base.json`.

* State: two fields of every g structure: a linked list of spans (`sw`) with its
  length (`n`) and the local root span (`lcs`), and a container with baggage.
* Operations: hooks push a span when the SDK creates it and remove it when it
  is ended; `trace.SpanFromContext` falls back on the newest span;
  `baggage.ContextWithBaggage` stores and `FromContext` reads; `newproc1` gives a
  new goroutine a snapshot of both; router hooks rename the local root.
* Hard: a span may end in another goroutine, out of order, twice or never; g
  structures are reused; the list is capped; the snapshot outlives the span.
* Correct when: a span started without a context is a child of the newest span
  of its goroutine; lists stay ordered, bounded, and free of what the previous
  user of a g left; baggage comes from the goroutine or an ancestor.

### 2. GenAI telemetry (runtime part)

Source: `util-genai`.

* State: a handler for the process; an invocation with its span and start; of
  the upload hook a channel of jobs, `closed` under a read/write lock, a bounded
  set of seen references, a pool of workers.
* Operations: Start, Stop and Fail for seven kinds of invocation;
  `OnCompletion` (from any goroutine), the workers, `Shutdown`.
* Hard: Stop and Fail of one invocation race; a hook of the application may
  panic; settings combine; callers race between the lookup in `seen` and the
  add, and with `Shutdown`; the queue fills; the set evicts; the ctx expires.
* Correct when: a span ends once and has its error; span, metrics and event tell
  the same; content is where it was asked for only; nothing is sent on the
  closed channel; accepted content is attempted; what is skipped was accepted.

### 3. Instrument phase

Source: `tool/instrument`.

* State: of one compile command its arguments, files and relocations; of a
  function the statements being rewritten; at run time a `CallContext` per hook
  pair and the stack of deferred calls.
* Operations: choose the rule set; apply file rules, then func and struct rules
  file by file; optimise the inserted jumps; write the globals.  In a call:
  OnEnter trampolines, the body, OnExit trampolines.
* Hard: files that replace others, found by suffix; several rules on one
  function; a hook that panics; an optimisation that replaces calls, contexts
  and conditions for some combinations of hooks.
* Correct when: the compiler gets what was matched, once; hooks run in rule
  order and exits mirror entries; data stored on entry is found on exit; a
  hook's panic stays in its trampoline; the body runs once unless it is skipped.

### 4. A build from start to restore, and its rules (preprocess phase)

Source: `tool/preprocess`, `tool/rules`, `tool/otel/main.go`.

* State: `go.mod`, `go.sum`, `go.work.sum` and their backups, `otel.runtime.go`,
  `.otel-build` with the extracted `pkg` module and the stored rule sets, or the
  directory of `-pkg`, which runs share; while matching, a goroutine and a rule set
  per compile command.
* Operations: the steps of `Preprocess`, the deferred `postProcess`, the other
  commands of the tool; load rule files, match, gather, repeat after importing
  what was matched, rectify paths, store.
* Hard: any step fails; the process dies (a kill, or `os.Exit` in `ex.Fatal`
  and `util.Assert`, which run no deferred call); what a run that died left; an
  unbuffered channel; what is imported changes what is compiled and so what
  matches.
* Correct when: a run that ends by itself has restored the project; the
  originals exist somewhere until the next command; the build sees what this run
  prepared, or with `-pkg` the module that all share; rule sets are exact and fit the build; the rounds come to an end.

### 5. Instrumenters and what the libraries configure (runtime part)

Source: `pkg/inst-api`, `pkg/inst-api-semconv`, the `*_otel_instrumenter.go` and
`*_data_type.go` files of `pkg/rules`.

* State: an instrument per listener, made when the first operation ends.
* Operations: `Start`, `End`, `StartAndEnd`, `Init*Metrics`; inject and extract.
* Hard: the outcome of an operation is judged in four places (the hook's error,
  the status extractor, the attributes, the metric); a carrier may have a header
  already; operations end before the meters are there.
* Correct when: a receiver is a child of the operation that sent to it; status,
  attributes and metric agree; what was measured is recorded.

### 6. Hooks of the libraries (runtime part)

Source: `pkg/rules`.

* State: what the first half of a pair stores for the second; readers and
  goroutines that follow a streamed response; of a sarama producer a map under a
  mutex, three channels, four goroutines.
* Operations: OnEnter and OnExit of some two hundred functions.
* Hard: calls nest, panic and fail; some hooks end what they find in a context;
  responses arrive in pieces, are left, cancelled or closed in any order;
  channels are shared by hook, library and application.
* Correct when: a hook ends its own span, once, with its error, when the call is
  over; what a stream said is on its span; nobody is left waiting or crashes.

How the parts interact: `RuleMatching` expands `match` and `update` of
`BuildLifecycle` and stores what the compile commands of `InstrumentPhase` read
in processes of their own; these apply func rules as `Trampoline` says, which
makes the hooks of 1 and 6 run.  A hook of `HookPairs` starts and ends its span
through an instrumenter (5), whose parent is what 1 says; GenAI hooks call 2
from any goroutine.

## Modules

| Module | Models | Run | Proofs |
|---|---|---|---|
| `ContextPropagation` | the promise of the goroutine-local context, abstractly | as `Promise` | |
| `TraceContext`, `GoroutineBaggage`, `MCTraceContext` | 1 | `trace_context` | `TraceContextProofs` |
| `CompletionUpload`, `MCCompletionUpload` | 2, the upload hook | `upload` | `GenAIProofs` |
| `GenAIHandler`, `MCGenAIHandler` | 2, the handler | `genai` | `GenAIProofs` |
| `Trampoline` | 3, one function and its calls | `trampoline`, `skip_call` | `BuildProofs` |
| `RuleMatching`, `InstrumentPhase`, `MCRuleMatching` | 4, rules; 3, one compile command | `matching` | `RuleMatchingProofs` |
| `BuildLifecycle` | 4, the life of a build | `lifecycle` | `BuildProofs` |
| `Instruments`, `Operations`, `MCOperations` and the five `*Instrumenters` | 5 | `operations` | `OperationsProofs` |
| `HookShape`, `HookPairs`, `MCHookPairs` and the five `*Hooks` | 6, pairs of hooks | `hook_pairs` | `HookPairsProofs` |
| `Streams` | 6, what the next two have in common | | |
| `StreamedResponse`, `MCStreamedResponse` | 6, readers of streamed responses | `streamed_response` | `StreamsProofs` |
| `StreamChannels`, `MCStreamChannels` | 6, goroutines that follow a stream | `stream_channels` | `StreamsProofs` |
| `AsyncProducer` | 6, the sarama producer | `async_producer` | `AsyncProducerProofs` |

`PROJECT.json` maps each definition to the lines it models.  Definitions whose
comment begins with "Mutant" are plausible bugs: each property is violated
when the definition the mutant belongs to is replaced by it, which shows that
the property depends on that code.

### TraceContext and GoroutineBaggage

A list is a record of the chain (`sw`, a sequence with the newest span last),
its counter (`n`) and the local root (`lcs`).  `n` is kept beside the chain
because `add`, `del` and `tail` decide by it.  A list belongs to one goroutine
and none of its methods block, so each is one step.  `Go` gives a new goroutine,
which may run on a reused g, the snapshot of its creator.  `mine`, `ended` and
`origin` are history.  `ContextPropagation` is the abstract specification:
goroutines hold *sets* of spans, and a span started without a usable context
becomes a child of the newest span held; `Promise` says that `TraceContext`
implements it.  `GoroutineBaggage` adds the second field of g to the same
actions; contexts are any list of members that was made, since contexts travel.

### CompletionUpload

A step is what one goroutine does between two points where another can
interfere.  The read lock that callers share is the set of callers in the
select or before `add`; the write lock of `Shutdown` is taken when that set is
empty.  Content is its hash; `Upload` may fail, which the code only logs.
`accepted`, `enqueued` and `attempted` are history: how often each caller put each
content into the queue, how often anybody did, and how often an upload of it ended.

### GenAIHandler

An invocation is written by its owner and read by calls of Stop and Fail, each a
thread with its place in the code: status, histograms, attributes and event,
the completion hook (which may panic), the end of the span.  Attributes are
groups of fields: two fields are in one group only if the same of span, histograms
and event tell both of them, for every kind that has both.  What is not told is
a table for each of the three, by kind (`OffSpan`, `OffMetrics`, `OffEvent`), read off
the functions that make the attributes; `Agree` demands everything else.  The clock is a counter in the units that `monotonicStartS`,
a float64 of seconds, can tell apart; it may stand still or be set back.

### Trampoline

Rules have attributes (raw or hook, with OnEnter, OnExit, able to skip); the
constant `N` is their number and each of them takes every combination.  A chain
of nested jumps is a list of statements because nothing follows the nested
jump.  Hooks are external: they may store data, ask to skip, and panic.  `passed`,
`due` and `exited` are history: the rules in the order in which the call came past
their statements, those of them with OnExit code, and those whose OnExit code ran.

### RuleMatching and InstrumentPhase

Rules, projects and configurations are constants of the run; the goroutine of
each compile command, the loop that gathers rule sets and the three rounds are
actions.  A rule is a number, and rules are numbered as their files are loaded, so
that `LoadedBefore` can say which of two a matcher reaches first.  `LeftAfter` is
what the loop over the source files has left of the candidates after each file.
What `updateRule` has still to go through is a set of pairs, in the order that
`Upcoming` gives it: rule set by rule set, the func rules as a map has them, then
the file rules as they were matched.  A version is a number or missing.  `InstrumentPhase` goes on where the
rule sets are stored: commands only read them and each has a directory of its
own, so one command is followed.  A path is a place and a name; `ends` says which
names end with which, because that is how files are found.  `disk` says what a
file was made from, what it declares and what was applied to it.  The order of
files is that of a Go map: any.

### BuildLifecycle

The content of a file is the set of runs whose edits it holds, or absent, or
torn, so "the original" is the empty set and two failed runs can be told apart.
A step succeeds, fails (and goes to `postProcess`), or dies in the middle,
leaving the old content, the new, or a torn file.  `sharing` is a run with `-pkg`:
`shared` is that directory, which may be there before the first run, from another
version of the tool, and `foundPkg` is what this run found in it.  `FindPkgModDir`
extracts into it only if it does not exist; nothing ever removes it, and the build
gets what is there.

### Instruments and Operations

`Instruments` is what an instrumenter can be built from, the five tables what
each library builds.  An operation of `Operations` is a sender or a receiver; a
sender makes a message, sends it again, or forwards one it received, with room
for headers or without.  `last` is what the operation that ended last left.
An object that was forwarded and is sent again is still a forwarded one: it holds
the headers of a stranger.  `LibrariesAssumption` says that the exceptions are
complete: outside them a carrier `Leads` to the sender and an instrumenter `Fits`
its kind.  TLC evaluates it for every record of the five tables.

### HookShape and HookPairs

A record says how the two halves of a pair start and end a span; the five tables
have one for each of 176 pairs.  Frames are the calls of one goroutine; each
ends well, with an error or in a panic, which runs the deferred second halves of
every frame above the one that recovers.  Contexts matter by their span.  Of the
list in the goroutine only its members count here, since spans are numbered as they
start and are not refused (`TraceContext` has the cap): `gls` is a set and its
newest member the greatest.  `HooksAssumption` says that the exceptions are
complete: a pair that none of them names ends its own span, asks before it starts
one, ends it however the call ends and tells it of an error.

### StreamedResponse and StreamChannels

`Streams` has the call, its answer and its span, and `End`, which every hook ends
with.  The first module has readers that the hooks put around a body: a body is a
sequence of bytes that the library cuts anywhere, an event two bytes of a line.
`Scan` is the loop over the lines, as the state it is in after each byte (the line
so far, and the events before it); what follows the last newline is kept in
`lineBuffer` for the next read.  The second has the application, the hook's
goroutine and the library at one channel, with a context that may be done at any
time.  An item is known by its place in the answer, so that two equal chunks are
two chunks and a lost, doubled or swapped one shows.  `present` says whether an
item of eino has everything its handler reads through a pointer: the entries of the
tools node's chunks are nil for all calls but one.  `raw` are the items that the
application of the meguminnnnnnnnn client read with `RecvRaw`, past the hook.

### AsyncProducer

The loop has a place and a message, so that every point at which a forwarder
can come between is a state; so has each forwarder.  `Check` reads the size of
the map without the lock.  The library takes a bounded number of messages,
comes to an outcome of each, and closes its channels when it was told to and
nothing is in flight; its `Close` reads both channels itself.

## Runs

| Run | Bounds | States | What it shows |
|---|---|---|---|
| `trace_context` | 3 g structures, 3 spans, lists of 2, 1 call of `ContextWithBaggage` | 697 000 | `HeldSound`: lists are counted, ordered, bounded, the goroutine's own, and free of what it ended. `LocalRootIsOldest`, `BaggageSound`, `Promise`. |
| `upload` | 2 callers, 2 closers, 2 workers, 2 contents, queue 1, `seen` 1, 2 calls each | | `NeverSendsOnClosed`; `SeenSound`: nothing is remembered that was not accepted, a caller repeats only after eviction; `DrainedMeansDone`; `Answers`: accepted content is attempted, `Shutdown` returns. |
| `genai` | 1 invocation of each kind, 2 starts, 2 calls, 2 times | 2 280 000 | `Settled`: a span ends once and keeps its error; `Agree`: span, histograms and event tell all but what three tables name, alike; `Private`: content only where it was asked for. |
| `trampoline` | all triples of rules | | `HooksNest`, `DataReachesExit`, `HooksUnfelt`: order, mirrored exits, data, panics, the body. |
| `skip_call` | one rule | | *Violated*: a request to skip the call is not honoured. |
| `lifecycle` | 2 runs, with `-pkg` or without, and other commands between them | 3 900 000 | `FilesSafe`: restored after every failure, recoverable after every death; `BuildSeesThisRun`: rules, edits and module are the run's own, but for a `-pkg` directory that was there. |
| `matching` | 7 rules in 4 files, 5 commands, 20 configurations, 6 projects, 8 layouts | 279 000 | `RuleSetExact`; `StoredFits`: hooks linked, nothing matched that is not compiled, paths rectified once; `CompiledAsMatched`; `MatchingEnds`. |
| `operations` | 4 operations of each library | 470 000 | `Connected`, `Told`, `Measured`: parents, one outcome in status, attributes and metric, no listener that panics once the meters are there. |
| `hook_pairs` | 176 pairs, 3 calls, 3 frames | 387 000 | `Confined`, `Settled`, `RouteShown`, `Nested`: a hook ends its own span and only that, in time, with its error; spans nest as calls do. |
| `streamed_response` | bodies of 3 lines, cut anywhere | 6 200 | `Reassembled`, `RecordedAll`, `EndedWhenDone`. |
| `stream_channels` | channels of 2, streams of 4 | 9 900 | `Unharmed`: who can crash or be stuck; `DeliveredRecorded`: what was delivered is on the span, once and in order; `SpanEnds`. |
| `async_producer` | 3 messages, 2 in flight, 1 in the map, every choice of `Return` | | `SpansSettled`, `ComesBackWhole`, `ClosedEnds` (all messages come back). |

A property that combines several is the conjunction of named parts, each with
its own comment in the module.  The properties of `operations`, `hook_pairs`,
`streamed_response` and `stream_channels` name the libraries for which they do
not hold (`Detached`, `Untold`, `EndsOthers`, `LeavesOpen`, ...): the lists were
made from TLC's counterexamples, and the section on disagreements says what each
entry means for a user.

Why the bounds are enough:

* `trace_context`: a list of 2 is full and has a bottom, a top and an entry to
  refuse (the third span); 3 g structures give a parent, a child and a g that is
  reused.  One baggage is stored, and what could leak is on a g that is reused;
  the proof is for any number.  All g structures but the main one are
  symmetric, and every property is a safety property.
* `upload`: with a queue of 1 and a set of 1 both are full and evict after one
  job; two of every actor race, and a third of a kind does what the second does.
* `genai`: the handler keeps nothing of an invocation, so that two share only the
  clock, which moves freely; two calls race, and a second Start is the only way
  to lose a span.
* `trampoline`: a raw rule before, between and after hook rules needs 3.
* `lifecycle`: a property relates one run to what an earlier one left; 2 do, and a
  `-pkg` directory of another tool stands for all runs before them.
* `matching`: two main packages share an import path; two custom files exceed
  one; libraries without a version, in range, and past it; a rule whose
  dependency another rule's hook brings in.  Two source files and two rules of
  each kind are enough for a file to be replaced, to be confused with another,
  or to be looked for in vain.
* `operations`: a sender, one that sends its object again or forwards it, and a
  receiver of each; libraries do not share state.
* `hook_pairs`: a call around, within, before and after another needs 3; in each
  behaviour one call has any of the pairs and the others one of three that
  stand for a database, a client and a server.
* `streamed_response`: an event cut in two, one that is none, and an unfinished
  last line; `stream_channels`: a channel of 2 fills before a stream of 4 is over.
* `async_producer`: 3 messages put one in the loop, and two in p or forwarders,
  while the map has room for one.

Deadlock is checked for `trace_context`, `lifecycle` and `genai`.  Elsewhere the
system may rightly stop: all calls made, the call returned, the command built.

### Fairness

* `CompletionUpload`: callers and workers that can step do, being goroutines of
  the Go scheduler; an `Upload` comes to an end; a closer that can take the lock
  takes it (Go's `RWMutex` lets no later reader pass a waiting writer, so weak
  fairness is justified by the `waiting` set of the model).  No ctx need expire
  and nobody need call.
* `RuleMatching`: weak fairness of the next-state relation: some goroutine that
  can run does.
* `StreamChannels`: the goroutine of the hook is scheduled, and the application
  once it is in library code that closes the channel; it need not go on reading.
* `AsyncProducer`: the loop, both forwarders and the cleaner are scheduled; the
  library comes to an outcome of each message and closes when it can; the
  application reads both channels until they are closed, which sarama requires.
  Nobody has to send or to close.
* The other modules have no liveness properties: what they say of an end, they
  say of the states in which the call, the run or the stream is over.

## Proofs

All for arbitrary values of the constants, from the named assumptions in the
modules only.

* `TraceContextProofs`: `IInv` (all the invariants of the run, and that a g
  without a goroutine has no history) is inductive.  The history conjunct is
  needed for reuse: `Go` must start from nothing.  The lemmas on `Del` say that
  it removes exactly one entry and keeps the order.  `Implements` proves the
  promise over an unbounded number of spans.  `BaggageInv` adds to `BaggageSound`
  that a g without a goroutine has stored nothing.  `BaggageApart` says that
  `BaggageSpec`, which the run checks, implements `Spec`: what is proved of lists
  holds beside baggage.
* `GenAIProofs`, the upload hook: `UInv` adds to the invariants what callers know
  between their steps: a caller in the select keeps the queue open
  (`OpenWhileRead`), one before `add` has had its content accepted
  (`NotedWasAccepted`).  `NoPanic`, `SeenSoundAlways` and `WorkersLeaveLast`
  follow.  `OncePerCaller` needs a second invariant `OInv`: what a caller has
  accepted is in `seen`, or was evicted, or is about to be added.
  `ShutdownDrains` counts: what was put into the queue is in it, in a worker's
  hands, or attempted (`Conserved`, proved as `NothingLost` for any number of
  workers), and a worker leaves only when the queue is closed and empty.
* `GenAIProofs`, the handler: `Settled`, `Private` and `Agree`.  What is needed besides
  the types is `Linked`: a call that is under way is on a span that was started, and
  no invocation is started again while one is, so that the span a call ends is the
  one whose error it has set.  `Agree` compares what one call wrote at four
  places of the code, at different times, and holds because nothing it reads
  changes while it is the only one on its span (`Said`).  One lemma for each step of
  a call.
* `OperationsProofs`: `Known` is what each operation is: its headers name senders
  that were started before it, each once (`Headed`); a sender's headers are
  such that every receiver finds it, if the carrier leads there for objects of its
  kind (`SenderOK`); a receiver's parent was taken from its sender's headers.  With
  `LibrariesAssumption` it gives `Connected` for any number of operations, objects
  and libraries.  `Metered` is that `last` is what the instrumenter makes of one
  outcome, and gives `Told` and `Measured`.  `OperationsNamed` and
  `ReceiversAreChildren` say more of carriers that replace what is there, which most
  libraries have, and need no exceptions.
* `HookPairsProofs`: `Confined`, `Settled`, `RouteShown` and `Nested` for any
  tables that satisfy `HooksAssumption`, any depth of frames and any number of
  calls.  `Linked` says which frame holds the span of which call: a span is held by
  one frame, owed to a goroutine of the library, or over (`SpanLinked`), and frames
  are in the order of their calls.  As long as no hook has ended what is not its own
  (`Undisturbed`), the goroutine lists every span a frame holds (`HeldListed`), and
  if all were ended (`Tidy`) the server's span is the root (`RootFirst`), so that
  the route gets to it (`RouteKept`): together `Calm`.  `ContextsLinked` is that the
  context a call gets has the span of the innermost frame that gave one; nesting
  follows from it.
* `BuildProofs`, the trampolines: `TInv` is what a call has done by its mode; from it hook
  panics stay inside and the body runs.  `BodyInv` is the shape the rules give the
  body: the original statement last, tjumps in the order of their rules but for raw
  rules between them, and nothing of a later rule behind the statement of a raw one;
  that last part is what makes the order inductive when a new chain starts in front
  of a snippet.  `CInv` adds where the call is: the tjump of each hook rule it passed
  is above it (`Visited`), and deferred calls hold the right context
  (`ContextsMatch`).  For the exits, `due` is what was deferred before the call
  leaves, and afterwards what has run and, reversed, what is still deferred
  (`HooksLeaveInReverse`); with the order of the entries that is `HooksNest`.
* `BuildProofs`, a run of the tool: `Types`, then `SafeInv` (what is registered is what
  the run found, what is not is untouched, nothing is edited before all is
  registered, the restore loop puts back what it passed), which gives
  `FilesSafe` for any number of runs; `PreparedInv` gives `BuildSeesThisRun`: besides
  what each step has prepared, that a `-pkg` directory which a run found is what it
  found as long as the run goes on.
* `AsyncProducerProofs`: `PInv` has four ideas.  Nobody leaves before the one
  that gives him work (`Order`); until the cleaner is done the map holds exactly
  the open spans, but for the one just started (`OpenSpans`); with successes
  returned the map knows every message in p's hands (`Known`); a message the
  loop deals with is not in p's hands (`Apart`).  `AsyncCloseDelivers`: when the
  cleaner is done after `AsyncClose`, with both channels returned, all that was sent
  has come back.

* `RuleMatchingProofs`: `MatchingInv` says which round it is and what is imported
  in it (`Rounds`), that every goroutine is on its way from its command to the
  bundles, whatever the order (`Goroutines`), that a rule set that was made has
  every rule in the first file that it hits (`SetsExact`), that what was gathered
  last still fits after the last import (`Fitted`), and how far the paths are
  (`Rectifying`).  `LeftAfterUntaken` is the loop over the source files: a rule is
  left after k of them exactly if it took none of them; `ExactRuleSets` follows for
  any number of files.  `GatheredIsTheMatch`: what is gathered is `MatchOf` the
  packages that the dry build compiled, a set that does not know the goroutines.
  `MatchOfGrows` with it is why three rounds are enough for `StoredRulesFit`: the
  second match is made with more packages than the first, so that it takes what the
  first took, and importing its hook code takes nothing away.
* `RuleMatchingProofs`, a compile command: `BuildInv` says what the command has in
  its arguments while rules are applied (`Applying`).  Position k of a source file
  holds the file of the rule that replaced it or the file itself, as it was or as it
  was written, with the rules of that file applied as far as it is no longer to be
  changed (`Stands`); a file still to be changed is found there, whatever it is asked
  for by (`Found`); behind the source files are the files of rules that add (`Behind`);
  no path is there twice.  Then `FirstNamed`: unless names are confused, the first
  argument that ends with the name of a source file is the one that stands for it.
  A file rule that replaces therefore always finds its file (`FileRulesApply`), a file
  fails only if it was replaced (`InstrumentFails`), and `Final` holds at the end, of
  which `CompiledAlwaysAsMatched` is the count.  `ExactSet` is needed for it: a rule
  that were in two files of a set would be applied twice.  Assumed are that the rules
  are numbered and finitely many, that `base.json` is embedded (`MatchingAssumption`),
  that a command has its files from one directory, so that their names differ, and
  that none has the name of the globals file (`LayoutAssumption`).
* `StreamsProofs`, the channels: `ChannelInv` says where the application is and
  what is there by then (`Stages`), who closed the channel and who is still there
  (`Ends`), that while the hook runs what it has counted and what is in the channel
  are together what was sent, the first in front of the second (`Flow`), and what is
  on a span that ended (`Over`).  From it `ChannelsHarmless` and
  `DeliveredAlwaysRecorded`, for any answers and any size of the channel.
* `StreamsProofs`, the readers: `ScanPiece` is the lemma everything rests on.  The
  wrapper scans the kept rest of a line together with the new bytes; that gives the
  events that a scan of all the bytes adds, and keeps the line it has then.  It needs
  that a rest has no newline (`NoNL`), so that scanning it again adds nothing
  (`ScanQuiet`).  `ResponseInv` adds to the properties what the reader knows between
  two reads (`Buffered`: the rest and the events are those of all bytes so far) and
  what the application was told (`Heard`).  `AlwaysReassembled`, `AlwaysRecordedAll`
  and `AlwaysEndedWhenDone` follow for bodies of any length, cut anywhere.

What a loop computes is proved by induction without the library's induction
theorems, whose operator parameter no prover here can instantiate: if some number
failed there would be a least one (`LeastNumber`, from the well-foundedness of `<`),
and its predecessor gives the contradiction.  For that the loops are recursive
functions on `0 .. n`, whose existence is proved in the same way.

Two models were wrong and were put right on the way.

* `Connected`: an object that was forwarded and then sent again was labelled as one
  used again, and the exceptions for those do not cover what a forwarded object
  carries: the property fails for segmentio and gomicro at the fifth operation,
  beyond the four of the run.  The label is now that of the object.
* `RecordedAll` of a stream compared chunks by their content, so that one chunk in the
  place of an equal one passed; items are now told apart by their place.

Only model-checked:

* liveness (`Answers`, `MatchingEnds`, `ClosedEnds`, `SpanEnds`), which is out of
  the provers' reach;
* that the tables satisfy `HooksAssumption` and `LibrariesAssumption`: TLC evaluates
  both for the tables as they are, once per run.

## Where code and documents disagree

`skip_call` shows one: `SetSkipCall(true)` never skips the call, because the
trampoline reads the flag before it calls the hook (`impl.tmpl:111`,
`trampoline.go:268`; `api.go:28` says "Skip the original function call").

Met while modelling, without a run of their own:

* Two concurrent completions with the same content both upload it, since the
  reference is looked up before the send and added after (`upload.go:207,213`;
  the comment at line 69 says "uploaded once").  A second `Shutdown` returns nil
  at once while uploads are pending (`upload.go:227`; comment at line 219).
* The next run, and every other command, removes the backups of one that died
  and backs up the edited files (`tool/otel/main.go:71`, `preprocess.go:104`;
  `docs/hacking/debug.md:26`).
* `updateRule` (`update.go:151-171`) asks whether the path a rule has was
  rectified and records the one it gets: a second file rule with the same local
  path keeps its bare file name.
* `-disable=base.json` disables every embedded rule (`match.go:153,198`), though
  `config.go:56` says that `base.json` cannot be disabled.  A single custom rule
  file that cannot be parsed leaves no rules at all (`match.go:237`).
* Two main packages of one build share an import path, and the second takes the
  rule set of the first (`instrument/match.go:45`): it fails to find the files,
  or goes without its own rules.  `CompiledAsMatched` leaves this case out.
* File rules look for the file they replace by suffix (`apply_file.go:54`): an
  earlier `my_client.go` is replaced in place of `client.go`, and two file rules
  whose files have one name write one file (`Confused` in `InstrumentPhase`).
* For a parameter of type `interface{}`, `GetParam` returns the pointer to it that
  the context keeps and `SetParam` replaces this pointer, so the call does not see
  the new value (`docs/dev/hook.md:22`); `SetParam(i, nil)` only clears the slot.
* `ContextWithoutBaggage` leaves the goroutine's baggage, which `FromContext`
  then returns (`baggage/context.go:35-46`), and a goroutine that serves several
  requests reads the baggage of an earlier one.
* With `-pkg`, a directory that exists is used as it is (`update.go:97`), by intent of
  the comment above it for builds that share it; but also when a run died while it
  extracted into it, or when another version of the tool did, and nothing repairs it.
* GenAI handler: the description of an agent that is created is on nothing
  (`types.go:356`, `span_utils.go:408-446`); the event of an agent has neither its
  version nor its description (`events.go:71-86`), its histograms neither provider,
  conversation nor description (`metrics.go:247-257`); those of a tool have neither
  the id of the call nor the description (`metrics.go:223-229`); those of LLM calls
  and embeddings have models and provider only.
* GenAI handler: a second Stop or Fail measures, emits and uploads again; an
  error without a type is not in the metrics; events never tell of errors; a
  clock that is set back, or less than about 238 ns, loses the duration; wide
  attributes (`int64`, `[]string`) are dropped for all kinds but LLM; create,
  retrieve and rerank are not measured; content is uploaded whatever the capture
  mode; the singleton ignores the options of later callers; `doc.go` says that
  system instructions are captured "when provided", which needs the
  experimental mode.
* Headers: trpc and rpcx keep a `traceparent` that is there, so what is sent again
  or forwarded names an older operation; segmentio reads the first of several;
  gomicro any of two; gomicro's streams send none; amqp091, and sarama before
  0.11, send nothing without headers; rpcx without metadata loses the
  `traceparent` when there is baggage.  trpc, segmentio and asynq name the target
  differently at the two ends.
* Outcomes: the clients of fasthttp and hertz show 200 when there was no answer; an
  answer of 200 overrides the error of a hertz server; kitex never tells of
  errors; nor do the consumers of sarama, franz-go and amqp091, the batches of
  rocketmq, adk agents and mcp servers; metrics of RPC other than gRPC know no
  failure; the metric of a database is lost if an operation ended before the
  meters were there (`db_metrics.go:79`), and neo4j's has no address.  Before the
  meters are there, the listener of an AI client calls a nil instrument for an
  operation that counted tokens or timed the first (`ai_metrics.go:222-245`): it
  panics when the span has ended, and the trampoline recovers.
* Pairs of hooks: sqlx, two of gRPC, kitex's server and rocketmq's asynchronous
  send end a span that is not theirs; `BeginTx` leaves its span open when it fails
  (`databasesql/setup.go:202`); after a panic, sqlx's `QueryRowx` asks a nil row for
  its error (`sqlx/setup.go:121,199`), so that its hook panics before it ends
  anything; wrappers without a `defer` leave it open when the
  call panics; mcp, langchain, amqp, asynq and others start spans although they
  are disabled; franz-go's span is ended by another goroutine and stays in the
  list of its own.
* Streams: openai-go and deepseek keep a span open whose stream is closed before
  a read without data; go-openai ends it when the stream is handed out.
  google-genai's hook and application both close the channel when the context is
  done first, or the iterator is ranged over twice; go-openai by meguminnnnnnnnn
  waits for a nil channel when its hooks are disabled and panics at a second
  `Recv` after an error, and its `RecvRaw` (`stream_reader.go:66`) neither feeds nor
  closes the channel of the hook, so that the span stays open; eino's handler reads
  on after an error, leaves a model's span open when no chunk has a `ResponseMeta`,
  and that of a tools node with several tool calls, whose chunks hold nil entries
  that it reads without the test the other handlers have (`eino_handler.go:489-495`;
  tests at 121, 127, 401): the goroutine panics and recovers, and ends nothing.
* `p.Close` competes with the forwarders of a sarama producer for errors
  (`sarama_producer_setup.go:90`); of two synchronous producers made at once, the
  first to finish clears `inSyncMode` for the other (line 231).
* redigo keeps its queues of commands in package variables: the `EXEC` of one
  connection takes the transaction of another (`redigo_otel_conn.go:32,68`);
  `Receive` with an empty queue dereferences nil.
* gorestful appends its filter at every `Add`, `Dispatch` and `Handle`
  and the filter does not call the chain.  All commands of a mongo client share
  one variable `host` (`mongo/client_setup.go:56`).

## Not modelled

* Suppression of nested spans: `ShouldStart` is called from nowhere.
* The sampler, exporters and their shutdown: calls of the SDK in one order when
  the process starts and stops; when the meters are there is in `Operations`.
* Answers of streams that the libraries do not promise: a read of no bytes without
  an error, with which openai-go ends its span, and a chunk of deepseek that is nil
  without an error (`deepseek/setup.go:224`), which does as well; and streams without
  an end, so that eino's loop over an error that stays is not a behaviour here.
* What no property tells because the model follows the code: a span that another
  goroutine ends stays on the list of its own; a range without bounds makes
  the tool exit, which counts as an end in `MatchingEnds`; the candidates that a file
  took are removed as a set, so that an index that slips in that loop would not show.
  `PROJECT.json` has these, and the exceptions above, with the hazards.
* What the SDKs do with a span once it is ended, remote parents in `HookPairs`,
  and more than one request per goroutine at a time.
* The types of parameters in a trampoline (`trampoline.go`) and the construction
  and printing of syntax trees (`tool/ast`): text that is correct or not at
  compile time, without state; line directives and debug copies.
* Configuration, errors, logging, utilities, embedded files (`tool/config`, `ex`,
  `util`, `data`), the interface of `pkg/api`: what matters of them is in the
  modules that use them.
* sarama's `inSyncMode` and the filter of a partition consumer; redigo's queues;
  hooks that only write log lines; ollama's cost tracker, whose functions the
  hooks hardly call.
* The attributes beside name, status, error, target and metric: functions from a
  request to data.
* `google-genai/*/models.go` and the rest of the vendored code, which converts
  parameters between forms; examples, tests and documents.
