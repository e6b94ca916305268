--------------------------- MODULE StreamChannels ---------------------------
(***************************************************************************)
(* The hooks of the model clients that observe a stream from a goroutine   *)
(* of their own: google-genai and go-openai by meguminnnnnnnnn put each    *)
(* response into a channel that vendored library code fills and closes,    *)
(* eino reads a second copy of the stream.                                 *)
(*                                                                         *)
(* One call.  The application, the goroutine of the hook and, for eino,    *)
(* the component that produces the stream run concurrently.  An unrecovered*)
(* panic ends the process.  The SDKs and the application are external.     *)
(***************************************************************************)
EXTENDS Streams

CONSTANTS Cap,      \* the size of the channels: 10 in the code
          Answers,  \* sequences of items that a server may send
          Bad,      \* an item that cannot be converted
          Torn      \* an item that is no JSON, or where the connection breaks

ASSUME ChannelAssumption == /\ Cap \in Nat \ {0}
                            /\ \A answer \in Answers : Len(answer) \in Nat
                            /\ Bad # Torn

Genai == {"genai v1.36", "genai v1.45", "genai v1.59"}
Meg == {"completion", "chat"}
Eino == {"eino model", "eino tool", "eino tools node"}

VARIABLES
  enabled,    \* whether the instrumentation is enabled
  present,    \* eino: no pointer is nil that the hook reads through at the end
  app,        \* "call", "opening", "failing", "stream", "ranging", "over"
  told,       \* the application was told an error, the end included
  raw,        \* go-openai: the items the application read with RecvRaw
  ranged,     \* genai: how often the iterator was ranged over
  cancelled,  \* the context of the call is done
  chan,       \* "nil", "open", "closed"
  buf,        \* what is in the channel, or in the copy of the stream
  hook,       \* the goroutine of the hook: "none", "running", "gone"
  crashed     \* the process died of a panic

call == <<lib, body, enabled, present>>
progress == <<pos, told, raw, ranged>>
channel == <<chan, buf>>
trace == <<span, status, recorded>>
channelVars ==
  <<call, app, progress, cancelled, channel, hook, counted, trace, crashed>>

ChannelInit ==
  /\ lib \in Genai \union Meg \union Eino /\ body \in Answers
  /\ enabled \in BOOLEAN /\ present \in BOOLEAN
  /\ app = "call" /\ pos = 0 /\ told = FALSE /\ raw = {} /\ ranged = 0 /\ cancelled = FALSE
  /\ chan = "nil" /\ buf = <<>> /\ hook = "none" /\ counted = <<>>
  /\ span = "none" /\ status = "unset" /\ recorded = None /\ crashed = FALSE

\* An item is known by its place in the body; place 0 is the error of a request
\* that was not sent.
Here == pos + 1
IsChunk(i) == i > 0 /\ body[i] \notin {Bad, Torn}
-----------------------------------------------------------------------------
(* Channels and spans.                                                     *)

Crash == crashed' = TRUE /\ UNCHANGED channel

\* A send waits at a full channel, for ever at a nil one.
Send(i) ==
  \/ /\ chan = "open" /\ Len(buf) < Cap
     /\ buf' = Append(buf, i) /\ UNCHANGED <<chan, crashed>>
  \/ chan = "closed" /\ Crash

Close ==
  IF chan = "open" THEN chan' = "closed" /\ UNCHANGED <<buf, crashed>> ELSE Crash

Live == ~crashed
Drained == chan = "closed" /\ buf = <<>>    \* a receive that is not ok
-----------------------------------------------------------------------------
(* google-genai: the application's goroutine in models.go.                 *)

\* genaiGenerateContentStreamOnEnter.
GenaiEnter(l) ==
  /\ Live /\ lib = l /\ app = "call" /\ app' = "opening"
  /\ IF enabled
     THEN chan' = "open" /\ hook' = "running" /\ span' = "open"
     ELSE UNCHANGED <<chan, hook, span>>
  /\ UNCHANGED <<call, progress, cancelled, buf, counted, status, recorded, crashed>>

\* The request cannot be converted or sent: first the error is put into the
\* channel, then the channel is closed.
GenaiFail(l) ==
  /\ Live /\ lib = l /\ app = "opening" /\ told' = TRUE
  /\ IF enabled THEN Send(0) /\ app' = "failing"
                ELSE app' = "over" /\ UNCHANGED <<channel, crashed>>
  /\ UNCHANGED <<call, pos, raw, ranged, cancelled, hook, counted, trace>>

GenaiFailed(l) ==
  /\ Live /\ lib = l /\ app = "failing" /\ app' = "over" /\ Close
  /\ UNCHANGED <<call, progress, cancelled, hook, counted, trace>>

GenaiOpened(l) ==
  /\ Live /\ lib = l /\ app = "opening" /\ app' = "stream"
  /\ UNCHANGED <<call, progress, cancelled, channel, hook, counted, trace, crashed>>

\* The application ranges over the iterator it got, perhaps a second time.
GenaiRange(l) ==
  /\ Live /\ lib = l /\ ranged < 2
  /\ app = "stream" \/ (app = "over" /\ ranged = 1)
  /\ app' = "ranging" /\ ranged' = ranged + 1
  /\ UNCHANGED <<call, pos, told, raw, cancelled, channel, hook, counted, trace, crashed>>

\* The next item, put into the channel before it is yielded; one that is torn is
\* yielded only.  The application may go on after an error.
GenaiYield(l) ==
  /\ Live /\ lib = l /\ app = "ranging" /\ pos < Len(body)
  /\ IF enabled /\ body[Here] # Torn THEN Send(Here) ELSE UNCHANGED <<channel, crashed>>
  /\ IF crashed' THEN UNCHANGED <<pos, told>>
                 ELSE pos' = Here /\ told' = (told \/ ~IsChunk(Here))
  /\ UNCHANGED <<call, app, raw, ranged, cancelled, hook, counted, trace>>

\* Mutant: the channel stays open when the application leaves the loop.
GenaiRangedOpen(l) ==
  /\ Live /\ lib = l /\ app = "ranging" /\ app' = "over"
  /\ IF enabled /\ pos = Len(body) THEN Close ELSE UNCHANGED <<channel, crashed>>
  /\ UNCHANGED <<call, progress, cancelled, hook, counted, trace>>

\* The iterator is at its end, or the application leaves the loop.
GenaiRanged(l) ==
  /\ Live /\ lib = l /\ app = "ranging" /\ app' = "over"
  /\ IF enabled THEN Close ELSE UNCHANGED <<channel, crashed>>
  /\ UNCHANGED <<call, progress, cancelled, hook, counted, trace>>

Cancel ==
  /\ Live /\ lib \in Genai /\ app # "call" /\ cancelled' = TRUE
  /\ UNCHANGED <<call, app, progress, channel, hook, counted, trace, crashed>>

\* Mutant: the hook closes the channel when it ends the span.
GenaiHookCloses(l) ==
  /\ Live /\ lib = l /\ hook = "running" /\ hook' = "gone"
  /\ UNCHANGED <<buf, crashed>> /\ chan' = "closed" /\ UNCHANGED counted
  /\ buf # <<>> /\ ~IsChunk(Head(buf)) /\ End("error", counted)
  /\ UNCHANGED <<call, app, progress, cancelled>>

\* Mutant: the hook takes an error for an item like any other.
GenaiHookSkipsErrors(l) ==
  /\ Live /\ lib = l /\ hook = "running"
  /\ \/ cancelled /\ Close /\ hook' = "gone" /\ UNCHANGED <<counted, trace>>
     \/ /\ buf # <<>> /\ buf' = Tail(buf) /\ UNCHANGED <<chan, crashed, hook, trace>>
        /\ counted' = IF IsChunk(Head(buf)) THEN Append(counted, Head(buf)) ELSE counted
     \/ /\ Drained /\ End("ok", counted) /\ hook' = "gone"
        /\ UNCHANGED <<channel, counted, crashed>>
  /\ UNCHANGED <<call, app, progress, cancelled>>

\* The goroutine of the hook, which closes the channel too when ctx is done.
GenaiHook(l) ==
  /\ Live /\ lib = l /\ hook = "running"
  /\ \/ cancelled /\ Close /\ hook' = "gone" /\ UNCHANGED <<counted, trace>>
     \/ /\ buf # <<>> /\ buf' = Tail(buf) /\ UNCHANGED <<chan, crashed>>
        /\ IF IsChunk(Head(buf))
           THEN counted' = Append(counted, Head(buf)) /\ UNCHANGED <<hook, trace>>
           ELSE End("error", counted) /\ hook' = "gone" /\ UNCHANGED counted
     \/ /\ Drained /\ End("ok", counted) /\ hook' = "gone"
        /\ UNCHANGED <<channel, counted, crashed>>
  /\ UNCHANGED <<call, app, progress, cancelled>>
\* The hook and the vendored code of each version.
Enter36 == GenaiEnter("genai v1.36")
Enter45 == GenaiEnter("genai v1.45")
Enter59 == GenaiEnter("genai v1.59")
Stream(l) == \/ GenaiFail(l) \/ GenaiFailed(l) \/ GenaiOpened(l)
             \/ GenaiRange(l) \/ GenaiYield(l) \/ GenaiRanged(l)
Stream36 == Stream("genai v1.36")
Stream45 == Stream("genai v1.45")
Stream59 == Stream("genai v1.59")
-----------------------------------------------------------------------------
(* go-openai by meguminnnnnnnnn: hooks, and streamReader in stream_reader.go. *)

MegEnter(l) ==
  /\ Live /\ lib = l /\ app = "call" /\ app' = "opening"
  /\ span' = IF enabled THEN "open" ELSE span
  /\ UNCHANGED <<call, progress, cancelled, channel, hook, counted, status,
                 recorded, crashed>>

\* The exit hook: without a stream the span ends, otherwise the stream gets its
\* channel and the hook its goroutine.  Turned off, the channel stays nil.
MegExit(l) ==
  /\ Live /\ lib = l /\ app = "opening"
  /\ \/ /\ app' = "over" /\ told' = TRUE
        /\ IF enabled THEN End("error", <<>>) ELSE UNCHANGED trace
        /\ UNCHANGED <<chan, hook>>
     \/ /\ app' = "stream" /\ UNCHANGED <<told, trace>>
        /\ IF enabled THEN chan' = "open" /\ hook' = "running"
                      ELSE UNCHANGED <<chan, hook>>
  /\ UNCHANGED <<call, pos, raw, ranged, cancelled, buf, counted, crashed>>

\* streamReader.Recv: an error, the end of the stream too, closes the channel.  A
\* line that cannot be converted is gone, a broken connection stays broken.
MegRecv(l) ==
  /\ Live /\ lib = l /\ app = "stream"
  /\ IF pos < Len(body) /\ IsChunk(Here)
     THEN Send(Here) /\ UNCHANGED told /\ pos' = IF crashed' THEN pos ELSE Here
     ELSE /\ Close
          /\ IF crashed' THEN UNCHANGED <<pos, told>>
             ELSE /\ told' = TRUE
                  /\ pos' = IF pos < Len(body) /\ body[Here] = Bad THEN Here ELSE pos
  /\ UNCHANGED <<call, app, raw, ranged, cancelled, hook, counted, trace>>

\* streamReader.RecvRaw: a line as it is, and nothing for the channel.  An error,
\* the end of the stream too, changes nothing here.
MegRecvRaw(l) ==
  /\ Live /\ lib = l /\ app = "stream"
  /\ pos < Len(body) /\ body[Here] # Torn /\ pos' = Here /\ raw' = raw \union {Here}
  /\ UNCHANGED <<call, app, told, ranged, cancelled, channel, hook, counted, trace,
                 crashed>>

\* The application leaves, with Close, which leaves the channel alone.
MegLeave(l) ==
  /\ Live /\ lib = l /\ app = "stream" /\ app' = "over"
  /\ UNCHANGED <<call, progress, cancelled, channel, hook, counted, trace, crashed>>

MegHook(l) ==
  /\ Live /\ lib = l /\ hook = "running"
  /\ \/ /\ buf # <<>> /\ buf' = Tail(buf) /\ counted' = Append(counted, Head(buf))
        /\ UNCHANGED <<chan, hook, trace, crashed>>
     \/ /\ Drained /\ End("unset", counted) /\ hook' = "gone"
        /\ UNCHANGED <<channel, counted, crashed>>
  /\ UNCHANGED <<call, app, progress, cancelled>>
CompletionStreamEnter == MegEnter("completion")
CompletionStreamExit == MegExit("completion")
ChatStreamEnter == MegEnter("chat")
ChatStreamExit == MegExit("chat")
-----------------------------------------------------------------------------
(* eino: the producer of the stream, and the reader of the hook's copy.    *)

\* OnStart before the call; handlers are registered only when enabled.
EinoStart(l) ==
  /\ Live /\ lib = l /\ app = "call" /\ app' = "opening"
  /\ span' = IF enabled THEN "open" ELSE span
  /\ UNCHANGED <<call, progress, cancelled, channel, hook, counted, status,
                 recorded, crashed>>

\* OnError, OnEnd, or OnEndWithStreamOutput, which gets a copy of the stream.
EinoEnd(l) ==
  /\ Live /\ lib = l /\ app = "opening"
  /\ \/ /\ app' = "over" /\ told' = TRUE
        /\ IF enabled THEN End("error", None) ELSE UNCHANGED trace
        /\ UNCHANGED <<chan, hook>>
     \/ /\ app' = "over"
        /\ IF enabled THEN End("unset", None) ELSE UNCHANGED trace
        /\ UNCHANGED <<chan, hook, told>>
     \/ /\ app' = "stream" /\ UNCHANGED <<told, trace>>
        /\ chan' = "open" /\ hook' = IF enabled THEN "running" ELSE hook
  /\ UNCHANGED <<call, pos, raw, ranged, cancelled, buf, counted, crashed>>

\* Copies of a stream have no bound.
EinoProduce ==
  /\ Live /\ lib \in Eino /\ app = "stream"
  /\ IF pos < Len(body)
     THEN buf' = Append(buf, Here) /\ pos' = Here /\ UNCHANGED <<app, chan>>
     ELSE app' = "over" /\ chan' = "closed" /\ UNCHANGED <<buf, pos>>
  /\ UNCHANGED <<call, told, raw, ranged, cancelled, hook, counted, trace, crashed>>

\* The goroutine reads on after an error.  At the end the messages of a model
\* are concatenated, perhaps in vain; if that works the hook reads the ResponseMeta
\* of the result, and for a tools node each entry of each chunk, where those of the
\* other tools are nil when several are called.  At a nil one the goroutine panics,
\* and recovers without ending the span.
EinoHook(l) ==
  /\ Live /\ lib = l /\ hook = "running"
  /\ \/ /\ buf # <<>> /\ buf' = Tail(buf) /\ UNCHANGED <<chan, hook, trace>>
        /\ counted' = IF IsChunk(Head(buf)) THEN Append(counted, Head(buf)) ELSE counted
     \/ /\ Drained /\ hook' = "gone" /\ UNCHANGED <<channel, counted>>
        /\ \/ l = "eino model" /\ counted # <<>> /\ End("unset", None)
           \/ IF ~present /\ counted # <<>> /\ l # "eino tool"
              THEN UNCHANGED trace ELSE End("unset", counted)
  /\ UNCHANGED <<call, app, progress, cancelled, crashed>>
ModelStart == EinoStart("eino model")
ModelEnd == EinoEnd("eino model")
ToolStart == EinoStart("eino tool")
ToolEnd == EinoEnd("eino tool")
ToolsNodeStart == EinoStart("eino tools node")
ToolsNodeEnd == EinoEnd("eino tools node")
-----------------------------------------------------------------------------
Hook == (\E l \in Genai : GenaiHook(l)) \/ (\E l \in Meg : MegHook(l))
          \/ (\E l \in Eino : EinoHook(l))
Failing == \E l \in Genai : GenaiFailed(l)
GenaiNext == \/ Enter36 \/ Enter45 \/ Enter59 \/ Stream36 \/ Stream45 \/ Stream59
             \/ Cancel
MegNext == \/ CompletionStreamEnter \/ CompletionStreamExit
           \/ ChatStreamEnter \/ ChatStreamExit
           \/ \E l \in Meg : MegRecv(l) \/ MegRecvRaw(l) \/ MegLeave(l)
EinoNext == \/ ModelStart \/ ModelEnd \/ ToolStart \/ ToolEnd
            \/ ToolsNodeStart \/ ToolsNodeEnd \/ EinoProduce
ChannelNext == GenaiNext \/ MegNext \/ EinoNext \/ Hook

\* The scheduler runs the goroutine of the hook, and the application once it is
\* in library code that closes the channel.
Fairness == WF_channelVars(Hook) /\ WF_channelVars(Failing)
ChannelSpec == ChannelInit /\ [][ChannelNext]_channelVars /\ Fairness
-----------------------------------------------------------------------------
(* Properties.                                                             *)

\* The variables have their types, the channel of a hook never holds more than
\* its size, and a hook that is there has an open span.
ChannelTypeOK ==
  /\ lib \in Genai \union Meg \union Eino /\ body \in Answers
  /\ enabled \in BOOLEAN /\ present \in BOOLEAN
  /\ app \in {"call", "opening", "failing", "stream", "ranging", "over"}
  /\ pos \in 0..Len(body) /\ raw \subseteq 1..pos /\ told \in BOOLEAN /\ ranged \in 0..2
  /\ cancelled \in BOOLEAN /\ crashed \in BOOLEAN
  /\ chan \in {"nil", "open", "closed"}
  /\ lib \notin Eino => Len(buf) <= Cap
  /\ hook \in {"none", "running", "gone"} /\ (hook = "running" => span = "open")
  /\ span \in {"none", "open", "ended"} /\ status \in {"unset", "ok", "error"}

\* The channel is closed by one side only, and nobody sends on it afterwards,
\* unless ctx is done before the hook has ended its span, the iterator is ranged
\* over twice, Recv is called after it returned an error, or the hooks are turned off.
CrashCauses ==
  crashed =>
    \/ lib \in Genai /\ enabled /\ ((cancelled /\ span = "open") \/ ranged = 2)
    \/ lib \in Meg /\ (enabled => told)

\* What was delivered: the chunks the application went past, but by RecvRaw, and
\* for genai those before the first error that was put into the channel.
Delivered ==
  {i \in 1 .. pos : /\ IsChunk(i) /\ i \notin raw
                    /\ lib \in Genai => \A j \in 1 .. i : body[j] # Bad}
Increasing(s) == \A j, k \in 1 .. Len(s) : j < k => s[j] < s[k]
Places(s) == {s[k] : k \in 1 .. Len(s)}

\* An ended span has on it every chunk that was delivered, once and in order,
\* although they were received in another goroutine; an error that stopped genai's
\* conversion shows on it, and without any error there is none.
DeliveredRecorded ==
  span = "ended" /\ recorded # None =>
    /\ Increasing(recorded) /\ Places(recorded) = Delivered
    /\ status = "error" => told
    /\ lib \in Genai /\ (\E i \in 1 .. pos : body[i] = Bad) => status = "error"

\* The goroutine of the application is never left waiting at a channel that
\* nobody reads, with two exceptions: genai went on after an error, which the
\* hook does not, and go-openai's channel is nil when the hooks are turned off.
Stuck ==
  /\ Live /\ hook # "running" /\ pos < Len(body) /\ chan # "closed"
  /\ chan = "open" => Len(buf) = Cap
  /\ \/ lib \in Genai /\ enabled /\ app = "ranging" /\ body[Here] # Torn
     \/ lib \in Meg /\ app = "stream" /\ IsChunk(Here)
NeverStuck == Stuck => (lib \in Genai /\ told) \/ (lib \in Meg /\ ~enabled)

\* A channel that the hook, the library and the application share makes none of
\* them crash or wait for good, but in the uses named.
Unharmed == ChannelTypeOK /\ CrashCauses /\ NeverStuck

\* The span of a stream that is over, or whose Recv told its end, gets its end,
\* unless ctx was done first, go-openai's stream was closed before its end or the
\* end was told by RecvRaw, or a pointer was nil that the hook of an eino model or
\* tools node reads through.
SpanEnds ==
  ((app = "over" \/ (lib \in Meg /\ told)) /\ span = "open") ~>
    (\/ span = "ended" \/ crashed
     \/ lib \in Genai /\ cancelled
     \/ lib \in Meg /\ ~told
     \/ lib \in {"eino model", "eino tools node"} /\ ~present /\ counted # <<>>)
=============================================================================
