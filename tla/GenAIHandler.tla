---------------------------- MODULE GenAIHandler ----------------------------
(***************************************************************************)
(* util-genai's TelemetryHandler: an application makes an invocation of    *)
(* one of seven kinds, starts it, fills in what it asks and what it was    *)
(* answered, and stops or fails it.  The handler keeps nothing of it: its  *)
(* span and the time of its start are in the invocation.                   *)
(*                                                                         *)
(* A call of Stop or Fail is a thread of its own: two goroutines may       *)
(* finish one invocation, say the reader of a stream and a watcher of its  *)
(* context, and both only read it.  An invocation is written (Start, Ask,  *)
(* Answer) only while no call on it is under way; anything else would be a *)
(* data race of the application.  Values are abstracted to the group of    *)
(* fields that they are in; one of false or "" is none.                    *)
(***************************************************************************)
EXTENDS Integers, Sequences, FiniteSets

CONSTANTS Inv,       \* invocations
          Environments, \* what the environment may ask for, see env
          MaxSpans,  \* bound: calls of Start
          MaxCalls,  \* bound: calls of Stop and Fail
          MaxNow     \* bound: the clock, in the units that float64 seconds tell

Captures == {"none", "span", "event", "both"}

ASSUME HandlerAssumption ==
  /\ MaxSpans \in Nat /\ MaxCalls \in Nat /\ MaxNow \in Nat
  /\ Environments \subseteq [experimental : BOOLEAN, capture : Captures, emit : BOOLEAN]

VARIABLES
  handler,   \* the singleton of GetTelemetryHandler: {} or {its hook}, where
             \* "custom" is the upload hook or one of the application
  env,       \* [experimental, capture, emit]: the environment
  kind,      \* kind[i]: the type of invocation i
  inv,       \* inv[i] = [span, startS, fields, passed, turned]: span 0 is nil;
             \* history: time has passed, and the clock was set back, since Start
  spans,     \* the spans in the order they were started
  calls,     \* the calls of Stop and Fail, and what each has recorded;
             \* history due: its duration is positive if the clock is right
  now        \* the clock of the machine, time.Now().UnixNano()

vars == <<handler, env, kind, inv, spans, calls, now>>

Hooks == {"noop", "custom"}
Hows  == {"stop", "fail", "fail untyped"}
-----------------------------------------------------------------------------
(* The types of invocations, each as the groups of its fields that are told *)
(* together.  "target" is what the span is named after, "parameters" are    *)
(* those of a request and counts of its input, "description" is of an agent *)
(* or a tool and "purpose" the Description of CreateAgentInvocation;        *)
(* "response" is all of an answer but the model that gave it.  "custom" are *)
(* attributes of the application's own, "wide" those of them that are an    *)
(* int64 or a []string.                                                     *)

AskedFields == {"target", "id", "provider", "parameters", "conversation", "version",
                "description", "purpose", "type", "call", "content", "custom", "wide"}
AnsweredFields == {"response model", "response"}
Fields == AskedFields \union AnsweredFields

Own == {"target", "custom", "wide"}
LLMInvocation ==
  Own \union {"provider", "parameters", "conversation", "content"} \union AnsweredFields
EmbeddingInvocation   == Own \union {"provider", "parameters"} \union AnsweredFields
ExecuteToolInvocation == Own \union {"call", "description", "type", "content"}
CreateAgentInvocation == Own \union {"id", "description", "version", "provider", "purpose"}
InvokeAgentInvocation ==
  Own \union {"id", "description", "version", "provider", "conversation", "content"}
RetrieveInvocation    == Own \union {"provider", "parameters", "content"}
RerankInvocation      == Own \union {"provider", "parameters", "content", "response"}

Has == [llm |-> LLMInvocation, embedding |-> EmbeddingInvocation,
        tool |-> ExecuteToolInvocation, agent |-> InvokeAgentInvocation,
        create |-> CreateAgentInvocation, retrieve |-> RetrieveInvocation,
        rerank |-> RerankInvocation]
Kinds == DOMAIN Has
-----------------------------------------------------------------------------
(* What Start names the span after, and the order of the steps of Stop and *)
(* Fail; Stop leaves out "error".                                          *)

LLM == [names |-> {"target"},
  next |-> [apply |-> "error", error |-> "measure", measure |-> "offload",
            offload |-> "emit", emit |-> "end"]]
Agent == [names |-> {"target"},
  next |-> [apply |-> "error", error |-> "measure", measure |-> "emit", emit |-> "end"]]
MeasuredOnly == [apply |-> "error", error |-> "measure", measure |-> "end"]
Embedding    == [names |-> {"target"}, next |-> MeasuredOnly]
Tool         == [names |-> {"target"}, next |-> MeasuredOnly]
Unmeasured   == [apply |-> "error", error |-> "end"]
Create       == [names |-> {"target"}, next |-> Unmeasured]
Retrieve     == [names |-> {"target"}, next |-> Unmeasured]
Rerank       == [names |-> {}, next |-> Unmeasured]

Handled == [llm |-> LLM, embedding |-> Embedding, tool |-> Tool, agent |-> Agent,
            create |-> Create, retrieve |-> Retrieve, rerank |-> Rerank]

Name(k, f) == f \intersect Handled[k].names

\* Mutant: Fail does not set the status.
AfterUnset(k, how, at) ==
  LET x == Handled[k].next[at] IN IF x = "error" THEN Handled[k].next[x] ELSE x

\* The step after step at.
After(k, how, at) ==
  LET x == Handled[k].next[at]
  IN  IF x = "error" /\ how = "stop" THEN Handled[k].next[x] ELSE x
-----------------------------------------------------------------------------
(* The attributes of spans.                                                *)

\* ShouldCaptureContentInSpan, ShouldCaptureContentInEvent: without the
\* experimental mode the mode of capture is not looked at.
CapturesInSpan  == env.experimental /\ env.capture \in {"span", "both"}
CapturesInEvent == env.experimental /\ env.capture \in {"event", "both"}
EmitsEvents     == env.experimental /\ env.emit

\* Mutant: content is set without a look at the environment.
ContentAlways(f) == f \intersect {"content"}

\* Messages, arguments and queries.
Content(f) == IF CapturesInSpan THEN f \intersect {"content"} ELSE {}

GetLLMCommonAttributes(f)   == {"operation"} \union (f \intersect {"target", "provider"})
GetLLMRequestAttributes(f)  == f \intersect {"parameters", "conversation"}
GetLLMResponseAttributes(f) == f \intersect {"response model", "response"}
LLMAttributes(f) == GetLLMCommonAttributes(f) \union GetLLMRequestAttributes(f)
                      \union GetLLMResponseAttributes(f)
ApplyLLM(f) == LLMAttributes(f) \union Content(f) \union (f \intersect {"custom", "wide"})

\* The others pass over a custom attribute that is wide, rerank has no
\* gen_ai.operation.name, and the Description of an agent that is created goes
\* nowhere.
ApplyEmbedding(f) ==
  {"operation"} \union (f \intersect {"target", "provider", "response model",
                                     "parameters", "response", "custom"})
ApplyTool(f) ==
  {"operation"} \union Content(f)
    \union (f \intersect {"target", "call", "description", "type", "custom"})
ApplyAgent(f) ==
  {"operation"} \union Content(f)
    \union (f \intersect {"target", "id", "description", "version", "provider",
                          "conversation", "custom"})
ApplyCreate(f) ==
  {"operation"} \union (f \intersect {"target", "id", "description", "version",
                                     "provider", "custom"})
ApplyRetrieve(f) ==
  {"operation"} \union Content(f)
    \union (f \intersect {"target", "parameters", "provider", "custom"})
ApplyRerank(f) ==
  Content(f)
    \union (f \intersect {"target", "provider", "parameters", "response", "custom"})

Applied(k, f) ==
  [llm |-> ApplyLLM(f), embedding |-> ApplyEmbedding(f), tool |-> ApplyTool(f),
   agent |-> ApplyAgent(f), create |-> ApplyCreate(f), retrieve |-> ApplyRetrieve(f),
   rerank |-> ApplyRerank(f)][k]
-----------------------------------------------------------------------------
(* The histograms: a duration is recorded only if it is positive, the rest *)
(* only if it is known.  An error is told by its type alone.               *)

Durations == {"operation.duration", "execute_tool.duration", "invoke_agent.duration"}
Histograms == Durations \union {"token.usage", "first_chunk"}

Recorded(hist, attrs, how) == [hist |-> hist, attrs |-> attrs, error |-> how = "fail"]
Lasting(hist, ran) == IF ran > 0 THEN {hist} ELSE {}
Known(hists, f) == IF "response" \in f THEN hists ELSE {}

\* Mutant: recorded without the response model.
ClientAttrsOfRequest(f) == {"operation"} \union (f \intersect {"target", "provider"})

\* The attributes of gen_ai.client metrics.
ClientAttrs(f) ==
  {"operation"} \union (f \intersect {"target", "provider", "response model"})

RecordLLM(f, how, ran) ==
  {Recorded(h, ClientAttrs(f), how) :
     h \in Lasting("operation.duration", ran) \union Known({"token.usage", "first_chunk"}, f)}
RecordEmbedding(f, how, ran) ==
  {Recorded(h, ClientAttrs(f), how) :
     h \in Lasting("operation.duration", ran) \union Known({"token.usage"}, f)}
RecordTool(f, how, ran) ==
  {Recorded(h, f \intersect {"target", "type"}, how) :
     h \in Lasting("execute_tool.duration", ran)}
RecordAgent(f, how, ran) ==
  {Recorded(h, f \intersect {"target", "id", "version"}, how) :
     h \in Lasting("invoke_agent.duration", ran)}

Measured == {"llm", "embedding", "tool", "agent"}
Measurements(k, f, how, ran) ==
  [llm |-> RecordLLM(f, how, ran), embedding |-> RecordEmbedding(f, how, ran),
   tool |-> RecordTool(f, how, ran), agent |-> RecordAgent(f, how, ran)][k]
-----------------------------------------------------------------------------
(* The events, at most one of each call; they have no error.               *)

EventContent(f) == IF CapturesInEvent THEN f \intersect {"content"} ELSE {}
EmitLLMEvent(f) ==
  IF EmitsEvents THEN {LLMAttributes(f) \union EventContent(f)} ELSE {}
EmitInvokeAgentEvent(f) ==
  IF EmitsEvents
  THEN {{"operation"} \union EventContent(f)
          \union (f \intersect {"target", "id", "provider", "conversation"})}
  ELSE {}
Events(k, f) == [llm |-> EmitLLMEvent(f), agent |-> EmitInvokeAgentEvent(f)][k]
-----------------------------------------------------------------------------
Init ==
  /\ handler = {}
  /\ env \in Environments
  /\ kind \in [Inv -> Kinds]
  /\ inv = [i \in Inv |-> [span |-> 0, startS |-> 0, fields |-> {}, passed |-> FALSE,
                           turned |-> FALSE]]
  /\ spans = <<>> /\ calls = <<>> /\ now = 0

Over == {"done", "panicked"}
Free(i) == \A n \in DOMAIN calls : calls[n].inv = i => calls[n].at \in Over

\* GetTelemetryHandler: the options of the first caller are the handler's.
GetTelemetryHandler(hook) ==
  /\ handler' = IF handler = {} THEN {hook} ELSE handler
  /\ UNCHANGED <<env, kind, inv, spans, calls, now>>

\* The application fills in a request, and later what was answered.
Ask(i) ==
  /\ Free(i)
  /\ inv' = [inv EXCEPT ![i].fields = @ \union (AskedFields \intersect Has[kind[i]])]
  /\ UNCHANGED <<handler, env, kind, spans, calls, now>>

Answer(i) ==
  /\ Free(i) /\ inv[i].span # 0 /\ "target" \in inv[i].fields
  /\ inv' = [inv EXCEPT ![i].fields = @ \union (AnsweredFields \intersect Has[kind[i]])]
  /\ UNCHANGED <<handler, env, kind, spans, calls, now>>

\* StartLLM, StartEmbedding, StartExecuteTool, StartInvokeAgent,
\* StartCreateAgent, StartRetrieve, StartRerank: whatever span the invocation
\* had is forgotten.
Start(i) ==
  /\ handler # {} /\ Free(i) /\ Len(spans) < MaxSpans
  /\ spans' = Append(spans, [inv |-> i, name |-> Name(kind[i], inv[i].fields),
                             attrs |-> {}, status |-> "unset", open |-> TRUE])
  /\ inv' = [inv EXCEPT ![i].span = Len(spans) + 1, ![i].startS = now,
                        ![i].passed = FALSE, ![i].turned = FALSE]
  /\ UNCHANGED <<handler, env, kind, calls, now>>

\* The SDK changes a span only until it has ended.
Change(s, t) == IF spans[s].open THEN [spans EXCEPT ![s] = t] ELSE spans

At(n, at) == n \in DOMAIN calls /\ calls[n].at = at
Following(n) == After(kind[calls[n].inv], calls[n].how, calls[n].at)
SpanOf(n) == inv[calls[n].inv].span

\* Stop<kind> and Fail<kind>, to Apply<kind>FinishAttributes: an invocation that
\* was not started is left alone.  Only the name of an LLM span is set again.
Finish(i, how) ==
  LET k == kind[i]
      s == inv[i].span
      f == inv[i].fields
  IN  /\ s # 0 /\ Len(calls) < MaxCalls
      /\ calls' = Append(calls, [inv |-> i, span |-> s, how |-> how,
                                 at |-> After(k, how, "apply"), fields |-> f,
                                 due |-> FALSE, measured |-> {}, events |-> {},
                                 ref |-> FALSE])
      /\ spans' = Change(s, [spans[s] EXCEPT !.attrs = @ \union Applied(k, f),
                               !.name = IF k = "llm" THEN Name(k, f) ELSE @])
      /\ UNCHANGED <<handler, env, kind, inv, now>>

\* ApplyErrorAttributes.
ApplyError(n) ==
  /\ At(n, "error")
  /\ spans' = Change(SpanOf(n), [spans[SpanOf(n)] EXCEPT !.status = "error"])
  /\ calls' = [calls EXCEPT ![n].at = Following(n)]
  /\ UNCHANGED <<handler, env, kind, inv, now>>

Measure(n) ==
  LET c == calls[n]
      ran == now - inv[c.inv].startS
  IN  /\ At(n, "measure")
      /\ calls' = [calls EXCEPT ![n].at = Following(n),
             ![n].due = inv[c.inv].passed /\ ~inv[c.inv].turned,
             ![n].measured = Measurements(kind[c.inv], c.fields, c.how, ran)]
      /\ UNCHANGED <<handler, env, kind, inv, spans, now>>

\* offloadLLMContent: the upload hook stamps a reference on the span.  A hook
\* of the application's may, and nothing keeps a panic of it from the caller.
Offload(n) ==
  /\ At(n, "offload")
  /\ \/ calls' = [calls EXCEPT ![n].at = Following(n),
           ![n].ref = handler # {"noop"} /\ "content" \in calls[n].fields]
     \/ /\ handler = {"custom"}
        /\ calls' = [calls EXCEPT ![n].at = "panicked"]
  /\ UNCHANGED <<handler, env, kind, inv, spans, now>>

Emit(n) ==
  /\ At(n, "emit")
  /\ calls' = [calls EXCEPT ![n].at = Following(n),
                 ![n].events = Events(kind[calls[n].inv], calls[n].fields)]
  /\ UNCHANGED <<handler, env, kind, inv, spans, now>>

End(n) ==
  /\ At(n, "end")
  /\ spans' = Change(SpanOf(n), [spans[SpanOf(n)] EXCEPT !.open = FALSE])
  /\ calls' = [calls EXCEPT ![n].at = "done"]
  /\ UNCHANGED <<handler, env, kind, inv, now>>

\* Time goes by, and somebody sets the clock back.
Tick ==
  /\ now < MaxNow
  /\ now' = now + 1
  /\ inv' = [i \in Inv |-> [inv[i] EXCEPT !.passed = TRUE]]
  /\ UNCHANGED <<handler, env, kind, spans, calls>>

SetBack ==
  /\ now > 0
  /\ now' = 0
  /\ inv' = [i \in Inv |-> [inv[i] EXCEPT !.turned = TRUE]]
  /\ UNCHANGED <<handler, env, kind, spans, calls>>

Next ==
  \/ \E hook \in Hooks : GetTelemetryHandler(hook)
  \/ \E i \in Inv : Ask(i) \/ Answer(i) \/ Start(i) \/ \E how \in Hows : Finish(i, how)
  \/ \E n \in 1..MaxCalls : \/ ApplyError(n) \/ Measure(n) \/ Offload(n)
                            \/ Emit(n) \/ End(n)
  \/ Tick \/ SetBack

Spec == Init /\ [][Next]_vars
-----------------------------------------------------------------------------
\* The state is well formed.
Attrs == Fields \union {"operation"}
SpanType == [inv : Inv, name : SUBSET Fields, attrs : SUBSET Attrs,
             status : {"unset", "error"}, open : BOOLEAN]
Steps == {"error", "measure", "offload", "emit", "end"} \union Over
CallType ==
  [inv : Inv, span : 1..MaxSpans, how : Hows, at : Steps, fields : SUBSET Fields,
   due : BOOLEAN,
   measured : SUBSET [hist : Histograms, attrs : SUBSET Attrs, error : BOOLEAN],
   events : SUBSET SUBSET Attrs, ref : BOOLEAN]

TypeOK ==
  /\ handler \in {{}} \union {{h} : h \in Hooks} /\ env \in Environments
  /\ kind \in [Inv -> Kinds] /\ now \in 0..MaxNow
  /\ inv \in [Inv -> [span : 0..MaxSpans, startS : 0..MaxNow, fields : SUBSET Fields,
                      passed : BOOLEAN, turned : BOOLEAN]]
  /\ spans \in Seq(SpanType) /\ Len(spans) \leq MaxSpans
  /\ calls \in Seq(CallType) /\ Len(calls) \leq MaxCalls

CallsOn(s) == {n \in DOMAIN calls : calls[n].span = s}
Only(n) == CallsOn(calls[n].span) = {n}
Failed(c) == c.how # "stop"

\* A span is open as long as no call has gone through on it and no longer: it
\* leaks if the invocation is started again first, or a hook panics in each
\* call.  An error that a call reports is on the span, unless another call had
\* ended the span before; and no span shows an error that no call reported.
Settled ==
  \A s \in DOMAIN spans :
    /\ spans[s].open <=> \A n \in CallsOn(s) : calls[n].at # "done"
    /\ spans[s].status = "error" => \E n \in CallsOn(s) : Failed(calls[n])
    /\ \A n \in CallsOn(s) :
         Failed(calls[n]) /\ calls[n].at # "error" /\ spans[s].status # "error" =>
           \E m \in CallsOn(s) \ {n} : calls[m].at = "done"

\* What the span, the histograms and the event of an invocation leave out of
\* it, apart from content, for which there is Private.  Only the span has custom
\* attributes.
OffSpan == [k \in Kinds |-> IF k = "llm" THEN {}
                           ELSE {"wide"} \union IF k = "create" THEN {"purpose"} ELSE {}]
OffMetrics ==
  [llm       |-> {"custom", "wide", "parameters", "conversation", "response"},
   embedding |-> {"custom", "wide", "parameters", "response"},
   tool      |-> {"custom", "wide", "call", "description"},
   agent     |-> {"custom", "wide", "description", "provider", "conversation"}]
OffEvent == [llm   |-> {"custom", "wide"},
             agent |-> {"custom", "wide", "version", "description"}]

\* What the span, the histograms and the event of an invocation tell when one
\* call has finished it, whatever was done with it before: of all that was filled
\* in by then, each tells everything but what the three tables above name, what
\* the histograms and the event tell the span tells as well, and whether it
\* failed is told alike.  The rest that is not told: the names of spans but
\* those of LLM calls are the ones they started with; an error without a type is
\* not in the histograms; and there is no duration if the clock shows none.
Agree ==
  /\ TypeOK
  /\ \A n \in DOMAIN calls :
       LET c == calls[n]
           k == kind[c.inv]
           t == spans[c.span]
           Plain == c.fields \ {"content"}
       IN  c.at = "done" /\ Only(n) =>
             /\ Plain \ OffSpan[k] \subseteq t.attrs
             /\ k = "llm" => t.name = c.fields \intersect {"target"}
             /\ "content" \in c.fields /\ CapturesInSpan => "content" \in t.attrs
             /\ t.name \subseteq t.attrs
             /\ \A m \in c.measured : /\ m.attrs \intersect Fields = Plain \ OffMetrics[k]
                                      /\ m.attrs \subseteq t.attrs
                                      /\ m.error <=> t.status = "error" /\ c.how = "fail"
             /\ EmitsEvents /\ k \in {"llm", "agent"} => c.events # {}
             /\ \A e \in c.events :
                  /\ Plain \ OffEvent[k] \subseteq e
                  /\ e \subseteq t.attrs \union {"content"}
                  /\ "content" \in c.fields /\ CapturesInEvent => "content" \in e
             /\ c.due /\ k \in Measured =>
                  \E m \in c.measured : m.hist \in Durations

\* Content is nowhere but where the environment asks for it, on spans and in
\* events, and references to it are given only when there is a hook.
Private ==
  /\ \A s \in DOMAIN spans :
       "content" \in spans[s].attrs =>
         env.experimental /\ env.capture \in {"span", "both"}
  /\ \A n \in DOMAIN calls :
       /\ \A e \in calls[n].events :
            /\ env.experimental /\ env.emit
            /\ "content" \in e => env.capture \in {"event", "both"}
       /\ calls[n].ref => handler = {"custom"}
=============================================================================
