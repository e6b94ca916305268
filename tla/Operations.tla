----------------------------- MODULE Operations -----------------------------
(* What the instrumenters make of the operations of one library: senders   *)
(* start a span and put its context into an object that they send, which   *)
(* the application may use again or forward, receivers start a span under  *)
(* what they find, and both end with a status, an error.type and a record  *)
(* in the metric.  The meters arrive when the SDK is set up, which may be  *)
(* after the first operations.                                             *)
EXTENDS Instruments, FiniteSets

CONSTANTS Libraries,   \* the libraries, one of which is in use
          MaxOps       \* bound on the operations of a behaviour
ASSUME MaxOpsAssumption == MaxOps \in Nat

VARIABLES lib,     \* the library
          meter,   \* have Init*Metrics been called
          kept,    \* the instrument of each listener: "none", "made" or "lost"
          ops,     \* the operations, senders and receivers, in order
          last     \* what the operation that ended last left behind
vars == <<lib, meter, kept, ops, last>>

Instrumenters == {lib.sends} \union lib.serves
Senders == {o \in DOMAIN ops : ops[o].from = 0}
NoLast == [i |-> "none"]

Init ==
  /\ lib \in Libraries
  /\ meter = FALSE
  /\ kept = [i \in {lib.sends.name} \union {s.name : s \in lib.serves} |-> "none"]
  /\ ops = <<>>
  /\ last = NoLast

\* The SDK is set up.
InitMetrics == ~meter /\ meter' = TRUE /\ UNCHANGED <<lib, kept, ops, last>>

Begin(op) == /\ Len(ops) < MaxOps
             /\ ops' = Append(ops, op)
             /\ UNCHANGED <<lib, meter, kept, last>>

\* A sender starts, under parent, with an object that holds headers already.  What
\* is sent has the headers after Inject; a library that copies leaves the object.
Start(parent, before, room, how) ==
  \E after \in Put(lib.carrier, before, room, Len(ops) + 1),
     target \in lib.sends.says.names :
    Begin([i |-> lib.sends, from |-> 0, parent |-> parent, target |-> target,
           sent |-> after, room |-> room, open |-> TRUE,
           how |-> IF room THEN how ELSE "bare",
           left |-> IF lib.carrier.copies \/ ~room THEN before ELSE after])

\* A new object, with a place for headers or without.
Send == \E room \in IF lib.carrier.bare = "put" THEN {TRUE} ELSE BOOLEAN :
          Start(0, <<>>, room, "first")

\* The object of an earlier operation once more, which may be one that was forwarded.
SendAgain == lib.serves # {} /\
  \E o \in Senders :
    Start(0, ops[o].left, ops[o].room,
          IF ops[o].how = "forward" THEN "forward" ELSE "again")

\* A receiver sends on what it received, under its own span.
Forward == \E o \in DOMAIN ops \ Senders :
  LET got == ops[ops[o].from].sent
  IN  Start(o, got, got # <<>> \/ lib.carrier.bare = "put", "forward")

\* What was sent is received, once or more often.
StartUpstream == \E s \in lib.serves, o \in Senders :
  \E parent \in Take(lib.carrier, ops[o].sent) :
    Begin([i |-> s, from |-> o, parent |-> parent, target |-> "its",
           sent |-> <<>>, room |-> FALSE, open |-> TRUE, how |-> "received",
           left |-> <<>>])

\* What the listener of i keeps and whether it records, at the end of an operation.
Kept(i) ==
  CASE i.metric = "once" -> AfterDb(kept[i.name], meter)
    [] i.metric = "kept" /\ i.kind = "rpc" -> AfterRpc(kept[i.name], meter)
    [] i.metric = "kept" /\ i.kind = "http server" ->
         AfterHttpServer(kept[i.name], meter)
    [] OTHER -> kept[i.name]
Recorded(i) ==
  \/ i.metric \in {"once", "kept"} /\ Kept(i) = "made"
  \/ i.metric = "afresh" /\ i.kind = "http client" /\ HttpClientRecords(meter)
  \/ i.metric = "afresh" /\ i.kind = "ai" /\ AiRecords(meter)
Panics(i, tokens) == i.metric = "afresh" /\ i.kind = "ai" /\ AiPanics(meter, tokens)

\* doEnd of an operation.
End(o, outcome) ==
  LET i == ops[o].i
      err == i.told /\ outcome = "error"
      code == i.says.code[outcome]
      answered == outcome \in i.says.answered
  IN  /\ ops[o].open
      /\ ops' = [ops EXCEPT ![o].open = FALSE]
      /\ kept' = [kept EXCEPT ![i.name] = Kept(i)]
      /\ \E tokens \in {"tokens" \in i.fills, FALSE} :
           last' = [i |-> i.name, outcome |-> outcome,
                    status |-> Status(i, code, err),
                    type |-> ErrorType(i, answered, code, err),
                    code |-> ShownCode(i, answered, code),
                    recorded |-> Recorded(i), meter |-> meter,
                    fault |-> Recorded(i) /\ MetricFault(i, answered, code, err),
                    panicked |-> Panics(i, tokens)]
      /\ UNCHANGED <<lib, meter>>

Next == \/ InitMetrics \/ Send \/ SendAgain \/ Forward \/ StartUpstream
        \/ \E o \in DOMAIN ops : \E outcome \in ops[o].i.outcomes : End(o, outcome)

Spec == Init /\ [][Next]_vars

-----------------------------------------------------------------------------
(* Properties.                                                             *)

\* Headers name operations that were started by a sender, each at most once: what
\* a receiver takes from them is a span of a sender, or none.
TypeOK ==
  /\ meter \in BOOLEAN
  /\ \A n \in DOMAIN kept : kept[n] \in {"none", "made", "lost"}
  /\ \A o \in DOMAIN ops :
       /\ ops[o].from \in Senders \union {0} /\ ops[o].from < o
       /\ ops[o].parent \in 0 .. o - 1
       /\ \A k \in DOMAIN ops[o].sent :
            /\ ops[o].sent[k] \in Senders /\ ops[o].sent[k] <= o
            /\ \A l \in DOMAIN ops[o].sent \ {k} : ops[o].sent[k] # ops[o].sent[l]

\* Where the object of a sender keeps, or hides, another operation's headers: an
\* object used again or forwarded carries the oldest trace context (trpc, rpcx),
\* the first of two is read (segmentio) or any of them (gomicro), or there is no
\* place and nothing is sent (amqp091, sarama before 0.11, rpcx with baggage), and
\* streams of gomicro put nothing.
Detached ==
  {<<l, "bare">> : l \in {"amqp091", "ibm sarama", "shopify sarama", "rpcx"}}
  \union {<<l, "again">> : l \in {"trpc", "rpcx", "gomicro stream"}}
  \union {<<l, "forward">> :
            l \in {"trpc", "rpcx", "segmentio", "gomicro", "gomicro stream"}}
  \union {<<"gomicro stream", "first">>}

\* The target is named otherwise at the two ends.
Misnamed == {"trpc", "segmentio", "asynq"}

\* A receiver is a child of the operation that sent what it received, whatever
\* was sent with the same object before, and both ends give the target one name.
Connected ==
  /\ TypeOK
  /\ \A o \in DOMAIN ops \ Senders :
       LET sender == ops[ops[o].from]
       IN  /\ <<lib.name, sender.how>> \notin Detached => ops[o].parent = ops[o].from
           /\ lib.name \notin Misnamed => ops[o].target = sender.target

\* Where the error does not reach the instrumenter, or an answer hides it.
Untold == {"kitex client", "kitex server", "ibm sarama consumer",
  "shopify sarama consumer", "franz consumer", "rocketmq batch",
  "amqp091 consume", "adk agent", "mcp server", "mcp 0.20 server",
  "hertz server"}

\* The response object says 200 before there is an answer.
Prefilled == {"fasthttp client", "hertz client"}

\* A refusal is the fault of the client.
Fault(i, outcome) ==
  outcome \in {"error", "broken"} \union
                IF i.kind = "http server" THEN {} ELSE {"refused"}

\* The status of a span is Error just when its operation failed, error.type goes
\* with it, and a client shows no code when there was no answer: the three come
\* from different code (hook, status extractor, attribute extractor).
Told ==
  \A i \in Instrumenters : last.i = i.name =>
    /\ i.name \notin Untold =>
         /\ (last.status = "Error") <=> Fault(i, last.outcome)
         /\ i.kind \in Typed => (last.type <=> Fault(i, last.outcome))
    /\ i.kind = "http client" /\ last.outcome = "error" /\ i.name \notin Prefilled
         => last.code = 0

\* Once the meters are there every operation of an instrumenter with a metric is
\* recorded, those before it or not, and its failure with it, and no listener
\* panics; a metric of a database names server and operation.  But the metric of a
\* database that was used before is lost for good, the metrics of rpc other than
\* grpc tell of no failure, neo4j has no server, and before the meters are there
\* an AI client's listener panics.
Measured ==
  \A i \in Instrumenters : last.i = i.name /\ i.metric # "none" =>
    /\ last.meter /\ (i.kind = "db" => kept[i.name] # "lost") => last.recorded
    /\ last.panicked => ~last.meter /\ i.kind = "ai" /\ "tokens" \in i.fills
    /\ last.recorded /\ (i.kind = "rpc" => "grpc code" \in i.fills)
         /\ i.name \notin Untold => (last.fault <=> Fault(i, last.outcome))
    /\ i.kind = "db" /\ i.name # "neo4j" => {"address", "operation"} \subseteq i.fills

-----------------------------------------------------------------------------
(* Libraries that the exceptions describe.                                 *)

CarrierType ==
  [put : {"replace", "append", "if none", "nothing"}, take : {"first", "last", "any"},
   copies : BOOLEAN, bare : {"put", "nothing", "maybe"}]

\* The receivers of what was put into such an object find just this operation.  With
\* "put" there is no object without a place.
Leads(c, how) ==
  \/ how = "bare" /\ c.bare = "put"
  \/ how = "first" /\ c.put # "nothing"
  \/ how = "again" /\ c.put = "append" /\ c.copies
  \/ how \in {"again", "forward"} /\ c.put = "append" /\ c.take = "last"
  \/ how \in {"again", "forward"} /\ c.put = "replace"

Refusal(code) == code \in 400 .. 499
Breakdown(code) == code \in 500 .. 599

\* The getters of an HTTP library say a code of the class of the outcome; where it is
\* the code that tells of an error, there is one for it.
ClientFits(i) ==
  LET code == i.says.code
  IN  /\ i.status = "http client" /\ {"ok", "refused", "broken"} \subseteq i.says.answered
      /\ i.name \notin Prefilled => "error" \notin i.says.answered
      /\ Success(code["ok"]) /\ Refusal(code["refused"]) /\ Breakdown(code["broken"])
ServerFits(i) ==
  LET code == i.says.code
  IN  /\ i.status = "http server"
      /\ Success(code["ok"]) /\ Refusal(code["refused"]) /\ Breakdown(code["broken"])
      /\ "error" \in i.outcomes /\ i.name \notin Untold => Breakdown(code["error"])

\* The others know of success and of errors.
OtherFits(i) ==
  /\ i.outcomes \subseteq {"ok", "error"}
  /\ i.status \in {"result", "default", "grpc", "trpc"}
  /\ i.status = "grpc" => i.says.code["ok"] = 200

\* A metric is that of the kind.
MetricFits(i) ==
  /\ \/ i.metric = "none"
     \/ i.metric = "once" /\ i.kind = "db"
     \/ i.metric = "kept" /\ i.kind \in {"rpc", "http server"}
     \/ i.metric = "afresh" /\ i.kind \in {"http client", "ai"}
  /\ i.kind = "db" /\ i.metric # "none" /\ i.name # "neo4j" =>
       {"address", "operation"} \subseteq i.fills

\* The error is passed on.
Fits(i) ==
  /\ i.outcomes \subseteq Outcomes /\ i.told \in BOOLEAN /\ (i.name \notin Untold => i.told)
  /\ CASE i.kind = "http client" -> ClientFits(i)
       [] i.kind = "http server" -> ServerFits(i)
       [] OTHER -> OtherFits(i)
  /\ MetricFits(i)

ASSUME LibrariesAssumption == \A l \in Libraries :
  /\ l.carrier \in CarrierType
  /\ l.serves # {} =>
       /\ \A how \in {"bare", "first", "again", "forward"} :
            <<l.name, how>> \notin Detached => Leads(l.carrier, how)
       /\ l.name \notin Misnamed => l.sends.says.names = {"its"}
  /\ \A i \in {l.sends} \union l.serves :
       /\ Fits(i) /\ i.name # "none"
       /\ \A j \in {l.sends} \union l.serves : i.name = j.name => i = j
=============================================================================
