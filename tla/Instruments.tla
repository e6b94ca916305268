---------------------------- MODULE Instruments ----------------------------
(* What an instrumenter of pkg/inst-api is built from: what its getters    *)
(* say, how it decides on the status of the span, what its attribute       *)
(* extractors and its operation listener add, and the carrier that takes   *)
(* the context of a span to the other end.  The tables of the libraries    *)
(* are in WebInstrumenters and the modules beside it.                      *)
EXTENDS Integers, Sequences

\* How an operation ends: an answer of 2xx, 4xx or 5xx, or an error in its place.
Outcomes == {"ok", "refused", "broken", "error"}

-----------------------------------------------------------------------------
(* What the getters say: the code of an outcome, for which outcomes there  *)
(* is an answer at all, how the target is named, which attributes are      *)
(* filled in.                                                              *)

HttpSays ==
  [code     |-> [ok |-> 200, refused |-> 400, broken |-> 500, error |-> 0],
   answered |-> Outcomes \ {"error"}, names |-> {"its"}, fills |-> {}]
BlankOk == [HttpSays EXCEPT !.code["error"] = 200, !.answered = Outcomes]
RpcSays == [HttpSays EXCEPT !.code = [o \in Outcomes |-> 0]]
MessageSays == RpcSays
DbSays(fills) == [RpcSays EXCEPT !.fills = fills]
LlmSays == DbSays({"model", "tokens"})
AgentSays == RpcSays
InformerSays == RpcSays

-----------------------------------------------------------------------------
(* Instrumenters.  told: the hook passes the error of the operation on.    *)

Instrumenter(name, says, kind, status, metric, outcomes) ==
  [name |-> name, says |-> says, fills |-> says.fills, kind |-> kind,
   status |-> status, metric |-> metric, outcomes |-> outcomes, told |-> TRUE]

Ends == {"ok", "error"}
HttpClient(name, says) ==
  Instrumenter(name, says, "http client", "http client", "afresh", Outcomes)
HttpServer(name, says) ==
  Instrumenter(name, says, "http server", "http server", "kept",
               Outcomes \ {"error"})
RpcClient(name, says) ==
  Instrumenter(name, says, "rpc", "result", "kept", Ends)
RpcServer(name, says) ==
  Instrumenter(name, says, "rpc", "result", "kept", Ends)
DbClient(name, says) ==
  Instrumenter(name, says, "db", "default", "once", Ends)
Producer(name, says) ==
  Instrumenter(name, says, "message", "result", "none", Ends)
Consumer(name, says) ==
  Instrumenter(name, says, "message", "result", "none", Ends)
AiClient(name, says) ==
  Instrumenter(name, says, "ai", "default", "afresh", Ends)
Internal(name, says) ==
  Instrumenter(name, says, "internal", "default", "none", Ends)

-----------------------------------------------------------------------------
(* The end of a span.  err: an error was passed on; code: what the getter  *)
(* says.                                                                   *)

Success(code) == code \in 200 .. 299
ClientFault(code) == code >= 400 \/ code < 100
ServerFault(code) == code >= 500 \/ code < 100

\* doEnd sets Error for an error before it asks the extractor.
SetsError(i, code, err) ==
  \/ err
  \/ i.status = "http client" /\ ClientFault(code)
  \/ i.status = "http server" /\ ServerFault(code)
  \/ i.status = "grpc" /\ code # 200
SetsOk(i, code, err) ==
  \/ i.status = "http client" /\ ~err /\ Success(code)
  \/ i.status = "http server" /\ Success(code)
  \/ i.status = "result" /\ ~err

\* The SDK lets nothing replace Ok.
Status(i, code, err) ==
  IF SetsOk(i, code, err) THEN "Ok"
  ELSE IF SetsError(i, code, err) THEN "Error" ELSE "Unset"

HttpClientType(answered, code, err) == (answered /\ ClientFault(code)) \/ err
HttpServerType(code) == ServerFault(code)
DbType(err) == err
AiType(err) == err

\* Kinds of spans that have an error.type.
Typed == {"http client", "http server", "db", "ai"}
ErrorType(i, answered, code, err) ==
  \/ i.kind = "http client" /\ HttpClientType(answered, code, err)
  \/ i.kind = "http server" /\ HttpServerType(code)
  \/ i.kind = "db" /\ DbType(err)
  \/ i.kind = "ai" /\ AiType(err)

\* The code that the span shows: that of the answer, 0 when a client has none.
ShownCode(i, answered, code) ==
  IF i.kind = "http client" /\ ~answered THEN 0 ELSE code

\* Does the metric tell that the operation failed?  Of an rpc it has at most the
\* grpc code, which is 1 for an error.
MetricFault(i, answered, code, err) ==
  IF i.kind = "rpc" THEN "grpc code" \in i.fills /\ err
                    ELSE ErrorType(i, answered, code, err)

\* The instrument of a listener after an operation.  Once makes one attempt, of a
\* database.  The pointers of servers and of rpc look again until there is a meter.
AfterDb(kept, meter) ==
  IF kept = "none" THEN (IF meter THEN "made" ELSE "lost") ELSE kept
AfterHttpServer(kept, meter) == IF meter THEN "made" ELSE kept
AfterRpc(kept, meter) == IF meter THEN "made" ELSE kept

\* Listeners that are values make an instrument for the operation alone.
HttpClientRecords(meter) == meter
AiRecords(meter) == meter

\* Without a meter an AI client's listener calls Record on nil for an operation that
\* tells of tokens: it panics, after the end of the span.
AiPanics(meter, tokens) == ~meter /\ tokens

-----------------------------------------------------------------------------
(* Carriers.  Headers are the operations whose context they name.          *)

Headers ==
  [put |-> "replace", take |-> "first", copies |-> FALSE, bare |-> "put"]

\* Mutant: a header put beside what is there.
PutBeside(c, before, room, op) == {Append(before, op)}

\* The headers after the context of op was put, for headers that were there.
Put(c, before, room, op) ==
  CASE ~room /\ c.bare = "nothing" -> {<<>>}
    [] ~room /\ c.bare = "maybe"   -> {<<op>>, <<>>}
    [] c.put = "replace" -> {<<op>>}
    [] c.put = "append"  -> {Append(before, op)}
    [] c.put = "if none" -> {IF before = <<>> THEN <<op>> ELSE before}
    [] c.put = "nothing" -> {before}

\* The operation that a receiver finds in headers, 0 for none.
Take(c, headers) ==
  IF headers = <<>> THEN {0}
  ELSE CASE c.take = "first" -> {headers[1]}
         [] c.take = "last"  -> {headers[Len(headers)]}
         [] c.take = "any"   -> {headers[k] : k \in DOMAIN headers}

\* A library has an instrumenter for each end, or one for both.
Both(name, sends, serves, carrier) ==
  [name |-> name, sends |-> sends, serves |-> {serves}, carrier |-> carrier]
One(i) ==
  [name |-> i.name, sends |-> i, serves |-> {},
   carrier |-> [Headers EXCEPT !.put = "nothing"]]
=============================================================================
