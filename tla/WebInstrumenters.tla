-------------------------- MODULE WebInstrumenters --------------------------
(* Instrumenters of HTTP libraries.                                        *)
EXTENDS Instruments

\* net/http: without a response there is no code.
NetHttpClientSays == HttpSays
NetHttpClient == HttpClient("net/http client", NetHttpClientSays)
NetHttpServerSays == HttpSays
NetHttpServer == HttpServer("net/http server", NetHttpServerSays)
NetHttp == Both("net/http", NetHttpClient, NetHttpServer, Headers)

\* fasthttp and hertz: the response that the caller brought says 200 when none came.
FasthttpClientSays == BlankOk
FasthttpClient == HttpClient("fasthttp client", FasthttpClientSays)
FasthttpServerSays == HttpSays
FasthttpServer == HttpServer("fasthttp server", FasthttpServerSays)
FasthttpCarrier == Headers
Fasthttp == Both("fasthttp", FasthttpClient, FasthttpServer, FasthttpCarrier)
HertzClientSays == BlankOk
HertzClient == HttpClient("hertz client", HertzClientSays)
HertzCarrier == Headers

\* An error of the server is one of the connection: the code is that of the answer.
HertzServerSays == [HttpSays EXCEPT !.code["error"] = 200]
HertzServer ==
  [HttpServer("hertz server", HertzServerSays) EXCEPT !.outcomes = Outcomes]
Hertz == Both("hertz", HertzClient, HertzServer, HertzCarrier)

\* fiber: servers only, to which anybody sends.
FiberV2Says == HttpSays
FiberV2 == HttpServer("fiber v2 server", FiberV2Says)
FiberV2Carrier == Headers
Fiber2 == Both("fiber v2", NetHttpClient, FiberV2, FiberV2Carrier)
FiberV3Says == HttpSays
FiberV3 == HttpServer("fiber v3 server", FiberV3Says)
FiberV3Carrier == Headers
Fiber3 == Both("fiber v3", NetHttpClient, FiberV3, FiberV3Carrier)

\* go-micro: 200, or 500 when there is an error.  A call puts its header, in small
\* letters, beside the one of the metadata that it copies, and the server takes
\* the first that it meets.  A stream puts none.
GomicroClientSays == [HttpSays EXCEPT !.code["error"] = 500]
GomicroClient ==
  [HttpClient("gomicro client", GomicroClientSays) EXCEPT !.outcomes = {"ok",
    "error"}]
GomicroServerSays == [HttpSays EXCEPT !.code["error"] = 500]
GomicroServer ==
  [HttpServer("gomicro server", GomicroServerSays) EXCEPT !.outcomes = {"ok",
    "error"}]
GomicroCarrier ==
  [Headers EXCEPT !.put = "append", !.take = "any", !.copies = TRUE]
GomicroStreamCarrier == [Headers EXCEPT !.put = "nothing"]
Gomicro == Both("gomicro", GomicroClient, GomicroServer, GomicroCarrier)
GomicroStream ==
  Both("gomicro stream", GomicroClient, GomicroServer, GomicroStreamCarrier)

WebLibraries ==
  {NetHttp, Fasthttp, Hertz, Fiber2, Fiber3, Gomicro, GomicroStream}
=============================================================================
