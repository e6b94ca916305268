------------------------------ MODULE WebHooks ------------------------------
(* Servers and clients of HTTP.                                            *)
EXTENDS HookShape

\* net/http, RoundTrip; URLs of exporters are left alone.
HttpClient == [Hook("http client") EXCEPT !.skips = TRUE, !.gives = TRUE]

\* net/http, ServeHTTP.
HttpServer ==
  [Hook("http server") EXCEPT !.skips = TRUE, !.fails = FALSE,
    !.server = TRUE]

\* fasthttp, Do; a fasthttp request has no context.
FasthttpClient ==
  [Hook("fasthttp client") EXCEPT !.under = "newest", !.skips = TRUE]

\* fasthttp: the handler is wrapped, the span is made when it is through.
FasthttpServer ==
  [Wrapper("fasthttp server") EXCEPT !.when = "exit", !.skips = TRUE,
    !.fails = FALSE]

\* fiber: the second half asks for what the first stored.
FiberV2 ==
  [ByEnter("fiber v2 server") EXCEPT !.skips = TRUE, !.fails = FALSE,
    !.server = TRUE]
FiberV3 ==
  [ByEnter("fiber v3 server") EXCEPT !.skips = TRUE, !.fails = FALSE,
    !.server = TRUE]

\* hertz: a middleware of the client, a tracer of the server, whose Start does
\* nothing and whose Finish makes the span and gives it its route.
HertzClient == [Wrapper("hertz client") EXCEPT !.gives = TRUE]
HertzServer ==
  [Wrapper("hertz server") EXCEPT !.when = "exit", !.skips = TRUE,
    !.routes = TRUE, !.deferred = TRUE]

\* The routers: gin twice, echo, iris and mux twice.
Gin == ByEnter("gin router")
GinHtml == ByEnter("gin html router")
Echo == Wrapper("echo router")
Iris == ByEnter("iris router")
MuxRoute130 == ByEnter("mux 1.3.0 router")
MuxRoute174 == ByEnter("mux 1.7.4 router")

RouterHooks ==
  {Gin, GinHtml, Echo, Iris, MuxRoute130, MuxRoute174}
Web ==
  {HttpClient, HttpServer, FasthttpClient, FasthttpServer, FiberV2, FiberV3,
   HertzClient, HertzServer}
=============================================================================
