------------------------------ MODULE RpcHooks ------------------------------
(* Servers and clients of RPC frameworks.                                  *)
EXTENDS HookShape

\* grpc: a stats handler of the connection.  HandleRPC ends the span of the
\* context, which is that of the caller for a call that TagRPC left alone.
GrpcClient ==
  [Wrapper("grpc client") EXCEPT !.skips = TRUE, !.gives = TRUE,
    !.bare = "caller", !.deferred = TRUE]
GrpcNewClient ==
  [Always("grpc client (NewClient)") EXCEPT !.skips = TRUE, !.gives = TRUE,
    !.bare = "caller"]
GrpcServer == [Wrapper("grpc server") EXCEPT !.gives = TRUE, !.deferred = TRUE]

\* dubbo: the second half takes the error from the result, which a panic leaves
\* nil.
DubboClient == [Hook("dubbo client") EXCEPT !.ends["panic"] = "nothing"]
DubboServer == [Hook("dubbo server") EXCEPT !.ends["panic"] = "nothing"]

\* kitex: tracers; the error is among the statistics, which the status does not
\* come from.
KitexClient ==
  [Wrapper("kitex client") EXCEPT !.gives = TRUE, !.shows = FALSE,
    !.deferred = TRUE]
KitexServer ==
  [Wrapper("kitex server") EXCEPT !.gives = TRUE, !.shows = FALSE,
    !.deferred = TRUE, !.ends["ok"] = "newest"]

\* trpc.
TrpcClient == [Hook("trpc client") EXCEPT !.under = "newest"]
TrpcServer == Hook("trpc server")

\* rpcx: Go returns before the answer is there.
RpcxCall == [Hook("rpcx client, Call") EXCEPT !.skips = TRUE]
RpcxGo == [Hook("rpcx client, Go") EXCEPT !.skips = TRUE, !.fails = FALSE]
RpcxSendRaw == [Hook("rpcx client, SendRaw") EXCEPT !.skips = TRUE]
RpcxServer == Hook("rpcx server")

\* kratos: middleware that ends the span in a defer.
KratosGrpc ==
  [Wrapper("kratos grpc server") EXCEPT !.skips = TRUE, !.deferred = TRUE]
KratosHttp ==
  [Wrapper("kratos http server") EXCEPT !.skips = TRUE, !.deferred = TRUE]
KratosV3Grpc ==
  [Wrapper("kratos v3 grpc server") EXCEPT !.skips = TRUE, !.deferred = TRUE]
KratosV3GrpcClient ==
  [Wrapper("kratos v3 grpc client") EXCEPT !.skips = TRUE, !.gives = TRUE,
    !.deferred = TRUE]
KratosV3Http ==
  [Wrapper("kratos v3 http server") EXCEPT !.skips = TRUE, !.deferred = TRUE]
KratosV3HttpClient ==
  [Wrapper("kratos v3 http client") EXCEPT !.skips = TRUE, !.gives = TRUE,
    !.deferred = TRUE]

\* go-micro: a wrapper of the client, which asks at every call.
GomicroCall ==
  [ByEnter("gomicro client, Call") EXCEPT !.gives = TRUE, !.deferred = FALSE]
GomicroStream ==
  [ByEnter("gomicro client, Stream") EXCEPT !.gives = TRUE,
    !.deferred = FALSE]
GomicroServer == [Hook("gomicro server") EXCEPT !.gives = TRUE]

\* aws-sdk-go: handlers of a request for its first attempt and its end; a request
\* that fails before it is sent has no span.
AwsRequest ==
  [Always("aws request") EXCEPT !.skips = TRUE, !.gives = TRUE,
    !.deferred = FALSE]

Rpc ==
  {GrpcClient, GrpcNewClient, GrpcServer, DubboClient, DubboServer,
   KitexClient, KitexServer, TrpcClient, TrpcServer, RpcxCall, RpcxGo,
   RpcxSendRaw, RpcxServer, KratosGrpc, KratosHttp, KratosV3Grpc,
   KratosV3GrpcClient, KratosV3Http, KratosV3HttpClient, GomicroCall,
   GomicroStream, GomicroServer, AwsRequest}
=============================================================================
