-------------------------- MODULE RpcInstrumenters --------------------------
(* Instrumenters of RPC frameworks.                                        *)
EXTENDS Instruments

\* grpc: the code of a call that failed is that of its status, never 200.
GrpcSays == [RpcSays EXCEPT !.code["ok"] = 200]
GrpcClient ==
  [RpcClient("grpc client", GrpcSays) EXCEPT !.status = "grpc",
    !.fills = {"grpc code"}]
GrpcServer ==
  [RpcServer("grpc server", GrpcSays) EXCEPT !.status = "grpc",
    !.fills = {"grpc code"}]

\* The metadata is a copy of that of the context.
GrpcCarrier == [Headers EXCEPT !.copies = TRUE]
Grpc == Both("grpc", GrpcClient, GrpcServer, GrpcCarrier)

\* kitex: the tracers end their spans without the error.
KitexSays == RpcSays
KitexClient ==
  [RpcClient("kitex client", KitexSays) EXCEPT !.status = "default",
    !.told = FALSE]
KitexServer ==
  [RpcServer("kitex server", KitexSays) EXCEPT !.status = "default",
    !.told = FALSE]
KitexCarrier == Headers
Kitex == Both("kitex", KitexClient, KitexServer, KitexCarrier)

\* dubbo.
DubboSays == RpcSays
DubboClient == RpcClient("dubbo client", DubboSays)
DubboServer == RpcServer("dubbo server", DubboSays)
DubboCarrier == Headers
Dubbo == Both("dubbo", DubboClient, DubboServer, DubboCarrier)

\* trpc: the client names the service that calls.  A header that is there is kept,
\* and the metadata of a request that is being served is there for the calls made
\* meanwhile.
TrpcClientSays ==
  [RpcSays EXCEPT !.names = {"the caller"}, !.code["error"] = 1]
TrpcServerSays == [RpcSays EXCEPT !.code["error"] = 1]
TrpcClient ==
  [RpcClient("trpc client", TrpcClientSays) EXCEPT !.status = "trpc"]
TrpcServer ==
  [RpcServer("trpc server", TrpcServerSays) EXCEPT !.status = "trpc"]
TrpcCarrier == [Headers EXCEPT !.put = "if none"]
Trpc == Both("trpc", TrpcClient, TrpcServer, TrpcCarrier)

\* rpcx: the same with the metadata of the context.  Where there is none each
\* header gets a context of its own, and the last one, the baggage if there is
\* any, is sent.
RpcxClientSays == RpcSays
RpcxServerSays == RpcSays
RpcxClient == RpcClient("rpcx client", RpcxClientSays)
RpcxServer == RpcServer("rpcx server", RpcxServerSays)
RpcxCarrier == [Headers EXCEPT !.put = "if none", !.bare = "maybe"]
Rpcx == Both("rpcx", RpcxClient, RpcxServer, RpcxCarrier)

\* kratos: spans inside those of the transport.
KratosGrpcSays == RpcSays
KratosGrpcInternal == Internal("kratos grpc", KratosGrpcSays)
KratosHttpSays == RpcSays
KratosHttpInternal == Internal("kratos http", KratosHttpSays)
KratosV3GrpcSays == RpcSays
KratosV3GrpcInternal == Internal("kratos v3 grpc", KratosV3GrpcSays)
KratosV3HttpSays == RpcSays
KratosV3HttpInternal == Internal("kratos v3 http", KratosV3HttpSays)

RpcLibraries ==
  {One(KratosGrpcInternal), One(KratosHttpInternal),
   One(KratosV3GrpcInternal), One(KratosV3HttpInternal), Grpc, Kitex, Dubbo,
   Trpc, Rpcx}
=============================================================================
