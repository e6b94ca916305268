---------------------------- MODULE MCOperations ----------------------------
(* Operations with the libraries of the five tables.                       *)
EXTENDS Operations, WebInstrumenters, RpcInstrumenters, DbInstrumenters,
        MessagingInstrumenters, AiInstrumenters

AllLibraries == WebLibraries \union RpcLibraries \union DbLibraries
                  \union MessagingLibraries \union AiLibraries
=============================================================================
