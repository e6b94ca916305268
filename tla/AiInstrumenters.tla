-------------------------- MODULE AiInstrumenters ---------------------------
(* Instrumenters of AI clients and agents, and of the k8s informers.       *)
EXTENDS Instruments

\* adk: agents end without an error.
AdkLlmSays == LlmSays
AdkLlm == AiClient("adk llm", AdkLlmSays)
AdkAgentSays == AgentSays
AdkAgent ==
  [AiClient("adk agent", AdkAgentSays) EXCEPT !.metric = "none",
    !.told = FALSE]

\* eino: the parts of a graph, and its models.
EinoCommonSays == AgentSays
EinoCommon == AiClient("eino common", EinoCommonSays)
EinoLlmSays == LlmSays
EinoLlm == AiClient("eino llm", EinoLlmSays)

\* openai, of two libraries.
OpenaiSays == LlmSays
Openai == AiClient("go-openai", OpenaiSays)
MeguminnSays == LlmSays
Meguminn == [AiClient("meguminnn", MeguminnSays) EXCEPT !.metric = "none"]

\* langchain, ollama.
LangchainCommonSays == AgentSays
LangchainCommon ==
  [AiClient("langchain common", LangchainCommonSays) EXCEPT
    !.metric = "none"]
LangchainLlmSays == LlmSays
LangchainLlm ==
  [AiClient("langchain llm", LangchainLlmSays) EXCEPT !.metric = "none"]
OllamaSays == LlmSays
Ollama == AiClient("ollama", OllamaSays)

\* mcp: two of the servers end their span before they can know of an error.
McpSays == AgentSays
McpClient == [AiClient("mcp client", McpSays) EXCEPT !.metric = "none"]
McpServer ==
  [AiClient("mcp server", McpSays) EXCEPT !.metric = "none", !.told = FALSE]
Mcp20Says == AgentSays
Mcp20Client ==
  [AiClient("mcp 0.20 client", Mcp20Says) EXCEPT !.metric = "none"]
Mcp20Server ==
  [AiClient("mcp 0.20 server", Mcp20Says) EXCEPT !.metric = "none",
    !.told = FALSE]
McpOfficialSays == AgentSays
McpOfficialClient ==
  [AiClient("mcp official client", McpOfficialSays) EXCEPT !.metric = "none"]
McpOfficialServer ==
  [AiClient("mcp official server", McpOfficialSays) EXCEPT !.metric = "none"]
TrpcAgentSays == AgentSays
TrpcAgent == [AiClient("trpc agent", TrpcAgentSays) EXCEPT !.metric = "none"]

\* The handlers of an informer do not fail.
K8sEventSays == InformerSays
K8sEvent == [Internal("k8s event", K8sEventSays) EXCEPT !.outcomes = {"ok"}]
K8sEventsSays == InformerSays
K8sEvents == [Internal("k8s events", K8sEventsSays) EXCEPT !.outcomes = {"ok"}]

AiLibraries ==
  {One(AdkLlm), One(AdkAgent), One(EinoCommon), One(EinoLlm), One(Openai),
   One(Meguminn), One(LangchainCommon), One(LangchainLlm), One(Ollama),
   One(McpClient), One(McpServer), One(Mcp20Client), One(Mcp20Server),
   One(McpOfficialClient), One(McpOfficialServer), One(TrpcAgent),
   One(K8sEvent), One(K8sEvents)}
=============================================================================
