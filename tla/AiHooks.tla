------------------------------ MODULE AiHooks -------------------------------
(* Clients and frameworks of generative models, where the answer is not streamed. *)
EXTENDS HookShape

OllamaHook(name) == [Always(name) EXCEPT !.gives = TRUE]

\* adk-go: a run and a stream are iterators, which the hook ends at once.
AdkRun == [ByEnter("adk runner") EXCEPT !.gives = TRUE, !.fails = FALSE]
AdkRunV1 == [ByEnter("adk runner v1") EXCEPT !.gives = TRUE, !.fails = FALSE]
AdkGenerate == [ByEnter("adk gemini") EXCEPT !.gives = TRUE]
AdkGenerateStream ==
  [ByEnter("adk gemini stream") EXCEPT !.gives = TRUE, !.fails = FALSE]

\* trpc-agent-go.
TrpcAgentRun == [ByEnter("trpc agent") EXCEPT !.gives = TRUE]

\* mcp-go, in two versions: the request of the server carries the span to the
\* hooks of its success and its error.
McpClient == [Always("mcp client") EXCEPT !.skips = TRUE]
McpServer == [Always("mcp server") EXCEPT !.skips = TRUE, !.deferred = FALSE]
Mcp20Client == [Always("mcp 0.20 client") EXCEPT !.skips = TRUE]
Mcp20Server ==
  [Always("mcp 0.20 server") EXCEPT !.skips = TRUE, !.deferred = FALSE]

\* mcp, the official one: middleware.
McpOfficialClient == [Wrapper("mcp official client") EXCEPT !.gives = TRUE]
McpOfficialServer == [Wrapper("mcp official server") EXCEPT !.gives = TRUE]

\* langchain: two of the pairs ask.
DoAction == Always("langchain agent")
SingleEmbed == Always("langchain embed")
BatchedEmbed == Always("langchain batched embed")
GenerateFromPrompt == Always("langchain prompt")
LangchainOpenai == Always("langchain openai")
LangchainOllama == Always("langchain ollama")
RelevantDocuments == Always("langchain documents")
CallChain == Hook("langchain chain")
ExecutorCall == Hook("langchain executor")

\* ollama: nothing asks.
OllamaEmbed == OllamaHook("ollama embed")
OllamaEmbeddings == OllamaHook("ollama embeddings")
OllamaPull == OllamaHook("ollama pull")
OllamaList == OllamaHook("ollama list")
OllamaShow == OllamaHook("ollama show")
OllamaDelete == OllamaHook("ollama delete")
OllamaCopy == OllamaHook("ollama copy")

\* google-genai.
GenaiContent == [ByEnter("genai, GenerateContent") EXCEPT !.gives = TRUE]
GenaiEmbed == [ByEnter("genai, EmbedContent") EXCEPT !.gives = TRUE]
GenaiImages == [ByEnter("genai, GenerateImages") EXCEPT !.gives = TRUE]
GenaiVideos == [ByEnter("genai, GenerateVideos") EXCEPT !.gives = TRUE]
GenaiUpscale == [ByEnter("genai, UpscaleImage") EXCEPT !.gives = TRUE]

\* deepseek: a chat and a completion in the middle.
DeepseekChat == [Hook("deepseek chat") EXCEPT !.skips = TRUE, !.gives = TRUE]
DeepseekFim == [Hook("deepseek fim") EXCEPT !.skips = TRUE, !.gives = TRUE]

\* openai, of two libraries.
OpenaiChat == [ByEnter("go-openai chat") EXCEPT !.gives = TRUE]
MeguminChat == [ByEnter("meguminnn chat") EXCEPT !.gives = TRUE]
MeguminCompletion == [ByEnter("meguminnn completion") EXCEPT !.gives = TRUE]
MeguminEmbedding == [ByEnter("meguminnn embedding") EXCEPT !.gives = TRUE]

\* eino: callbacks of the components of a graph.
EinoPrompt == [Wrapper("eino prompt") EXCEPT !.gives = TRUE]
EinoEmbedding == [Wrapper("eino embedding") EXCEPT !.gives = TRUE]
EinoIndexer == [Wrapper("eino indexer") EXCEPT !.gives = TRUE]
EinoRetriever == [Wrapper("eino retriever") EXCEPT !.gives = TRUE]
EinoLoader == [Wrapper("eino loader") EXCEPT !.gives = TRUE]
EinoTransform == [Wrapper("eino transformer") EXCEPT !.gives = TRUE]

Ai ==
  {AdkRun, AdkRunV1, AdkGenerate, AdkGenerateStream, TrpcAgentRun, McpClient,
   McpServer, Mcp20Client, Mcp20Server, McpOfficialClient, McpOfficialServer,
   DoAction, SingleEmbed, BatchedEmbed, GenerateFromPrompt, LangchainOpenai,
   LangchainOllama, RelevantDocuments, CallChain, ExecutorCall, OllamaEmbed,
   OllamaEmbeddings, OllamaPull, OllamaList, OllamaShow, OllamaDelete,
   OllamaCopy, GenaiContent, GenaiEmbed, GenaiImages, GenaiVideos,
   GenaiUpscale, DeepseekChat, DeepseekFim, OpenaiChat, MeguminChat,
   MeguminCompletion, MeguminEmbedding, EinoPrompt, EinoEmbedding,
   EinoIndexer, EinoRetriever, EinoLoader, EinoTransform}
=============================================================================
