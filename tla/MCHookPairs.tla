---------------------------- MODULE MCHookPairs ----------------------------
(* All hooks of the repository: in each run one call has any of them, the  *)
(* others have one of a few.  The exceptions are those that TLC asks for.  *)
EXTENDS HookPairs, WebHooks, RpcHooks, DbHooks, MessagingHooks, AiHooks

MCHooks == Web \union Rpc \union Db \union Messaging \union Ai
MCCommon == {SqlBeginTx, GomicroCall, HttpServer}

Names(hooks) == {h.name : h \in hooks}

Sqlx ==
  {SqlxQueryx, SqlxQueryRowx, SqlxNamedExec, SqlxQueryxContext, SqlxQueryRowxContext}
Mcp == {McpClient, McpServer, Mcp20Client, Mcp20Server}
Langchain ==
  {DoAction, SingleEmbed, BatchedEmbed, GenerateFromPrompt, LangchainOpenai,
   LangchainOllama, RelevantDocuments}
Ollama ==
  {OllamaEmbed, OllamaEmbeddings, OllamaPull, OllamaList, OllamaShow,
   OllamaDelete, OllamaCopy}

MCEndsOthers == Names(Sqlx \union {GrpcClient, GrpcNewClient, KitexServer, RocketAsync})
MCLosesErrors == Names({KitexClient, KitexServer})
MCUnasked == Names(Mcp \union Langchain \union Ollama \union
  {AwsRequest, GrpcNewClient, AmqpConsume, AmqpPublish, StreadwayPublish,
   StreadwayConsume, AsynqEnqueue, AsynqProcess, Asynq26Enqueue, Asynq26Process,
   CronRun, CronJob, AntsV1, AntsV2})
\* A wrapper without a defer leaves the span to a panic.
Wrappers ==
  {AwsRequest, HertzClient, GomicroCall, GomicroStream, GormCallback, RedisProcess,
   RedisPipeline, RedisV8Process, RedisV8Pipeline, MongoCommand, GopgQuery,
   RocketAsync, FranzProduce, FranzFetch, K8sOnAdd, McpServer, Mcp20Server,
   McpOfficialClient, McpOfficialServer, EinoPrompt, EinoEmbedding, EinoIndexer,
   EinoRetriever, EinoLoader, EinoTransform}
MCLeavesOpen ==
  (Names(Wrappers \union {SqlBeginTx, DubboClient, DubboServer}) \X {"panic"})
    \union (Names({SqlBeginTx, RocketAsync}) \X {"error"})
    \union (Names(Sqlx) \X Outcomes) \union {<<KitexServer.name, "ok">>}
=============================================================================
