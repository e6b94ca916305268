------------------------------ MODULE DbHooks -------------------------------
(* Clients of databases and caches.                                        *)
EXTENDS HookShape

\* The second half has the context of the first nowhere.
SqlxHook(name) ==
  [Hook(name) EXCEPT !.under = "newest", !.ends = [how \in Outcomes |-> "newest"]]
ClickhouseHook(name) == [Wrapper(name) EXCEPT !.when = "exit", !.under = "newest"]
RueidisHook(name) == [Hook(name) EXCEPT !.skips = TRUE, !.gives = TRUE]

\* database/sql: a call is left alone when the driver is not known.
SqlPing == [Hook("sql, DB.Ping") EXCEPT !.skips = TRUE]
SqlExec == [Hook("sql, DB.Exec") EXCEPT !.skips = TRUE]
SqlQuery == [Hook("sql, DB.Query") EXCEPT !.skips = TRUE]

\* The second half returns when there is no transaction.
SqlBeginTx ==
  [Hook("sql, DB.BeginTx") EXCEPT !.skips = TRUE,
    !.ends["error"] = "nothing", !.ends["panic"] = "nothing"]
SqlConnPing == [Hook("sql, Conn.Ping") EXCEPT !.skips = TRUE]
SqlConnExec == [Hook("sql, Conn.Exec") EXCEPT !.skips = TRUE]
SqlConnQuery == [Hook("sql, Conn.Query") EXCEPT !.skips = TRUE]
SqlConnBeginTx == [Hook("sql, Conn.BeginTx") EXCEPT !.skips = TRUE]
SqlTxExec == [Hook("sql, Tx.Exec") EXCEPT !.skips = TRUE]
SqlTxQuery == [Hook("sql, Tx.Query") EXCEPT !.skips = TRUE]

\* Commit and Rollback have no context.
SqlTxCommit ==
  [Hook("sql, Tx.Commit") EXCEPT !.skips = TRUE, !.under = "newest"]
SqlTxRollback ==
  [Hook("sql, Tx.Rollback") EXCEPT !.skips = TRUE, !.under = "newest"]
SqlStmtExec == [Hook("sql, Stmt.Exec") EXCEPT !.skips = TRUE]
SqlStmtQuery == [Hook("sql, Stmt.Query") EXCEPT !.skips = TRUE]

\* sqlx: the second half has stored no context and ends what is newest; after a
\* panic there is no row to ask for its error.
SqlxQueryx == SqlxHook("sqlx, Queryx")
SqlxQueryRowx == [SqlxHook("sqlx, QueryRowx") EXCEPT !.ends["panic"] = "nothing"]
SqlxNamedExec == SqlxHook("sqlx, NamedExec")
SqlxQueryxContext == SqlxHook("sqlx, QueryxContext")
SqlxQueryRowxContext ==
  [SqlxHook("sqlx, QueryRowxContext") EXCEPT !.ends["panic"] = "nothing"]

\* gorm: callbacks before and after the statement.
GormCallback == [Wrapper("gorm") EXCEPT !.under = "newest"]

\* go-redis: hooks of the client, in version 8 two methods.
RedisProcess ==
  [Wrapper("goredis, Process") EXCEPT !.skips = TRUE, !.gives = TRUE]
RedisPipeline == [Wrapper("goredis, Pipeline") EXCEPT !.gives = TRUE]
RedisV8Process == Wrapper("goredis v8, Process")
RedisV8Pipeline == Wrapper("goredis v8, Pipeline")

\* mongo: a monitor of commands, started and succeeded or failed.
MongoCommand == [Wrapper("mongo") EXCEPT !.skips = TRUE]

\* elasticsearch.
ElasticPerform == Hook("elasticsearch")

\* go-pg: a query hook.
GopgQuery == [Wrapper("gopg") EXCEPT !.gives = TRUE]

\* gocql: observers, told of what is over.
GocqlQuery == [Wrapper("gocql, query") EXCEPT !.when = "exit"]
GocqlBatch == [Wrapper("gocql, batch") EXCEPT !.when = "exit"]

\* neo4j.
Neo4jSessionRun == Hook("neo4j, session")
Neo4jTxRun == Hook("neo4j, transaction")

\* clickhouse: a wrapped connection, whose methods make the span afterwards.
ClickhouseServerVersion == ClickhouseHook("clickhouse, ServerVersion")
ClickhouseSelect == ClickhouseHook("clickhouse, Select")
ClickhouseQuery == ClickhouseHook("clickhouse, Query")
ClickhouseQueryRow == ClickhouseHook("clickhouse, QueryRow")
ClickhousePrepareBatch == ClickhouseHook("clickhouse, PrepareBatch")
ClickhouseExec == ClickhouseHook("clickhouse, Exec")
ClickhouseAsyncInsert == ClickhouseHook("clickhouse, AsyncInsert")
ClickhousePing == ClickhouseHook("clickhouse, Ping")

\* rueidis: the seven calls of each of the four clients.
RueidisClusterDo == RueidisHook("rueidis cluster, Do")
RueidisClusterDoMulti == RueidisHook("rueidis cluster, DoMulti")
RueidisClusterReceive == RueidisHook("rueidis cluster, Receive")
RueidisClusterDoCache == RueidisHook("rueidis cluster, DoCache")
RueidisClusterDoMultiCache == RueidisHook("rueidis cluster, DoMultiCache")
RueidisClusterDoStream == RueidisHook("rueidis cluster, DoStream")
RueidisClusterDoMultiStream == RueidisHook("rueidis cluster, DoMultiStream")
RueidisSingleDo == RueidisHook("rueidis single, Do")
RueidisSingleDoMulti == RueidisHook("rueidis single, DoMulti")
RueidisSingleReceive == RueidisHook("rueidis single, Receive")
RueidisSingleDoCache == RueidisHook("rueidis single, DoCache")
RueidisSingleDoMultiCache == RueidisHook("rueidis single, DoMultiCache")
RueidisSingleDoStream == RueidisHook("rueidis single, DoStream")
RueidisSingleDoMultiStream == RueidisHook("rueidis single, DoMultiStream")
RueidisSentinelDo == RueidisHook("rueidis sentinel, Do")
RueidisSentinelDoMulti == RueidisHook("rueidis sentinel, DoMulti")
RueidisSentinelReceive == RueidisHook("rueidis sentinel, Receive")
RueidisSentinelDoCache == RueidisHook("rueidis sentinel, DoCache")
RueidisSentinelDoMultiCache == RueidisHook("rueidis sentinel, DoMultiCache")
RueidisSentinelDoStream == RueidisHook("rueidis sentinel, DoStream")
RueidisSentinelDoMultiStream == RueidisHook("rueidis sentinel, DoMultiStream")
RueidisStandaloneDo == RueidisHook("rueidis standalone, Do")
RueidisStandaloneDoMulti == RueidisHook("rueidis standalone, DoMulti")
RueidisStandaloneReceive == RueidisHook("rueidis standalone, Receive")
RueidisStandaloneDoCache == RueidisHook("rueidis standalone, DoCache")
RueidisStandaloneDoMultiCache == RueidisHook("rueidis standalone, DoMultiCache")
RueidisStandaloneDoStream == RueidisHook("rueidis standalone, DoStream")
RueidisStandaloneDoMultiStream == RueidisHook("rueidis standalone, DoMultiStream")

Db ==
  {SqlPing, SqlExec, SqlQuery, SqlBeginTx, SqlConnPing, SqlConnExec,
   SqlConnQuery, SqlConnBeginTx, SqlTxExec, SqlTxQuery, SqlTxCommit,
   SqlTxRollback, SqlStmtExec, SqlStmtQuery, SqlxQueryx, SqlxQueryRowx,
   SqlxNamedExec, SqlxQueryxContext, SqlxQueryRowxContext, GormCallback,
   RedisProcess, RedisPipeline, RedisV8Process, RedisV8Pipeline,
   MongoCommand, ElasticPerform, GopgQuery, GocqlQuery, GocqlBatch,
   Neo4jSessionRun, Neo4jTxRun, ClickhouseServerVersion, ClickhouseSelect,
   ClickhouseQuery, ClickhouseQueryRow, ClickhousePrepareBatch,
   ClickhouseExec, ClickhouseAsyncInsert, ClickhousePing, RueidisClusterDo,
   RueidisClusterDoMulti, RueidisClusterReceive, RueidisClusterDoCache,
   RueidisClusterDoMultiCache, RueidisClusterDoStream,
   RueidisClusterDoMultiStream, RueidisSingleDo, RueidisSingleDoMulti,
   RueidisSingleReceive, RueidisSingleDoCache, RueidisSingleDoMultiCache,
   RueidisSingleDoStream, RueidisSingleDoMultiStream, RueidisSentinelDo,
   RueidisSentinelDoMulti, RueidisSentinelReceive, RueidisSentinelDoCache,
   RueidisSentinelDoMultiCache, RueidisSentinelDoStream,
   RueidisSentinelDoMultiStream, RueidisStandaloneDo,
   RueidisStandaloneDoMulti, RueidisStandaloneReceive,
   RueidisStandaloneDoCache, RueidisStandaloneDoMultiCache,
   RueidisStandaloneDoStream, RueidisStandaloneDoMultiStream}
=============================================================================
