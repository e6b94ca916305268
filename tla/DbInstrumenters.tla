-------------------------- MODULE DbInstrumenters ---------------------------
(* Instrumenters of databases: what their spans and metrics tell of a command. *)
EXTENDS Instruments

ClickhouseSays ==
  DbSays({"address", "statement", "operation", "namespace", "batch"})
Clickhouse == DbClient("clickhouse", ClickhouseSays)
DatabaseSqlSays == DbSays({"address", "statement", "operation", "collection"})
DatabaseSql == DbClient("database/sql", DatabaseSqlSays)
ElasticsearchSays == DbSays({"address", "statement", "operation"})
Elasticsearch == DbClient("elasticsearch", ElasticsearchSays)
GocqlSays ==
  DbSays({"address", "statement", "operation", "namespace", "batch"})
Gocql == DbClient("gocql", GocqlSays)
GopgSays == DbSays({"address", "statement", "operation", "namespace"})
Gopg == DbClient("gopg", GopgSays)
GoRedisSays == DbSays({"address", "statement", "operation"})
GoRedis == DbClient("goredis", GoRedisSays)
GoRedisV8Says == DbSays({"address", "statement", "operation"})
GoRedisV8 == DbClient("goredis v8", GoRedisV8Says)

\* gorm and sqlx are on top of database/sql, which has the metric.
GormSays == DbSays({"address", "operation"})
Gorm == [DbClient("gorm", GormSays) EXCEPT !.metric = "none"]
SqlxSays == DbSays({"address", "statement", "operation", "namespace"})
Sqlx == [DbClient("sqlx", SqlxSays) EXCEPT !.metric = "none"]
MongoSays == DbSays({"address", "statement", "operation"})
Mongo == DbClient("mongo", MongoSays)
Neo4jSays == DbSays({"statement", "operation", "batch"})
Neo4j == DbClient("neo4j", Neo4jSays)
RedigoSays == DbSays({"address", "statement", "operation"})
Redigo == DbClient("redigo", RedigoSays)
RueidisSays == DbSays({"address", "statement", "operation"})
Rueidis == DbClient("rueidis", RueidisSays)

DbLibraries ==
  {One(Clickhouse), One(DatabaseSql), One(Elasticsearch), One(Gocql),
   One(Gopg), One(GoRedis), One(GoRedisV8), One(Gorm), One(Sqlx), One(Mongo),
   One(Neo4j), One(Redigo), One(Rueidis)}
=============================================================================
