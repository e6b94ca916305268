--------------------------- MODULE MessagingHooks ---------------------------
(* Message queues, schedulers and pools.                                   *)
EXTENDS HookShape

\* kafka-go: the span of a read is made when there is a message.
KafkaRead == [Hook("segmentio reader") EXCEPT !.when = "exit"]
KafkaWrite == Hook("segmentio writer")

\* rocketmq: SendAsync hands over the end of the span to the callback, which
\* ends the span of the context that the caller gave when there is an error.
RocketConsume == Hook("rocketmq consumer")
RocketSync == Hook("rocketmq, SendSync")
RocketAsync ==
  [ByEnter("rocketmq, SendAsync") EXCEPT !.late = TRUE, !.deferred = FALSE,
    !.ends["error"] = "caller"]
RocketOneWay == Hook("rocketmq, SendOneWay")

\* amqp, of two libraries.
AmqpConsume ==
  [Always("amqp091 consumer") EXCEPT !.under = "newest", !.fails = FALSE]
AmqpPublish == [Always("amqp091 publisher") EXCEPT !.under = "newest"]
StreadwayPublish ==
  [Always("streadway publisher") EXCEPT !.skips = TRUE, !.under = "newest"]
StreadwayConsume ==
  [Always("streadway consumer") EXCEPT !.when = "over", !.under = "newest",
    !.fails = FALSE]

\* mqtt broker.
MqttPublish == [Hook("mqtt publish") EXCEPT !.under = "newest"]
MqttDeliver == [Hook("mqtt deliver") EXCEPT !.under = "newest"]

\* asynq: the span in a map, ended in a defer.
AsynqEnqueue == [Always("asynq enqueue") EXCEPT !.skips = TRUE, !.gives = TRUE]
AsynqProcess == [Always("asynq process") EXCEPT !.skips = TRUE, !.gives = TRUE]
Asynq26Enqueue ==
  [Always("asynq 0.26 enqueue") EXCEPT !.skips = TRUE, !.gives = TRUE]
Asynq26Process ==
  [Always("asynq 0.26 process") EXCEPT !.skips = TRUE, !.gives = TRUE]

\* franz-go: a record is buffered in one goroutine and leaves the buffer in
\* another.
FranzProduce == [Wrapper("franz-go producer") EXCEPT !.late = TRUE]
FranzFetch ==
  [Wrapper("franz-go consumer") EXCEPT !.late = TRUE, !.fails = FALSE]

\* cron: the scheduler and a job.
CronRun ==
  [Always("cron") EXCEPT !.skips = TRUE, !.under = "newest", !.fails = FALSE]
CronJob ==
  [Always("cron job") EXCEPT !.skips = TRUE, !.under = "newest",
    !.fails = FALSE]

\* ants: the task is wrapped, a defer ends its span.
AntsV1 ==
  [Always("ants v1 task") EXCEPT !.skips = TRUE, !.under = "newest",
    !.fails = FALSE]
AntsV2 ==
  [Always("ants v2 task") EXCEPT !.skips = TRUE, !.under = "newest",
    !.fails = FALSE]

\* client-go: the deltas of an informer and, in a handler that is wrapped, each
\* event.
ProcessDeltas == [Hook("k8s, ProcessDeltas") EXCEPT !.under = "newest"]
K8sOnAdd == [Wrapper("k8s, OnAdd") EXCEPT !.fails = FALSE]
K8sOnUpdate ==
  [Wrapper("k8s, OnUpdate") EXCEPT !.when = "over", !.fails = FALSE]
K8sOnDelete ==
  [Wrapper("k8s, OnDelete") EXCEPT !.when = "over", !.fails = FALSE]

\* sentinel: a slot of statistics.
SentinelCompleted ==
  [Wrapper("sentinel, completed") EXCEPT !.when = "exit", !.under = "newest",
    !.fails = FALSE]
SentinelBlocked ==
  [Wrapper("sentinel, blocked") EXCEPT !.when = "exit", !.under = "newest",
    !.fails = FALSE]

Messaging ==
  {KafkaRead, KafkaWrite, RocketConsume, RocketSync, RocketAsync,
   RocketOneWay, AmqpConsume, AmqpPublish, StreadwayPublish,
   StreadwayConsume, MqttPublish, MqttDeliver, AsynqEnqueue, AsynqProcess,
   Asynq26Enqueue, Asynq26Process, FranzProduce, FranzFetch, CronRun,
   CronJob, AntsV1, AntsV2, ProcessDeltas, K8sOnAdd, K8sOnUpdate,
   K8sOnDelete, SentinelCompleted, SentinelBlocked}
=============================================================================
