----------------------- MODULE MessagingInstrumenters -----------------------
(* Instrumenters of message brokers.                                       *)
EXTENDS Instruments

\* segmentio/kafka-go: the topic is that of the writer, which has none when the
\* messages have theirs.  Headers are appended, to copies of the messages, and the
\* first is read.
SegmentioProducerSays == [MessageSays EXCEPT !.names = {"its", "none"}]
SegmentioConsumerSays == MessageSays
SegmentioCarrier ==
  [Headers EXCEPT !.put = "append", !.take = "first", !.copies = TRUE]
SegmentioProducer == Producer("segmentio producer", SegmentioProducerSays)
SegmentioConsumer ==
  [Consumer("segmentio consumer", SegmentioConsumerSays) EXCEPT
    !.status = "default"]
Segmentio ==
  Both("segmentio", SegmentioProducer, SegmentioConsumer, SegmentioCarrier)

\* mqtt: appended too, and the last one is read.
MqttCarrier == [Headers EXCEPT !.put = "append", !.take = "last"]
MqttPublishSays == MessageSays
MqttDeliverSays == MessageSays
MqttPublish == Producer("mqtt publish", MqttPublishSays)
MqttDeliver == Consumer("mqtt deliver", MqttDeliverSays)
Mqtt == Both("mqtt", MqttPublish, MqttDeliver, MqttCarrier)

\* sarama: no headers before version 0.11.  What is consumed is not known to fail.
IbmSaramaCarrier == [Headers EXCEPT !.bare = "nothing"]
IbmSaramaProducerSays == MessageSays
IbmSaramaConsumerSays == MessageSays
IbmSaramaProducer == Producer("ibm sarama producer", IbmSaramaProducerSays)
IbmSaramaConsumer ==
  [Consumer("ibm sarama consumer", IbmSaramaConsumerSays) EXCEPT
    !.told = FALSE]
IbmSarama ==
  Both("ibm sarama", IbmSaramaProducer, IbmSaramaConsumer, IbmSaramaCarrier)
ShopifySaramaCarrier == [Headers EXCEPT !.bare = "nothing"]
ShopifySaramaProducerSays == MessageSays
ShopifySaramaConsumerSays == MessageSays
ShopifySaramaProducer ==
  Producer("shopify sarama producer", ShopifySaramaProducerSays)
ShopifySaramaConsumer ==
  [Consumer("shopify sarama consumer", ShopifySaramaConsumerSays) EXCEPT
    !.told = FALSE]
ShopifySarama ==
  Both("shopify sarama", ShopifySaramaProducer, ShopifySaramaConsumer,
    ShopifySaramaCarrier)

\* franz-go.
FranzProducerSays == MessageSays
FranzConsumerSays == MessageSays
FranzProducer == Producer("franz producer", FranzProducerSays)
FranzConsumer ==
  [Consumer("franz consumer", FranzConsumerSays) EXCEPT !.told = FALSE]
FranzCarrier == Headers
Franz == Both("franz", FranzProducer, FranzConsumer, FranzCarrier)

\* rocketmq: a batch has a span of its own, and its messages are not known to fail.
RocketCarrier == Headers
RocketProducerSays == MessageSays
RocketConsumerSays == MessageSays
RocketProducer == Producer("rocketmq producer", RocketProducerSays)
RocketConsumer == Consumer("rocketmq consumer", RocketConsumerSays)
RocketReceive == Internal("rocketmq receive", MessageSays)
RocketBatch ==
  [Internal("rocketmq batch", RocketConsumerSays) EXCEPT !.told = FALSE]
Rocket == Both("rocketmq", RocketProducer, RocketConsumer, RocketCarrier)

\* amqp: a message without headers is left so.
RabbitSays == MessageSays
RabbitCarrier == [Headers EXCEPT !.bare = "nothing"]
RabbitPublish ==
  [Producer("amqp091 publish", RabbitSays) EXCEPT !.status = "default"]
RabbitConsume ==
  [Consumer("amqp091 consume", RabbitSays) EXCEPT !.status = "default",
    !.told = FALSE]
Rabbit == Both("amqp091", RabbitPublish, RabbitConsume, RabbitCarrier)

\* asynq: the queue that the options of the task name is not looked for.
AsynqEnqueueSays == [MessageSays EXCEPT !.names = {"its", "default"}]
AsynqCarrier == Headers
AsynqEnqueue == Producer("asynq enqueue", AsynqEnqueueSays)
AsynqProcess == Consumer("asynq process", MessageSays)
Asynq == Both("asynq", AsynqEnqueue, AsynqProcess, AsynqCarrier)

MessagingLibraries ==
  {One(RocketReceive), One(RocketBatch), Segmentio, Mqtt, IbmSarama,
   ShopifySarama, Franz, Rocket, Rabbit, Asynq}
=============================================================================
