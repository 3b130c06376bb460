--------------------------- MODULE MCConfiguration ---------------------------
(***************************************************************************)
(* Two Engines over three queues of one dictionary: the input of one is an *)
(* output of the other.  Either the profiles and overrides vary, with      *)
(* connectors that need nothing else, or the connectors, what is           *)
(* configured of them and the environment do.                              *)
(***************************************************************************)
EXTENDS Startup, TLC

CONSTANTS q1, q2, d, e1, e2

Inputs == (e1 :> q1) @@ (e2 :> q2)

DeadLetters == (e1 :> d) @@ (e2 :> NoDLQ)

FirstOutputs == {<<q2>>, <<q2, d>>, <<q1>>}

Set(consumer, producer, model_handler, data_model) ==
    [f \in Fields |-> CASE f = "consumer" -> consumer
                        [] f = "producer" -> producer
                        [] f = "model_handler" -> model_handler
                        [] f = "data_model" -> data_model]

Unset == Set("absent", "absent", "absent", "absent")

\* "confluent" and "confluent-dlq" of global.yml, where None is a string.
Shipped == [ confluent     |-> Set("path", "path", "path", "path"),
             confluent_dlq |-> Set("path", "path", "disabled", "disabled") ]

Config(profile, set) == [profile |-> profile, set |-> set, value |-> TRUE]

QueueConfigs ==
    { Config("confluent", Unset),
      Config("confluent_dlq", Unset),
      Config("confluent_dlq", Set("absent", "absent", "absent", "path")),
      Config("confluent", Set("absent", "null", "absent", "absent")),
      Config("confluent", Set("absent", "absent", "absent", "null")),
      Config("absent", Set("path", "absent", "path", "path")),
      Config("absent", Set("absent", "path", "path", "absent")),
      Config("absent", Set("absent", "path", "absent", "absent")),
      Config("unknown", Set("path", "path", "path", "path")),
      [Config("confluent", Unset) EXCEPT !.value = FALSE] }

Wiring(consumer, producer, config) ==
    [consumer |-> consumer, producer |-> producer, config |-> config, none |-> FALSE]

Kafka(config) == Wiring("ConfluentKafkaConsumer", "ConfluentKafkaProducer", config)

Plain == Kafka({"bootstrap.servers", "group.id"})

QueueWirings ==
    { Plain,
      Kafka({}),
      Kafka({"group.id", "sasl.password", "poll_interval"}),
      Kafka({"bootstrap.servers", "group.id", "stop_on_failure"}),
      Kafka({"sasl.username", "sasl.password", "enable.auto.offset.store"}),
      Wiring("BatchJsonConfluentConsumer", "ConfluentKafkaProducer", {"batch_size"}),
      Wiring("RSMQConsumer", "RSMQProducer", {"options"}),
      Wiring("RSMQConsumer", "RSMQProducer", {"host", "options", "options.decode_responses"}),
      Wiring("ZMQConsumer", "ZMQProducer", {"port"}),
      [Plain EXCEPT !.config = {}, !.none = TRUE] }

Variables == {"KAFKA_BROKERS", "KAFKA_CONSUMER_BROKERS", "KAFKA_PRODUCER_BROKERS",
              "KAFKA_CONSUMER_GROUP", "KAFKA_KEY", "KAFKA_SECRET", "REDIS_HOST",
              "ZMQ_HOST", "ZMQ_PORT"}

Environments ==
    { {},
      {"KAFKA_BROKERS", "KAFKA_CONSUMER_GROUP", "KAFKA_KEY", "KAFKA_SECRET"},
      Variables \ {"KAFKA_KEY"} }

MCInit ==
    /\ \/ /\ environ = {}
          /\ wiring = [q \in QueueNames |-> Plain]
       \/ /\ environ \in Environments
          /\ wiring \in {w \in [QueueNames -> QueueWirings] : w[d] = Plain}
          /\ cfg = [q \in QueueNames |-> Config("confluent", Unset)]
    /\ StartupInit

MCSpec == MCInit /\ [][StartupNext]_<<vars, startupVars>>
=============================================================================
