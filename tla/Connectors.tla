------------------------------ MODULE Connectors ------------------------------
(***************************************************************************)
(* What the constructors of the connectors make of the configuration they  *)
(* are given, and of the environment.  A configuration maps its keys to    *)
(* where their values come from: "caller", "default", or the name of an    *)
(* environment variable.                                                   *)
(***************************************************************************)
EXTENDS Functions

CONSTANT EnvVars  \* the environment variables the constructors look up

VARIABLE environ  \* those that are set

Consumers == {"ConfluentKafkaConsumer", "BatchJsonConfluentConsumer",
              "RSMQConsumer", "ZMQConsumer"}

Producers == {"ConfluentKafkaProducer", "RSMQProducer", "ZMQProducer"}

Put(config, key, value) ==
    [k \in {key} \union DOMAIN config |-> IF k = key THEN value ELSE config[k]]

\* What is set already stays.
PutIfAbsent(config, key, value) ==
    IF key \in DOMAIN config THEN config ELSE Put(config, key, value)

Default(config, key) == PutIfAbsent(config, key, "default")

FromEnv(config, key, var) ==
    IF var \in environ THEN PutIfAbsent(config, key, var) ELSE config

Without(config, keys) == Restrict(config, DOMAIN config \ keys)

-----------------------------------------------------------------------------
(* _handle_creds of confluent.py *)

\* Mutant of brokers: the environment is looked at first.
brokers_of_env(config, is_consumer) ==
    LET own == IF is_consumer THEN "KAFKA_CONSUMER_BROKERS"
                              ELSE "KAFKA_PRODUCER_BROKERS"
        key == "bootstrap.servers"
        env == FromEnv(FromEnv(Without(config, {key}), key, own), key, "KAFKA_BROKERS")
    IN  IF key \in DOMAIN env THEN env ELSE config

brokers(config, is_consumer) ==
    LET own == IF is_consumer THEN "KAFKA_CONSUMER_BROKERS"
                              ELSE "KAFKA_PRODUCER_BROKERS"
        key == "bootstrap.servers"
    IN  FromEnv(FromEnv(config, key, own), key, "KAFKA_BROKERS")

\* Without a user name, the environment's credentials replace whatever else was
\* configured of them: the code asks for the key "sasl.passsword".
credentials(config) ==
    IF "sasl.username" \notin DOMAIN config
         /\ {"KAFKA_KEY", "KAFKA_SECRET"} \subseteq environ
    THEN Put(Put(Put(Put(config, "sasl.username", "KAFKA_KEY"),
                         "sasl.password", "KAFKA_SECRET"),
                     "security.protocol", "default"),
                 "sasl.mechanism", "default")
    ELSE config

handle_creds(config, is_consumer) == credentials(brokers(config, is_consumer))

-----------------------------------------------------------------------------
(* The constructors: self.config as they leave it *)

KafkaConsumerConfig(config) ==
    LET own == Default(Default(handle_creds(config, TRUE), "auto.offset.reset"),
                       "auto.commit.interval.ms")
    IN  Put(Without(FromEnv(own, "group.id", "KAFKA_CONSUMER_GROUP"),
                    {"poll_interval"}),
            "enable.auto.offset.store", "default")

BatchConsumerConfig(config) ==
    KafkaConsumerConfig(Without(config, {"batch_size", "batch_time_seconds"}))

\* poll_thread_timeout is taken out only after librdkafka has seen it.
KafkaProducerConfig(config) ==
    Default(handle_creds(config, FALSE), "compression.type")

RSMQConsumerConfig(config) ==
    LET own == Default(FromEnv(config, "host", "REDIS_HOST"), "options")
    IN  Default(Default(own, "options.decode_responses"), "vt")

RSMQProducerConfig(config) ==
    Default(FromEnv(config, "host", "REDIS_HOST"), "delay")

ZMQConfig(config) ==
    FromEnv(FromEnv(config, "host", "ZMQ_HOST"), "port", "ZMQ_PORT")

connector(class, config) ==
    CASE class = "ConfluentKafkaConsumer" -> KafkaConsumerConfig(config)
      [] class = "BatchJsonConfluentConsumer" -> BatchConsumerConfig(config)
      [] class = "ConfluentKafkaProducer" -> KafkaProducerConfig(config)
      [] class = "RSMQConsumer" -> RSMQConsumerConfig(config)
      [] class = "RSMQProducer" -> RSMQProducerConfig(config)
      [] class \in {"ZMQConsumer", "ZMQProducer"} -> ZMQConfig(config)

\* The keys a constructor does not do without.
required(class) ==
    CASE class = "ConfluentKafkaProducer" -> {"bootstrap.servers"}
      [] class \in {"RSMQConsumer", "RSMQProducer"} -> {"host"}
      [] class \in {"ZMQConsumer", "ZMQProducer"} -> {"port"}
      [] OTHER -> {"bootstrap.servers", "group.id"}

\* librdkafka refuses a property it does not know.
librdkafka_knows(config) ==
    DOMAIN config \intersect {"stop_on_failure", "poll_thread_timeout"} = {}

Accepts(class, config) ==
    /\ required(class) \subseteq DOMAIN connector(class, config)
    /\ class \notin {"RSMQConsumer", "RSMQProducer", "ZMQConsumer", "ZMQProducer"}
           => librdkafka_knows(connector(class, config))
=============================================================================
