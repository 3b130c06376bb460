# A formal model of Volley

Volley (`volley/`) runs a *worker*: a process that reads messages from an input
queue, calls a user's function on each, produces what the function returns to
output queues, and then marks the message as done or failed on the input queue.
The library's promise is that no message is forgotten: a message leaves its input
queue only when nothing is left to be done for it. This directory holds TLA+
modules that model the worker and its connectors, TLC configurations that check
them on small instances, and TLAPS proofs that hold for every instance.

    tlc -config kafka_sync.cfg MCKafkaWorker     # a run
    tlapm KafkaWorkerProofs.tla                  # its proofs

`PROJECT.json` is the index: components, runs, the mutant that each property
catches, the source lines each definition models, findings, hazards, theorems.

## The system

| Component | Source | State | Operations | What makes it hard |
| --- | --- | --- | --- | --- |
| Engine | `engine.py` | place in the loop, the message in hand, its delivery reports, `kill_now` | one loop iteration; shutdown | signals at any moment, exceptions of connectors |
| Transport | `transport.py` | none | `produce_handler`, `delivery_success` | outputs that fail one by one; two kinds of report |
| Kafka consumer | `connectors/confluent.py` | position, `last_offset`, stored and committed offsets, open or closed | `consume`, `on_success`, `on_fail`, `shutdown` | called by several threads without a lock; commits in the background; partitions that come and go |
| Batch Kafka consumer | `connectors/confluent.py` | the same | `consume` of several messages as one JSON array, `on_success` of a list | one verdict for messages of several partitions; `on_fail` is inherited and raises on a list |
| Kafka producer | `connectors/confluent.py` | librdkafka's queue, delivery reports, a poll thread | `produce`, `acked`, `shutdown` | callbacks in two threads, reports out of order |
| RSMQ consumer | `connectors/rsmq.py` | Redis' queue and visibility timeouts | `consume`, `on_success`, `on_fail` | timeouts, other workers, retries after a lost answer |
| RSMQ producer | `connectors/rsmq.py` | none | `send_message` | retries after a lost answer |
| ZMQ connectors | `connectors/zmq.py` | one global socket | `recv`, `send` | must alternate; blocks |
| Configuration | `config.py`, `profiles.py`, `queues.py`, `Engine.__post_init__` | the queue map | built once | order of validators, aliasing of dictionaries and lists |
| Connectors' constructors | `connectors/*.py`, `queues.py` | the `config` each is passed | fill in defaults and the environment, connect | shallow copies of shared objects; may raise half way |
| Models, serializers | `models/`, `serializers/` | none | deserialize and construct, dump and serialize | may raise, or write what the next reader does not expect |
| Worker functions | `concurrency.py`, `util.py` | none | call the user's function | may raise |
| Metrics, logging | `metrics.py`, `logging.py` | counters | output only | - |

The main thread runs `run_component`. It polls the consumer, calls the worker
function (and waits for it), calls `produce` of each output's producer, and folds
the reports into a verdict: call `on_success`, call `on_fail`, or leave the
message to a callback. A producer with `callback_delivery` (Kafka) has been given
the consumer's `on_success` and `on_fail`; its daemon thread polls librdkafka,
whose reports call them. A signal sets `kill_now`; the loop then ends and
`shutdown` flushes each producer (running callbacks in the main thread), joins its
poll thread, and closes the consumer, which commits. `on_fail` of the Kafka
consumer closes the consumer and sends SIGINT to its own process.

What should be true of each component:

- Engine: every message in hand ends in exactly one of the three verdicts; a
  process that is told to stop ends, after its producers and consumer.
- Transport: a verdict of success means that no output failed.
- Kafka consumer: what is stored is a high-water mark of what was acknowledged, and
  nothing is skipped when partitions come and go.
- Batch Kafka consumer: a batch is acknowledged or not as a whole.
- Kafka producer: every report has had its callback when the shutdown returns.
- RSMQ consumer: only a completed message is deleted, and a failed one comes back.
- ZMQ connectors: a request is answered, or the process ends.
- Configuration: what was accepted when the Engine was built can be connected, and
  each connector works with what the program configured.
- Models and serializers: what one worker function returns is what the next one is
  given; a dead letter is what was read.
- All together: at-least-once delivery.

## The modules

| Module | Models | Uses |
| --- | --- | --- |
| `Topology` | messages, queues and threads that the others share | - |
| `Transport` | `delivery_success` | - |
| `Engine` | the loop and the shutdown of `engine.py`, a turn of `produce_handler` | `Topology`, `Transport` |
| `ConfluentConsumer` | `ConfluentKafkaConsumer` over librdkafka | `Topology` |
| `ConfluentProducer` | `ConfluentKafkaProducer` over librdkafka | `Topology` |
| `OffsetStore` | the consumer alone, called in every legal way, and rebalances of its group | `ConfluentConsumer` |
| `KafkaWorker` | a process that reads Kafka, with its threads, brokers, crashes | `Engine`, `ConfluentConsumer`, `ConfluentProducer` |
| `BatchConsumer` | `BatchJsonConfluentConsumer`, over the steps it inherits | `ConfluentConsumer` |
| `BatchWorker` | a process that reads Kafka in batches | `KafkaWorker`, `BatchConsumer` |
| `RSMQConsumer` | `RSMQConsumer` over Redis | `Topology` |
| `RSMQWorker` | a process that reads RSMQ, among others that do | `Engine`, `RSMQConsumer`, `ConfluentProducer` |
| `ZMQWorker` | a process that answers requests over the shared REP socket, and its clients | `Engine` |
| `Configuration` | `Engine.__post_init__`, profiles, the queue map, connecting | - |
| `Connectors` | what each constructor makes of its configuration and the environment | - |
| `Startup` | `Queue.connect`, queue by queue; implements `Configuration` | `Configuration`, `Connectors` |
| `Handlers` | serializers, model handlers, `models/base.py` | - |
| `Pipeline` | a message's values on its way through two Engines | `Handlers` |
| `Delivery` | the abstract promise that the Kafka and RSMQ workers implement | - |
| `MCKafkaWorker`, `MCBatchWorker`, `MCRSMQWorker`, `MCZMQWorker`, `MCConfiguration`, `MCPipeline` | values for the constants | the modules above |
| `OffsetStoreProofs`, `KafkaWorkerProofs`, `RSMQWorkerProofs`, `ZMQWorkerProofs`, `StartupProofs`, `PipelineProofs` | the theorems, see below | the modules they are named after |
| `EngineProofs`, `ConfluentConsumerProofs` | what each component's steps preserve, for the workers' proofs | `Engine`, `ConfluentConsumer` |

### State and actions against the code

`Engine` has one action per step of the loop, named for what it does
(`LoopAgain`, `Consume`, `HandleInvalid`, `WorkList`, `Produce`, `MarkFail`,
`LeaveToCallback`, `ShutdownProducer`, ...). `pc` is the place in
`run_component`; `"stopped"` is its return, `"crashed"` an exception of the
message or of the worker function, `"aborted"` an exception of a connector, and
`"down"` a process that is gone. The Engine's actions leave the connectors open;
`KafkaWorker` and `RSMQWorker` conjoin them with what the consumer and the
producers do in the same step.

`ConfluentConsumer` holds one *frame* per thread in `call`: the running
`on_success` or `on_fail`, and the access it performs next. Each read or write of
`last_offset` and each call of librdkafka is a step of its own, since nothing in
the code makes two of them atomic. A step that raises (`StoreRaises`) raises into
the thread that called: the main thread aborts, a poll thread dies.
`ConfluentProducer` keeps librdkafka's queue (`outbox`) and the reports that
wait for a poll (`dr`); the report is taken by the poll thread or, during
`flush()`, by the main thread.

`OffsetStore` adds the consumer group. `subscribe()` is passed no callbacks, so
librdkafka rebalances in a thread of its own, at any moment, also in the middle of
an `on_success`. `Revoke` commits what is stored of the partition and forgets it;
`Lose` is the same after the group gave it away, without the commit;
`RivalCommits` are the workers who have it meanwhile; `Assign` resumes where the
group is. `last_offset` is a field of the consumer and survives all of them, and
`store_offsets` for a partition that is not assigned raises (`StoreUnassigned`).
The properties speak of a *tenure*, the time from an assignment to its end. The
workers' modules keep their partitions for life.

In `BatchWorker` the Engine handles a batch as one message, named after one of the
batch: an invalid one if there is any, since the joined array is then invalid too.
`message_context` gives the list behind a name; `rest` is what an `on_success` has
still to go through. `on_fail` asks the list for its `topic()` before anything else
(the frame `"topic"`), and raises `AttributeError` into its caller: the main thread
aborts, a poll thread dies. `mishandled` remembers the messages whose failure
was reported to a callback and so to nobody. `JoinRaises` is the `TypeError` of
joining a batch in which a message has no value.

`RSMQConsumer` runs `delete_message` as a sequence of attempts in the calling
thread, each answered, or raising with or without effect. The visibility timeout
of a message may end at any moment after it was received, whether or not its
worker still handles it. The other workers of the queue (`rival`) receive,
complete, delete or drop messages as a correct worker does.

`Startup` is `run_component` before its loop: `ConnectQueue` connects the next
queue of an Engine, as `Connectors` says. A configuration maps its keys to where
their values come from (the caller, a default, a variable of the environment), so
that precedence and leaks can be told apart. `Queue.connect` passes a shallow copy:
only the `options` of an RSMQ queue reach back to the caller. A constructor may
refuse (a required key is missing, librdkafka does not know a key, `config` is
`None` and has no `copy()`), and leaves the connectors before it connected.

`Pipeline` follows one message through two Engines, each with its own profile for
every queue. `Handlers` knows a value by its form (JSON, MessagePack, other bytes,
Python, models), its shape (object, list, other) and what became of its content;
a call that raises gives `Raised`, and `message_model_handler`,
`model_message_handler` and `produce_handler` catch what the code catches.

Ghost variables, which no action reads for a guard: in `KafkaWorker`, `due[m]` is
what is still owed to message `m` - a decision of the worker first, then the
outputs it asked for, numbered from the end of its list - and `m` is *settled*
when nothing is due. In `RSMQWorker` a message may have several attempts, so
`owed[m][k]` counts what attempt `k` still owes, and `m` is settled once one of
them owes nothing. `failed` and `done` record calls of `on_fail` and
`on_success`; `OffsetStore`'s `done` those that returned.

### What is abstracted

A message is a partition and an offset; in the workers its payload is only valid or
not (`Invalid`), and `Pipeline` has the values instead, with no failures. The worker
function returns any member of `AppBools` or `AppLists`, or raises (`AppRaises`), in
no relation to the message. The reports of one message
are a set, because `delivery_success` only asks whether there is one of a kind.
`send_message` of an RSMQ producer is summarised by what its retries can result
in: a report, and whether the output arrived at least once. SIGINT sets
`kill_now` at once, where Python runs the handler at the main thread's next
bytecode. librdkafka is modelled from how the code uses it: a stored offset is
committed only past the one committed before, `close()` commits and is idempotent,
`store_offsets` and `poll` of a closed consumer raise, and `flush()` returns when
no report is waiting and no callback is running. A Redis answer that is lost in
`receiveMessage` is either no message or an exception.

With synchronous producers alone a process has one attempt at a message at a
time. With an asynchronous one it may receive a message again while outputs of
earlier attempts are in flight: `owed` counts each attempt apart. `rsmq_async`
gives each message one output, since `rsmq_mixed` shows what two can do. It does
not check `DoneIsDeleted`: when the last retry of a delete raises in a poll
thread, the thread ends, the message stays in the queue, and the process may
still stop gracefully later.

## The runs

| Run | Expected | Shows |
| --- | --- | --- |
| `offset_store` | pass | the offset bookkeeping, called by one thread in any order, across rebalances: `HighWaterMark`, `StoredNeverRegresses`, `NothingSkipped` |
| `kafka_sync` | pass | synchronous producers: `AtLeastOnce`, `ImplementsDelivery`, `CleanStop`, `GracefulShutdown`, `Progress` |
| `kafka_ordered` | pass | one asynchronous producer with ordered reports: `AtLeastOnce`, `FailureEnds`, `Progress` |
| `kafka_async` | pass | two asynchronous producers in any order: `LastCommittedSettled`, `StopDrained`, `KillEnds`, `FailureEnds` |
| `batch` | pass | batches of two partitions, one asynchronous producer, signals: `BatchAtLeastOnce`, `BatchStopDrained`, `KillEnds`, `BatchProgress` |
| `rsmq_sync` | pass | an RSMQ worker among others: `AtLeastOnce`, `ImplementsDelivery`, `DoneIsDeleted`, `Redelivered`, `KillEnds` |
| `rsmq_async` | pass | one asynchronous producer, attempts at a message that overlap: `AtLeastOnce` |
| `zmq` | pass | two clients of a ZMQ worker: `SuccessIsAnswered`, `AnsweredOrEnds`, `KillEnds` |
| `configuration` | pass | two Engines built and connected from shared objects: `BuiltConnects`, `ConnectedOnce`, `HandlerAndModel`, `ConfiguredWins`, `ConnectedAlike` |
| `pipeline` | pass | one message through two Engines, over ten profiles at each end of a queue: `RoundTrip`, `DeadLetterKept` |
| `filter_loss` | violation | a message is lost when a later one is acknowledged first |
| `rsmq_mixed` | violation | a message that failed is deleted by the callback of another output |

The Kafka passing runs divide the configurations by what the code can keep of its
promise. With synchronous producers it keeps all of it. With one asynchronous
producer, at-least-once needs four conditions, which are the parameters of
`kafka_ordered`: reports come in the order of production, every message has
exactly one output (no `True` answers), `produce()` does not raise, and no signal
arrives. `filter_loss` drops the second. `kafka_async` drops them all, and checks
what must hold even then.

These counterexamples are one value of a configuration away, and are not runs:

- `MaySignal = TRUE` in `kafka_ordered.cfg` refutes `AtLeastOnce`. A signal starts
  the shutdown between `on_fail`'s first step in the poll thread and its `close()`;
  `flush()` serves a later message's success, which is stored, and the close
  commits past the failed message.
- `EnqueueMayFail = TRUE` in `kafka_ordered.cfg`, with `FailureIsMarked` as a
  property: `produce()` of the asynchronous producer raised, but its report counts
  as one to wait for (`transport.py:107`). Neither `on_success` nor
  `on_fail` is called, and the next message's success is stored past it.
- `GracefulShutdown` as a property of `kafka_ordered.cfg`: `on_fail` in a poll
  thread closes the consumer (`confluent.py:169`) before its signal has reached the
  main thread, whose `poll()` or `store_offsets()` then raises. The log line
  "Application will gracefully shutdown" (`confluent.py:80`) is optimistic.
- A poll thread in `offset_store.cfg` (`AsyncQueues = {q1}`) refutes
  `StoredNeverRegresses` and `HighWaterMark`: two threads read `last_offset` before
  either stores, and the lower offset is stored last. `NothingSkipped` is proved
  for any number of threads, and `LastCommittedSettled` survives in `kafka_async`.
- `FailureEnds` as a property of `batch.cfg` with `MaySignal = FALSE`: a delivery
  report of a failure raises `AttributeError` in the poll thread
  (`confluent.py:161`), nothing stops the application, and the batches after it are
  acknowledged by the main thread's `flush()`. This is why `BatchAtLeastOnce`
  and `BatchProgress` except what was `mishandled`.

`zmq` gives every list of outputs a reply, and returns no `True`: a worker that
sends nothing back and reports success would leave `SuccessIsAnswered` false and
have the next `recv()` raise, which is what `AnsweredOrEnds` says. Its dead letter
queue is the reply for the same reason. `configuration` includes a queue that is
both input and output, a list that two Engines share, a dead letter queue that is
already in the list, and keys set to `None` or to the strings that disable them; the
properties name these as the only exceptions. The last one is worth knowing: the
shipped `confluent-dlq` disables its handler and data model by the string `None`,
so overriding only `data_model` is accepted and yields a model without a handler.

`ConfiguredWins` has two exceptions as well. `enable.auto.offset.store` is set
whatever the caller says, on purpose. The credentials are not: `confluent.py:285`
asks for the key `sasl.passsword`, so a configured password alone does not keep
`KAFKA_KEY` and `KAFKA_SECRET` from replacing it, along with the protocol and the
mechanism. `ConnectedAlike` has one: `RSMQConsumer` writes `decode_responses` into
the caller's `options` (`rsmq.py:67`). The comment at `confluent.py:105` says that
librdkafka ignores what it does not know with a warning; in the model it refuses,
as it does in fact, so that `stop_on_failure` and `poll_thread_timeout`, which are
read from `config` and left in it, end the start. For ZMQ the port of the queue that
connects first is the port of the process (`zmq.py:21-28`).

`pipeline` varies both ends of a queue apart from each other, because nothing in the
code compares them. `RoundTrip` says what agreeing ends are good for (`Agree`: one
encoding at both ends, a model handler exactly where there is a data model, a
model that parses the bytes itself only where there is no serializer, batches only
of JSON), and names its exception: a queue with a serializer and no models, as `confluent` with
its handler and data model disabled, writes a model or bytes as the string of
it, with no error (`default=str`). A profile with a list handler can be read and
never written: the list is not an instance of the data model (`TypeError`, the
process ends), and one model alone has no pairs to dump (a failed report).
`DeadLetterKept` has its conditions in it: a serializer on the dead letter queue
turns the bytes into a string, and a data model there refuses them. After a batch
consumer a dead letter is the joined array, not the messages.

### Bounds, and why they are enough

- `offset_store` has two rebalances: one partition that goes and comes back twice, or
  both once. A second tenure is what `last_offset` outlives, a third finds what the
  second left.
- `batch` has batches of up to two messages out of two partitions of two: lists
  within a partition, across two, and a second batch behind one in flight. It has
  one process; the crash is there, the restart is that of `KafkaWorker`.
- `MaxOffset` is 1 with two partitions and 2 with one: three messages are needed
  for one to be in flight below and one above a failed one, two partitions for an
  offset of one to be mistaken for the other's.
- `MaxRestarts` is 1 or 2: a loss shows when a second process starts from the
  committed offset; a third adds a failure of the recovery itself.
- Lists have at most two outputs: partial failures need two.
- `MaxAttempts` is 1 with synchronous producers, where no two attempts of a process
  overlap, and 2 with an asynchronous one: a message in flight and received again.
- `DeleteAttempts` is 2 (10 in the code): one attempt that is retried, and a last.
- `zmq` has two clients of two requests: one that stopped waiting, whose request is
  still served, beside one that waits.
- `configuration` has two Engines, since one can only disturb another, and one
  queue of each role. Either the profiles vary (eleven configurations of each of
  three queues) or the connectors do (ten wirings of two queues in three
  environments): what a profile decides and what a constructor reads are disjoint.
- `pipeline` has the five shipped profiles and five overrides, four messages that
  others may have put into the first queue, and five answers; two Engines, since a
  queue has two ends.
- `Terminated` lets the last process be down without being a deadlock; deadlock is
  checked in every run but `configuration`, whose Engines stop when set up, and
`pipeline`, whose message comes to an end.

`TypeOK` is checked where the most actions are enabled, and proved for all.

### Fairness

`KafkaWorker!Fairness` is weak for what a scheduler and librdkafka guarantee: the
main thread runs (the worker function returns), each thread's call goes on, each
poll thread serves its reports, every output gets an outcome (librdkafka's
`message.timeout.ms`), stored offsets are committed at their interval. Only the
polls are strongly fair: a topic with a next message that is polled forever
returns it, though each single poll may return nothing. Signals, crashes and
restarts are never fair. Weak fairness of `MainStep` covers a disjunction: the main
thread does something, and nothing says which answer the worker gives or that it
stops failing. `RSMQWorker!Fairness` is the same with visibility timeouts, which
end. `BatchWorker!BatchFairness` is that of `KafkaWorker`. `Redelivered` counts a
receive by any worker. In `ZMQWorker` only the main
thread is fair: clients may send nothing more, so a `recv()` may block for ever.

## The proofs

| Theorem | States | For |
| --- | --- | --- |
| **`OffsetStoreProofs`** | | |
| `TypeCorrect`, `NothingIsSkipped` | `TypeOK`, `NothingSkipped` | all constants |
| `HighestDoneIsStored`, `StoredIsMonotonic` | `HighWaterMark`, `StoredNeverRegresses` | calls from the main thread alone (`MainOnly`) |
| **`KafkaWorkerProofs`** | | |
| `TypeCorrect`, `ShutdownDrains` | `TypeOK`, `StopDrained` | all constants |
| `BatchTypeCorrect`, `BatchShutdownDrains` | `BatchTypeOK`, `BatchStopDrained` | all constants |
| `CommitsWhatIsSettled` | `LastCommittedSettled` | answers that do not mix (`Unmixed`) |
| `SyncWorkerAtLeastOnce`, `SyncWorkerImplementsDelivery`, `SyncWorkerIsGraceful`, `SyncWorkerStopsClean` | `AtLeastOnce`, `ImplementsDelivery`, `GracefulShutdown`, `CleanStop` | no asynchronous producer, `stop_on_failure` (`SyncWorker`) |
| `OrderedWorkerAtLeastOnce`, `OrderedWorkerImplementsDelivery` | `AtLeastOnce`, `ImplementsDelivery` | one asynchronous producer under the conditions of `kafka_ordered` (`OrderedWorker`) |
| `BatchWorkerAtLeastOnce` | `BatchAtLeastOnce` | one asynchronous producer, one ordered output to it for each batch that does not fail (`SingleOutput`) |
| **`RSMQWorkerProofs`** | | |
| `TypeCorrect`, `NoMessageIsLost`, `WorkerImplementsDelivery` | `TypeOK`, `AtLeastOnce`, `ImplementsDelivery` | answers that do not mix (`Unmixed`) |
| `NoSuccessIsLeft` | `DoneIsDeleted` | no asynchronous producer |
| **`ZMQWorkerProofs`** | | |
| `TypeCorrect` | `TypeOK` | all constants |
| `SuccessesAreAnswered` | `SuccessIsAnswered` | answers that name a reply (`AlwaysReplies`) |
| **`StartupProofs`** | | |
| `TypeCorrect`, `AcceptedConnects`, `HandlersHaveModels` | `TypeOK`, `BuiltConnects`, `HandlerAndModel` | all constants |
| `QueuesConnectOnce` | `ConnectedOnce` | lists that name no queue twice |
| `StartupImplementsConfiguration`, `StartupConnects`, `CallersWin`, `EnginesDoNotShow` | (refinement), `BuiltConnects`, `ConfiguredWins`, `ConnectedAlike` | all constants |
| **`PipelineProofs`** | | |
| `AnswersAreReadBack`, `DeadLettersAreKept` | `RoundTrip`, `DeadLetterKept` | answers to queues other than the dead letter queue (`AnswersElsewhere`) |

They assume the modules' `ASSUME`s about the constants, which TLC evaluates in the
runs, and the hypothesis each theorem states. None of the hypotheses is for the
prover's sake:

- `MainOnly`, `SyncWorker`, `OrderedWorker`: without them the properties are false, as
  the runs with expected violations and the counterexamples listed above show.
- `SingleOutput`: `OrderedWorker` without its conditions on signals and
  `stop_on_failure`. Every answer is one output to the one asynchronous producer, or a
  failure, and so is the dead letter queue's; reports come in the order of production,
  and `produce()` does not raise.
- `Unmixed`: an answer is a list of at most one output, or of synchronous ones
  only. `rsmq_mixed` is an answer of two outputs, whose first report marks the message
  while the second is in flight.
- `AlwaysReplies`: the worker returns no `True`, each list it returns names a queue
  of the socket, and so does the dead letter queue, if there is one. Without a reply
  the REP socket raises in the next `recv()`.
- `AnswersElsewhere`: an answer sent to the dead letter queue itself is an ordinary
  output there, so what is read from it need not be a dead letter.
- A queue listed twice is connected twice; that is what the list says.

### How they go

*Types.* `ConfluentConsumerProofs` and `EngineProofs` prove once that every
operation keeps the types of its component (`ConsumerTypes`, `EngineStep`,
`ProducerStep`). `Composition` shows that a step of the worker is a step or a stutter of
each of its components. The type of the worker is inductive with one fact added: a
message is in hand at the places that use one. For RSMQ the types are not
inductive by themselves: an attempt's credit of outputs is bounded because what is
in flight is owed (`InFlightIsOwed`), so `TypeOK` and the invariant are proved
together (`WorkerInvariant`). Likewise the ZMQ socket may send exactly while it has
a peer only because a process that is down has closed it (`DownIsClosed`).

*High-water mark.* `HighWaterMark` says nothing of the middle of a call, so it is
not inductive. `Coherent` says, for each place in `on_success`, how `last_offset`
and the stored offset differ: they agree except between the two writes, which come
in one order for a first message and in the other for a later one. Where nothing is
stored yet in a tenure, `last_offset` was set by a message acknowledged in an
earlier one (`Inherited`), which is what `Overshadowed` excepts.

*Nothing skipped.* `NothingSkipped` says nothing of the position, from which the
next messages are handed out. `NoGap` adds it: what is below the position, or before
a message this consumer was handed, or below what is stored or committed, was handed to this consumer or is
below what another one committed; and calls are about messages that were handed
out. It does not mention `last_offset`, and so holds for any number of threads.

*Shutdown.* `StopDrained` is about the moment of the return; `DrainInv` says what
the shutdown has done so far. In `shutdown`, every producer that is no longer in
`outs` is quiet (`ShutIsQuiet`): nothing in flight, no report, no callback in its poll
thread. A queue that is not one of the outputs was never written to
(`OthersAreQuiet`), and the main thread runs callbacks only inside `mark` and
`shutdown` (`MainCallsInside`), so that `CloseProducer` and the return find it idle. A
quiet producer stays quiet, since only the loop produces. The worker of batches
takes steps of `KafkaWorker` except where it handles a list; `BatchDrainInv` adds
that a thread with more of its list to go through is not quiet.

*What is committed is settled.* `LastCommittedSettled` holds of a message because it
was acknowledged. `AckInv` follows an acknowledgement back to the report: whatever
is stored, committed, being recorded in some thread, or reported as delivered, is
settled (`AckedIsSettled`); an output in flight is all that its message is due
(`InFlightIsDue`, where `Unmixed` is needed); the message in hand is neither
acknowledged nor in flight until its output is produced (`HandIsUnacked`), so that
deciding what it is due disturbs nothing.

*At-least-once, synchronous.* `AtLeastOnce` speaks of committed offsets only. The
invariant `SyncInv` follows a message from the poll to the commit: what is stored or
committed is settled (`CoveredIsSettled`); of what was read, only the message in
hand may be unsettled while the consumer is open (`ReadIsSettled`), and that one
is covered by nothing until it is marked (`HandIsFresh`); as long as no output
failed, what it is owed is what is still to be produced (`DueIsUnproduced`), so
the verdict of success finds it settled (`MarkIsRight`); and the verdict of failure
closes the consumer before the message leaves the hand, after which nothing is
polled or stored (`ClosedEnds`). `pc # "aborted"` is part of it: a closed consumer
is never polled. For `CleanStop`, `CleanInv` adds the converse: until a message fails
everything read is stored except the message in hand (`NothingIsLeft`), because
`last_offset` is behind it (`LastIsBehind`) and so `on_success` never returns early.

*At-least-once, in flight.* Here a message leaves the hand unsettled, and its
callback comes while others are being read. `LineInv` sees the messages of a process
as a line: the callback that runs, the reports that wait, the outputs in flight, the
message in hand; `InLine` says that they come in that order in every partition, and
`ReadIsPending` that what was read and is not in the line is settled. So when
`on_success` is called, all that is before it is settled (`CallCovers`), and storing
its offset covers settled messages only. All this holds until something fails
(`Healthy`): a failure in the poll thread keeps everything behind it in the line
until the consumer is closed, and one in the main thread keeps the message in hand;
after that nothing is stored. `MainInv` has what the main thread contributes: a
message is answered with one output or one failure (`Verdict`), and the consumer is
closed before the process is told to stop (`StopIsClosed`), so that no callback runs
in the main thread while anything can be stored. `ComingIsAhead` and `StoredFirst`
add that no offset moves back, as the refinement needs.

*At-least-once, in batches.* A batch has messages of several partitions, and
acknowledges up to its last one in each, so the batches before it must be accounted
for in all of them. `BatchLineInv` has the line again, of batches: reports
that wait, outputs in flight, the batch in hand. `Ok` is what `BatchAtLeastOnce` lets
go of. The offset of a message of the line stands for everything before it in its
partition, which is `Ok` or in the same batch or in an earlier one (`CoversLine`); as
long as another batch may be read, all that was read is `Ok` or in the line
(`ReadInLine`), so that a batch read now may be put at its end. That a batch holds
all of a partition between the old position and the new one is `BatchIsNext`, a lemma
that counts (`Ranks`). When the first of the line is reported delivered, all before it
is `Ok` and it is settled (`ReportsTrue`, `DueInFlight`), so every offset that its
`on_success` has still to store covers what is `Ok` (`RunCovers`), whichever thread
runs it and whatever the others store meanwhile; two lists that are gone through at
once do not disturb each other, since `Ok` only grows until the process dies
(`OkGrows`). Nothing here depends on what happens after a failure: one that is
reported to a callback makes its batch `mishandled` and so `Ok`, and one in the main
thread aborts it inside `on_fail` (`MarkAborts`), after which nothing is read. A signal
only ends the reading. This is why the theorem needs less than `OrderedWorker`, where
`on_fail` closes the consumer at its own pace, and why it promises less.

*The promise.* `StepImplements` is the same argument for both kinds of worker: if
`AtLeastOnce` holds after a step, commits do not go back, and nothing was committed
past the message in hand, then the step settles a message, reopens the one in hand,
removes settled ones, or stutters.

*RSMQ.* A message may be in the hands of several attempts, of several processes.
`WorkerInv` says of each attempt what `AckInv` says of a message (`InFlightIsOwed`,
`OwedIsUnproduced`), that the attempt in hand has a number that no other one has
(`HandIsFree`), and that whatever is deleted, or whose deletion was asked for, has a
complete attempt (`DeletedIsSettled`). For `NoSuccessIsLeft`, `DoneInv` says
that unless the process aborted, the only success whose message is still in the queue
is the one whose deletion the main thread is inside of.

*ZMQ.* `AnswerInv` follows the peer from `recv()` to the reply: while a request is in
hand and has not been replied to, the socket may send, and what remains to be
produced names a reply or an output before it failed.

*Configuration and start-up.* `BuiltConnects` speaks of Engines that failed to
connect; the inductive `ConnectInv` says of those that were built and have their
list to themselves that the queue map has, for each queue of the list, the connector
its role needs. `ListInv` says of such a list that it is what the caller gave plus at
most the dead letter queue, and so without repetition; `ProfileInv` follows the
handler and the data model of a queue through the validators. Each step of `Startup`
is a step of `Configuration` or stutters while a connection is one of several
(`StartupImplementsConfiguration`), so these carry over. `ConnectorsInv` is about the
sources of keys: a configuration passed to a constructor differs from the caller's by
what it fills in itself, and the one shared object, the `options` of RSMQ, by one
key.

*Pipeline.* Two facts about the handlers carry the proofs, each by cases on the
profile: what an agreeing end writes, the other end reads back, in the shape it had;
and what a dead letter queue with neither serializer nor data model writes are the
bytes it was given. `AnswerInv` and `DeadLetterInv` say where the values in a queue
came from. The proof of the first one found the definition of agreement too weak: it
took a model that parses its bytes itself, next to a serializer, and batches in
another encoding than JSON, to agree. `Agree` now excludes both, and the run has
two profiles more that tell them apart.

### Only model-checked

- The liveness properties (`KillEnds`, `FailureEnds`, `Progress`, `BatchProgress`,
  `Redelivered`, `AnsweredOrEnds`): fairness and `ENABLED` are beyond the prover.
- The counterexamples and the violations, which are behaviours and not theorems.

## What is not modelled

- Reading YAML, importing connector and model classes by name, and the check of a
  worker function's signature (`FuncEnvelope`); the three ways to pass a
  configuration are one dictionary.
- Rebalances under a whole worker: `OffsetStore` has them around the consumer alone.
- Two connections of one queue (a dead letter queue that is also an output).
- Connectors that stay open when a later one of the same Engine refuses to start:
  `connectors` keeps them, and nothing closes them.
- The contents of payloads, beyond the kinds of values of `Handlers`. The data
  model is `GenericMessage`, which checks no types.
- Metrics, logging, which no state of the worker depends on; the examples, which
  are users of the library.
- `stop_on_failure = False`, which gives up at-least-once by design, is a value of
  `StopOnFailure` that the theorems for all constants and `BatchWorkerAtLeastOnce`
  cover and no run sets.

## Plan

1. Rebalances under a whole worker, from `OffsetStore` and `KafkaWorker`, and what
   `NoGap` says there.
2. `produce()` of an asynchronous producer that raises (`transport.py:107`), as a
   property of its own.
