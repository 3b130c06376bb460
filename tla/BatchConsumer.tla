---------------------------- MODULE BatchConsumer ----------------------------
(***************************************************************************)
(* volley/connectors/confluent.py: BatchJsonConfluentConsumer, a           *)
(* ConfluentKafkaConsumer whose consume() returns several messages as one. *)
(* The message_context is the list of them: on_success goes through it     *)
(* message by message, with the steps of the inherited on_success, and the *)
(* inherited on_fail asks the list for its topic().                        *)
(***************************************************************************)
EXTENDS ConfluentConsumer, SequencesExt

CONSTANT BatchSize  \* batch_size

ASSUME BatchSizeAssumption == BatchSize \in Nat \ {0}

VARIABLE rest  \* per thread, the messages its on_success has still to look at

\* "topic" is the first step of on_fail, message_context.topic().
BatchFrames == Frames \union [at : {"topic"}, msg : Messages]

Batches == UNION {[1..n -> Messages] : n \in 1..BatchSize}

BatchConsumerTypeOK ==
    /\ open \in BOOLEAN
    /\ position \in [Partitions -> 0..(MaxOffset + 1)]
    /\ lastOffset \in [Partitions -> Offsets \union {NoOffset}]
    /\ stored \in [Partitions -> 0..(MaxOffset + 1)]
    /\ committed \in [Partitions -> 0..(MaxOffset + 1)]
    /\ call \in [Threads -> BatchFrames \union {Idle}]
    /\ rest \in [Threads -> Seq(Messages)]

\* No call of on_success or on_fail is running in t.
Free(t) == call[t] = Idle /\ rest[t] = << >>

Of(batch, p) == {i \in DOMAIN batch : partition(batch[i]) = p}

\* The next messages of their partitions, each partition in its order; None
\* and errors among what c.consume() returns are left out of the batch.
ConsumeBatch(batch) ==
    /\ open
    /\ \A i \in DOMAIN batch :
          offset(batch[i]) = position[partition(batch[i])] +
              Cardinality({j \in Of(batch, partition(batch[i])) : j < i})
    /\ position' = [p \in Partitions |->
                      position[p] + Cardinality(Of(batch, p))]
    /\ UNCHANGED <<open, lastOffset, stored, committed, call, rest>>

\* Mutant of on_success_batch: the highest message of the list stands for all.
on_success_last(t, batch) ==
    /\ Free(t)
    /\ on_success(t, Last(batch))
    /\ UNCHANGED rest

on_success_batch(t, batch) ==
    /\ Free(t)
    /\ on_success(t, Head(batch))
    /\ rest' = [rest EXCEPT ![t] = Tail(batch)]

\* The for loop of on_success goes to its next message.
NextMessage(t) ==
    /\ rest[t] # << >>
    /\ on_success(t, Head(rest[t]))
    /\ rest' = [rest EXCEPT ![t] = Tail(@)]

\* Mutant of on_fail_batch: the list is taken for a batch that succeeded.
on_fail_succeeds(t, batch) == on_success_batch(t, batch)

on_fail_batch(t, batch) ==
    /\ Free(t)
    /\ call' = [call EXCEPT ![t] = [at |-> "topic", msg |-> Head(batch)]]
    /\ UNCHANGED <<open, position, lastOffset, stored, committed, rest>>

\* A list has no topic(): AttributeError, raised to the caller of on_fail, with
\* stop_on_failure or without.
OnFailRaises(t) ==
    /\ call[t].at = "topic"
    /\ Return(t)
    /\ UNCHANGED <<open, position, lastOffset, stored, committed, rest>>
=============================================================================
