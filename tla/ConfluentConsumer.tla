-------------------------- MODULE ConfluentConsumer --------------------------
(***************************************************************************)
(* volley/connectors/confluent.py: ConfluentKafkaConsumer over librdkafka. *)
(* on_success and on_fail are called by the main thread and by the poll    *)
(* thread of every asynchronous producer; no lock orders them, so each     *)
(* call is a frame of its thread and each access to last_offset or to      *)
(* librdkafka is a step of its own.                                        *)
(***************************************************************************)
EXTENDS Topology

CONSTANT StopOnFailure  \* stop_on_failure

ASSUME StopOnFailureAssumption == StopOnFailure \in BOOLEAN

VARIABLES
    open,        \* c.close() has not been called
    position,    \* per partition, the next offset poll() returns
    lastOffset,  \* last_offset, NoOffset where the dict has no entry
    stored,      \* offset stored in librdkafka, 0 when none is
    committed,   \* offset committed to the group coordinator; survives us
    call         \* per thread, the running on_success or on_fail

consumerVars == <<open, position, lastOffset, stored, committed, call>>

NoOffset == -1

Idle == [at |-> "idle", msg |-> NoMessage]

\* "seed" and "seeded" are the KeyError branch of on_success, "store" and
\* "record" the branch of a higher offset, "close" and "kill" on_fail.
Sites == {"lookup", "seed", "seeded", "store", "record", "close", "kill"}

Frames == [at : Sites, msg : Messages]

ConsumerTypeOK ==
    /\ open \in BOOLEAN
    /\ position \in [Partitions -> 0..(MaxOffset + 1)]
    /\ lastOffset \in [Partitions -> Offsets \union {NoOffset}]
    /\ stored \in [Partitions -> 0..(MaxOffset + 1)]
    /\ committed \in [Partitions -> 0..(MaxOffset + 1)]
    /\ call \in [Threads -> Frames \union {Idle}]

ConsumerInit ==
    /\ open = TRUE
    /\ position = [p \in Partitions |-> 0]
    /\ lastOffset = [p \in Partitions |-> NoOffset]
    /\ stored = [p \in Partitions |-> 0]
    /\ committed = [p \in Partitions |-> 0]
    /\ call = [t \in Threads |-> Idle]

\* The consumer of a new process resumes where the group committed.
Resubscribe ==
    /\ open' = TRUE
    /\ position' = committed
    /\ lastOffset' = [p \in Partitions |-> NoOffset]
    /\ stored' = [p \in Partitions |-> 0]
    /\ call' = [t \in Threads |-> Idle]
    /\ UNCHANGED committed

Goto(t, site) == call' = [call EXCEPT ![t].at = site]

Return(t) == call' = [call EXCEPT ![t] = Idle]

-----------------------------------------------------------------------------
(* consume, and the calls of on_success and on_fail *)

\* Mutant of PollMessage: enable.auto.offset.store left at its default.
PollAndStore(m) ==
    /\ open
    /\ offset(m) = position[partition(m)]
    /\ position' = [position EXCEPT ![partition(m)] = @ + 1]
    /\ stored' = [stored EXCEPT ![partition(m)] = offset(m) + 1]
    /\ UNCHANGED <<open, lastOffset, committed, call>>

PollMessage(m) ==
    /\ open
    /\ offset(m) = position[partition(m)]
    /\ position' = [position EXCEPT ![partition(m)] = @ + 1]
    /\ UNCHANGED <<open, lastOffset, stored, committed, call>>

on_success(t, m) ==
    /\ call[t] = Idle
    /\ call' = [call EXCEPT ![t] = [at |-> "lookup", msg |-> m]]
    /\ UNCHANGED <<open, position, lastOffset, stored, committed>>

\* Mutant of on_fail: the signal is sent, the consumer is not closed first.
on_fail_kills_only(t, m) ==
    /\ call[t] = Idle
    /\ call' = [call EXCEPT ![t] = [at |-> "kill", msg |-> m]]
    /\ UNCHANGED <<open, position, lastOffset, stored, committed>>

\* Mutant of on_fail: stop_on_failure is not honoured.
on_fail_logs_only(t, m) ==
    /\ call[t] = Idle
    /\ UNCHANGED consumerVars

on_fail(t, m) ==
    /\ call[t] = Idle
    /\ call' = IF StopOnFailure
               THEN [call EXCEPT ![t] = [at |-> "close", msg |-> m]]
               ELSE call
    /\ UNCHANGED <<open, position, lastOffset, stored, committed>>

-----------------------------------------------------------------------------
(* The steps of on_success *)

\* Mutant of Lookup: any offset is stored, higher than the last or not.
LookupUnchecked(t) ==
    LET m    == call[t].msg
        last == lastOffset[partition(m)]
    IN  /\ call[t].at = "lookup"
        /\ Goto(t, IF last = NoOffset THEN "seed" ELSE "store")
        /\ UNCHANGED <<open, position, lastOffset, stored, committed>>

\* Mutant of Lookup: the next offset does not count as a higher one.
LookupSkipsNext(t) ==
    LET m    == call[t].msg
        last == lastOffset[partition(m)]
    IN  /\ call[t].at = "lookup"
        /\ \/ last = NoOffset /\ Goto(t, "seed")
           \/ last # NoOffset /\ offset(m) > last + 1 /\ Goto(t, "store")
           \/ last # NoOffset /\ offset(m) <= last + 1 /\ Return(t)
        /\ UNCHANGED <<open, position, lastOffset, stored, committed>>

\* last_offset is read here, and not again before it is written.
Lookup(t) ==
    LET m    == call[t].msg
        last == lastOffset[partition(m)]
    IN  /\ call[t].at = "lookup"
        /\ \/ last = NoOffset /\ Goto(t, "seed")
           \/ last # NoOffset /\ offset(m) > last /\ Goto(t, "store")
           \/ last # NoOffset /\ offset(m) <= last /\ Return(t)
        /\ UNCHANGED <<open, position, lastOffset, stored, committed>>

\* Mutant of Record: last_offset takes the stored offset, one too many.
RecordNext(t) ==
    LET m == call[t].msg
    IN  /\ call[t].at \in {"seed", "record"}
        /\ lastOffset' = [lastOffset EXCEPT ![partition(m)] = offset(m) + 1]
        /\ IF call[t].at = "seed" THEN Goto(t, "seeded") ELSE Return(t)
        /\ UNCHANGED <<open, position, stored, committed>>

\* last_offset is written after the store, but before it for a first message.
Record(t) ==
    LET m == call[t].msg
    IN  /\ call[t].at \in {"seed", "record"}
        /\ lastOffset' = [lastOffset EXCEPT ![partition(m)] = offset(m)]
        /\ IF call[t].at = "seed" THEN Goto(t, "seeded") ELSE Return(t)
        /\ UNCHANGED <<open, position, stored, committed>>

Storing(t) == call[t].at \in {"seeded", "store"}

StoreAhead(t, n) ==
    LET m == call[t].msg
    IN  /\ Storing(t)
        /\ open
        /\ stored' = [stored EXCEPT ![partition(m)] = offset(m) + n]
        /\ IF call[t].at = "store" THEN Goto(t, "record") ELSE Return(t)
        /\ UNCHANGED <<open, position, lastOffset, committed>>

\* Mutant of StoreOffsets: the offset of the message itself is stored.
StoreItself(t) == StoreAhead(t, 0)

\* Mutant of StoreOffsets: the offset after the next one is stored.
StoreTwoAhead(t) == StoreAhead(t, 2)

\* store_offsets(message) stores the offset after the message's, unchecked.
StoreOffsets(t) ==
    LET m == call[t].msg
    IN  /\ Storing(t)
        /\ open
        /\ stored' = [stored EXCEPT ![partition(m)] = offset(m) + 1]
        /\ IF call[t].at = "store" THEN Goto(t, "record") ELSE Return(t)
        /\ UNCHANGED <<open, position, lastOffset, committed>>

\* RuntimeError("Consumer closed"), raised to the caller of on_success.
StoreRaises(t) ==
    /\ Storing(t)
    /\ ~open
    /\ Return(t)
    /\ UNCHANGED <<open, position, lastOffset, stored, committed>>

-----------------------------------------------------------------------------
(* Commits, and shutdown() *)

\* The commit of auto.commit.interval.ms: librdkafka commits a stored offset
\* only past the one it committed before.
AutoCommit ==
    /\ open
    /\ \E p \in Partitions : stored[p] > committed[p]
    /\ committed' = [p \in Partitions |->
          IF stored[p] > committed[p] THEN stored[p] ELSE committed[p]]
    /\ UNCHANGED <<open, position, lastOffset, stored, call>>

\* The offset the group is left with when the partition is given up: the one
\* that is stored, if any is, without that comparison.
Final(p) == IF stored[p] # 0 THEN stored[p] ELSE committed[p]

\* c.close() commits what is stored and leaves the group; again, it is a no-op.
Close ==
    /\ open' = FALSE
    /\ committed' = IF open THEN [p \in Partitions |-> Final(p)] ELSE committed
    /\ UNCHANGED <<position, lastOffset, stored>>

\* Mutant of CloseOnFail: on_fail returns without the signal.
CloseOnly(t) ==
    /\ call[t].at = "close"
    /\ Close
    /\ Return(t)

CloseOnFail(t) ==
    /\ call[t].at = "close"
    /\ Close
    /\ Goto(t, "kill")

\* os.kill(os.getpid(), SIGINT)
KillOnFail(t) ==
    /\ call[t].at = "kill"
    /\ Return(t)
    /\ UNCHANGED <<open, position, lastOffset, stored, committed>>
=============================================================================
