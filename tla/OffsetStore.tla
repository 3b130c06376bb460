----------------------------- MODULE OffsetStore -----------------------------
(***************************************************************************)
(* The offset bookkeeping of ConfluentKafkaConsumer on its own: whoever    *)
(* may call on_success does so with any message polled before, in any      *)
(* order and any number of times, until someone calls on_fail.  With       *)
(* AsyncQueues = {} the calls come one at a time, Main standing for every  *)
(* caller; a poll thread in Threads makes them overlap.                    *)
(*                                                                         *)
(* subscribe() is given no callbacks, so librdkafka rebalances in a thread *)
(* of its own, at any moment: a partition is taken away, other workers of  *)
(* the group commit on it, and it comes back, while last_offset stays.     *)
(* The time from an assignment to its end is a tenure.                     *)
(***************************************************************************)
EXTENDS ConfluentConsumer

CONSTANT MaxRebalances  \* bound: how many times a partition is taken away

ASSUME MaxRebalancesAssumption == MaxRebalances \in Nat

VARIABLES
    assigned,   \* per partition, whether it is this consumer's
    polled,     \* messages this consumer was handed, in any tenure
    rival,      \* per partition, the highest offset other workers committed
    done,       \* messages whose on_success returned normally, in this tenure
    before,     \* messages passed to on_success in an earlier tenure
    rebalances  \* how many times a partition was taken away

groupVars == <<assigned, polled, rival, before, rebalances>>

vars == <<consumerVars, groupVars, done>>

Assigned(m) == assigned[partition(m)]

Init ==
    /\ ConsumerInit
    /\ assigned = [p \in Partitions |-> TRUE]
    /\ polled = {}
    /\ rival = [p \in Partitions |-> 0]
    /\ done = {}
    /\ before = {}
    /\ rebalances = 0

-----------------------------------------------------------------------------
(* What the consumer does *)

Poll(m) ==
    /\ Assigned(m)
    /\ PollMessage(m)
    /\ polled' = polled \union {m}
    /\ UNCHANGED <<assigned, rival, done, before, rebalances>>

\* An output may be delivered long after the message's partition was lost.
Succeed(t, m) ==
    /\ m \in polled
    /\ on_success(t, m)
    /\ before' = IF Assigned(m) THEN before ELSE before \union {m}
    /\ UNCHANGED <<assigned, polled, rival, done, rebalances>>

Fail(t, m) ==
    /\ m \in polled
    /\ on_fail(t, m)
    /\ UNCHANGED <<groupVars, done>>

\* A step of a call; the one that leaves on_success without raising ends it.
Step(t) ==
    /\ \/ Lookup(t)
       \/ Record(t)
       \/ Storing(t) /\ Assigned(call[t].msg) /\ StoreOffsets(t)
    /\ done' = IF call'[t] = Idle THEN done \union {call[t].msg} ELSE done
    /\ UNCHANGED groupVars

\* KafkaException of store_offsets, for a partition that is not assigned.
StoreUnassigned(t) ==
    /\ Storing(t)
    /\ open
    /\ ~Assigned(call[t].msg)
    /\ Return(t)
    /\ UNCHANGED <<open, position, lastOffset, stored, committed>>

OtherStep(t) ==
    /\ StoreUnassigned(t) \/ StoreRaises(t) \/ CloseOnFail(t) \/ KillOnFail(t)
    /\ UNCHANGED <<groupVars, done>>

Commit ==
    /\ AutoCommit
    /\ UNCHANGED <<groupVars, done>>

Shutdown ==
    /\ call[Main] = Idle
    /\ Close
    /\ UNCHANGED <<call, groupVars, done>>

-----------------------------------------------------------------------------
(* What the group does *)

InCall(p) == {call[t].msg : t \in {u \in Threads : call[u] # Idle
                                       /\ partition(call[u].msg) = p}}

InPartition(p) == {m \in Messages : partition(m) = p}

\* The tenure of p ends: nothing of it is stored any more.
EndTenure(p) ==
    /\ open
    /\ assigned[p]
    /\ rebalances < MaxRebalances
    /\ assigned' = [assigned EXCEPT ![p] = FALSE]
    /\ stored' = [stored EXCEPT ![p] = 0]
    /\ before' = before \union (done \intersect InPartition(p)) \union InCall(p)
    /\ done' = done \ InPartition(p)
    /\ rebalances' = rebalances + 1
    /\ UNCHANGED <<open, position, lastOffset, call, polled, rival>>

\* p is revoked, and what is stored of it committed.
Revoke(p) ==
    /\ EndTenure(p)
    /\ committed' = [committed EXCEPT ![p] = Final(p)]

\* The group gave p away already (session.timeout.ms, max.poll.interval.ms).
Lose(p) ==
    /\ EndTenure(p)
    /\ UNCHANGED committed

RivalCommits(p, n) ==
    /\ ~assigned[p]
    /\ n > committed[p]
    /\ committed' = [committed EXCEPT ![p] = n]
    /\ rival' = [rival EXCEPT ![p] = IF n > @ THEN n ELSE @]
    /\ UNCHANGED <<open, position, lastOffset, stored, call, assigned, polled,
                   done, before, rebalances>>

\* Mutant of Assign: auto.offset.reset is "latest".
AssignLatest(p) ==
    /\ open
    /\ ~assigned[p]
    /\ assigned' = [assigned EXCEPT ![p] = TRUE]
    /\ \E n \in committed[p]..(MaxOffset + 1) :
          /\ committed[p] # 0 => n = committed[p]
          /\ position' = [position EXCEPT ![p] = n]
    /\ UNCHANGED <<open, lastOffset, stored, committed, call, polled, rival,
                   done, before, rebalances>>

\* p is assigned again, from where the group is: the first offset, "earliest",
\* if it has committed none.
Assign(p) ==
    /\ open
    /\ ~assigned[p]
    /\ assigned' = [assigned EXCEPT ![p] = TRUE]
    /\ position' = [position EXCEPT ![p] = committed[p]]
    /\ UNCHANGED <<open, lastOffset, stored, committed, call, polled, rival,
                   done, before, rebalances>>

Next ==
    \/ \E m \in Messages : Poll(m)
    \/ \E t \in Threads, m \in Messages : Succeed(t, m) \/ Fail(t, m)
    \/ \E t \in Threads : Step(t) \/ OtherStep(t)
    \/ Commit
    \/ Shutdown
    \/ \E p \in Partitions : Revoke(p) \/ Lose(p) \/ Assign(p)
    \/ \E p \in Partitions, n \in 1..(MaxOffset + 1) : RivalCommits(p, n)

Spec == Init /\ [][Next]_vars

-----------------------------------------------------------------------------
(* Properties *)

\* Every variable has its type.
TypeOK ==
    /\ ConsumerTypeOK
    /\ assigned \in [Partitions -> BOOLEAN]
    /\ polled \subseteq Messages
    /\ rival \in [Partitions -> 0..(MaxOffset + 1)]
    /\ done \subseteq Messages
    /\ before \subseteq Messages
    /\ rebalances \in 0..MaxRebalances

\* on_success never moves the stored offset of a partition backwards,
\* whatever the order of the acknowledgements: "see if we've already committed
\* this or a higher offset".  Only the end of a tenure takes it back.
StoredNeverRegresses ==
    [][\A p \in Partitions : assigned'[p] => stored'[p] >= stored[p]]_vars

\* An acknowledgement of an earlier tenure reaches as far as m: last_offset
\* remembers it, although nothing says that its offset was committed.
Overshadowed(m) ==
    \E x \in before : partition(x) = partition(m) /\ offset(m) <= offset(x)

\* The offset stored for a partition is a high-water mark: between calls, and
\* until close(), it is the offset after the highest message whose on_success
\* has returned in this tenure.  What was acknowledged before the partition
\* came back is the one exception: last_offset outlives the rebalance, and
\* messages up to it are acknowledged again without being stored.  (After
\* close() store_offsets raises, and the branch that writes last_offset first
\* has by then recorded an offset nobody stored.)
HighWaterMark ==
    (open /\ \A t \in Threads : call[t] = Idle) =>
        \A p \in Partitions :
            /\ \A m \in done \intersect InPartition(p) :
                  offset(m) < stored[p] \/ Overshadowed(m)
            /\ stored[p] # 0 => <<p, stored[p] - 1>> \in done

\* The group never moves past a message that no worker was handed: neither a
\* late acknowledgement nor a partition that comes and goes leaves a gap.
NothingSkipped ==
    \A m \in Messages :
        LET p == partition(m)
        IN  offset(m) < stored[p] \/ offset(m) < committed[p] =>
                m \in polled \/ offset(m) < rival[p]
=============================================================================
