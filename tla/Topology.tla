------------------------------ MODULE Topology ------------------------------
(***************************************************************************)
(* What every module of the project shares: the messages of the input      *)
(* topic, the queues a worker produces to, and the threads of its process. *)
(***************************************************************************)
EXTENDS Integers, Sequences, FiniteSets

CONSTANTS
    Partitions,   \* partitions of the input topic(s)
    MaxOffset,    \* bound: the last offset of each partition
    Queues,       \* every queue the Engine may produce to
    AsyncQueues,  \* those whose producer has callback_delivery = True
    Main          \* the thread that runs run_component

ASSUME TopologyAssumption ==
    /\ MaxOffset \in Nat
    /\ AsyncQueues \subseteq Queues
    /\ Main \notin Queues

Offsets == 0..MaxOffset

\* A message_context is what topic(), partition() and offset() say of it.
Messages == Partitions \X Offsets

partition(m) == m[1]

offset(m) == m[2]

NoMessage == << >>

\* Each asynchronous producer starts one daemon poll thread; it is named after
\* the queue it polls for.
Threads == {Main} \union AsyncQueues
=============================================================================
