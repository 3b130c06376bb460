-------------------------- MODULE ConfluentProducer --------------------------
(***************************************************************************)
(* volley/connectors/confluent.py: ConfluentKafkaProducer over librdkafka. *)
(* produce() puts an output in librdkafka's queue and returns; the outcome *)
(* comes back as a delivery report, which waits until poll() or flush()    *)
(* runs its callback, acked, in the thread that called it.                 *)
(***************************************************************************)
EXTENDS Topology, SequencesExt

CONSTANT OrderedReports  \* whether reports come in the order of production

ASSUME OrderedReportsAssumption == OrderedReports \in BOOLEAN

VARIABLES
    outbox,  \* per producer, the outputs with no outcome yet: <<message, n>>
    dr,      \* per producer, the reports waiting for poll(): <<message, ok>>
    poller   \* per producer, its poll thread

producerVars == <<outbox, dr, poller>>

\* Output n of a message, counted from the end of the worker's list.
Outputs == Messages \X Nat

ProducerTypeOK ==
    /\ outbox \in [AsyncQueues -> Seq(Outputs)]
    /\ dr \in [AsyncQueues -> Seq(Messages \X BOOLEAN)]
    /\ poller \in [AsyncQueues -> {"polling", "dead", "joined"}]

\* Mutant of ProducerInit: the poll thread is not started.
ProducerInitNoThread ==
    /\ outbox = [q \in AsyncQueues |-> << >>]
    /\ dr = [q \in AsyncQueues |-> << >>]
    /\ poller = [q \in AsyncQueues |-> "joined"]

\* init_callbacks starts the poll thread, before the first message is consumed.
ProducerInit ==
    /\ outbox = [q \in AsyncQueues |-> << >>]
    /\ dr = [q \in AsyncQueues |-> << >>]
    /\ poller = [q \in AsyncQueues |-> "polling"]

\* The producers of a new process know nothing of the old one's.
Reconnect ==
    /\ outbox' = [q \in AsyncQueues |-> << >>]
    /\ dr' = [q \in AsyncQueues |-> << >>]
    /\ poller' = [q \in AsyncQueues |-> "polling"]

Enqueue(q, output) ==
    /\ outbox' = [outbox EXCEPT ![q] = Append(@, output)]
    /\ UNCHANGED <<dr, poller>>

\* librdkafka has the outcome of the i-th output of q's outbox.
Report(q, i, ok) ==
    /\ i \in DOMAIN outbox[q]
    /\ OrderedReports => i = 1
    /\ outbox' = [outbox EXCEPT ![q] = RemoveAt(@, i)]
    /\ dr' = [dr EXCEPT ![q] = Append(@, <<outbox[q][i][1], ok>>)]
    /\ UNCHANGED poller

\* poll() or flush() takes q's first report, to run its callback.
acked(q, m, ok) ==
    /\ dr[q] # << >>
    /\ Head(dr[q]) = <<m, ok>>
    /\ dr' = [dr EXCEPT ![q] = Tail(@)]
    /\ UNCHANGED <<outbox, poller>>

\* handle_poll catches nothing: an exception of a callback ends the thread.
PollThreadDies(q) ==
    /\ poller' = [poller EXCEPT ![q] = "dead"]
    /\ UNCHANGED <<outbox, dr>>

\* Mutant of Flushed: flush() gives up on a timeout.
FlushTimesOut(q) ==
    /\ poller' = [poller EXCEPT ![q] = "joined"]
    /\ UNCHANGED <<outbox, dr>>

\* Mutant of Flushed: the thread is joined without kill_poll_thread being set.
JoinOnly(q) ==
    /\ outbox[q] = << >>
    /\ dr[q] = << >>
    /\ poller[q] = "dead"
    /\ UNCHANGED producerVars

\* flush() has returned, kill_poll_thread is set and the thread joined.
Flushed(q) ==
    /\ outbox[q] = << >>
    /\ dr[q] = << >>
    /\ poller' = [poller EXCEPT ![q] = "joined"]
    /\ UNCHANGED <<outbox, dr>>
=============================================================================
