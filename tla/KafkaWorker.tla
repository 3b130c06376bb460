----------------------------- MODULE KafkaWorker -----------------------------
(***************************************************************************)
(* A Volley process that reads a Kafka topic: the Engine's main thread,    *)
(* the ConfluentKafkaConsumer it polls, the producers it writes to, and    *)
(* the poll thread of every asynchronous one.  The process may be          *)
(* signalled, may fail, and may die between any two steps; a new one then  *)
(* starts from what the group committed.                                   *)
(*                                                                         *)
(* A queue outside AsyncQueues has a producer that answers in produce()    *)
(* (RSMQ, ZMQ, a plugin).                                                  *)
(***************************************************************************)
EXTENDS Engine, ConfluentConsumer, ConfluentProducer

CONSTANTS
    EnqueueMayFail,  \* produce() of an asynchronous producer may raise
    MaySignal,       \* the operator may send SIGINT or SIGTERM
    MaxRestarts      \* bound: how many times a dead process is replaced

ASSUME KafkaWorkerAssumption ==
    /\ EnqueueMayFail \in BOOLEAN
    /\ MaySignal \in BOOLEAN
    /\ MaxRestarts \in Nat

VARIABLES
    due,      \* per message, what is still owed before it may be forgotten
    failed,   \* messages this process called on_fail for
    restarts  \* processes started after the first

ghostVars == <<due, failed, restarts>>

vars == <<engineVars, consumerVars, producerVars, ghostVars>>

\* A message is owed a decision of the worker first, then the delivery of each
\* output the worker asked for, numbered from the end of its list.
Decision == 0

Settled(m) == due[m] = {}

TypeOK ==
    /\ EngineTypeOK
    /\ ConsumerTypeOK
    /\ ProducerTypeOK
    /\ due \in [Messages -> SUBSET Nat]
    /\ failed \subseteq Messages
    /\ restarts \in 0..MaxRestarts

Init ==
    /\ EngineInit
    /\ ConsumerInit
    /\ ProducerInit
    /\ due = [m \in Messages |-> {Decision}]
    /\ failed = {}
    /\ restarts = 0

-----------------------------------------------------------------------------
(* The main thread, up to the outputs *)

CheckKillNow ==
    /\ LoopAgain \/ LoopExit
    /\ UNCHANGED <<consumerVars, producerVars, ghostVars>>

PollNothing ==
    /\ ConsumeNone
    /\ UNCHANGED <<consumerVars, producerVars, ghostVars>>

Poll(m) ==
    /\ Consume(m)
    /\ PollMessage(m)
    /\ UNCHANGED <<producerVars, ghostVars>>

\* poll() on a closed consumer.  (If it was called before the close, in another
\* thread, it returns nothing: PollNothing.)
PollRaises ==
    /\ pc = "poll"
    /\ ~open
    /\ Abort
    /\ UNCHANGED <<consumerVars, producerVars, ghostVars>>

Handle ==
    /\ HandleValid \/ HandleInvalid \/ DLQNotConfigured
    /\ due' = IF pc' = "produce" THEN [due EXCEPT ![msg] = {1}] ELSE due
    /\ UNCHANGED <<consumerVars, producerVars, failed, restarts>>

Answer(b) ==
    /\ WorkBool(b)
    /\ due' = IF b THEN [due EXCEPT ![msg] = {}] ELSE due
    /\ UNCHANGED <<consumerVars, producerVars, failed, restarts>>

AnswerList(l) ==
    /\ WorkList(l)
    /\ due' = [due EXCEPT ![msg] = 1..Len(l)]
    /\ UNCHANGED <<consumerVars, producerVars, failed, restarts>>

Crash ==
    /\ WorkRaises \/ ProduceRaises
    /\ UNCHANGED <<consumerVars, producerVars, ghostVars>>

-----------------------------------------------------------------------------
(* The main thread, from the outputs to the end of the iteration *)

Delivered(m, n) == due' = [due EXCEPT ![m] = @ \ {n}]

\* A synchronous producer answers; a lost answer is a delivery it reports as
\* failed.
ProduceSync(status, delivered) ==
    /\ Produce(status)
    /\ Head(outs) \notin AsyncQueues
    /\ status => delivered
    /\ IF delivered THEN Delivered(msg, Len(outs)) ELSE UNCHANGED due
    /\ UNCHANGED <<consumerVars, producerVars, failed, restarts>>

ProduceAsync ==
    /\ Produce(TRUE)
    /\ Head(outs) \in AsyncQueues
    /\ Enqueue(Head(outs), <<msg, Len(outs)>>)
    /\ UNCHANGED <<consumerVars, ghostVars>>

\* The output could not be serialized, or librdkafka's queue is full.
EnqueueFails ==
    /\ EnqueueMayFail
    /\ Produce(FALSE)
    /\ Head(outs) \in AsyncQueues
    /\ UNCHANGED <<consumerVars, producerVars, ghostVars>>

\* on_fail, and its record in failed.
Fail(t, m) ==
    /\ on_fail(t, m)
    /\ failed' = failed \union {m}
    /\ UNCHANGED <<due, restarts>>

Dispatch ==
    /\ \/ MarkSuccess /\ on_success(Main, msg) /\ UNCHANGED ghostVars
       \/ MarkFail /\ Fail(Main, msg)
       \/ LeaveToCallback /\ UNCHANGED <<consumerVars, ghostVars>>
    /\ UNCHANGED producerVars

EndIteration ==
    /\ call[Main] = Idle
    /\ Marked
    /\ UNCHANGED <<consumerVars, producerVars, ghostVars>>

-----------------------------------------------------------------------------
(* The brokers, and the callbacks *)

\* The output reaches its topic; the report may still say it did not.
Deliver(q, i, ok) ==
    /\ pc # "down"
    /\ Report(q, i, ok)
    /\ Delivered(outbox[q][i][1], outbox[q][i][2])
    /\ UNCHANGED <<engineVars, consumerVars, failed, restarts>>

Reject(q, i) ==
    /\ pc # "down"
    /\ Report(q, i, FALSE)
    /\ UNCHANGED <<engineVars, consumerVars, ghostVars>>

\* Callbacks of q run in its poll thread, and in the main thread during flush.
Serves(t, q) ==
    \/ t = q /\ poller[q] = "polling"
    \/ t = Main /\ pc = "shutdown" /\ outs # << >> /\ Head(outs) = q

Callback(t, q, m, ok) ==
    /\ Serves(t, q)
    /\ acked(q, m, ok)
    /\ IF ok THEN on_success(t, m) /\ UNCHANGED ghostVars ELSE Fail(t, m)
    /\ UNCHANGED engineVars

\* The steps of a running on_success or on_fail that return to their caller.
StepCall(t) ==
    /\ Lookup(t) \/ Record(t) \/ StoreOffsets(t) \/ CloseOnFail(t)
    /\ UNCHANGED <<engineVars, producerVars, ghostVars>>

\* The signal that on_fail sends to its own process.
StepKill(t) ==
    /\ KillOnFail(t)
    /\ exit_gracefully
    /\ UNCHANGED <<producerVars, ghostVars>>

\* An exception of on_success ends the thread that called it.
StepRaises(t) ==
    /\ StoreRaises(t)
    /\ IF t = Main
       THEN Abort /\ UNCHANGED producerVars
       ELSE PollThreadDies(t) /\ UNCHANGED engineVars
    /\ UNCHANGED ghostVars

Commit ==
    /\ AutoCommit
    /\ UNCHANGED <<engineVars, producerVars, ghostVars>>

-----------------------------------------------------------------------------
(* Shutdown, signals, crashes and restarts *)

\* flush() also waits for the callbacks that another thread is running.
CloseProducer ==
    /\ ShutdownProducer
    /\ call[Main] = Idle
    /\ LET q == Head(outs)
       IN  IF q \in AsyncQueues
           THEN call[q] = Idle /\ Flushed(q)
           ELSE UNCHANGED producerVars
    /\ UNCHANGED <<consumerVars, ghostVars>>

CloseConsumer ==
    /\ ShutdownConsumer
    /\ Close
    /\ UNCHANGED <<call, producerVars, ghostVars>>

Signal ==
    /\ MaySignal
    /\ pc \in Running
    /\ ~killNow
    /\ exit_gracefully
    /\ UNCHANGED <<consumerVars, producerVars, ghostVars>>

\* Nothing of a process outlives it but what it committed and delivered.
Die ==
    /\ Vanish
    /\ Resubscribe
    /\ Reconnect
    /\ failed' = {}
    /\ UNCHANGED <<due, restarts>>

Restart ==
    /\ Start
    /\ restarts < MaxRestarts
    /\ restarts' = restarts + 1
    /\ UNCHANGED <<consumerVars, producerVars, due, failed>>

\* The bound is reached and no process is left.
Terminated ==
    /\ pc = "down"
    /\ restarts = MaxRestarts
    /\ UNCHANGED vars

-----------------------------------------------------------------------------

\* A step of the loop that calls neither on_success nor on_fail and waits for
\* no other thread.
LoopStep ==
    \/ CheckKillNow
    \/ PollNothing
    \/ PollRaises
    \/ Handle
    \/ \E b \in AppBools : Answer(b)
    \/ \E l \in AppLists : AnswerList(l)
    \/ Crash
    \/ \E s, d \in BOOLEAN : ProduceSync(s, d)
    \/ ProduceAsync
    \/ EnqueueFails
    \/ EndIteration
    \/ CloseConsumer

MainStep == LoopStep \/ Dispatch \/ CloseProducer

Outcome(q) ==
    \E i \in DOMAIN outbox[q] :
        Reject(q, i) \/ \E ok \in BOOLEAN : Deliver(q, i, ok)

CallStep(t) == StepCall(t) \/ StepKill(t) \/ StepRaises(t)

Serve(t, q) == \E m \in Messages, ok \in BOOLEAN : Callback(t, q, m, ok)

Next ==
    \/ MainStep
    \/ \E m \in Messages : Poll(m)
    \/ \E q \in AsyncQueues : Outcome(q)
    \/ \E t \in Threads, q \in AsyncQueues : Serve(t, q)
    \/ \E t \in Threads : CallStep(t)
    \/ Commit
    \/ Signal
    \/ Die
    \/ Restart
    \/ Terminated

Spec == Init /\ [][Next]_vars

\* Threads that can run do; the worker function returns, librdkafka finds an
\* outcome for every output (message.timeout.ms) and commits at its interval;
\* and a topic that is polled forever and has a next message returns it.
Fairness ==
    /\ WF_vars(MainStep)
    /\ \A m \in Messages : SF_vars(Poll(m))
    /\ \A q \in AsyncQueues : WF_vars(Outcome(q))
    /\ \A t \in Threads : WF_vars(CallStep(t))
    /\ \A q \in AsyncQueues : WF_vars(Serve(q, q)) /\ WF_vars(Serve(Main, q))
    /\ WF_vars(Commit)

FairSpec == Spec /\ Fairness

-----------------------------------------------------------------------------
(* Properties *)

\* "At-least-once delivery semantics by default": a message that the group
\* committed past, and that no process will read again, is settled: the worker
\* decided it needs no output, or every output it asked for was delivered.
AtLeastOnce ==
    \A m \in Messages : offset(m) < committed[partition(m)] => Settled(m)

\* The same, step by step: the group removes a message from the topic only when
\* it is settled, never takes it back, and none of them is reopened.
Removed == {m \in Messages : offset(m) < committed[partition(m)]}

Promise == INSTANCE Delivery WITH
    settled <- {m \in Messages : Settled(m)},
    removed <- Removed

ImplementsDelivery == Promise!Spec

\* The message a commit points at is itself settled, in whatever order the
\* acknowledgements arrive: on_success is never called for an output that is
\* still in flight.  (Those below it are AtLeastOnce's concern.)
LastCommittedSettled ==
    \A p \in Partitions : committed[p] # 0 => Settled(<<p, committed[p] - 1>>)

\* A process that stops with no failure leaves nothing to be done again: each
\* message it polled is settled, and committed by the close of the consumer.
CleanStop ==
    pc = "stopped" /\ failed = {} =>
        /\ committed = position
        /\ \A m \in Messages : offset(m) < position[partition(m)] => Settled(m)

\* run_component returns only when every delivery report has had its callback
\* and no on_success or on_fail is still running in another thread.
StopDrained ==
    pc = "stopped" =>
        /\ \A q \in AsyncQueues : outbox[q] = << >> /\ dr[q] = << >>
        /\ \A t \in Threads : call[t] = Idle

\* "Application will gracefully shutdown when there are downstream failures":
\* no connector raises into the main loop or into the shutdown.
GracefulShutdown == pc # "aborted"

\* "had async or synchronous producer(s) failures": a message one of whose
\* produce() calls failed is marked failed, never left to a delivery callback.
FailureIsMarked ==
    [][LeaveToCallback => \A r \in reports : r.status]_vars

\* Within a process the stored offset only grows, whichever thread moves it.
StoredNeverRegresses ==
    [][pc' # "down" => \A p \in Partitions : stored'[p] >= stored[p]]_vars

\* A process that is told to stop, by a signal or by on_fail, ends.
KillEnds == killNow ~> pc \in Ended

\* With stop_on_failure, a failure in any thread ends the process.
FailureEnds == failed # {} ~> pc \in Ended

AllCommitted == \A p \in Partitions : committed[p] = MaxOffset + 1

\* Unless the process ends, every message of the topic is eventually committed.
Progress == <>[](pc \in Ended \/ AllCommitted)
=============================================================================
