------------------------------ MODULE RSMQWorker ------------------------------
(***************************************************************************)
(* A Volley process that reads an RSMQ queue: the Engine's main thread,    *)
(* the RSMQConsumer it polls, synchronous producers (RSMQProducer) and     *)
(* asynchronous ones.  Other workers may read the same queue; the process  *)
(* may be signalled, may fail, and may die between any two steps.          *)
(***************************************************************************)
EXTENDS Engine, RSMQConsumer, ConfluentProducer

CONSTANTS
    Rivals,      \* whether other workers read the queue
    MaxAttempts, \* bound: attempts of one process at a message, in flight at once
    MaxRestarts  \* bound: how many times a dead process is replaced

ASSUME RSMQWorkerAssumption ==
    /\ Rivals \in BOOLEAN
    /\ MaxAttempts \in Nat \ {0}
    /\ MaxRestarts \in Nat

VARIABLES
    rival,     \* per message, what another worker does with it
    attempt,   \* the number of this worker's last attempt
    owed,      \* per message and attempt, how much it still owes
    settled,   \* messages of which some worker completed an attempt
    done,      \* messages this process called on_success for
    failed,    \* messages it failed, and that nobody received since
    restarts   \* processes started after the first

ghostVars == <<attempt, owed, settled, done, failed, restarts>>

vars == <<engineVars, consumerVars, producerVars, rival, ghostVars>>

Attempts == 1..MaxAttempts

TypeOK ==
    /\ EngineTypeOK
    /\ ConsumerTypeOK
    /\ ProducerTypeOK
    /\ rival \in [Messages -> {"none", "working", "done"}]
    /\ attempt \in Attempts
    /\ owed \in [Messages -> [Attempts -> Nat]]
    /\ settled \subseteq Messages
    /\ done \subseteq Messages
    /\ failed \subseteq Messages
    /\ restarts \in 0..MaxRestarts

Init ==
    /\ EngineInit
    /\ ConsumerInit
    /\ ProducerInit
    /\ rival = [m \in Messages |-> "none"]
    /\ attempt = 1
    /\ owed = [m \in Messages |-> [k \in Attempts |-> 1]]
    /\ settled = {}
    /\ done = {}
    /\ failed = {}
    /\ restarts = 0

\* Attempt k at m owes n outputs; an attempt owes 1 until the worker answers.
Owe(m, k, n) ==
    /\ owed' = [owed EXCEPT ![m][k] = n]
    /\ settled' = IF n = 0 THEN settled \union {m} ELSE settled
    /\ UNCHANGED <<attempt, done, failed, restarts>>

\* Attempts that no output in flight is of: their numbers are used again.
Free(m) ==
    {k \in Attempts : \A q \in AsyncQueues : <<m, k>> \notin Range(outbox[q])}

-----------------------------------------------------------------------------
(* The main thread *)

CheckKillNow ==
    /\ LoopAgain \/ LoopExit
    /\ UNCHANGED <<consumerVars, producerVars, rival, ghostVars>>

PollNothing ==
    /\ ConsumeNone
    /\ UNCHANGED <<consumerVars, producerVars, rival, ghostVars>>

\* The last two guards are the bound MaxAttempts.
Poll(m) ==
    /\ Consume(m)
    /\ Receive(m)
    /\ Free(m) # {}
    /\ \A q \in AsyncQueues : Len(dr[q]) < MaxAttempts
    /\ attempt' = CHOOSE k \in Free(m) : TRUE
    /\ owed' = [owed EXCEPT ![m][attempt'] = 1]
    /\ failed' = failed \ {m}
    /\ UNCHANGED <<producerVars, rival, settled, done, restarts>>

\* Redis hid the message and the answer was lost: receiveMessage returns nothing,
\* or raises the error of the connection.
PollUnanswered(m) ==
    /\ ConsumeNone \/ (pc = "poll" /\ Abort)
    /\ Receive(m)
    /\ failed' = failed \ {m}
    /\ UNCHANGED <<producerVars, rival, attempt, owed, settled, done, restarts>>

Handle ==
    /\ HandleValid \/ HandleInvalid \/ DLQNotConfigured
    /\ IF pc' = "produce" THEN Owe(msg, attempt, 1) ELSE UNCHANGED ghostVars
    /\ UNCHANGED <<consumerVars, producerVars, rival>>

Answer(b) ==
    /\ WorkBool(b)
    /\ IF b THEN Owe(msg, attempt, 0) ELSE UNCHANGED ghostVars
    /\ UNCHANGED <<consumerVars, producerVars, rival>>

AnswerList(l) ==
    /\ WorkList(l)
    /\ Owe(msg, attempt, Len(l))
    /\ UNCHANGED <<consumerVars, producerVars, rival>>

Crash ==
    /\ WorkRaises \/ ProduceRaises
    /\ UNCHANGED <<consumerVars, producerVars, rival, ghostVars>>

\* send_message retries: the output may be in the queue, even several times,
\* when its last attempt raises; it is there at least once when one returns.
ProduceSync(status, delivered) ==
    /\ Produce(status)
    /\ Head(outs) \notin AsyncQueues
    /\ status => delivered
    /\ IF delivered THEN Owe(msg, attempt, owed[msg][attempt] - 1)
                    ELSE UNCHANGED ghostVars
    /\ UNCHANGED <<consumerVars, producerVars, rival>>

ProduceAsync ==
    /\ Produce(TRUE)
    /\ Head(outs) \in AsyncQueues
    /\ Enqueue(Head(outs), <<msg, attempt>>)
    /\ UNCHANGED <<consumerVars, rival, ghostVars>>

\* The output could not be serialized, or librdkafka's queue is full: nothing was
\* enqueued, and no report will come.
EnqueueFails ==
    /\ AppRaises
    /\ Produce(FALSE)
    /\ Head(outs) \in AsyncQueues
    /\ UNCHANGED <<consumerVars, producerVars, rival, ghostVars>>

Succeed(t, m) ==
    /\ on_success(t, m)
    /\ done' = done \union {m}
    /\ UNCHANGED <<attempt, owed, settled, failed, restarts>>

Fail(t, m) ==
    /\ on_fail(t, m)
    /\ failed' = failed \union ({m} \intersect queue)
    /\ UNCHANGED <<attempt, owed, settled, done, restarts>>

Dispatch ==
    /\ \/ MarkSuccess /\ Succeed(Main, msg)
       \/ MarkFail /\ Fail(Main, msg)
       \/ LeaveToCallback /\ UNCHANGED <<consumerVars, ghostVars>>
    /\ UNCHANGED <<producerVars, rival>>

EndIteration ==
    /\ deleting[Main] = NotDeleting
    /\ Marked
    /\ UNCHANGED <<consumerVars, producerVars, rival, ghostVars>>

CloseProducer ==
    /\ ShutdownProducer
    /\ deleting[Main] = NotDeleting
    /\ LET q == Head(outs)
       IN  IF q \in AsyncQueues
           THEN deleting[q] = NotDeleting /\ Flushed(q)
           ELSE UNCHANGED producerVars
    /\ UNCHANGED <<consumerVars, rival, ghostVars>>

\* quit() closes the connection to Redis.
CloseConsumer ==
    /\ ShutdownConsumer
    /\ UNCHANGED <<consumerVars, producerVars, rival, ghostVars>>

-----------------------------------------------------------------------------
(* The callbacks, and the attempts of delete_message in any thread *)

\* The output reaches its topic; the report may still say it did not.
Deliver(q, i, ok) ==
    /\ pc # "down"
    /\ Report(q, i, ok)
    /\ LET m == outbox[q][i][1]
           k == outbox[q][i][2]
       IN  Owe(m, k, owed[m][k] - 1)
    /\ UNCHANGED <<engineVars, consumerVars, rival>>

Reject(q, i) ==
    /\ pc # "down"
    /\ Report(q, i, FALSE)
    /\ UNCHANGED <<engineVars, consumerVars, rival, ghostVars>>

Serves(t, q) ==
    \/ t = q /\ poller[q] = "polling"
    \/ t = Main /\ pc = "shutdown" /\ outs # << >> /\ Head(outs) = q

Callback(t, q, m, ok) ==
    /\ Serves(t, q)
    /\ deleting[t] = NotDeleting
    /\ acked(q, m, ok)
    /\ IF ok THEN Succeed(t, m) ELSE Fail(t, m)
    /\ UNCHANGED <<engineVars, rival>>

\* Messages that are no longer in the queue cannot be received again.
Forget ==
    /\ failed' = failed \intersect queue'
    /\ UNCHANGED <<attempt, owed, settled, done, restarts>>

StepDelete(t) ==
    /\ DeleteReturns(t) \/ DeleteRetries(t)
    /\ Forget
    /\ UNCHANGED <<engineVars, producerVars, rival>>

\* Mutant of StepRaises: retry(reraise=False), its RetryError swallowed.
StepRaisesSwallowed(t) ==
    /\ DeleteRaises(t)
    /\ Forget
    /\ UNCHANGED <<engineVars, producerVars, rival>>

StepRaises(t) ==
    /\ DeleteRaises(t)
    /\ IF t = Main
       THEN Abort /\ UNCHANGED producerVars
       ELSE PollThreadDies(t) /\ UNCHANGED engineVars
    /\ Forget
    /\ UNCHANGED rival

-----------------------------------------------------------------------------
(* Redis, the other workers, and the process *)

Expire(m) ==
    /\ VtExpires(m)
    /\ UNCHANGED <<engineVars, producerVars, rival, ghostVars>>

RivalReceives(m) ==
    /\ Rivals
    /\ rival[m] = "none"
    /\ Receive(m)
    /\ rival' = [rival EXCEPT ![m] = "working"]
    /\ failed' = failed \ {m}
    /\ UNCHANGED <<engineVars, producerVars, attempt, owed, settled, done, restarts>>

RivalSettles(m) ==
    /\ rival[m] = "working"
    /\ rival' = [rival EXCEPT ![m] = "done"]
    /\ settled' = settled \union {m}
    /\ UNCHANGED <<engineVars, consumerVars, producerVars>>
    /\ UNCHANGED <<attempt, owed, done, failed, restarts>>

RivalDeletes(m) ==
    /\ rival[m] = "done"
    /\ rival' = [rival EXCEPT ![m] = "none"]
    /\ DeleteMessage(m)
    /\ Forget
    /\ UNCHANGED <<engineVars, producerVars, deleting>>

RivalFails(m) ==
    /\ rival[m] # "none"
    /\ rival' = [rival EXCEPT ![m] = "none"]
    /\ UNCHANGED <<engineVars, consumerVars, producerVars, ghostVars>>

Signal ==
    /\ pc \in Running
    /\ ~killNow
    /\ exit_gracefully
    /\ UNCHANGED <<consumerVars, producerVars, rival, ghostVars>>

Die ==
    /\ Vanish
    /\ Reopen
    /\ Reconnect
    /\ done' = {}
    /\ UNCHANGED <<rival, attempt, owed, settled, failed, restarts>>

Restart ==
    /\ Start
    /\ restarts < MaxRestarts
    /\ restarts' = restarts + 1
    /\ UNCHANGED <<consumerVars, producerVars, rival>>
    /\ UNCHANGED <<attempt, owed, settled, done, failed>>

\* The bound is reached and no process is left.
Terminated ==
    /\ pc = "down"
    /\ restarts = MaxRestarts
    /\ UNCHANGED vars

-----------------------------------------------------------------------------

MainStep ==
    \/ CheckKillNow
    \/ PollNothing
    \/ Handle
    \/ \E b \in AppBools : Answer(b)
    \/ \E l \in AppLists : AnswerList(l)
    \/ Crash
    \/ \E s, d \in BOOLEAN : ProduceSync(s, d)
    \/ ProduceAsync
    \/ EnqueueFails
    \/ Dispatch
    \/ EndIteration
    \/ CloseProducer
    \/ CloseConsumer

DeleteStep(t) == StepDelete(t) \/ StepRaises(t)

Outcome(q) ==
    \E i \in DOMAIN outbox[q] :
        Reject(q, i) \/ \E ok \in BOOLEAN : Deliver(q, i, ok)

Serve(t, q) == \E m \in Messages, ok \in BOOLEAN : Callback(t, q, m, ok)

Next ==
    \/ MainStep
    \/ \E m \in Messages : Poll(m) \/ PollUnanswered(m) \/ Expire(m)
    \/ \E m \in Messages : \/ RivalReceives(m) \/ RivalSettles(m)
                           \/ RivalDeletes(m) \/ RivalFails(m)
    \/ \E q \in AsyncQueues : Outcome(q)
    \/ \E t \in Threads, q \in AsyncQueues : Serve(t, q)
    \/ \E t \in Threads : DeleteStep(t)
    \/ Signal
    \/ Die
    \/ Restart
    \/ Terminated

Spec == Init /\ [][Next]_vars

\* Every thread goes on, and every output in flight gets an outcome; Redis ends a visibility
\* timeout; a queue that is polled again and again with m visible returns m.
Fairness ==
    /\ WF_vars(MainStep)
    /\ \A q \in AsyncQueues : WF_vars(Outcome(q))
    /\ \A t \in Threads : WF_vars(DeleteStep(t))
    /\ \A q \in AsyncQueues : WF_vars(Serve(q, q)) /\ WF_vars(Serve(Main, q))
    /\ \A m \in Messages : WF_vars(Expire(m)) /\ SF_vars(Poll(m))

FairSpec == Spec /\ Fairness

-----------------------------------------------------------------------------
(* Properties *)

\* A message is deleted only when some worker completed an attempt at it, and
\* every output of that attempt was sent: "if a synchronous producer failed -
\* mark it failed".
AtLeastOnce == \A m \in Messages \ queue : m \in settled

\* RSMQWorker implements what Delivery promises; a removed message is a deleted
\* one, and it never comes back.
Promise == INSTANCE Delivery WITH removed <- Messages \ queue

ImplementsDelivery == Promise!Spec

\* A process that stops gracefully has deleted all it called on_success for:
\* none of them is handled again by the next one.
DoneIsDeleted == pc = "stopped" => done \intersect queue = {}

\* "message will become visible once visibility timeout expires": a message that
\* failed is received again, by this worker or another, unless this one ends.
Redelivered ==
    \A m \in Messages : m \in failed ~> (m \notin failed \/ pc \in Ended)

\* A signal ends the process, whatever Redis answers to its deletes.
KillEnds == killNow ~> pc \in Ended
=============================================================================
