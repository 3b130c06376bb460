--------------------------- MODULE RSMQWorkerProofs ---------------------------
(***************************************************************************)
(* Proofs about RSMQWorker: at-least-once delivery, with rivals, retries,  *)
(* timeouts and crashes, for applications that answer each message with    *)
(* one output or with synchronous ones only.  Where a list mixes them it   *)
(* is false (run rsmq_mixed).                                              *)
(***************************************************************************)
EXTENDS RSMQWorker, EngineProofs

-----------------------------------------------------------------------------
(* Types, component by component *)

ConsumerStep ==
    \/ \E m \in Messages : Receive(m) \/ VtExpires(m)
    \/ \E t \in Threads, m \in Messages : on_success(t, m)
    \/ \E m \in Messages : DeleteMessage(m) /\ UNCHANGED deleting
    \/ \E t \in Threads : DeleteReturns(t) \/ DeleteRetries(t) \/ DeleteRaises(t)
    \/ Reopen
    \/ UNCHANGED consumerVars

\* The deletion that a thread runs.
LEMMA RunningDelete ==
    ASSUME ConsumerTypeOK, NEW t \in Threads, deleting[t] # NotDeleting
    PROVE  deleting[t] \in Deletes /\ deleting[t].msg \in Messages
BY DEF ConsumerTypeOK, Deletes

\* What an attempt to delete may do: nothing, or delete the message.
LEMMA DeleteEffect ==
    ASSUME NEW t \in Threads,
           DeleteReturns(t) \/ DeleteRetries(t) \/ DeleteRaises(t)
    PROVE  /\ deleting[t] # NotDeleting
           /\ \/ UNCHANGED <<queue, hidden>>
              \/ DeleteMessage(deleting[t].msg)
BY DEF DeleteReturns, DeleteRetries, DeleteRaises, Unanswered

\* An attempt leaves the thread with the same deletion, or with none.
LEMMA DeleteFrame ==
    ASSUME ConsumerTypeOK, NEW t \in Threads,
           DeleteReturns(t) \/ DeleteRetries(t) \/ DeleteRaises(t)
    PROVE  /\ deleting' \in [Threads -> Deletes \union {NotDeleting}]
           /\ deleting'[t] # NotDeleting => deleting'[t].msg = deleting[t].msg
           /\ \A u \in Threads \ {t} : deleting'[u] = deleting[u]
<1>1. CASE Return(t)
  BY <1>1 DEF Return, ConsumerTypeOK
<1>2. CASE DeleteRetries(t)
  <2>1. deleting[t] \in Deletes /\ deleting[t].left > 1
    BY <1>2, RunningDelete DEF DeleteRetries, Unanswered
  <2> DEFINE rest == deleting[t].left - 1
  <2>2. deleting'[t] = [deleting[t] EXCEPT !.left = rest]
    BY <1>2 DEF DeleteRetries, ConsumerTypeOK
  <2>3. /\ [deleting[t] EXCEPT !.left = rest] \in Deletes
        /\ [deleting[t] EXCEPT !.left = rest].msg = deleting[t].msg
    BY <2>1, DeleteAttemptsAssumption DEF Deletes
  <2>4. DOMAIN deleting' = Threads /\ \A u \in Threads \ {t} : deleting'[u] = deleting[u]
    BY <1>2 DEF DeleteRetries, ConsumerTypeOK
  <2>5. deleting' \in [Threads -> Deletes \union {NotDeleting}]
    BY <1>2, <2>2, <2>3, <2>4 DEF DeleteRetries, ConsumerTypeOK
  <2> QED
    BY <2>2, <2>3, <2>4, <2>5
<1> QED
  BY <1>1, <1>2 DEF DeleteReturns, DeleteRaises

\* Every operation of the consumer, and every attempt to delete, keeps the types.
LEMMA ConsumerTypes ==
    ASSUME ConsumerTypeOK, ConsumerStep
    PROVE  ConsumerTypeOK'
<1> USE DEF ConsumerTypeOK
<1>1. ASSUME NEW m \in Messages, Receive(m) \/ VtExpires(m) PROVE ConsumerTypeOK'
  BY <1>1 DEF Receive, VtExpires
<1>2. ASSUME NEW t \in Threads, NEW m \in Messages, on_success(t, m)
      PROVE  ConsumerTypeOK'
  <2>1. [msg |-> m, left |-> DeleteAttempts] \in Deletes
    BY DeleteAttemptsAssumption DEF Deletes
  <2> QED
    BY <1>2, <2>1 DEF on_success
<1>3. ASSUME NEW m \in Messages, DeleteMessage(m), UNCHANGED deleting
      PROVE  ConsumerTypeOK'
  BY <1>3 DEF DeleteMessage
<1>4. ASSUME NEW t \in Threads,
             DeleteReturns(t) \/ DeleteRetries(t) \/ DeleteRaises(t)
      PROVE  ConsumerTypeOK'
  <2>1. queue' \subseteq Messages /\ hidden' \subseteq queue'
    BY <1>4, DeleteEffect DEF DeleteMessage
  <2> QED
    BY <1>4, <2>1, DeleteFrame
<1>5. CASE Reopen \/ UNCHANGED consumerVars
  BY <1>5 DEF Reopen, consumerVars
<1> QED
  BY <1>1, <1>2, <1>3, <1>4, <1>5 DEF ConsumerStep

\* Each step of the worker is one step, or none, of its main thread ...
LEMMA EngineComposes == [Next]_vars => EngineStep
<1> USE DEF EngineStep
<1>1. CheckKillNow \/ PollNothing \/ Handle \/ Crash => EngineStep
  BY DEF CheckKillNow, PollNothing, Handle, Crash
<1>2. \A b \in AppBools : Answer(b) => EngineStep
  BY DEF Answer
<1>3. \A l \in AppLists : AnswerList(l) => EngineStep
  BY DEF AnswerList
<1>4. \A status, delivered \in BOOLEAN : ProduceSync(status, delivered) => EngineStep
  BY DEF ProduceSync
<1>5. ProduceAsync \/ EnqueueFails \/ Dispatch \/ EndIteration => EngineStep
  BY DEF ProduceAsync, EnqueueFails, Dispatch, EndIteration
<1>6. CloseProducer \/ CloseConsumer => EngineStep
  BY DEF CloseProducer, CloseConsumer
<1>7. \A m \in Messages : Poll(m) \/ PollUnanswered(m) \/ Expire(m) => EngineStep
  BY DEF Poll, PollUnanswered, Expire
<1>8. \A m \in Messages :
          RivalReceives(m) \/ RivalSettles(m) \/ RivalDeletes(m) \/ RivalFails(m)
          => EngineStep
  BY DEF RivalReceives, RivalSettles, RivalDeletes, RivalFails
<1>9. \A q \in AsyncQueues : Outcome(q) => EngineStep
  BY DEF Outcome, Deliver, Reject
<1>10. \A t \in Threads, q \in AsyncQueues : Serve(t, q) => EngineStep
  BY DEF Serve, Callback
<1>11. \A t \in Threads : DeleteStep(t) => EngineStep
  BY DEF DeleteStep, StepDelete, StepRaises
<1>12. Signal \/ Die \/ Restart \/ Terminated \/ UNCHANGED vars => EngineStep
  BY DEF Signal, Die, Restart, Terminated, vars
<1> QED
  BY <1>1, <1>2, <1>3, <1>4, <1>5, <1>6, <1>7, <1>8, <1>9, <1>10, <1>11, <1>12
  DEF Next, MainStep

\* ... of its consumer ...
LEMMA ConsumerComposes ==
    ASSUME TypeOK, [Next]_vars
    PROVE  ConsumerStep
<1> USE DEF ConsumerStep
<1>0. /\ Main \in Threads /\ AsyncQueues \subseteq Threads
      /\ pc = "produce" => msg \in Messages
  BY DEF Threads, TypeOK, EngineTypeOK, Holding
<1>1. CASE MainStep
  <2>1. CASE Dispatch
    BY <1>0, <2>1 DEF Dispatch, MarkSuccess, MarkFail, Produced, Succeed, Fail, on_fail
  <2>2. CASE ~Dispatch
    BY <1>1, <2>2
    DEF MainStep, CheckKillNow, PollNothing, Handle, Answer, AnswerList, Crash,
        ProduceSync, ProduceAsync, EnqueueFails, EndIteration, CloseProducer,
        CloseConsumer
  <2> QED
    BY <2>1, <2>2
<1>2. ASSUME NEW m \in Messages, Poll(m) \/ PollUnanswered(m) \/ Expire(m)
      PROVE  ConsumerStep
  BY <1>2 DEF Poll, PollUnanswered, Expire
<1>3. ASSUME NEW m \in Messages,
             RivalReceives(m) \/ RivalSettles(m) \/ RivalDeletes(m) \/ RivalFails(m)
      PROVE  ConsumerStep
  BY <1>3 DEF RivalReceives, RivalSettles, RivalDeletes, RivalFails
<1>4. ASSUME NEW q \in AsyncQueues, Outcome(q) PROVE ConsumerStep
  BY <1>4 DEF Outcome, Deliver, Reject
<1>5. ASSUME NEW t \in Threads, NEW q \in AsyncQueues, Serve(t, q)
      PROVE  ConsumerStep
  BY <1>5 DEF Serve, Callback, Succeed, Fail, on_fail
<1>6. ASSUME NEW t \in Threads, DeleteStep(t) PROVE ConsumerStep
  BY <1>6 DEF DeleteStep, StepDelete, StepRaises
<1>7. CASE Signal \/ Die \/ Restart \/ Terminated \/ UNCHANGED vars
  BY <1>7 DEF Signal, Die, Restart, Terminated, vars
<1> QED
  BY <1>1, <1>2, <1>3, <1>4, <1>5, <1>6, <1>7 DEF Next

\* ... and of its producers.
LEMMA ProducersCompose ==
    ASSUME TypeOK, [Next]_vars
    PROVE  ProducerStep
<1> USE DEF ProducerStep
<1>1. CASE MainStep
  <2>1. CASE ProduceAsync
    <3>1. <<msg, attempt>> \in Outputs
      BY <2>1 DEF ProduceAsync, Produce, TypeOK, EngineTypeOK, Holding, Outputs,
                  Attempts
    <3> QED
      BY <2>1, <3>1 DEF ProduceAsync
  <2>2. CASE ~ProduceAsync
    BY <1>1, <2>2
    DEF MainStep, CheckKillNow, PollNothing, Handle, Answer, AnswerList, Crash,
        ProduceSync, EnqueueFails, Dispatch, EndIteration, CloseProducer,
        CloseConsumer
  <2> QED
    BY <2>1, <2>2
<1>2. ASSUME NEW m \in Messages, Poll(m) \/ PollUnanswered(m) \/ Expire(m)
      PROVE  ProducerStep
  BY <1>2 DEF Poll, PollUnanswered, Expire
<1>3. ASSUME NEW m \in Messages,
             RivalReceives(m) \/ RivalSettles(m) \/ RivalDeletes(m) \/ RivalFails(m)
      PROVE  ProducerStep
  BY <1>3 DEF RivalReceives, RivalSettles, RivalDeletes, RivalFails
<1>4. ASSUME NEW q \in AsyncQueues, Outcome(q) PROVE ProducerStep
  <2>1. PICK i \in DOMAIN outbox[q], ok \in BOOLEAN : Report(q, i, ok)
    BY <1>4 DEF Outcome, Deliver, Reject
  <2>2. i \in Nat
    BY DEF TypeOK, ProducerTypeOK
  <2> QED
    BY <2>1, <2>2
<1>5. ASSUME NEW t \in Threads, NEW q \in AsyncQueues, Serve(t, q)
      PROVE  ProducerStep
  BY <1>5 DEF Serve, Callback
<1>6. ASSUME NEW t \in Threads, DeleteStep(t) PROVE ProducerStep
  <2>1. UNCHANGED producerVars \/ (t # Main /\ PollThreadDies(t))
    BY <1>6 DEF DeleteStep, StepDelete, StepRaises
  <2> QED
    BY <2>1 DEF Threads
<1>7. CASE Signal \/ Die \/ Restart \/ Terminated \/ UNCHANGED vars
  BY <1>7 DEF Signal, Die, Restart, Terminated, vars
<1> QED
  BY <1>1, <1>2, <1>3, <1>4, <1>5, <1>6, <1>7 DEF Next

GhostTypeOK ==
    /\ rival \in [Messages -> {"none", "working", "done"}]
    /\ attempt \in Attempts
    /\ settled \subseteq Messages
    /\ done \subseteq Messages
    /\ failed \subseteq Messages
    /\ restarts \in 0..MaxRestarts

LEMMA GhostTypes ==
    ASSUME TypeOK, [Next]_vars
    PROVE  GhostTypeOK'
<1> USE DEF TypeOK, GhostTypeOK
<1>0. pc \in Holding => msg \in Messages
  BY DEF EngineTypeOK
<1>1. CASE MainStep
  <2>1. ASSUME NEW n, Owe(msg, attempt, n), UNCHANGED rival, pc \in Holding
        PROVE  GhostTypeOK'
    BY <1>0, <2>1 DEF Owe
  <2>2. CASE Handle \/ \E b \in AppBools : Answer(b)
    BY <2>1, <2>2 DEF Handle, HandleValid, HandleInvalid, DLQNotConfigured,
                      Answer, WorkBool, Holding, ghostVars
  <2>3. ASSUME NEW l \in AppLists, AnswerList(l) PROVE GhostTypeOK'
    BY <2>1, <2>3 DEF AnswerList, WorkList, Holding
  <2>4. ASSUME NEW status, NEW delivered, ProduceSync(status, delivered)
        PROVE  GhostTypeOK'
    BY <2>1, <2>4 DEF ProduceSync, Produce, Holding, ghostVars
  <2>5. CASE Dispatch
    BY <1>0, <2>5 DEF Dispatch, MarkSuccess, MarkFail, Produced, Succeed, Fail,
                      Holding, ghostVars
  <2>6. CASE UNCHANGED <<rival, ghostVars>>
    BY <2>6 DEF ghostVars
  <2> QED
    BY <1>1, <2>2, <2>3, <2>4, <2>5, <2>6
    DEF MainStep, CheckKillNow, PollNothing, Crash, ProduceAsync, EnqueueFails,
        EndIteration, CloseProducer, CloseConsumer
<1>2. ASSUME NEW m \in Messages, Poll(m) PROVE GhostTypeOK'
  <2>1. attempt' \in Free(m)
    BY <1>2 DEF Poll
  <2> QED
    BY <1>2, <2>1 DEF Poll, Free
<1>3. ASSUME NEW m \in Messages, PollUnanswered(m) \/ Expire(m)
      PROVE  GhostTypeOK'
  BY <1>3 DEF PollUnanswered, Expire, ghostVars
<1>4. ASSUME NEW m \in Messages,
             RivalReceives(m) \/ RivalSettles(m) \/ RivalDeletes(m) \/ RivalFails(m)
      PROVE  GhostTypeOK'
  BY <1>4 DEF RivalReceives, RivalSettles, RivalDeletes, RivalFails, Forget,
              ghostVars
<1>5. ASSUME NEW q \in AsyncQueues, Outcome(q) PROVE GhostTypeOK'
  <2>1. CASE \E i \in DOMAIN outbox[q] : Reject(q, i)
    BY <2>1 DEF Reject, ghostVars
  <2>2. ASSUME NEW i \in DOMAIN outbox[q], NEW ok, Deliver(q, i, ok)
        PROVE  GhostTypeOK'
    <3>1. outbox[q][i][1] \in Messages
      BY DEF ProducerTypeOK, Outputs
    <3> QED
      BY <2>2, <3>1 DEF Deliver, Owe
  <2> QED
    BY <1>5, <2>1, <2>2 DEF Outcome
<1>6. ASSUME NEW t \in Threads, NEW q \in AsyncQueues, Serve(t, q)
      PROVE  GhostTypeOK'
  BY <1>6 DEF Serve, Callback, Succeed, Fail
<1>7. ASSUME NEW t \in Threads, DeleteStep(t) PROVE GhostTypeOK'
  BY <1>7 DEF DeleteStep, StepDelete, StepRaises, Forget
<1>8. CASE Signal \/ Die \/ Terminated \/ UNCHANGED vars
  BY <1>8 DEF Signal, Die, Terminated, vars, ghostVars
<1>9. CASE Restart
  BY <1>9, RSMQWorkerAssumption DEF Restart
<1> QED
  BY <1>1, <1>2, <1>3, <1>4, <1>5, <1>6, <1>7, <1>8, <1>9 DEF Next

-----------------------------------------------------------------------------
(* The inductive invariant, in named parts *)

\* What is deleted, about to be deleted, or reported as delivered is settled.
DeletedIsSettled ==
    /\ \A m \in Messages \ queue : m \in settled
    /\ \A t \in Threads : deleting[t] # NotDeleting => deleting[t].msg \in settled
    /\ \A m \in Messages : rival[m] = "done" => m \in settled
    /\ \A q \in AsyncQueues, m \in Messages :
          <<m, TRUE>> \in Range(dr[q]) => m \in settled

InFlight(m, k) == \E q \in AsyncQueues : <<m, k>> \in Range(outbox[q])

\* An output in flight is the one that its attempt still owes, and the only one:
\* so the first report of success speaks for the whole attempt.
InFlightIsOwed ==
    /\ outbox \in [AsyncQueues -> Seq(Messages \X Attempts)]
    /\ \A q \in AsyncQueues : IsInjective(outbox[q])
    /\ \A q, r \in AsyncQueues :
          q # r => Range(outbox[q]) \intersect Range(outbox[r]) = {}
    /\ \A m \in Messages, k \in Attempts : InFlight(m, k) => owed[m][k] = 1

\* Until its output is enqueued the attempt in hand has none in flight.
HandIsFree ==
    \/ pc \in {"handle", "work"}
    \/ pc = "produce" /\ outs # << >>
    => ~InFlight(msg, attempt)

\* The attempt in hand owes the outputs that are still to be produced, and with
\* every one of them delivered the message is settled.
OwedIsUnproduced ==
    pc = "produce" =>
        /\ owed[msg][attempt] >= Len(outs)
        /\ \/ \A i \in DOMAIN outs : outs[i] \notin AsyncQueues
           \/ Len(outs) = 1 /\ owed[msg][attempt] = 1
        /\ (\A r \in reports : r.status /\ ~r.asynchronous) =>
              IF outs = << >> THEN msg \in settled
                              ELSE owed[msg][attempt] = Len(outs)

WorkerInv ==
    /\ DeletedIsSettled
    /\ InFlightIsOwed
    /\ HandIsFree
    /\ NoOutsYet
    /\ OwedIsUnproduced

-----------------------------------------------------------------------------
(* What the steps of the invariant rest on *)

\* What the types say, in the form the steps below use it.
LEMMA WorkerTypes ==
    ASSUME TypeOK
    PROVE  /\ pc \in Holding => msg \in Messages
           /\ attempt \in Attempts /\ Attempts \subseteq Nat
           /\ outs \in Seq(Queues)
           /\ reports \in SUBSET DeliveryReport
           /\ owed \in [Messages -> [Attempts -> Nat]]
           /\ queue \subseteq Messages
           /\ outbox \in [AsyncQueues -> Seq(Outputs)]
           /\ dr \in [AsyncQueues -> Seq(Messages \X BOOLEAN)]
           /\ Main \in Threads /\ AsyncQueues \subseteq Threads
           /\ rival \in [Messages -> {"none", "working", "done"}]
BY DEF TypeOK, EngineTypeOK, ConsumerTypeOK, ProducerTypeOK, Holding, Attempts,
       Threads

\* Settling the account of one attempt leaves every other one alone.
LEMMA OweEffect ==
    ASSUME TypeOK, NEW m \in Messages, NEW k \in Attempts, NEW n \in Nat,
           Owe(m, k, n)
    PROVE  /\ owed' \in [Messages -> [Attempts -> Nat]]
           /\ owed'[m][k] = n
           /\ \A x \in Messages, j \in Attempts :
                 x # m \/ j # k => owed'[x][j] = owed[x][j]
           /\ n = 0 => m \in settled'
           /\ settled \subseteq settled' /\ settled' \subseteq settled \union {m}
           /\ UNCHANGED attempt
<1>1. owed' = [owed EXCEPT ![m] = [owed[m] EXCEPT ![k] = n]]
  BY WorkerTypes DEF Owe
<1>2. owed[m] \in [Attempts -> Nat]
  BY WorkerTypes
<1>3. owed'[m] = [owed[m] EXCEPT ![k] = n] /\ \A x \in Messages : x # m => owed'[x] = owed[x]
  BY <1>1, WorkerTypes
<1> QED
  BY <1>1, <1>2, <1>3, WorkerTypes DEF Owe

\* The steps of the main thread that settle the account of the attempt in hand.
Accounting ==
    \/ Handle
    \/ \E b \in AppBools : Answer(b)
    \/ \E l \in AppLists : AnswerList(l)
    \/ \E status, delivered \in BOOLEAN : ProduceSync(status, delivered)

\* No other step but the delivery of an output and the next receipt changes what
\* an attempt owes, or whose turn it is.
LEMMA OwedChanges ==
    ASSUME [Next]_vars
    PROVE  \/ owed' = owed /\ attempt' = attempt
           \/ Accounting
           \/ \E m \in Messages : Poll(m)
           \/ \E q \in AsyncQueues : Outcome(q)
<1> DEFINE Same == owed' = owed /\ attempt' = attempt
<1>1. CASE MainStep
  BY <1>1 DEF MainStep, Accounting, CheckKillNow, PollNothing, Crash, ProduceAsync,
              EnqueueFails, Dispatch, Succeed, Fail, EndIteration, CloseProducer,
              CloseConsumer, ghostVars
<1>2. ASSUME NEW m \in Messages, PollUnanswered(m) \/ Expire(m) PROVE Same
  BY <1>2 DEF PollUnanswered, Expire, ghostVars
<1>3. ASSUME NEW m \in Messages,
             RivalReceives(m) \/ RivalSettles(m) \/ RivalDeletes(m) \/ RivalFails(m)
      PROVE  Same
  BY <1>3 DEF RivalReceives, RivalSettles, RivalDeletes, RivalFails, Forget,
              ghostVars
<1>4. ASSUME NEW t \in Threads, NEW q \in AsyncQueues, Serve(t, q) PROVE Same
  BY <1>4 DEF Serve, Callback, Succeed, Fail
<1>5. ASSUME NEW t \in Threads, DeleteStep(t) PROVE Same
  BY <1>5 DEF DeleteStep, StepDelete, StepRaises, Forget
<1>6. CASE Signal \/ Die \/ Restart \/ Terminated \/ UNCHANGED vars
  BY <1>6 DEF Signal, Die, Restart, Terminated, vars, ghostVars
<1> QED
  BY <1>1, <1>2, <1>3, <1>4, <1>5, <1>6 DEF Next

LEMMA OutboxChanges ==
    ASSUME [Next]_vars
    PROVE  \/ outbox' = outbox
           \/ ProduceAsync
           \/ \E q \in AsyncQueues : Outcome(q)
           \/ Die
<1> DEFINE Same == outbox' = outbox
<1>1. CASE MainStep
  BY <1>1 DEF MainStep, CheckKillNow, PollNothing, Handle, Answer, AnswerList,
              Crash, ProduceSync, EnqueueFails, Dispatch, EndIteration,
              CloseProducer, Flushed, CloseConsumer, producerVars
<1>2. ASSUME NEW m \in Messages, Poll(m) \/ PollUnanswered(m) \/ Expire(m) PROVE Same
  BY <1>2 DEF Poll, PollUnanswered, Expire, producerVars
<1>3. ASSUME NEW m \in Messages,
             RivalReceives(m) \/ RivalSettles(m) \/ RivalDeletes(m) \/ RivalFails(m)
      PROVE  Same
  BY <1>3 DEF RivalReceives, RivalSettles, RivalDeletes, RivalFails, producerVars
<1>4. ASSUME NEW t \in Threads, NEW q \in AsyncQueues, Serve(t, q) PROVE Same
  BY <1>4 DEF Serve, Callback, acked
<1>5. ASSUME NEW t \in Threads, DeleteStep(t) PROVE Same
  BY <1>5 DEF DeleteStep, StepDelete, StepRaises, PollThreadDies, producerVars
<1>6. CASE Signal \/ Restart \/ Terminated \/ UNCHANGED vars
  BY <1>6 DEF Signal, Restart, Terminated, vars, producerVars
<1> QED
  BY <1>1, <1>2, <1>3, <1>4, <1>5, <1>6 DEF Next

\* The outcome of an output: it leaves q's outbox, and a report of it comes behind
\* the others; only a delivery settles the account, to 0.
LEMMA OutcomeEffect ==
    ASSUME TypeOK, WorkerInv, NEW q \in AsyncQueues, Outcome(q)
    PROVE  \E m \in Messages, k \in Attempts, ok \in BOOLEAN :
             /\ <<m, k>> \in Range(outbox[q])
             /\ <<m, k>> \notin Range(outbox'[q])
             /\ Range(outbox'[q]) \subseteq Range(outbox[q])
             /\ IsInjective(outbox'[q])
             /\ outbox' \in [AsyncQueues -> Seq(Messages \X Attempts)]
             /\ \A r \in AsyncQueues \ {q} : outbox'[r] = outbox[r] /\ dr'[r] = dr[r]
             /\ dr'[q] = Append(dr[q], <<m, ok>>)
             /\ Owe(m, k, 0) \/ (ok = FALSE /\ UNCHANGED ghostVars)
             /\ UNCHANGED <<engineVars, consumerVars, rival>>
<1>1. /\ outbox \in [AsyncQueues -> Seq(Messages \X Attempts)]
      /\ IsInjective(outbox[q])
  BY DEF WorkerInv, InFlightIsOwed
<1>2. PICK i \in DOMAIN outbox[q], ok \in BOOLEAN :
          /\ Report(q, i, ok)
          /\ \/ Owe(outbox[q][i][1], outbox[q][i][2],
                    owed[outbox[q][i][1]][outbox[q][i][2]] - 1)
             \/ ok = FALSE /\ UNCHANGED ghostVars
          /\ UNCHANGED <<engineVars, consumerVars, rival>>
  BY DEF Outcome, Deliver, Reject
<1>3. PICK m \in Messages, k \in Attempts : outbox[q][i] = <<m, k>>
  BY <1>1
<1>4. <<m, k>> \in Range(outbox[q])
  BY <1>3 DEF Range
<1>5. owed[m][k] = 1
  BY <1>4 DEF WorkerInv, InFlightIsOwed, InFlight
<1>6. outbox' = [outbox EXCEPT ![q] = RemoveAt(outbox[q], i)]
  BY <1>2 DEF Report
<1>7. /\ outbox'[q] = RemoveAt(outbox[q], i)
      /\ \A r \in AsyncQueues \ {q} : outbox'[r] = outbox[r]
  BY <1>1, <1>6
<1>8. /\ RemoveAt(outbox[q], i) \in Seq(Messages \X Attempts)
      /\ Range(outbox[q]) = {outbox[q][i]} \union Range(RemoveAt(outbox[q], i))
      /\ IsInjective(RemoveAt(outbox[q], i))
      /\ outbox[q][i] \notin Range(RemoveAt(outbox[q], i))
  BY <1>1, RemoveRange, RemoveFresh
<1>9. outbox' \in [AsyncQueues -> Seq(Messages \X Attempts)]
  BY <1>1, <1>6, <1>8
<1>10. /\ dr'[q] = Append(dr[q], <<m, ok>>)
       /\ \A r \in AsyncQueues \ {q} : dr'[r] = dr[r]
  BY <1>2, <1>3, WorkerTypes DEF Report
<1>11. Owe(m, k, 0) \/ (ok = FALSE /\ UNCHANGED ghostVars)
  BY <1>2, <1>3, <1>5
<1> QED
  BY <1>2, <1>3, <1>4, <1>7, <1>8, <1>9, <1>10, <1>11

\* An accounting step is about the attempt in hand, which has no output in flight.
LEMMA AccountingEffect ==
    ASSUME TypeOK, WorkerInv, Accounting
    PROVE  /\ msg \in Messages /\ ~InFlight(msg, attempt)
           /\ owed' \in [Messages -> [Attempts -> Nat]]
           /\ \A x \in Messages, k \in Attempts :
                 x # msg \/ k # attempt => owed'[x][k] = owed[x][k]
           /\ UNCHANGED <<consumerVars, producerVars, rival, attempt, msg>>
<1>1. /\ msg \in Messages
      /\ pc \in {"handle", "work"} \/ (pc = "produce" /\ outs # << >>)
      /\ UNCHANGED <<consumerVars, producerVars, rival, msg>>
  BY WorkerTypes
  DEF Accounting, Handle, HandleValid, HandleInvalid, DLQNotConfigured, Answer,
      WorkBool, AnswerList, WorkList, ProduceSync, Produce, Holding
<1>2. \/ \E n \in Nat : Owe(msg, attempt, n)
      \/ UNCHANGED ghostVars
  <2>1. CASE Handle \/ \E b \in AppBools : Answer(b)
    BY <2>1 DEF Handle, Answer
  <2>2. ASSUME NEW l \in AppLists, AnswerList(l)
        PROVE  \E n \in Nat : Owe(msg, attempt, n)
    <3>1. Len(l) \in Nat
      BY QueueFacts
    <3> QED
      BY <2>2, <3>1 DEF AnswerList
  <2>3. ASSUME NEW status \in BOOLEAN, NEW delivered \in BOOLEAN,
               ProduceSync(status, delivered)
        PROVE  \/ \E n \in Nat : Owe(msg, attempt, n)
               \/ UNCHANGED ghostVars
    <3>1. Len(outs) \in Nat /\ Len(outs) # 0
      BY <2>3, WorkerTypes, EmptySeq DEF ProduceSync, Produce
    <3>2. owed[msg][attempt] >= Len(outs)
      BY <2>3 DEF ProduceSync, Produce, WorkerInv, OwedIsUnproduced
    <3>3. owed[msg][attempt] - 1 \in Nat
      BY <1>1, <3>1, <3>2, WorkerTypes
    <3> QED
      BY <2>3, <3>3 DEF ProduceSync
  <2> QED
    BY <2>1, <2>2, <2>3 DEF Accounting
<1>3. ~InFlight(msg, attempt)
  BY <1>1 DEF WorkerInv, HandIsFree
<1> QED
  BY <1>1, <1>2, <1>3, OweEffect, WorkerTypes DEF ghostVars

\* The next receipt opens an account that no output in flight is of.
LEMMA PollEffect ==
    ASSUME TypeOK, NEW m \in Messages, Poll(m)
    PROVE  /\ msg' = m /\ attempt' \in Attempts /\ ~InFlight(m, attempt')
           /\ owed' \in [Messages -> [Attempts -> Nat]]
           /\ \A x \in Messages, k \in Attempts :
                 x # m \/ k # attempt' => owed'[x][k] = owed[x][k]
           /\ UNCHANGED <<outbox, dr, queue, deleting, rival, settled>>
<1>1. attempt' \in Free(m)
  BY DEF Poll
<1>2. attempt' \in Attempts /\ ~InFlight(m, attempt')
  BY <1>1 DEF Free, InFlight
<1>3. owed' = [owed EXCEPT ![m] = [owed[m] EXCEPT ![attempt'] = 1]]
  BY WorkerTypes DEF Poll
<1>4. /\ owed'[m] = [owed[m] EXCEPT ![attempt'] = 1]
      /\ \A x \in Messages : x # m => owed'[x] = owed[x]
  BY <1>3, WorkerTypes
<1>5. owed[m] \in [Attempts -> Nat]
  BY WorkerTypes
<1> QED
  BY <1>2, <1>3, <1>4, <1>5, WorkerTypes DEF Poll, Consume, Receive, producerVars

-----------------------------------------------------------------------------
(* Each part of the invariant is kept by every step *)

LEMMA OwedTypes ==
    ASSUME TypeOK, WorkerInv, [Next]_vars
    PROVE  owed' \in [Messages -> [Attempts -> Nat]]
<1>1. CASE Accounting
  BY <1>1, AccountingEffect
<1>2. ASSUME NEW m \in Messages, Poll(m)
      PROVE  owed' \in [Messages -> [Attempts -> Nat]]
  BY <1>2, PollEffect
<1>3. ASSUME NEW q \in AsyncQueues, Outcome(q)
      PROVE  owed' \in [Messages -> [Attempts -> Nat]]
  <2>1. PICK m \in Messages, k \in Attempts :
            Owe(m, k, 0) \/ UNCHANGED ghostVars
    BY <1>3, OutcomeEffect
  <2> QED
    BY <2>1, OweEffect, WorkerTypes DEF ghostVars
<1> QED
  BY <1>1, <1>2, <1>3, OwedChanges, WorkerTypes

\* The async output that the main thread produces is the last of its list, and
\* all that the attempt owes.
LEMMA AsyncOutput ==
    ASSUME TypeOK, WorkerInv, ProduceAsync
    PROVE  /\ msg \in Messages /\ Head(outs) \in AsyncQueues
           /\ Tail(outs) = << >>
           /\ owed[msg][attempt] = 1 /\ ~InFlight(msg, attempt)
           /\ outbox' = [outbox EXCEPT ![Head(outs)] =
                            Append(outbox[Head(outs)], <<msg, attempt>>)]
           /\ outs' = Tail(outs) /\ \E r \in reports' : r.asynchronous
           /\ UNCHANGED <<dr, msg, pc, consumerVars, rival, ghostVars>>
<1>1. /\ pc = "produce" /\ outs # << >> /\ Head(outs) \in AsyncQueues
      /\ UNCHANGED <<dr, msg, pc, consumerVars, rival, ghostVars>>
      /\ outs' = Tail(outs)
      /\ outbox' = [outbox EXCEPT ![Head(outs)] =
                       Append(outbox[Head(outs)], <<msg, attempt>>)]
  BY DEF ProduceAsync, Produce, Enqueue
<1>2. \E r \in reports' : r.asynchronous
  <2>1. [asynchronous |-> Head(outs) \in AsyncQueues, status |-> TRUE] \in reports'
    BY DEF ProduceAsync, Produce
  <2>2. [asynchronous |-> Head(outs) \in AsyncQueues, status |-> TRUE].asynchronous
    BY <1>1
  <2> QED
    BY <2>1, <2>2
<1>3. 1 \in DOMAIN outs /\ Head(outs) = outs[1]
  BY <1>1, WorkerTypes, EmptySeq
<1>4. Len(outs) = 1 /\ owed[msg][attempt] = 1
  BY <1>1, <1>3 DEF WorkerInv, OwedIsUnproduced
<1>5. Tail(outs) = << >>
  <2>1. Tail(outs) \in Seq(Queues) /\ Len(Tail(outs)) = 0
    BY <1>1, <1>4, WorkerTypes, HeadTailProperties
  <2> QED
    BY <2>1, EmptySeq
<1>6. msg \in Messages /\ ~InFlight(msg, attempt)
  BY <1>1, WorkerTypes DEF WorkerInv, HandIsFree, Holding
<1> QED
  BY <1>1, <1>2, <1>4, <1>5, <1>6

LEMMA InFlightStep ==
    ASSUME TypeOK, WorkerInv, [Next]_vars
    PROVE  InFlightIsOwed'
<1>0. InFlightIsOwed
  BY DEF WorkerInv
<1>1. CASE outbox' = outbox /\ owed' = owed
  BY <1>0, <1>1 DEF InFlightIsOwed, InFlight
<1>2. CASE Accounting
  <2>1. outbox' = outbox
    BY <1>2, AccountingEffect DEF producerVars
  <2>2. \A x \in Messages, k \in Attempts :
            InFlight(x, k) => owed'[x][k] = owed[x][k]
    BY <1>2, AccountingEffect
  <2> QED
    BY <1>0, <2>1, <2>2 DEF InFlightIsOwed, InFlight
<1>3. ASSUME NEW m \in Messages, Poll(m) PROVE InFlightIsOwed'
  <2>1. outbox' = outbox
    BY <1>3, PollEffect
  <2>2. \A x \in Messages, k \in Attempts :
            InFlight(x, k) => owed'[x][k] = owed[x][k]
    BY <1>3, PollEffect
  <2> QED
    BY <1>0, <2>1, <2>2 DEF InFlightIsOwed, InFlight
<1>4. ASSUME NEW q \in AsyncQueues, Outcome(q) PROVE InFlightIsOwed'
  <2>1. PICK m \in Messages, k \in Attempts :
             /\ <<m, k>> \in Range(outbox[q])
             /\ <<m, k>> \notin Range(outbox'[q])
             /\ Range(outbox'[q]) \subseteq Range(outbox[q])
             /\ IsInjective(outbox'[q])
             /\ outbox' \in [AsyncQueues -> Seq(Messages \X Attempts)]
             /\ \A r \in AsyncQueues \ {q} : outbox'[r] = outbox[r]
             /\ Owe(m, k, 0) \/ UNCHANGED ghostVars
    BY <1>4, OutcomeEffect
  <2>2. \A r \in AsyncQueues : Range(outbox'[r]) \subseteq Range(outbox[r])
    BY <2>1
  <2>3. \A r \in AsyncQueues : <<m, k>> \notin Range(outbox'[r])
    BY <1>0, <2>1 DEF InFlightIsOwed
  <2>4. \A x \in Messages, j \in Attempts :
            x # m \/ j # k => owed'[x][j] = owed[x][j]
    BY <2>1, OweEffect DEF ghostVars
  <2>5. \A r \in AsyncQueues : IsInjective(outbox'[r])
    BY <1>0, <2>1 DEF InFlightIsOwed
  <2>6. ASSUME NEW r \in AsyncQueues, NEW s \in AsyncQueues, r # s
        PROVE  Range(outbox'[r]) \intersect Range(outbox'[s]) = {}
    BY <1>0, <2>2, <2>6 DEF InFlightIsOwed
  <2>7. ASSUME NEW x \in Messages, NEW j \in Attempts, InFlight(x, j)'
        PROVE  owed'[x][j] = 1
    <3>1. InFlight(x, j) /\ (x # m \/ j # k)
      BY <2>2, <2>3, <2>7 DEF InFlight
    <3> QED
      BY <1>0, <2>4, <3>1 DEF InFlightIsOwed
  <2> QED
    BY <2>1, <2>5, <2>6, <2>7 DEF InFlightIsOwed
<1>5. CASE ProduceAsync
  <2> DEFINE q == Head(outs)
             e == <<msg, attempt>>
  <2>1. /\ msg \in Messages /\ q \in AsyncQueues
        /\ owed[msg][attempt] = 1 /\ ~InFlight(msg, attempt)
        /\ outbox' = [outbox EXCEPT ![q] = Append(outbox[q], e)]
        /\ owed' = owed
    BY <1>5, AsyncOutput DEF ghostVars
  <2>2. e \in Messages \X Attempts
    BY <2>1, WorkerTypes
  <2>3. \A r \in AsyncQueues : e \notin Range(outbox[r])
    BY <2>1 DEF InFlight
  <2> HIDE DEF q, e
  <2>4. /\ outbox'[q] = Append(outbox[q], e)
        /\ \A r \in AsyncQueues \ {q} : outbox'[r] = outbox[r]
        /\ outbox[q] \in Seq(Messages \X Attempts)
    BY <1>0, <2>1 DEF InFlightIsOwed
  <2>5. Range(Append(outbox[q], e)) = Range(outbox[q]) \union {e}
    BY <2>2, <2>4, AppendRange
  <2>6. IsInjective(Append(outbox[q], e))
    BY <1>0, <2>1, <2>2, <2>3, <2>4, AppendFresh DEF InFlightIsOwed
  <2>7. Append(outbox[q], e) \in Seq(Messages \X Attempts)
    BY <2>2, <2>4, AppendProperties
  <2>8. outbox' \in [AsyncQueues -> Seq(Messages \X Attempts)]
    BY <1>0, <2>1, <2>7 DEF InFlightIsOwed
  <2>9. ASSUME NEW r \in AsyncQueues, NEW s \in AsyncQueues, r # s
        PROVE  Range(outbox'[r]) \intersect Range(outbox'[s]) = {}
    <3>1. Range(outbox[r]) \intersect Range(outbox[s]) = {}
      BY <1>0, <2>9 DEF InFlightIsOwed
    <3>2. r # q => outbox'[r] = outbox[r]
      BY <2>4
    <3>3. s # q => outbox'[s] = outbox[s]
      BY <2>4
    <3>4. e \notin Range(outbox[r]) /\ e \notin Range(outbox[s])
      BY <2>3
    <3> QED
      BY <2>4, <2>5, <2>9, <3>1, <3>2, <3>3, <3>4
  <2>10. ASSUME NEW x \in Messages, NEW j \in Attempts, InFlight(x, j)'
         PROVE  owed'[x][j] = 1
    <3>1. InFlight(x, j) \/ <<x, j>> = e
      BY <2>4, <2>5, <2>10 DEF InFlight
    <3>2. <<x, j>> = e => x = msg /\ j = attempt
      BY DEF e
    <3> QED
      BY <1>0, <2>1, <3>1, <3>2 DEF InFlightIsOwed
  <2>11. \A r \in AsyncQueues : IsInjective(outbox'[r])
    BY <1>0, <2>4, <2>6 DEF InFlightIsOwed
  <2> QED
    BY <2>8, <2>9, <2>10, <2>11 DEF InFlightIsOwed
<1>6. CASE Die
  <2>1. outbox' = [q \in AsyncQueues |-> << >>]
    BY <1>6 DEF Die, Reconnect
  <2>2. /\ << >> \in Seq(Messages \X Attempts)
        /\ Range(<< >>) = {} /\ IsInjective(<< >>)
    BY DEF Range, IsInjective
  <2> QED
    BY <2>1, <2>2 DEF InFlightIsOwed, InFlight
<1> QED
  BY <1>1, <1>2, <1>3, <1>4, <1>5, <1>6, OwedChanges, OutboxChanges

\* What is settled stays settled.
LEMMA SettledGrows == [Next]_vars => settled \subseteq settled'
<1>1. CASE MainStep
  BY <1>1 DEF MainStep, CheckKillNow, PollNothing, Handle, Answer, AnswerList,
              Crash, ProduceSync, ProduceAsync, EnqueueFails, Dispatch, Succeed,
              Fail, EndIteration, CloseProducer, CloseConsumer, Owe, ghostVars
<1>2. ASSUME NEW m \in Messages, Poll(m) \/ PollUnanswered(m) \/ Expire(m)
      PROVE  settled \subseteq settled'
  BY <1>2 DEF Poll, PollUnanswered, Expire, ghostVars
<1>3. ASSUME NEW m \in Messages,
             RivalReceives(m) \/ RivalSettles(m) \/ RivalDeletes(m) \/ RivalFails(m)
      PROVE  settled \subseteq settled'
  BY <1>3 DEF RivalReceives, RivalSettles, RivalDeletes, RivalFails, Forget,
              ghostVars
<1>4. ASSUME NEW q \in AsyncQueues, Outcome(q) PROVE settled \subseteq settled'
  BY <1>4 DEF Outcome, Deliver, Reject, Owe, ghostVars
<1>5. ASSUME NEW t \in Threads, NEW q \in AsyncQueues, Serve(t, q)
      PROVE  settled \subseteq settled'
  BY <1>5 DEF Serve, Callback, Succeed, Fail
<1>6. ASSUME NEW t \in Threads, DeleteStep(t) PROVE settled \subseteq settled'
  BY <1>6 DEF DeleteStep, StepDelete, StepRaises, Forget
<1>7. CASE Signal \/ Die \/ Restart \/ Terminated \/ UNCHANGED vars
  BY <1>7 DEF Signal, Die, Restart, Terminated, vars, ghostVars
<1> QED
  BY <1>1, <1>2, <1>3, <1>4, <1>5, <1>6, <1>7 DEF Next

LEMMA HandChanges ==
    ASSUME [Next]_vars, Hand'
    PROVE  (Hand /\ msg' = msg) \/ \E m \in Messages : Poll(m)
<1> USE DEF Hand
<1>1. CASE MainStep
  <2>1. CASE Handle \/ (\E b \in AppBools : Answer(b)) \/ \E l \in AppLists : AnswerList(l)
    BY <2>1 DEF Handle, HandleValid, HandleInvalid, DLQNotConfigured, Answer,
                WorkBool, AnswerList, WorkList
  <2>2. CASE (\E s, d \in BOOLEAN : ProduceSync(s, d)) \/ ProduceAsync \/ EnqueueFails
    BY <2>2 DEF ProduceSync, ProduceAsync, EnqueueFails, Produce
  <2>3. CASE CheckKillNow \/ PollNothing \/ Crash \/ Dispatch \/ EndIteration
             \/ CloseProducer \/ CloseConsumer
    BY <2>3 DEF CheckKillNow, LoopAgain, LoopExit, PollNothing, ConsumeNone, Crash,
                WorkRaises, ProduceRaises, Dispatch, MarkSuccess, MarkFail,
                LeaveToCallback, EndIteration, Marked, CloseProducer,
                ShutdownProducer, CloseConsumer, ShutdownConsumer, NextIteration
  <2> QED
    BY <1>1, <2>1, <2>2, <2>3 DEF MainStep
<1>2. ASSUME NEW m \in Messages, PollUnanswered(m) PROVE FALSE
  BY <1>2 DEF PollUnanswered, ConsumeNone, NextIteration, Abort
<1>3. CASE UNCHANGED engineVars \/ Signal
  BY <1>3 DEF Signal, exit_gracefully, engineVars
<1>4. ASSUME NEW m \in Messages,
             Expire(m) \/ RivalReceives(m) \/ RivalSettles(m) \/ RivalDeletes(m)
             \/ RivalFails(m)
      PROVE  UNCHANGED engineVars
  BY <1>4 DEF Expire, RivalReceives, RivalSettles, RivalDeletes, RivalFails
<1>5. ASSUME NEW q \in AsyncQueues, Outcome(q) PROVE UNCHANGED engineVars
  BY <1>5 DEF Outcome, Deliver, Reject
<1>6. ASSUME NEW t \in Threads, NEW q \in AsyncQueues, Serve(t, q)
      PROVE  UNCHANGED engineVars
  BY <1>6 DEF Serve, Callback
<1>7. ASSUME NEW t \in Threads, DeleteStep(t) PROVE UNCHANGED engineVars
  BY <1>7 DEF DeleteStep, StepDelete, StepRaises, Abort
<1>8. ~Die /\ ~Restart
  BY DEF Die, Vanish, Restart, Start
<1>9. Terminated \/ UNCHANGED vars => UNCHANGED engineVars
  BY DEF Terminated, vars
<1> QED
  BY <1>1, <1>2, <1>3, <1>4, <1>5, <1>6, <1>7, <1>8, <1>9 DEF Next

LEMMA HandStep ==
    ASSUME TypeOK, WorkerInv, [Next]_vars
    PROVE  HandIsFree'
<1> SUFFICES ASSUME Hand'
             PROVE  ~InFlight(msg, attempt)'
  BY DEF HandIsFree, Hand
<1>1. ASSUME NEW m \in Messages, Poll(m) PROVE ~InFlight(msg, attempt)'
  BY <1>1, PollEffect DEF InFlight
<1>2. CASE ~\E m \in Messages : Poll(m)
  <2>1. Hand /\ msg' = msg /\ ~InFlight(msg, attempt)
    BY <1>2, HandChanges DEF WorkerInv, HandIsFree, Hand
  <2>2. attempt' = attempt
    BY <1>2, OwedChanges, AccountingEffect, OutcomeEffect, OweEffect DEF ghostVars
  <2>3. ~ProduceAsync
    BY AsyncOutput DEF Hand, ProduceAsync, Produce
  <2>4. ~Die
    BY DEF Die, Vanish, Hand
  <2>5. ASSUME NEW q \in AsyncQueues, Outcome(q)
        PROVE  \A r \in AsyncQueues : Range(outbox'[r]) \subseteq Range(outbox[r])
    BY <2>5, OutcomeEffect
  <2>6. \A r \in AsyncQueues : Range(outbox'[r]) \subseteq Range(outbox[r])
    BY <2>3, <2>4, <2>5, OutboxChanges
  <2> QED
    BY <2>1, <2>2, <2>6 DEF InFlight
<1> QED
  BY <1>1, <1>2

\* Which steps there are in and into "produce".
LEMMA ProduceChanges ==
    ASSUME [Next]_vars, pc' = "produce"
    PROVE  Accounting \/ ProduceAsync \/ EnqueueFails \/ UNCHANGED <<pc, msg, outs, reports>>
<1>1. CASE MainStep
  BY <1>1 DEF MainStep, Accounting, CheckKillNow, LoopAgain, LoopExit, PollNothing,
              ConsumeNone, Crash, WorkRaises, ProduceRaises, Dispatch, MarkSuccess,
              MarkFail, LeaveToCallback, EndIteration, Marked, CloseProducer,
              ShutdownProducer, CloseConsumer, ShutdownConsumer, NextIteration
<1>2. ASSUME NEW m \in Messages, Poll(m) \/ PollUnanswered(m) PROVE FALSE
  BY <1>2 DEF Poll, Consume, PollUnanswered, ConsumeNone, NextIteration, Abort
<1>3. CASE UNCHANGED engineVars \/ Signal
  BY <1>3 DEF Signal, exit_gracefully, engineVars
<1>4. ASSUME NEW m \in Messages,
             Expire(m) \/ RivalReceives(m) \/ RivalSettles(m) \/ RivalDeletes(m)
             \/ RivalFails(m)
      PROVE  UNCHANGED engineVars
  BY <1>4 DEF Expire, RivalReceives, RivalSettles, RivalDeletes, RivalFails
<1>5. ASSUME NEW q \in AsyncQueues, Outcome(q) PROVE UNCHANGED engineVars
  BY <1>5 DEF Outcome, Deliver, Reject
<1>6. ASSUME NEW t \in Threads, NEW q \in AsyncQueues, Serve(t, q)
      PROVE  UNCHANGED engineVars
  BY <1>6 DEF Serve, Callback
<1>7. ASSUME NEW t \in Threads, DeleteStep(t) PROVE UNCHANGED engineVars
  BY <1>7 DEF DeleteStep, StepDelete, StepRaises, Abort
<1>8. ~Die /\ ~Restart
  BY DEF Die, Vanish, Restart, Start
<1>9. Terminated \/ UNCHANGED vars => UNCHANGED engineVars
  BY DEF Terminated, vars
<1> QED
  BY <1>1, <1>2, <1>3, <1>4, <1>5, <1>6, <1>7, <1>8, <1>9 DEF Next

LEMMA OwedStep ==
    ASSUME Unmixed, TypeOK, WorkerInv, [Next]_vars
    PROVE  OwedIsUnproduced'
<1> SUFFICES ASSUME pc' = "produce"
             PROVE  OwedIsUnproduced'
  BY DEF OwedIsUnproduced
<1> DEFINE AllSync(s) == \A i \in DOMAIN s : s[i] \notin AsyncQueues
           AllTrue(R) == \A r \in R : r.status /\ ~r.asynchronous
<1>0. pc = "produce" =>
        /\ msg \in Messages /\ owed[msg][attempt] \in Nat
        /\ owed[msg][attempt] >= Len(outs)
        /\ AllSync(outs) \/ (Len(outs) = 1 /\ owed[msg][attempt] = 1)
        /\ AllTrue(reports) => IF outs = << >> THEN msg \in settled
                                               ELSE owed[msg][attempt] = Len(outs)
  BY WorkerTypes DEF WorkerInv, OwedIsUnproduced, Holding
<1>1. \A b \in BOOLEAN :
          /\ [asynchronous |-> FALSE, status |-> b].status = b
          /\ [asynchronous |-> TRUE, status |-> b].asynchronous
  OBVIOUS
<1>2. CASE Handle
  <2>1. /\ msg \in Messages /\ msg' = msg
        /\ Owe(msg, attempt, 1) /\ outs' = <<DeadLetterQueue>>
    BY <1>2, WorkerTypes
    DEF Handle, HandleValid, HandleInvalid, DLQNotConfigured, Holding
  <2>2. owed'[msg][attempt] = 1 /\ attempt' = attempt
    BY <2>1, OweEffect, WorkerTypes
  <2> QED
    BY <2>1, <2>2 DEF OwedIsUnproduced
<1>3. ASSUME NEW b \in AppBools, Answer(b) PROVE OwedIsUnproduced'
  <2>1. /\ msg \in Messages /\ msg' = msg /\ outs = << >> /\ outs' = << >>
        /\ [asynchronous |-> FALSE, status |-> b] \in reports'
        /\ b \in BOOLEAN
    BY <1>3, WorkerTypes, EngineAssumption
    DEF Answer, WorkBool, Holding, WorkerInv, NoOutsYet
  <2>2. owed'[msg][attempt] \in Nat /\ attempt' = attempt
    BY <1>3, <2>1, OweEffect, WorkerTypes DEF Answer, ghostVars
  <2>3. CASE b = TRUE
    <3>1. msg \in settled'
      BY <1>3, <2>1, <2>3, OweEffect, WorkerTypes DEF Answer
    <3> QED
      BY <2>1, <2>2, <3>1 DEF OwedIsUnproduced
  <2>4. CASE b = FALSE
    <3>1. ~AllTrue(reports')
      BY <1>1, <2>1, <2>4
    <3> QED
      BY <2>1, <2>2, <3>1 DEF OwedIsUnproduced
  <2> QED
    BY <2>1, <2>3, <2>4
<1>4. ASSUME NEW l \in AppLists, AnswerList(l) PROVE OwedIsUnproduced'
  <2>1. /\ msg \in Messages /\ msg' = msg /\ outs' = l
        /\ Owe(msg, attempt, Len(l))
        /\ l \in Seq(Queues) /\ Len(l) \in Nat
    BY <1>4, WorkerTypes, QueueFacts DEF AnswerList, WorkList, Holding
  <2>2. /\ owed'[msg][attempt] = Len(l) /\ attempt' = attempt
        /\ Len(l) = 0 => msg \in settled'
    BY <2>1, OweEffect, WorkerTypes
  <2>3. AllSync(l) \/ Len(l) = 1
    <3>1. CASE Len(l) <= 1
      <4>1. Len(l) = 0 => AllSync(l)
        BY <2>1
      <4> QED
        BY <2>1, <3>1, <4>1
    <3> QED
      BY <3>1 DEF Unmixed
  <2>4. AllTrue(reports') => IF l = << >> THEN msg \in settled'
                             ELSE owed'[msg][attempt] = Len(l)
    BY <2>2, EmptySeq
  <2>5. AllSync(l) \/ (Len(l) = 1 /\ owed'[msg][attempt] = 1)
    BY <2>2, <2>3
  <2>6. owed'[msg][attempt] >= Len(l)
    BY <2>1, <2>2
  <2> QED
    BY <2>1, <2>2, <2>4, <2>5, <2>6 DEF OwedIsUnproduced
<1>5. ASSUME NEW status \in BOOLEAN, NEW delivered \in BOOLEAN,
             ProduceSync(status, delivered)
      PROVE  OwedIsUnproduced'
  <2>1. /\ pc = "produce" /\ outs # << >> /\ outs' = Tail(outs) /\ msg' = msg
        /\ Head(outs) \notin AsyncQueues
        /\ reports' = reports \union {[asynchronous |-> FALSE, status |-> status]}
        /\ status => delivered
    <3>1. /\ Produce(status) /\ Head(outs) \notin AsyncQueues
          /\ status => delivered
      BY <1>5 DEF ProduceSync
    <3>2. (Head(outs) \in AsyncQueues) = FALSE
      BY <3>1
    <3>3. reports' = reports \union
            {[asynchronous |-> Head(outs) \in AsyncQueues, status |-> status]}
      BY <3>1 DEF Produce
    <3> QED
      BY <3>1, <3>2, <3>3 DEF Produce
  <2>2. /\ Tail(outs) \in Seq(Queues) /\ Len(outs) \in Nat \ {0}
        /\ Len(Tail(outs)) = Len(outs) - 1
        /\ \A i \in 1..(Len(outs) - 1) : Tail(outs)[i] = outs[i + 1]
    BY <2>1, WorkerTypes, HeadTailProperties, EmptySeq
  <2>3. Tail(outs) = << >> <=> Len(outs) = 1
    BY <2>1, WorkerTypes, TailEmpty
  <2>4. AllSync(Tail(outs))
    <3>1. CASE AllSync(outs)
      <4>1. ASSUME NEW i \in DOMAIN Tail(outs) PROVE Tail(outs)[i] \notin AsyncQueues
        <5>1. i \in 1..(Len(outs) - 1) /\ i + 1 \in 1..Len(outs)
          BY <2>2
        <5> QED
          BY <2>2, <3>1, <5>1, WorkerTypes
      <4> QED
        BY <4>1
    <3>2. CASE Len(outs) = 1
      BY <2>3, <3>2
    <3> QED
      BY <1>0, <2>1, <3>1, <3>2
  <2>5. CASE delivered
    <3>1. owed[msg][attempt] - 1 \in Nat
      BY <1>0, <2>1, <2>2
    <3>2. Owe(msg, attempt, owed[msg][attempt] - 1)
      BY <1>5, <2>5 DEF ProduceSync
    <3>3. /\ owed'[msg][attempt] = owed[msg][attempt] - 1 /\ attempt' = attempt
          /\ owed[msg][attempt] - 1 = 0 => msg \in settled'
      BY <1>0, <2>1, <3>1, <3>2, OweEffect, WorkerTypes
    <3>4. AllTrue(reports') => owed[msg][attempt] = Len(outs)
      BY <1>0, <2>1
    <3>5. AllTrue(reports') => IF Tail(outs) = << >> THEN msg \in settled'
                               ELSE owed'[msg][attempt] = Len(Tail(outs))
      BY <2>2, <2>3, <3>3, <3>4
    <3>6. owed'[msg][attempt] >= Len(Tail(outs))
      BY <1>0, <2>1, <2>2, <3>3
    <3> QED
      BY <2>1, <2>4, <3>3, <3>5, <3>6 DEF OwedIsUnproduced
  <2>6. CASE ~delivered
    <3>1. ~AllTrue(reports')
      <4>1. [asynchronous |-> FALSE, status |-> FALSE] \in reports'
        BY <2>1, <2>6
      <4> QED
        BY <1>1, <4>1
    <3>2. owed' = owed /\ attempt' = attempt
      BY <1>5, <2>6 DEF ProduceSync, ghostVars
    <3>3. owed[msg][attempt] >= Len(Tail(outs))
      BY <1>0, <2>1, <2>2
    <3> QED
      BY <2>1, <2>4, <3>1, <3>2, <3>3 DEF OwedIsUnproduced
  <2> QED
    BY <2>5, <2>6
<1>6. CASE ProduceAsync \/ EnqueueFails
  <2>1. /\ pc = "produce" /\ outs # << >> /\ Head(outs) \in AsyncQueues
        /\ outs' = Tail(outs) /\ UNCHANGED <<msg, owed, attempt>>
        /\ \E s \in BOOLEAN : [asynchronous |-> TRUE, status |-> s] \in reports'
    BY <1>6 DEF ProduceAsync, EnqueueFails, Produce, ghostVars
  <2>2. /\ Len(outs) \in Nat \ {0} /\ Len(Tail(outs)) = Len(outs) - 1
        /\ Tail(outs) \in Seq(Queues)
        /\ 1 \in DOMAIN outs /\ Head(outs) = outs[1]
    BY <2>1, WorkerTypes, HeadTailProperties, EmptySeq
  <2>3. Len(outs) = 1
    BY <1>0, <2>1, <2>2
  <2>4. Tail(outs) = << >>
    BY <2>1, <2>3, WorkerTypes, TailEmpty
  <2>5. ~AllTrue(reports')
    BY <1>1, <2>1
  <2> QED
    BY <1>0, <2>1, <2>4, <2>5 DEF OwedIsUnproduced
<1>7. ASSUME UNCHANGED <<pc, msg, outs, reports>>, ~Accounting
      PROVE  OwedIsUnproduced'
  <2>0. settled \subseteq settled'
    BY SettledGrows
  <2>1. CASE owed' = owed /\ attempt' = attempt
    BY <1>0, <1>7, <2>0, <2>1 DEF OwedIsUnproduced
  <2>2. ASSUME NEW m \in Messages, Poll(m) PROVE FALSE
    BY <1>7, <2>2 DEF Poll, Consume
  <2>3. ASSUME NEW q \in AsyncQueues, Outcome(q) PROVE OwedIsUnproduced'
    <3>1. PICK m \in Messages, k \in Attempts :
              /\ <<m, k>> \in Range(outbox[q])
              /\ Owe(m, k, 0) \/ UNCHANGED ghostVars
      BY <2>3, OutcomeEffect
    <3>2. InFlight(m, k)
      BY <3>1 DEF InFlight
    <3>3. CASE UNCHANGED ghostVars
      BY <2>1, <3>3 DEF ghostVars
    <3>4. CASE Owe(m, k, 0) /\ (m # msg \/ k # attempt)
      <4>1. owed'[msg][attempt] = owed[msg][attempt] /\ attempt' = attempt
        BY <1>0, <1>7, <3>4, OweEffect, WorkerTypes
      <4> QED
        BY <1>0, <1>7, <2>0, <4>1 DEF OwedIsUnproduced
    <3>5. CASE Owe(m, k, 0) /\ m = msg /\ k = attempt
      <4>1. /\ owed'[msg][attempt] = 0 /\ attempt' = attempt /\ msg \in settled'
        BY <3>5, OweEffect, WorkerTypes
      <4>2. outs = << >>
        BY <1>7, <3>2, <3>5 DEF WorkerInv, HandIsFree
      <4> QED
        BY <1>7, <4>1, <4>2 DEF OwedIsUnproduced
    <3> QED
      BY <3>1, <3>3, <3>4, <3>5
  <2> QED
    BY <1>7, <2>1, <2>2, <2>3, OwedChanges
<1> QED
  BY <1>2, <1>3, <1>4, <1>5, <1>6, <1>7, ProduceChanges DEF Accounting

\* The steps that touch what DeletedIsSettled speaks of.
LEMMA SettlingSteps ==
    ASSUME [Next]_vars
    PROVE  \/ UNCHANGED <<queue, deleting, rival, dr>>
           \/ Dispatch
           \/ \E q \in AsyncQueues : Outcome(q)
           \/ \E t \in Threads, q \in AsyncQueues : Serve(t, q)
           \/ \E t \in Threads : DeleteStep(t)
           \/ \E m \in Messages : RivalReceives(m) \/ RivalSettles(m)
                                  \/ RivalDeletes(m) \/ RivalFails(m)
           \/ Die
<1>1. CASE MainStep
  BY <1>1 DEF MainStep, CheckKillNow, PollNothing, Handle, Answer, AnswerList,
              Crash, ProduceSync, ProduceAsync, Enqueue, EnqueueFails,
              EndIteration, CloseProducer, Flushed, CloseConsumer, producerVars,
              consumerVars
<1>2. ASSUME NEW m \in Messages, Poll(m) \/ PollUnanswered(m) \/ Expire(m)
      PROVE  UNCHANGED <<queue, deleting, rival, dr>>
  BY <1>2 DEF Poll, PollUnanswered, Expire, Receive, VtExpires, producerVars
<1>3. Signal \/ Restart \/ Terminated \/ UNCHANGED vars
        => UNCHANGED <<queue, deleting, rival, dr>>
  BY DEF Signal, Restart, Terminated, vars, producerVars, consumerVars
<1> QED
  BY <1>1, <1>2, <1>3 DEF Next

\* A verdict of success is given on synchronous successes only.
LEMMA SuccessIsSettled ==
    ASSUME TypeOK, WorkerInv, MarkSuccess
    PROVE  msg \in Messages /\ msg \in settled
<1>1. pc = "produce" /\ outs = << >>
  BY DEF MarkSuccess, Produced
<1>2. \A r \in reports : r.status /\ ~r.asynchronous
  BY SuccessMeansDelivered, WorkerTypes DEF MarkSuccess
<1> QED
  BY <1>1, <1>2, WorkerTypes DEF WorkerInv, OwedIsUnproduced, Holding

LEMMA DeletedStep ==
    ASSUME TypeOK, WorkerInv, [Next]_vars
    PROVE  DeletedIsSettled'
<1>0. settled \subseteq settled' /\ DeletedIsSettled /\ ConsumerTypeOK
  BY SettledGrows DEF WorkerInv, TypeOK
<1>1. CASE UNCHANGED <<queue, deleting, rival, dr>>
  BY <1>0, <1>1 DEF DeletedIsSettled
\* on_success, of a settled message
<1>2. ASSUME NEW t \in Threads, NEW m \in settled, m \in Messages, on_success(t, m),
             rival' = rival, \A q \in AsyncQueues : Range(dr'[q]) \subseteq Range(dr[q])
      PROVE  DeletedIsSettled'
  <2>1. deleting'[t].msg = m /\ \A u \in Threads \ {t} : deleting'[u] = deleting[u]
    BY <1>0, <1>2 DEF on_success, ConsumerTypeOK
  <2> QED
    BY <1>0, <1>2, <2>1 DEF DeletedIsSettled, on_success
<1>3. CASE Dispatch
  <2>1. CASE MarkSuccess /\ Succeed(Main, msg)
    <3>1. on_success(Main, msg) /\ UNCHANGED <<rival, dr>>
      BY <1>3, <2>1 DEF Dispatch, Succeed, producerVars
    <3> QED
      BY <1>2, <2>1, <3>1, SuccessIsSettled, WorkerTypes
  <2>2. CASE ~(MarkSuccess /\ Succeed(Main, msg))
    BY <1>1, <1>3, <2>2 DEF Dispatch, Fail, on_fail, consumerVars, producerVars
  <2> QED
    BY <2>1, <2>2
<1>4. ASSUME NEW q \in AsyncQueues, Outcome(q) PROVE DeletedIsSettled'
  <2>1. PICK m \in Messages, k \in Attempts, ok \in BOOLEAN :
             /\ \A r \in AsyncQueues \ {q} : dr'[r] = dr[r]
             /\ dr'[q] = Append(dr[q], <<m, ok>>)
             /\ Owe(m, k, 0) \/ ok = FALSE
             /\ UNCHANGED <<consumerVars, rival>>
    BY <1>4, OutcomeEffect
  <2>2. Range(dr'[q]) = Range(dr[q]) \union {<<m, ok>>}
    <3>1. dr[q] \in Seq(Messages \X BOOLEAN) /\ <<m, ok>> \in Messages \X BOOLEAN
      BY WorkerTypes
    <3> QED
      BY <2>1, <3>1, AppendRange
  <2>3. ok = FALSE \/ m \in settled'
    BY <2>1, OweEffect
  <2>4. ASSUME NEW r \in AsyncQueues, NEW x \in Messages, <<x, TRUE>> \in Range(dr'[r])
        PROVE  x \in settled'
    <3>1. CASE <<x, TRUE>> \in Range(dr[r])
      BY <1>0, <3>1 DEF DeletedIsSettled
    <3>2. CASE <<x, TRUE>> \notin Range(dr[r])
      <4>1. <<x, TRUE>> = <<m, ok>>
        BY <2>1, <2>2, <2>4, <3>2
      <4>2. x = m /\ ok # FALSE
        BY <4>1
      <4> QED
        BY <2>3, <4>2
    <3> QED
      BY <3>1, <3>2
  <2> QED
    BY <1>0, <2>1, <2>4 DEF DeletedIsSettled, consumerVars
<1>5. ASSUME NEW t \in Threads, NEW q \in AsyncQueues, Serve(t, q)
      PROVE  DeletedIsSettled'
  <2>1. PICK m \in Messages, ok \in BOOLEAN : Callback(t, q, m, ok)
    BY <1>5 DEF Serve
  <2>2. /\ dr[q] \in Seq(Messages \X BOOLEAN) /\ dr[q] # << >>
        /\ Head(dr[q]) = <<m, ok>>
        /\ dr' = [dr EXCEPT ![q] = Tail(dr[q])]
    BY <2>1, WorkerTypes DEF Callback, acked
  <2>3. <<m, ok>> \in Range(dr[q]) /\ Range(Tail(dr[q])) \subseteq Range(dr[q])
    BY <2>2, TailRange
  <2>4. \A r \in AsyncQueues : Range(dr'[r]) \subseteq Range(dr[r])
    BY <2>2, <2>3, WorkerTypes
  <2>5. rival' = rival
    BY <2>1 DEF Callback
  <2>6. CASE ok = TRUE
    <3>1. m \in settled
      BY <1>0, <2>3, <2>6 DEF DeletedIsSettled
    <3>2. on_success(t, m)
      BY <2>1, <2>6 DEF Callback, Succeed
    <3> QED
      BY <1>2, <2>4, <2>5, <3>1, <3>2
  <2>7. CASE ok = FALSE
    <3>1. UNCHANGED consumerVars
      BY <2>1, <2>7 DEF Callback, Fail, on_fail
    <3> QED
      BY <1>0, <2>4, <2>5, <3>1 DEF DeletedIsSettled, consumerVars
  <2> QED
    BY <2>6, <2>7
<1>6. ASSUME NEW t \in Threads, DeleteStep(t) PROVE DeletedIsSettled'
  <2>1. /\ DeleteReturns(t) \/ DeleteRetries(t) \/ DeleteRaises(t)
        /\ UNCHANGED <<rival, dr>>
    BY <1>6 DEF DeleteStep, StepDelete, StepRaises, PollThreadDies, producerVars
  <2>2. /\ deleting[t] # NotDeleting
        /\ UNCHANGED <<queue, hidden>> \/ DeleteMessage(deleting[t].msg)
    BY <2>1, DeleteEffect
  <2>3. \A m \in Messages \ queue' : m \in settled'
    BY <1>0, <2>2 DEF DeletedIsSettled, DeleteMessage
  <2>4. /\ deleting'[t] # NotDeleting => deleting'[t].msg = deleting[t].msg
        /\ \A u \in Threads \ {t} : deleting'[u] = deleting[u]
    BY <1>0, <2>1, DeleteFrame
  <2> QED
    BY <1>0, <2>1, <2>2, <2>3, <2>4 DEF DeletedIsSettled
<1>7. ASSUME NEW m \in Messages,
             RivalReceives(m) \/ RivalSettles(m) \/ RivalDeletes(m) \/ RivalFails(m)
      PROVE  DeletedIsSettled'
  <2>1. UNCHANGED <<deleting, dr>>
    BY <1>7 DEF RivalReceives, RivalSettles, RivalDeletes, RivalFails, Receive,
                consumerVars, producerVars
  <2>2. \A x \in Messages \ queue' : x \in queue => x = m /\ rival[m] = "done"
    BY <1>7 DEF RivalReceives, RivalSettles, RivalDeletes, RivalFails, Receive,
                DeleteMessage, consumerVars
  <2>3. /\ \A x \in Messages \ {m} : rival'[x] = rival[x]
        /\ rival'[m] = "done" => m \in settled'
    BY <1>7, WorkerTypes
    DEF RivalReceives, RivalSettles, RivalDeletes, RivalFails
  <2> QED
    BY <1>0, <2>1, <2>2, <2>3 DEF DeletedIsSettled
<1>8. CASE Die
  <2>1. /\ dr' = [q \in AsyncQueues |-> << >>]
        /\ deleting' = [t \in Threads |-> NotDeleting]
        /\ UNCHANGED <<queue, rival>>
    BY <1>8 DEF Die, Reopen, Reconnect
  <2>2. Range(<< >>) = {}
    BY DEF Range
  <2> QED
    BY <1>0, <2>1, <2>2 DEF DeletedIsSettled
<1> QED
  BY <1>1, <1>3, <1>4, <1>5, <1>6, <1>7, <1>8, SettlingSteps

-----------------------------------------------------------------------------
(* Theorems *)

LEMMA WorkerInit == Init => TypeOK /\ WorkerInv
<1> SUFFICES ASSUME Init PROVE TypeOK /\ WorkerInv
  OBVIOUS
<1> USE DEF Init
<1>1. EngineTypeOK
  <2>1. killNow \in BOOLEAN
    BY DEF EngineInit
  <2> QED
    BY <2>1 DEF EngineInit, EngineTypeOK, Running, Holding
<1>2. ConsumerTypeOK
  BY DEF ConsumerInit, ConsumerTypeOK
<1>3. ProducerTypeOK
  BY DEF ProducerInit, ProducerTypeOK
<1>4. /\ 1 \in Attempts /\ 0 \in 0..MaxRestarts
  BY RSMQWorkerAssumption DEF Attempts
<1>5. TypeOK
  BY <1>1, <1>2, <1>3, <1>4 DEF TypeOK
<1>6. Range(<< >>) = {} /\ IsInjective(<< >>)
  BY DEF Range, IsInjective
<1>7. DeletedIsSettled
  BY <1>6 DEF DeletedIsSettled, ConsumerInit, ProducerInit
<1>8. InFlightIsOwed
  <2>1. outbox = [q \in AsyncQueues |-> << >>]
    BY DEF ProducerInit
  <2> QED
    BY <1>6, <2>1 DEF InFlightIsOwed, InFlight
<1>9. HandIsFree /\ NoOutsYet /\ OwedIsUnproduced
  BY DEF HandIsFree, NoOutsYet, OwedIsUnproduced, EngineInit
<1> QED
  BY <1>5, <1>7, <1>8, <1>9 DEF WorkerInv

LEMMA TypeStep ==
    ASSUME TypeOK, WorkerInv, [Next]_vars
    PROVE  TypeOK'
<1>1. EngineTypeOK /\ ConsumerTypeOK /\ ProducerTypeOK
  BY DEF TypeOK
<1>2. EngineTypeOK' /\ ConsumerTypeOK' /\ ProducerTypeOK'
  BY <1>1, EngineComposes, EngineTypes, ConsumerComposes, ConsumerTypes,
     ProducersCompose, ProducerTypes
<1> QED
  BY <1>2, GhostTypes, OwedTypes DEF TypeOK, GhostTypeOK

LEMMA WorkerStep ==
    ASSUME Unmixed, TypeOK, WorkerInv, [Next]_vars
    PROVE  TypeOK' /\ WorkerInv'
<1>1. NoOutsYet'
  BY EngineComposes, NoOutsStep DEF WorkerInv
<1> QED
  BY <1>1, TypeStep, DeletedStep, InFlightStep, HandStep, OwedStep DEF WorkerInv

\* The inductive invariant of the worker holds in every state.
THEOREM WorkerInvariant ==
    ASSUME Unmixed
    PROVE  Spec => [](TypeOK /\ WorkerInv)
<1>1. Init => TypeOK /\ WorkerInv
  BY WorkerInit
<1>2. (TypeOK /\ WorkerInv) /\ [Next]_vars => (TypeOK /\ WorkerInv)'
  BY WorkerStep
<1> QED
  BY <1>1, <1>2, PTL DEF Spec

\* Every variable keeps its type; in particular no attempt is ever credited with
\* more outputs than the worker answered.
THEOREM TypeCorrect ==
    ASSUME Unmixed
    PROVE  Spec => []TypeOK
BY WorkerInvariant, PTL

\* With lists that do not mix: a message is deleted from the Redis queue only when
\* some worker has completed an attempt at it and sent all its outputs; whatever
\* the rivals, the lost answers of Redis, the timeouts and the crashes.
THEOREM NoMessageIsLost ==
    ASSUME Unmixed
    PROVE  Spec => []AtLeastOnce
<1>1. TypeOK /\ WorkerInv => AtLeastOnce
  BY DEF WorkerInv, DeletedIsSettled, AtLeastOnce
<1> QED
  BY <1>1, WorkerInvariant, PTL

-----------------------------------------------------------------------------
(* The refinement of Delivery *)

\* What a step settles: nothing, or one message, which it does not delete.
LEMMA WhatIsSettled ==
    ASSUME TypeOK, WorkerInv, [Next]_vars
    PROVE  \/ settled' = settled
           \/ \E m \in Messages : settled' = settled \union {m} /\ queue' = queue
<1> DEFINE Goal == \/ settled' = settled
                   \/ \E m \in Messages :
                         settled' = settled \union {m} /\ queue' = queue
<1>1. ASSUME NEW m \in Messages, NEW k, NEW n, Owe(m, k, n), queue' = queue
      PROVE  Goal
  BY <1>1 DEF Owe
<1>2. CASE Accounting
  <2>1. msg \in Messages /\ queue' = queue
    BY <1>2, AccountingEffect DEF consumerVars
  <2>2. settled' = settled \/ \E n : Owe(msg, attempt, n)
    BY <1>2 DEF Accounting, Handle, Answer, AnswerList, ProduceSync, ghostVars
  <2> QED
    BY <1>1, <2>1, <2>2
<1>3. CASE MainStep /\ ~Accounting
  BY <1>3 DEF MainStep, Accounting, CheckKillNow, PollNothing, Crash, ProduceAsync,
              EnqueueFails, Dispatch, Succeed, Fail, EndIteration, CloseProducer,
              CloseConsumer, ghostVars
<1>4. ASSUME NEW m \in Messages, Poll(m) \/ PollUnanswered(m) \/ Expire(m)
      PROVE  settled' = settled
  BY <1>4 DEF Poll, PollUnanswered, Expire, ghostVars
<1>5. ASSUME NEW m \in Messages,
             RivalReceives(m) \/ RivalSettles(m) \/ RivalDeletes(m) \/ RivalFails(m)
      PROVE  Goal
  BY <1>5 DEF RivalReceives, RivalSettles, RivalDeletes, RivalFails, Forget,
              ghostVars, consumerVars
<1>6. ASSUME NEW q \in AsyncQueues, Outcome(q) PROVE Goal
  <2>1. PICK m \in Messages, k \in Attempts :
            /\ Owe(m, k, 0) \/ UNCHANGED ghostVars
            /\ UNCHANGED consumerVars
    BY <1>6, OutcomeEffect
  <2> QED
    BY <1>1, <2>1 DEF ghostVars, consumerVars
<1>7. ASSUME NEW t \in Threads, NEW q \in AsyncQueues, Serve(t, q)
      PROVE  settled' = settled
  BY <1>7 DEF Serve, Callback, Succeed, Fail
<1>8. ASSUME NEW t \in Threads, DeleteStep(t) PROVE settled' = settled
  BY <1>8 DEF DeleteStep, StepDelete, StepRaises, Forget
<1>9. Signal \/ Die \/ Restart \/ Terminated \/ UNCHANGED vars => settled' = settled
  BY DEF Signal, Die, Restart, Terminated, vars, ghostVars
<1> QED
  BY <1>2, <1>3, <1>4, <1>5, <1>6, <1>7, <1>8, <1>9 DEF Next

\* What a step deletes: nothing, or one message, which is settled.
LEMMA WhatIsDeleted ==
    ASSUME TypeOK, WorkerInv, [Next]_vars
    PROVE  \/ queue' = queue
           \/ \E m \in Messages :
                 m \in settled /\ queue' = queue \ {m} /\ settled' = settled
<1>0. ConsumerTypeOK /\ DeletedIsSettled
  BY DEF TypeOK, WorkerInv
<1>1. CASE Dispatch
  BY <1>1 DEF Dispatch, Succeed, on_success, Fail, on_fail, consumerVars
<1>2. ASSUME NEW q \in AsyncQueues, Outcome(q) PROVE queue' = queue
  BY <1>2 DEF Outcome, Deliver, Reject, consumerVars
<1>3. ASSUME NEW t \in Threads, NEW q \in AsyncQueues, Serve(t, q)
      PROVE  queue' = queue
  BY <1>3 DEF Serve, Callback, Succeed, on_success, Fail, on_fail, consumerVars
<1>4. ASSUME NEW t \in Threads, DeleteStep(t)
      PROVE  \/ queue' = queue
             \/ \E m \in Messages :
                   m \in settled /\ queue' = queue \ {m} /\ settled' = settled
  <2>1. /\ DeleteReturns(t) \/ DeleteRetries(t) \/ DeleteRaises(t)
        /\ settled' = settled
    BY <1>4 DEF DeleteStep, StepDelete, StepRaises, Forget
  <2>2. /\ deleting[t] # NotDeleting
        /\ queue' = queue \/ DeleteMessage(deleting[t].msg)
    BY <2>1, DeleteEffect
  <2>3. deleting[t].msg \in Messages /\ deleting[t].msg \in settled
    BY <1>0, <2>2, RunningDelete DEF DeletedIsSettled
  <2> QED
    BY <2>1, <2>2, <2>3 DEF DeleteMessage
<1>5. ASSUME NEW m \in Messages, RivalDeletes(m)
      PROVE  m \in settled /\ queue' = queue \ {m} /\ settled' = settled
  BY <1>0, <1>5 DEF RivalDeletes, DeleteMessage, Forget, DeletedIsSettled
<1>6. ASSUME NEW m \in Messages, RivalReceives(m) \/ RivalSettles(m) \/ RivalFails(m)
      PROVE  queue' = queue
  BY <1>6 DEF RivalReceives, RivalSettles, RivalFails, Receive, consumerVars
<1>7. Die => queue' = queue
  BY DEF Die, Reopen
<1> QED
  BY <1>1, <1>2, <1>3, <1>4, <1>5, <1>6, <1>7, SettlingSteps

LEMMA StepImplements ==
    ASSUME TypeOK, WorkerInv, [Next]_vars
    PROVE  [Promise!Next]_(Promise!vars)
<1>1. ASSUME NEW m \in Messages, settled' = settled \union {m}, queue' = queue
      PROVE  Promise!Settle(m)
  BY <1>1 DEF Promise!Settle
<1>2. ASSUME NEW m \in Messages, m \in settled, queue' = queue \ {m},
             settled' = settled
      PROVE  Promise!Remove({m})
  <2>1. Messages \ queue' = (Messages \ queue) \union {m}
    BY <1>2
  <2> QED
    BY <1>2, <2>1 DEF Promise!Remove
<1>3. CASE settled' = settled /\ queue' = queue
  BY <1>3 DEF Promise!vars
<1>4. \A m \in Messages : {m} \in SUBSET Messages
  OBVIOUS
<1> QED
  BY <1>1, <1>2, <1>3, <1>4, WhatIsSettled, WhatIsDeleted DEF Promise!Next

\* The worker implements what a Volley application promises of its input queue:
\* only settled messages leave it, and what left never comes back.
THEOREM WorkerImplementsDelivery ==
    ASSUME Unmixed
    PROVE  Spec => ImplementsDelivery
<1>1. Init => Promise!Init
  BY DEF Init, ConsumerInit, Promise!Init
<1>2. (TypeOK /\ WorkerInv) /\ [Next]_vars => [Promise!Next]_(Promise!vars)
  BY StepImplements
<1> QED
  BY <1>1, <1>2, WorkerInvariant, PTL DEF Spec, ImplementsDelivery, Promise!Spec

-----------------------------------------------------------------------------
(* Workers with synchronous producers only *)

\* on_success is running, or Redis has deleted what it was called for.
DoneInv ==
    /\ deleting[Main] # NotDeleting => pc = "mark"
    /\ pc # "aborted" =>
          \A m \in done \intersect queue :
              deleting[Main] # NotDeleting /\ deleting[Main].msg = m

\* Which steps there are besides the verdict, the attempts to delete and death:
\* they leave deletions alone, and an iteration ends after on_success has.
LEMMA DoneChanges ==
    ASSUME AsyncQueues = {}, TypeOK, [Next]_vars
    PROVE  \/ MarkSuccess /\ Succeed(Main, msg)
           \/ DeleteStep(Main)
           \/ Die
           \/ /\ UNCHANGED <<deleting, done>> /\ queue' \subseteq queue
              /\ pc = "mark" => pc' = "mark" \/ deleting[Main] = NotDeleting
              /\ pc = "aborted" => pc' = "aborted"
<1> DEFINE Frame == /\ UNCHANGED <<deleting, done>> /\ queue' \subseteq queue
                    /\ pc = "mark" => pc' = "mark" \/ deleting[Main] = NotDeleting
                    /\ pc = "aborted" => pc' = "aborted"
<1>1. CASE MainStep
  <2>1. CASE Dispatch
    BY <2>1 DEF Dispatch, MarkFail, LeaveToCallback, Produced, Fail, on_fail,
                ghostVars, consumerVars
  <2>2. CASE CheckKillNow \/ PollNothing \/ Crash \/ EndIteration \/ CloseProducer
             \/ CloseConsumer
    BY <2>2 DEF CheckKillNow, LoopAgain, LoopExit, PollNothing, ConsumeNone, Crash,
                WorkRaises, ProduceRaises, EndIteration, Marked, CloseProducer,
                ShutdownProducer, CloseConsumer, ShutdownConsumer, ghostVars,
                consumerVars
  <2>3. CASE Accounting
    BY <2>3 DEF Accounting, Handle, HandleValid, HandleInvalid, DLQNotConfigured,
                Answer, WorkBool, AnswerList, WorkList, ProduceSync, Produce, Owe,
                ghostVars, consumerVars
  <2>4. CASE ProduceAsync \/ EnqueueFails
    BY <2>4 DEF ProduceAsync, EnqueueFails, Produce, ghostVars, consumerVars
  <2> QED
    BY <1>1, <2>1, <2>2, <2>3, <2>4 DEF MainStep, Accounting
<1>2. ASSUME NEW m \in Messages, Poll(m) \/ PollUnanswered(m) \/ Expire(m)
      PROVE  Frame
  BY <1>2 DEF Poll, Consume, PollUnanswered, ConsumeNone, Abort, Expire, Receive,
              VtExpires, engineVars, ghostVars
<1>3. ASSUME NEW m \in Messages,
             RivalReceives(m) \/ RivalSettles(m) \/ RivalDeletes(m) \/ RivalFails(m)
      PROVE  Frame
  BY <1>3 DEF RivalReceives, RivalSettles, RivalDeletes, RivalFails, Forget, Receive,
              DeleteMessage, engineVars, ghostVars, consumerVars
<1>4. Threads = {Main}
  BY DEF Threads
<1>5. Signal \/ Restart \/ Terminated \/ UNCHANGED vars => Frame
  BY DEF Signal, exit_gracefully, Restart, Start, Terminated, vars, engineVars,
         ghostVars, consumerVars
<1> QED
  BY <1>1, <1>2, <1>3, <1>4, <1>5 DEF Next

LEMMA DoneStep ==
    ASSUME AsyncQueues = {}, TypeOK, DoneInv, [Next]_vars
    PROVE  DoneInv'
<1>0. ConsumerTypeOK /\ Main \in Threads
  BY DEF TypeOK, Threads
<1>1. CASE MarkSuccess /\ Succeed(Main, msg)
  <2>1. /\ pc = "produce" /\ pc' = "mark" /\ done' = done \union {msg}
        /\ on_success(Main, msg)
    BY <1>1 DEF MarkSuccess, Produced, Succeed
  <2>2. deleting'[Main].msg = msg /\ queue' = queue
    BY <1>0, <2>1 DEF on_success, ConsumerTypeOK
  <2>3. deleting'[Main] # NotDeleting
    <3>1. msg \in Messages
      BY <2>1, WorkerTypes DEF Holding
    <3>2. msg # NoMessage
      BY <3>1 DEF Messages, NoMessage
    <3> QED
      BY <2>2, <3>2 DEF NotDeleting
  <2>4. done \intersect queue = {}
    BY <2>1 DEF DoneInv
  <2> QED
    BY <2>1, <2>2, <2>3, <2>4 DEF DoneInv
<1>2. CASE DeleteStep(Main)
  <2>1. /\ DeleteReturns(Main) \/ DeleteRetries(Main) \/ DeleteRaises(Main)
        /\ done' = done
    BY <1>2 DEF DeleteStep, StepDelete, StepRaises, Forget
  <2>2. /\ deleting[Main] # NotDeleting /\ pc = "mark"
        /\ \A m \in done \intersect queue : deleting[Main].msg = m
    <3>1. deleting[Main] # NotDeleting
      BY <1>0, <2>1, DeleteEffect
    <3> QED
      BY <3>1 DEF DoneInv
  <2>3. CASE DeleteRaises(Main) /\ pc' = "aborted"
    <3>1. deleting'[Main] = NotDeleting
      BY <1>0, <2>3 DEF DeleteRaises, Return, ConsumerTypeOK
    <3> QED
      BY <2>3, <3>1 DEF DoneInv
  <2>4. CASE DeleteReturns(Main) /\ UNCHANGED engineVars
    <3>1. /\ deleting'[Main] = NotDeleting
          /\ queue' = queue \ {deleting[Main].msg}
      BY <1>0, <2>4 DEF DeleteReturns, Return, DeleteMessage, ConsumerTypeOK
    <3> QED
      BY <2>1, <2>2, <3>1 DEF DoneInv
  <2>5. CASE DeleteRetries(Main) /\ UNCHANGED engineVars
    <3>1. queue' \subseteq queue
      BY <2>5 DEF DeleteRetries, Unanswered, DeleteMessage
    <3>2. deleting'[Main].msg = deleting[Main].msg /\ deleting'[Main] # NotDeleting
      <4>1. deleting[Main] \in Deletes /\ deleting[Main].left > 1
        BY <1>0, <2>5, RunningDelete DEF DeleteRetries, Unanswered
      <4> DEFINE rest == deleting[Main].left - 1
      <4>2. deleting'[Main] = [deleting[Main] EXCEPT !.left = rest]
        BY <1>0, <2>5 DEF DeleteRetries, ConsumerTypeOK
      <4>3. [deleting[Main] EXCEPT !.left = rest].msg = deleting[Main].msg
        BY <4>1 DEF Deletes
      <4>4. deleting[Main].msg # NoMessage
        BY <4>1 DEF Deletes, Messages, NoMessage
      <4> QED
        BY <4>2, <4>3, <4>4 DEF NotDeleting
    <3>3. pc' = pc
      BY <2>5 DEF engineVars
    <3> QED
      BY <2>1, <2>2, <3>1, <3>2, <3>3 DEF DoneInv
  <2> QED
    BY <1>2, <2>3, <2>4, <2>5 DEF DeleteStep, StepDelete, StepRaises, Abort
<1>3. CASE Die
  BY <1>0, <1>3 DEF Die, Reopen, DoneInv
<1>4. ASSUME UNCHANGED <<deleting, done>>, queue' \subseteq queue,
             pc = "mark" => pc' = "mark" \/ deleting[Main] = NotDeleting,
             pc = "aborted" => pc' = "aborted"
      PROVE  DoneInv'
  BY <1>4 DEF DoneInv
<1> QED
  BY <1>1, <1>2, <1>3, <1>4, DoneChanges

\* A worker with synchronous producers that stops gracefully has deleted all it
\* called on_success for: however Redis answers its deletes, on_success returns
\* only when the message is gone, or takes the process down.
THEOREM NoSuccessIsLeft ==
    ASSUME AsyncQueues = {}
    PROVE  Spec => []DoneIsDeleted
<1>1. Unmixed
  BY DEF Unmixed
<1>2. Init => DoneInv
  BY DEF Init, EngineInit, ConsumerInit, DoneInv, Threads
<1>3. TypeOK /\ DoneInv /\ [Next]_vars => DoneInv'
  BY DoneStep
<1>4. DoneInv => DoneIsDeleted
  BY DEF DoneInv, DoneIsDeleted
<1> QED
  BY <1>1, <1>2, <1>3, <1>4, TypeCorrect, PTL DEF Spec
=============================================================================
