-------------------------- MODULE KafkaWorkerProofs --------------------------
(***************************************************************************)
(* Proofs about KafkaWorker.  Types, and that a worker that stops of       *)
(* itself leaves nothing behind, hold for every choice of constants, the   *)
(* latter also for a BatchWorker; what is acknowledged is settled for      *)
(* applications that answer each message with one output or with           *)
(* synchronous ones only.  At-least-once delivery is proved for            *)
(* applications that stop on failure and either have no asynchronous       *)
(* producer, or one, for one ordered output per message; with two outputs  *)
(* or none for some messages it is false (run filter_loss).  For batches,  *)
(* one ordered output per batch is enough, but for the batches whose       *)
(* failure a callback reports.                                             *)
(***************************************************************************)
EXTENDS BatchWorker, ConfluentConsumerProofs, EngineProofs, FiniteSetTheorems

-----------------------------------------------------------------------------
(* Types, component by component *)

GhostTypeOK ==
    /\ due \in [Messages -> SUBSET Nat]
    /\ failed \subseteq Messages
    /\ restarts \in 0..MaxRestarts

\* Each step of the worker is one step, or none, of each of its components.
LEMMA Composition ==
    ASSUME TypeOK, [Next]_vars
    PROVE  EngineStep /\ ConsumerStep /\ ProducerStep /\ GhostTypeOK'
<1> USE DEF TypeOK, GhostTypeOK
<1>1. CASE CheckKillNow
  <2>1. EngineStep
    BY <1>1 DEF CheckKillNow, EngineStep
  <2>2. ConsumerStep
    BY <1>1 DEF CheckKillNow, ConsumerStep
  <2>3. ProducerStep
    BY <1>1 DEF CheckKillNow, ProducerStep
  <2>4. GhostTypeOK'
    BY <1>1 DEF CheckKillNow, ghostVars
  <2> QED
    BY <2>1, <2>2, <2>3, <2>4
<1>2. CASE PollNothing
  <2>1. EngineStep
    BY <1>2 DEF PollNothing, EngineStep
  <2>2. ConsumerStep
    BY <1>2 DEF PollNothing, ConsumerStep
  <2>3. ProducerStep
    BY <1>2 DEF PollNothing, ProducerStep
  <2>4. GhostTypeOK'
    BY <1>2 DEF PollNothing, ghostVars
  <2> QED
    BY <2>1, <2>2, <2>3, <2>4
<1>3. ASSUME NEW m \in Messages, Poll(m)
      PROVE  EngineStep /\ ConsumerStep /\ ProducerStep /\ GhostTypeOK'
  <2>1. EngineStep
    BY <1>3 DEF Poll, EngineStep
  <2>2. ConsumerStep
    BY <1>3 DEF Poll, ConsumerStep
  <2>3. ProducerStep
    BY <1>3 DEF Poll, ProducerStep
  <2>4. GhostTypeOK'
    BY <1>3 DEF Poll, ghostVars
  <2> QED
    BY <2>1, <2>2, <2>3, <2>4
<1>4. CASE PollRaises
  <2>1. EngineStep
    BY <1>4 DEF PollRaises, EngineStep
  <2>2. ConsumerStep
    BY <1>4 DEF PollRaises, ConsumerStep
  <2>3. ProducerStep
    BY <1>4 DEF PollRaises, ProducerStep
  <2>4. GhostTypeOK'
    BY <1>4 DEF PollRaises, ghostVars
  <2> QED
    BY <2>1, <2>2, <2>3, <2>4
<1>5. CASE Handle
  <2>1. EngineStep
    BY <1>5 DEF Handle, EngineStep
  <2>2. ConsumerStep
    BY <1>5 DEF Handle, ConsumerStep
  <2>3. ProducerStep
    BY <1>5 DEF Handle, ProducerStep
  <2>4. GhostTypeOK'
    <3>1. {1} \in SUBSET Nat
      OBVIOUS
    <3>2. due' \in [Messages -> SUBSET Nat]
      BY <1>5, <3>1 DEF Handle
    <3> QED
      BY <1>5, <3>2 DEF Handle
  <2> QED
    BY <2>1, <2>2, <2>3, <2>4
<1>6. ASSUME NEW b \in AppBools, Answer(b)
      PROVE  EngineStep /\ ConsumerStep /\ ProducerStep /\ GhostTypeOK'
  <2>1. EngineStep
    BY <1>6 DEF Answer, EngineStep
  <2>2. ConsumerStep
    BY <1>6 DEF Answer, ConsumerStep
  <2>3. ProducerStep
    BY <1>6 DEF Answer, ProducerStep
  <2>4. GhostTypeOK'
    BY <1>6 DEF Answer, ghostVars
  <2> QED
    BY <2>1, <2>2, <2>3, <2>4
<1>7. ASSUME NEW l \in AppLists, AnswerList(l)
      PROVE  EngineStep /\ ConsumerStep /\ ProducerStep /\ GhostTypeOK'
  <2>1. EngineStep
    BY <1>7 DEF AnswerList, EngineStep
  <2>2. ConsumerStep
    BY <1>7 DEF AnswerList, ConsumerStep
  <2>3. ProducerStep
    BY <1>7 DEF AnswerList, ProducerStep
  <2>4. GhostTypeOK'
    <3>1. 1..Len(l) \in SUBSET Nat
      BY QueueFacts
    <3>2. due' \in [Messages -> SUBSET Nat]
      BY <1>7, <3>1 DEF AnswerList
    <3> QED
      BY <1>7, <3>2 DEF AnswerList
  <2> QED
    BY <2>1, <2>2, <2>3, <2>4
<1>8. CASE Crash
  <2>1. EngineStep
    BY <1>8 DEF Crash, EngineStep
  <2>2. ConsumerStep
    BY <1>8 DEF Crash, ConsumerStep
  <2>3. ProducerStep
    BY <1>8 DEF Crash, ProducerStep
  <2>4. GhostTypeOK'
    BY <1>8 DEF Crash, ghostVars
  <2> QED
    BY <2>1, <2>2, <2>3, <2>4
<1>9. ASSUME NEW s \in BOOLEAN, NEW d \in BOOLEAN, ProduceSync(s, d)
      PROVE  EngineStep /\ ConsumerStep /\ ProducerStep /\ GhostTypeOK'
  <2>1. EngineStep
    BY <1>9 DEF ProduceSync, EngineStep
  <2>2. ConsumerStep
    BY <1>9 DEF ProduceSync, ConsumerStep
  <2>3. ProducerStep
    BY <1>9 DEF ProduceSync, ProducerStep
  <2>4. GhostTypeOK'
    BY <1>9 DEF ProduceSync, ghostVars, Delivered
  <2> QED
    BY <2>1, <2>2, <2>3, <2>4
<1>10. CASE ProduceAsync
  <2>1. EngineStep
    BY <1>10 DEF ProduceAsync, EngineStep
  <2>2. ConsumerStep
    BY <1>10 DEF ProduceAsync, ConsumerStep
  <2>3. ProducerStep
    <3>1. <<msg, Len(outs)>> \in Outputs
      BY <1>10 DEF ProduceAsync, Produce, EngineTypeOK, Holding, Outputs
    <3> QED
      BY <1>10, <3>1 DEF ProduceAsync, ProducerStep
  <2>4. GhostTypeOK'
    BY <1>10 DEF ProduceAsync, ghostVars
  <2> QED
    BY <2>1, <2>2, <2>3, <2>4
<1>11. CASE EnqueueFails
  <2>1. EngineStep
    BY <1>11 DEF EnqueueFails, EngineStep
  <2>2. ConsumerStep
    BY <1>11 DEF EnqueueFails, ConsumerStep
  <2>3. ProducerStep
    BY <1>11 DEF EnqueueFails, ProducerStep
  <2>4. GhostTypeOK'
    BY <1>11 DEF EnqueueFails, ghostVars
  <2> QED
    BY <2>1, <2>2, <2>3, <2>4
<1>12. CASE Dispatch
  <2>0. pc = "produce" /\ msg \in Messages /\ Main \in Threads
    BY <1>12 DEF Dispatch, MarkSuccess, MarkFail, LeaveToCallback, Produced,
                 EngineTypeOK, Holding, Threads
  <2>1. EngineStep
    BY <1>12 DEF Dispatch, Fail, EngineStep
  <2>2. ConsumerStep
    BY <1>12, <2>0 DEF Dispatch, Fail, ConsumerStep
  <2>3. ProducerStep
    BY <1>12 DEF Dispatch, Fail, ProducerStep
  <2>4. GhostTypeOK'
    BY <1>12, <2>0 DEF Dispatch, Fail, ghostVars
  <2> QED
    BY <2>1, <2>2, <2>3, <2>4
<1>13. CASE EndIteration
  <2>1. EngineStep
    BY <1>13 DEF EndIteration, EngineStep
  <2>2. ConsumerStep
    BY <1>13 DEF EndIteration, ConsumerStep
  <2>3. ProducerStep
    BY <1>13 DEF EndIteration, ProducerStep
  <2>4. GhostTypeOK'
    BY <1>13 DEF EndIteration, ghostVars
  <2> QED
    BY <2>1, <2>2, <2>3, <2>4
<1>14. CASE CloseProducer
  <2>1. EngineStep
    BY <1>14 DEF CloseProducer, EngineStep
  <2>2. ConsumerStep
    BY <1>14 DEF CloseProducer, ConsumerStep
  <2>3. ProducerStep
    BY <1>14 DEF CloseProducer, ProducerStep
  <2>4. GhostTypeOK'
    BY <1>14 DEF CloseProducer, ghostVars
  <2> QED
    BY <2>1, <2>2, <2>3, <2>4
<1>15. CASE CloseConsumer
  <2>1. EngineStep
    BY <1>15 DEF CloseConsumer, EngineStep
  <2>2. ConsumerStep
    BY <1>15 DEF CloseConsumer, ConsumerStep
  <2>3. ProducerStep
    BY <1>15 DEF CloseConsumer, ProducerStep
  <2>4. GhostTypeOK'
    BY <1>15 DEF CloseConsumer, ghostVars
  <2> QED
    BY <2>1, <2>2, <2>3, <2>4
<1>16. ASSUME NEW q \in AsyncQueues, Outcome(q)
      PROVE  EngineStep /\ ConsumerStep /\ ProducerStep /\ GhostTypeOK'
  <2>1. EngineStep
    BY <1>16 DEF Outcome, Deliver, Reject, EngineStep
  <2>2. ConsumerStep
    BY <1>16 DEF Outcome, Deliver, Reject, ConsumerStep
  <2>3. ProducerStep
    <3>1. PICK i \in DOMAIN outbox[q], ok \in BOOLEAN : Report(q, i, ok)
      BY <1>16 DEF Outcome, Deliver, Reject
    <3>2. i \in Nat
      BY DEF ProducerTypeOK
    <3> QED
      BY <3>1, <3>2 DEF ProducerStep
  <2>4. GhostTypeOK'
    BY <1>16 DEF Outcome, Deliver, Reject, ghostVars, Delivered
  <2> QED
    BY <2>1, <2>2, <2>3, <2>4
<1>17. ASSUME NEW t \in Threads, NEW q \in AsyncQueues, Serve(t, q)
      PROVE  EngineStep /\ ConsumerStep /\ ProducerStep /\ GhostTypeOK'
  <2>1. EngineStep
    BY <1>17 DEF Serve, Callback, Fail, EngineStep
  <2>2. ConsumerStep
    BY <1>17 DEF Serve, Callback, Fail, ConsumerStep
  <2>3. ProducerStep
    BY <1>17 DEF Serve, Callback, Fail, ProducerStep
  <2>4. GhostTypeOK'
    BY <1>17 DEF Serve, Callback, Fail, ghostVars
  <2> QED
    BY <2>1, <2>2, <2>3, <2>4
<1>18. ASSUME NEW t \in Threads, CallStep(t)
      PROVE  EngineStep /\ ConsumerStep /\ ProducerStep /\ GhostTypeOK'
  <2>1. EngineStep
    BY <1>18 DEF CallStep, StepCall, StepKill, StepRaises, EngineStep
  <2>2. ConsumerStep
    BY <1>18 DEF CallStep, StepCall, StepKill, StepRaises, ConsumerStep
  <2>3. ProducerStep
    <3>1. CASE UNCHANGED producerVars
      BY <3>1 DEF ProducerStep
    <3>2. CASE t # Main /\ PollThreadDies(t)
      BY <3>2 DEF Threads, ProducerStep
    <3> QED
      BY <1>18, <3>1, <3>2 DEF CallStep, StepCall, StepKill, StepRaises
  <2>4. GhostTypeOK'
    BY <1>18 DEF CallStep, StepCall, StepKill, StepRaises, ghostVars
  <2> QED
    BY <2>1, <2>2, <2>3, <2>4
<1>19. CASE Commit
  <2>1. EngineStep
    BY <1>19 DEF Commit, EngineStep
  <2>2. ConsumerStep
    BY <1>19 DEF Commit, ConsumerStep
  <2>3. ProducerStep
    BY <1>19 DEF Commit, ProducerStep
  <2>4. GhostTypeOK'
    BY <1>19 DEF Commit, ghostVars
  <2> QED
    BY <2>1, <2>2, <2>3, <2>4
<1>20. CASE Signal
  <2>1. EngineStep
    BY <1>20 DEF Signal, EngineStep
  <2>2. ConsumerStep
    BY <1>20 DEF Signal, ConsumerStep
  <2>3. ProducerStep
    BY <1>20 DEF Signal, ProducerStep
  <2>4. GhostTypeOK'
    BY <1>20 DEF Signal, ghostVars
  <2> QED
    BY <2>1, <2>2, <2>3, <2>4
<1>21. CASE Die
  <2>1. EngineStep
    BY <1>21 DEF Die, EngineStep
  <2>2. ConsumerStep
    BY <1>21 DEF Die, ConsumerStep
  <2>3. ProducerStep
    BY <1>21 DEF Die, ProducerStep
  <2>4. GhostTypeOK'
    BY <1>21 DEF Die, ghostVars
  <2> QED
    BY <2>1, <2>2, <2>3, <2>4
<1>22. CASE Restart
  <2>1. EngineStep
    BY <1>22 DEF Restart, EngineStep
  <2>2. ConsumerStep
    BY <1>22 DEF Restart, ConsumerStep
  <2>3. ProducerStep
    BY <1>22 DEF Restart, ProducerStep
  <2>4. GhostTypeOK'
    BY <1>22, KafkaWorkerAssumption DEF Restart
  <2> QED
    BY <2>1, <2>2, <2>3, <2>4
<1>23. CASE Terminated
  <2>1. EngineStep
    BY <1>23 DEF Terminated, vars, EngineStep
  <2>2. ConsumerStep
    BY <1>23 DEF Terminated, vars, ConsumerStep
  <2>3. ProducerStep
    BY <1>23 DEF Terminated, vars, ProducerStep
  <2>4. GhostTypeOK'
    BY <1>23 DEF Terminated, vars, ghostVars
  <2> QED
    BY <2>1, <2>2, <2>3, <2>4
<1>24. CASE UNCHANGED vars
  <2>1. EngineStep
    BY <1>24 DEF vars, EngineStep
  <2>2. ConsumerStep
    BY <1>24 DEF vars, ConsumerStep
  <2>3. ProducerStep
    BY <1>24 DEF vars, ProducerStep
  <2>4. GhostTypeOK'
    BY <1>24 DEF vars, ghostVars
  <2> QED
    BY <2>1, <2>2, <2>3, <2>4
<1> QED
  BY <1>1, <1>2, <1>3, <1>4, <1>5, <1>6, <1>7, <1>8, <1>9, <1>10, <1>11,
     <1>12, <1>13, <1>14, <1>15, <1>16, <1>17, <1>18, <1>19, <1>20, <1>21,
     <1>22, <1>23, <1>24 DEF Next, MainStep, LoopStep

\* KafkaWorker is type correct, for every topology, application and regime.
THEOREM TypeCorrect == Spec => []TypeOK
<1>1. Init => TypeOK
  <2>1. Init => EngineTypeOK
    <3>1. Init => killNow \in BOOLEAN
      BY DEF Init, EngineInit
    <3> QED
      BY <3>1 DEF Init, EngineInit, EngineTypeOK, Running, Holding
  <2>2. Init => ConsumerTypeOK
    BY TopologyAssumption DEF Init, ConsumerInit, ConsumerTypeOK, NoOffset
  <2>3. Init => ProducerTypeOK
    BY DEF Init, ProducerInit, ProducerTypeOK
  <2>4. Init => GhostTypeOK
    BY KafkaWorkerAssumption DEF Init, GhostTypeOK, Decision
  <2> QED
    BY <2>1, <2>2, <2>3, <2>4 DEF TypeOK, GhostTypeOK
<1>2. TypeOK /\ [Next]_vars => TypeOK'
  BY Composition, EngineTypes, ConsumerTypes, ProducerTypes
  DEF TypeOK, GhostTypeOK
<1> QED
  BY <1>1, <1>2, PTL DEF Spec

-----------------------------------------------------------------------------
(* Shutdown *)

\* Nothing is left of what q's producer was asked: no output is in flight, no
\* report waits for its callback, and none runs in q's poll thread.
Quiet(q) ==
    /\ outbox[q] = << >>
    /\ dr[q] = << >>
    /\ call[q] = Idle

OthersAreQuiet == \A q \in AsyncQueues : q \in Range(OutputQueues) \/ Quiet(q)

\* The shutdown leaves no producer behind that is not quiet, and nothing makes
\* one busy again.
ShutIsQuiet ==
    /\ pc \in {"shutdown", "stopped"} =>
          \A q \in AsyncQueues : q \in Range(outs) \/ Quiet(q)
    /\ pc = "stopped" => outs = << >>

\* The main thread leaves neither the marking of a message nor the shutdown of a
\* producer with a call running.
MainCallsInside ==
    call[Main] = Idle \/ pc = "mark" \/ (pc = "shutdown" /\ outs # << >>)

DrainInv == OutsAreOutputs /\ OthersAreQuiet /\ ShutIsQuiet /\ MainCallsInside

LEMMA StaysQuiet ==
    ASSUME TypeOK, [Next]_vars, NEW q \in AsyncQueues, Quiet(q),
           pc = "produce" => outs = << >> \/ Head(outs) # q
    PROVE  Quiet(q)'
<1> USE DEF Quiet
<1>0. q # Main /\ q \in Threads /\ Main \in Threads
  BY TopologyAssumption DEF Threads
<1>1. CASE UNCHANGED <<producerVars, call>>
  BY <1>1 DEF producerVars
<1>2. CASE ProduceAsync
  BY <1>2 DEF ProduceAsync, Produce, Enqueue, consumerVars
<1>3. CASE Dispatch
  BY <1>0, <1>3
  DEF Dispatch, Fail, on_success, on_fail, producerVars, consumerVars,
      TypeOK, ConsumerTypeOK
<1>4. ASSUME NEW o \in AsyncQueues, Outcome(o) PROVE Quiet(q)'
  <2>1. PICK i \in DOMAIN outbox[o], ok \in BOOLEAN :
            Report(o, i, ok) /\ UNCHANGED consumerVars
    BY <1>4 DEF Outcome, Deliver, Reject
  <2>2. o # q
    BY <2>1
  <2> QED
    BY <2>1, <2>2 DEF Report, consumerVars, TypeOK, ProducerTypeOK
<1>5. ASSUME NEW t \in Threads, NEW o \in AsyncQueues, Serve(t, o)
      PROVE  Quiet(q)'
  <2>1. PICK m \in Messages, ok \in BOOLEAN : Callback(t, o, m, ok)
    BY <1>5 DEF Serve
  <2>2. o # q /\ t \in {o, Main}
    BY <2>1 DEF Callback, acked, Serves
  <2>3. on_success(t, m) \/ on_fail(t, m)
    BY <2>1 DEF Callback, Fail
  <2>4. call'[q] = call[q]
    BY <1>0, <2>2, <2>3 DEF on_success, on_fail, TypeOK, ConsumerTypeOK
  <2> QED
    BY <2>1, <2>2, <2>4 DEF Callback, acked, TypeOK, ProducerTypeOK
<1>6. ASSUME NEW t \in Threads, CallStep(t) PROVE Quiet(q)'
  <2>1. call[t].at # "idle"
    BY <1>6 DEF CallStep, StepCall, StepKill, StepRaises, Lookup, Record,
                StoreOffsets, Storing, CloseOnFail, KillOnFail, StoreRaises
  <2>2. t # q
    BY <2>1 DEF Idle
  <2>3. \E f : call' = [call EXCEPT ![t] = f]
    BY <1>6 DEF CallStep, StepCall, StepKill, StepRaises, Lookup, Record,
                StoreOffsets, CloseOnFail, KillOnFail, StoreRaises, Goto, Return
  <2>4. call'[q] = call[q]
    BY <1>0, <2>2, <2>3 DEF TypeOK, ConsumerTypeOK
  <2>5. outbox' = outbox /\ dr' = dr
    BY <1>6 DEF CallStep, StepCall, StepKill, StepRaises, PollThreadDies,
                producerVars
  <2> QED
    BY <2>4, <2>5
<1>7. CASE CloseProducer
  BY <1>7 DEF CloseProducer, Flushed, producerVars, consumerVars
<1>8. CASE Die
  BY <1>0, <1>8 DEF Die, Reconnect, Resubscribe
<1>9. \/ UNCHANGED <<producerVars, call>>
      \/ ProduceAsync \/ Dispatch \/ CloseProducer \/ Die
      \/ \E o \in AsyncQueues : Outcome(o)
      \/ \E t \in Threads, o \in AsyncQueues : Serve(t, o)
      \/ \E t \in Threads : CallStep(t)
  <2>1. CASE LoopStep
    BY <2>1 DEF LoopStep, CheckKillNow, PollNothing, PollRaises, Handle, Answer,
                AnswerList, Crash, ProduceSync, EnqueueFails, EndIteration,
                CloseConsumer, consumerVars
  <2>2. CASE \/ \E m \in Messages : Poll(m)
             \/ Commit \/ Signal \/ Restart \/ Terminated \/ UNCHANGED vars
    BY <2>2 DEF Poll, PollMessage, Commit, AutoCommit, Signal, Restart,
                Terminated, vars, consumerVars
  <2> QED
    BY <2>1, <2>2 DEF Next, MainStep
<1> QED
  BY <1>1, <1>2, <1>3, <1>4, <1>5, <1>6, <1>7, <1>8, <1>9

LEMMA OthersStep ==
    ASSUME TypeOK, DrainInv, [Next]_vars
    PROVE  OthersAreQuiet'
<1> SUFFICES ASSUME NEW q \in AsyncQueues, q \notin Range(OutputQueues)
             PROVE  Quiet(q)'
  BY DEF OthersAreQuiet
<1>1. outs # << >> => Head(outs) \in Range(OutputQueues)
  BY DEF DrainInv, OutsAreOutputs, TypeOK, EngineTypeOK
<1> QED
  BY <1>1, StaysQuiet DEF DrainInv, OthersAreQuiet

LEMMA ShutStep ==
    ASSUME TypeOK, DrainInv, [Next]_vars
    PROVE  ShutIsQuiet'
<1> USE DEF DrainInv
<1> DEFINE Shut == {"shutdown", "stopped"}
<1>1. CASE pc' \notin Shut
  BY <1>1 DEF ShutIsQuiet
<1>2. CASE pc \in Shut /\ UNCHANGED <<pc, outs>>
  BY <1>2, StaysQuiet DEF ShutIsQuiet
<1>3. CASE CheckKillNow
  <2>1. CASE LoopExit
    BY <1>3, <2>1, OthersStep DEF LoopExit, OthersAreQuiet, ShutIsQuiet
  <2>2. CASE LoopAgain
    BY <1>1, <2>2 DEF LoopAgain
  <2> QED
    BY <1>3, <2>1, <2>2 DEF CheckKillNow
<1>4. CASE CloseProducer
  <2>1. /\ pc = "shutdown" /\ pc' = "shutdown"
        /\ outs # << >> /\ outs' = Tail(outs) /\ outs \in Seq(Queues)
    BY <1>4 DEF CloseProducer, ShutdownProducer, TypeOK, EngineTypeOK
  <2> SUFFICES ASSUME NEW q \in AsyncQueues
               PROVE  q \in Range(outs') \/ Quiet(q)'
    BY <2>1 DEF ShutIsQuiet
  <2>2. CASE q = Head(outs)
    BY <1>4, <2>2 DEF CloseProducer, Flushed, Quiet, consumerVars
  <2>3. CASE q # Head(outs) /\ q \in Range(outs)
    BY <2>1, <2>3, TailRange
  <2>4. CASE Quiet(q)
    BY <2>1, <2>4, StaysQuiet
  <2> QED
    BY <2>1, <2>2, <2>3, <2>4 DEF ShutIsQuiet
<1>5. CASE CloseConsumer
  <2>1. /\ pc = "shutdown" /\ outs = << >> /\ outs' = << >>
        /\ UNCHANGED <<outbox, dr, call>>
    BY <1>5 DEF CloseConsumer, ShutdownConsumer, producerVars
  <2> QED
    BY <2>1 DEF ShutIsQuiet, Quiet
<1>6. \/ pc' \notin Shut
      \/ pc \in Shut /\ UNCHANGED <<pc, outs>>
      \/ CheckKillNow \/ CloseProducer \/ CloseConsumer
  <2>1. CASE \/ LoopStep \/ Dispatch \/ \E m \in Messages : Poll(m)
    BY <2>1
    DEF LoopStep, PollNothing, ConsumeNone, PollRaises, Handle, HandleValid,
        HandleInvalid, DLQNotConfigured, Answer, WorkBool, AnswerList, WorkList,
        Crash, WorkRaises, ProduceRaises, ProduceSync, ProduceAsync,
        EnqueueFails, Produce, EndIteration, Marked, NextIteration, Dispatch,
        MarkSuccess, MarkFail, LeaveToCallback, Poll, Consume, Abort
  <2>2. CASE \/ \E q \in AsyncQueues : Outcome(q)
             \/ \E t \in Threads, q \in AsyncQueues : Serve(t, q)
             \/ \E t \in Threads : CallStep(t)
    BY <2>2
    DEF Outcome, Deliver, Reject, Serve, Callback, CallStep, StepCall, StepKill,
        StepRaises, Abort, exit_gracefully, engineVars
  <2>3. CASE Commit \/ Signal \/ Die \/ Restart \/ Terminated \/ UNCHANGED vars
    BY <2>3 DEF Commit, Signal, exit_gracefully, Die, Vanish, Restart, Start,
                Terminated, vars, engineVars
  <2> QED
    BY <2>1, <2>2, <2>3 DEF Next, MainStep
<1> QED
  BY <1>1, <1>2, <1>3, <1>4, <1>5, <1>6

LEMMA MainCallsStep ==
    ASSUME TypeOK, DrainInv, [Next]_vars
    PROVE  MainCallsInside'
<1> USE DEF DrainInv, MainCallsInside
<1>0. Main \in Threads /\ Main \notin AsyncQueues
  BY TopologyAssumption DEF Threads
<1>1. CASE MainStep
  <2>1. CASE LoopStep
    BY <2>1
    DEF LoopStep, CheckKillNow, LoopAgain, LoopExit, PollNothing, ConsumeNone,
        PollRaises, Handle, HandleValid, HandleInvalid, DLQNotConfigured,
        Answer, WorkBool, AnswerList, WorkList, Crash, WorkRaises,
        ProduceRaises, ProduceSync, ProduceAsync, EnqueueFails, Produce,
        EndIteration, Marked, CloseConsumer, ShutdownConsumer, consumerVars
  <2>2. CASE Dispatch
    BY <2>2 DEF Dispatch, Fail, MarkSuccess, MarkFail, LeaveToCallback, Produced,
                consumerVars
  <2>3. CASE CloseProducer
    BY <2>3 DEF CloseProducer, consumerVars
  <2> QED
    BY <1>1, <2>1, <2>2, <2>3 DEF MainStep
<1>2. ASSUME NEW t \in Threads, NEW q \in AsyncQueues, Serve(t, q)
      PROVE  MainCallsInside'
  <2>1. PICK m \in Messages, ok \in BOOLEAN : Callback(t, q, m, ok)
    BY <1>2 DEF Serve
  <2>2. UNCHANGED <<pc, outs>> /\ (on_success(t, m) \/ on_fail(t, m))
    BY <2>1 DEF Callback, Fail, engineVars
  <2>3. CASE t = Main
    BY <1>0, <2>1, <2>2, <2>3 DEF Callback, Serves
  <2>4. CASE t # Main
    BY <1>0, <2>2, <2>4 DEF on_success, on_fail, TypeOK, ConsumerTypeOK
  <2> QED
    BY <2>3, <2>4
<1>3. ASSUME NEW t \in Threads, CallStep(t) PROVE MainCallsInside'
  <2>1. \E f : call' = [call EXCEPT ![t] = f]
    BY <1>3 DEF CallStep, StepCall, StepKill, StepRaises, Lookup, Record,
                StoreOffsets, CloseOnFail, KillOnFail, StoreRaises, Goto, Return
  <2>2. CASE t = Main /\ StepRaises(t)
    BY <1>0, <2>2, ReturnFrame DEF StepRaises, StoreRaises, TypeOK
  <2>3. CASE t # Main
    BY <1>0, <1>3, <2>1, <2>3
    DEF CallStep, StepCall, StepKill, StepRaises, exit_gracefully, engineVars,
        TypeOK, ConsumerTypeOK
  <2>4. CASE t = Main /\ ~StepRaises(t)
    <3>1. call[Main].at # "idle"
      BY <1>3, <2>4 DEF CallStep, StepCall, StepKill, Lookup, Record,
                        StoreOffsets, Storing, CloseOnFail, KillOnFail
    <3> QED
      BY <1>3, <2>4, <3>1
      DEF CallStep, StepCall, StepKill, exit_gracefully, engineVars, Idle
  <2> QED
    BY <2>2, <2>3, <2>4
<1>4. CASE Die
  BY <1>0, <1>4 DEF Die, Resubscribe
<1>5. ASSUME NEW m \in Messages, Poll(m) PROVE MainCallsInside'
  BY <1>5 DEF Poll, PollMessage, Consume
<1>6. ASSUME NEW q \in AsyncQueues, Outcome(q) PROVE MainCallsInside'
  BY <1>6 DEF Outcome, Deliver, Reject, engineVars, consumerVars
<1>7. CASE Commit \/ Signal \/ Restart \/ Terminated \/ UNCHANGED vars
  BY <1>7 DEF Commit, AutoCommit, Signal, exit_gracefully, Restart, Start,
              Terminated, vars, engineVars, consumerVars
<1> QED
  BY <1>1, <1>2, <1>3, <1>4, <1>5, <1>6, <1>7 DEF Next

\* run_component returns only when every output has its outcome, every report
\* has had its callback, and no callback is still running: for every application,
\* however many producers it has, however they fail, and whenever it is signalled.
THEOREM ShutdownDrains == Spec => []StopDrained
<1>1. Init => DrainInv
  BY DEF Init, EngineInit, ConsumerInit, ProducerInit, DrainInv, OutsAreOutputs,
         OthersAreQuiet, ShutIsQuiet, MainCallsInside, Quiet, Threads
<1>2. TypeOK /\ DrainInv /\ [Next]_vars => DrainInv'
  BY Composition, OutsStep, OthersStep, ShutStep, MainCallsStep
  DEF DrainInv, TypeOK
<1>3. TypeOK /\ DrainInv => StopDrained
  <2> SUFFICES ASSUME TypeOK, DrainInv, pc = "stopped"
               PROVE  /\ \A q \in AsyncQueues : outbox[q] = << >> /\ dr[q] = << >>
                      /\ \A t \in Threads : call[t] = Idle
    BY DEF StopDrained
  <2>1. \A q \in AsyncQueues : Quiet(q)
    BY DEF DrainInv, ShutIsQuiet, Range
  <2>2. call[Main] = Idle
    BY DEF DrainInv, MainCallsInside
  <2> QED
    BY <2>1, <2>2 DEF Quiet, Threads
<1> QED
  BY <1>1, <1>2, <1>3, TypeCorrect, PTL DEF Spec

-----------------------------------------------------------------------------
(* Acknowledgements: on_success is never called for an output that is     *)
(* still in flight, in whatever thread and order the reports come, so the  *)
(* message that a commit points at is settled.  For applications that      *)
(* answer each message with one output or with synchronous ones only.      *)

Below(m, offsets) == offset(m) < offsets[partition(m)]

\* The last message that an offset is past.
PointedAt(m, offsets) == offsets[partition(m)] = offset(m) + 1

\* A running on_success; "close" and "kill" are on_fail's.
Succeeding == {"lookup", "seed", "seeded", "store", "record"}

\* Messages whose success is reported, being recorded, stored or committed.
Acked(m) ==
    \/ PointedAt(m, stored)
    \/ PointedAt(m, committed)
    \/ \E t \in Threads : call[t].at \in Succeeding /\ call[t].msg = m
    \/ \E q \in AsyncQueues : <<m, TRUE>> \in Range(dr[q])

InFlight(m) == \E q \in AsyncQueues, n \in Nat : <<m, n>> \in Range(outbox[q])

AckedIsSettled == \A m \in Messages : Acked(m) => Settled(m)

\* An output in flight is all that its message is due.
InFlightIsDue ==
    \A q \in AsyncQueues, m \in Messages, n \in Nat :
        <<m, n>> \in Range(outbox[q]) => due[m] \subseteq {n}

TouchedIsRead ==
    \A m \in Messages : Acked(m) \/ InFlight(m) => Below(m, position)

\* The message in hand was read; until its last output is produced it is not
\* acknowledged, so that it may be due again.
HandIsUnacked ==
    /\ pc \in Holding => Below(msg, position)
    /\ Hand => ~Acked(msg) /\ ~InFlight(msg)

DueIsAhead ==
    pc = "produce" =>
        /\ \/ \A i \in DOMAIN outs : outs[i] \notin AsyncQueues
           \/ Len(outs) = 1 /\ due[msg] \subseteq {1}
        /\ (\A r \in reports : r.status /\ ~r.asynchronous) =>
              due[msg] \subseteq 1..Len(outs)

AckInv ==
    /\ AckedIsSettled
    /\ InFlightIsDue
    /\ TouchedIsRead
    /\ HandIsUnacked
    /\ NoOutsYet
    /\ DueIsAhead

-----------------------------------------------------------------------------
(* What the steps of the invariant rest on *)

\* What the types say, in the form the steps below use it.
LEMMA AckTypes ==
    ASSUME TypeOK
    PROVE  /\ pc \in Holding => msg \in Messages
           /\ outs \in Seq(Queues)
           /\ reports \in SUBSET DeliveryReport
           /\ position \in [Partitions -> Nat]
           /\ stored \in [Partitions -> Nat]
           /\ committed \in [Partitions -> Nat]
           /\ call \in [Threads -> Frames \union {Idle}]
           /\ outbox \in [AsyncQueues -> Seq(Outputs)]
           /\ dr \in [AsyncQueues -> Seq(Messages \X BOOLEAN)]
           /\ due \in [Messages -> SUBSET Nat]
           /\ Main \in Threads /\ AsyncQueues \subseteq Threads
BY DEF TypeOK, EngineTypeOK, ConsumerTypeOK, ProducerTypeOK, Holding, Threads

\* The parts about messages, when nothing new is acknowledged or in flight.
LEMMA NothingNew ==
    ASSUME AckInv,
           \A m \in Messages : Acked(m)' => Acked(m),
           \A q \in AsyncQueues : Range(outbox'[q]) \subseteq Range(outbox[q]),
           \A m \in Messages : due'[m] \subseteq due[m],
           position' = position
    PROVE  /\ AckedIsSettled' /\ InFlightIsDue' /\ TouchedIsRead'
           /\ \A m \in Messages : InFlight(m)' => InFlight(m)
<1> USE DEF AckInv
<1>1. \A m \in Messages : InFlight(m)' => InFlight(m)
  BY DEF InFlight
<1>2. AckedIsSettled'
  BY DEF AckedIsSettled, Settled
<1>3. InFlightIsDue'
  <2> SUFFICES ASSUME NEW q \in AsyncQueues, NEW m \in Messages, NEW n \in Nat,
                      <<m, n>> \in Range(outbox'[q])
               PROVE  due'[m] \subseteq {n}
    BY DEF InFlightIsDue
  <2>1. <<m, n>> \in Range(outbox[q])
    OBVIOUS
  <2>2. due[m] \subseteq {n}
    BY <2>1 DEF InFlightIsDue
  <2> QED
    BY <2>2
<1>4. TouchedIsRead'
  BY <1>1 DEF TouchedIsRead, Below
<1> QED
  BY <1>1, <1>2, <1>3, <1>4

\* The same, with the main thread where it was.
LEMMA NothingNewAtAll ==
    ASSUME TypeOK, AckInv,
           \A m \in Messages : Acked(m)' => Acked(m),
           \A q \in AsyncQueues : Range(outbox'[q]) \subseteq Range(outbox[q]),
           \A m \in Messages : due'[m] \subseteq due[m],
           position' = position,
           UNCHANGED <<pc, msg, outs, reports>>
    PROVE  AckInv'
<1>1. /\ AckedIsSettled' /\ InFlightIsDue' /\ TouchedIsRead'
      /\ \A m \in Messages : InFlight(m)' => InFlight(m)
  BY NothingNew
<1>2. pc \in Holding => msg \in Messages
  BY AckTypes
<1>3. HandIsUnacked'
  BY <1>1, <1>2 DEF AckInv, HandIsUnacked, Hand, Below, Holding
<1>4. DueIsAhead'
  <2> SUFFICES ASSUME pc = "produce"
               PROVE  DueIsAhead'
    BY DEF DueIsAhead
  <2>1. due'[msg] \subseteq due[msg]
    BY <1>2 DEF Holding
  <2> QED
    BY <2>1 DEF AckInv, DueIsAhead
<1> QED
  BY <1>1, <1>3, <1>4 DEF AckInv, NoOutsYet

\* The messages acknowledged depend on these variables only.
LEMMA AckedSame ==
    ASSUME UNCHANGED <<stored, committed, call, dr>>
    PROVE  \A m : Acked(m)' <=> Acked(m)
BY DEF Acked, PointedAt

\* A call moves on, or returns: nothing is acknowledged by that.
LEMMA CallMoves ==
    ASSUME TypeOK, NEW t \in Threads, call[t].at # "idle",
           Return(t) \/ \E site \in Sites : Goto(t, site)
    PROVE  /\ \A u \in Threads \ {t} : call'[u] = call[u]
           /\ call'[t].at # "idle" => call'[t].msg = call[t].msg
<1>0. ConsumerTypeOK
  BY DEF TypeOK
<1>1. CASE Return(t)
  BY <1>0, <1>1, ReturnFrame DEF Idle
<1>2. ASSUME NEW site \in Sites, Goto(t, site)
      PROVE  /\ \A u \in Threads \ {t} : call'[u] = call[u]
             /\ call'[t].msg = call[t].msg
  <2>1. /\ \A u \in Threads \ {t} : call'[u] = call[u]
        /\ call'[t] = [at |-> site, msg |-> call[t].msg]
    BY <1>0, <1>2, MoveFrame
  <2> QED
    BY <2>1
<1> QED
  BY <1>1, <1>2

-----------------------------------------------------------------------------
(* The invariant, action by action: the main thread *)

LEMMA PollAck ==
    ASSUME TypeOK, AckInv, NEW m \in Messages, Poll(m)
    PROVE  AckInv'
<1>1. /\ pc = "poll" /\ pc' = "handle" /\ msg' = m /\ outs' = outs
      /\ position[partition(m)] = offset(m)
      /\ position' = [position EXCEPT ![partition(m)] = offset(m) + 1]
      /\ UNCHANGED <<stored, committed, call, dr, outbox, due>>
  BY DEF Poll, Consume, PollMessage, producerVars, ghostVars
<1>2. \A x \in Messages : (Acked(x)' <=> Acked(x)) /\ (InFlight(x)' <=> InFlight(x))
  BY <1>1, AckedSame DEF InFlight
<1>3. ~Below(m, position)
  BY <1>1, MessageParts DEF Below
<1>4. \A x \in Messages : Below(x, position) \/ x = m => Below(x, position')
  BY <1>1, AckTypes, MessageParts DEF Below
<1>5. TouchedIsRead'
  BY <1>2, <1>4 DEF AckInv, TouchedIsRead, Below
<1>6. HandIsUnacked'
  BY <1>1, <1>2, <1>3, <1>4 DEF AckInv, TouchedIsRead, HandIsUnacked, Below
<1>7. AckedIsSettled' /\ InFlightIsDue'
  BY <1>1, <1>2 DEF AckInv, AckedIsSettled, InFlightIsDue, Settled
<1> QED
  BY <1>1, <1>5, <1>6, <1>7 DEF AckInv, NoOutsYet, DueIsAhead

\* The message in hand may be due again: it is neither acknowledged nor in flight.
LEMMA WorkAck ==
    ASSUME Unmixed, TypeOK, AckInv,
           \/ Handle
           \/ \E b \in AppBools : Answer(b)
           \/ \E l \in AppLists : AnswerList(l)
    PROVE  AckInv'
<1>1. /\ pc \in {"handle", "work"} /\ pc' \in {"work", "produce", "crashed"}
      /\ msg \in Messages /\ msg' = msg /\ outs = << >>
      /\ \A x \in Messages : x # msg => due'[x] = due[x]
      /\ UNCHANGED <<consumerVars, producerVars>>
      /\ pc' = "work" => outs' = outs
  BY AckTypes
  DEF Handle, HandleValid, HandleInvalid, DLQNotConfigured, Answer, WorkBool,
      AnswerList, WorkList, Holding, AckInv, NoOutsYet
<1>2. ~Acked(msg) /\ ~InFlight(msg) /\ Below(msg, position)
  BY <1>1 DEF AckInv, HandIsUnacked, Hand, Holding
<1>3. UNCHANGED <<stored, committed, call, position, dr, outbox>>
  BY <1>1 DEF consumerVars, producerVars
<1>4. \A x \in Messages : (Acked(x)' <=> Acked(x)) /\ (InFlight(x)' <=> InFlight(x))
  BY <1>3, AckedSame DEF InFlight
<1>5. AckedIsSettled' /\ TouchedIsRead'
  BY <1>1, <1>2, <1>3, <1>4 DEF AckInv, AckedIsSettled, TouchedIsRead, Settled, Below
<1>6. InFlightIsDue'
  <2> SUFFICES ASSUME NEW q \in AsyncQueues, NEW m \in Messages, NEW n \in Nat,
                      <<m, n>> \in Range(outbox[q])
               PROVE  due'[m] \subseteq {n}
    BY <1>3 DEF InFlightIsDue
  <2>1. m # msg
    BY <1>2 DEF InFlight
  <2> QED
    BY <1>1, <2>1 DEF AckInv, InFlightIsDue
<1>7. HandIsUnacked'
  BY <1>1, <1>2, <1>3, <1>4 DEF HandIsUnacked, Below
<1>8. DueIsAhead'
  <2>1. CASE Handle
    <3> SUFFICES ASSUME pc' = "produce"
                 PROVE  DueIsAhead'
      BY DEF DueIsAhead
    <3>1. due'[msg] = {1} /\ outs' = <<DeadLetterQueue>>
      BY <1>1, <2>1, AckTypes
      DEF Handle, HandleValid, HandleInvalid, DLQNotConfigured
    <3>2. Len(outs') = 1
      BY <3>1
    <3> QED
      BY <1>1, <3>1, <3>2 DEF DueIsAhead
  <2>2. ASSUME NEW b \in AppBools, Answer(b) PROVE DueIsAhead'
    <3>1. /\ b => due'[msg] = {}
          /\ reports' = {[asynchronous |-> FALSE, status |-> b]} /\ outs' = << >>
          /\ b \in BOOLEAN
      BY <1>1, <2>2, AckTypes, EngineAssumption DEF Answer, WorkBool
    <3>2. (\A r \in reports' : r.status) => b = TRUE
      <4>1. [asynchronous |-> FALSE, status |-> b].status = b
        OBVIOUS
      <4> QED
        BY <3>1, <4>1
    <3> QED
      BY <1>1, <3>1, <3>2 DEF DueIsAhead
  <2>3. ASSUME NEW l \in AppLists, AnswerList(l) PROVE DueIsAhead'
    <3>1. due'[msg] = 1..Len(l) /\ outs' = l /\ l \in Seq(Queues) /\ Len(l) \in Nat
      BY <1>1, <2>3, AckTypes, QueueFacts DEF AnswerList, WorkList
    <3>2. (\A i \in DOMAIN l : l[i] \notin AsyncQueues) \/ Len(l) = 1
      <4>1. Len(l) = 0 => \A i \in DOMAIN l : l[i] \notin AsyncQueues
        BY <3>1
      <4>2. \A k \in Nat : k <= 1 => k = 0 \/ k = 1
        OBVIOUS
      <4>3. Len(l) <= 1 => Len(l) = 0 \/ Len(l) = 1
        BY <3>1, <4>2
      <4> QED
        BY <4>1, <4>3 DEF Unmixed
    <3>3. Len(l) = 1 => due'[msg] \subseteq {1}
      BY <3>1
    <3> QED
      BY <1>1, <3>1, <3>2, <3>3 DEF DueIsAhead
  <2> QED
    BY <2>1, <2>2, <2>3
<1>9. NoOutsYet'
  BY <1>1 DEF NoOutsYet
<1> QED
  BY <1>5, <1>6, <1>7, <1>8, <1>9 DEF AckInv

\* An output is produced, or cannot be: what is still to come stays fresh.
LEMMA ProduceAck ==
    ASSUME TypeOK, AckInv,
           \/ \E status, delivered \in BOOLEAN : ProduceSync(status, delivered)
           \/ ProduceAsync
           \/ EnqueueFails
    PROVE  AckInv'
<1>1. /\ pc = "produce" /\ pc' = "produce" /\ msg' = msg /\ msg \in Messages
      /\ outs # << >> /\ outs' = Tail(outs) /\ outs \in Seq(Queues)
      /\ UNCHANGED <<stored, committed, call, position, dr>>
      /\ due'[msg] \subseteq due[msg]
      /\ \A x \in Messages : x # msg => due'[x] = due[x]
  BY AckTypes
  DEF ProduceSync, ProduceAsync, EnqueueFails, Produce, Enqueue, Delivered,
      Holding, consumerVars, producerVars, ghostVars
<1>2. /\ Len(outs) \in Nat /\ Len(outs) # 0 /\ Len(outs') = Len(outs) - 1
      /\ outs' = << >> <=> Len(outs) = 1
      /\ Head(outs) = outs[1] /\ 1 \in DOMAIN outs
      /\ Range(outs) = {Head(outs)} \union Range(outs')
  BY <1>1, EmptySeq, HeadTailProperties, TailEmpty, TailRange
<1>3. ~Acked(msg) /\ ~InFlight(msg) /\ Below(msg, position)
  BY <1>1 DEF AckInv, HandIsUnacked, Hand, Holding
<1>4. \A x \in Messages : Acked(x)' <=> Acked(x)
  BY <1>1, AckedSame
<1>5. Head(outs) \in AsyncQueues => outs' = << >> /\ Len(outs) = 1
                                    /\ due[msg] \subseteq {1}
  BY <1>1, <1>2 DEF AckInv, DueIsAhead
<1>6. \A q \in AsyncQueues :
         \/ Range(outbox'[q]) \subseteq Range(outbox[q])
         \/ /\ outs' = << >> /\ due'[msg] \subseteq {1}
            /\ Range(outbox'[q]) = Range(outbox[q]) \union {<<msg, 1>>}
  <2>1. CASE ProduceAsync
    <3>1. /\ Head(outs) \in AsyncQueues
          /\ outbox' = [outbox EXCEPT ![Head(outs)] = Append(@, <<msg, 1>>)]
      BY <1>5, <2>1 DEF ProduceAsync, Enqueue
    <3>2. <<msg, 1>> \in Outputs /\ outbox[Head(outs)] \in Seq(Outputs)
      BY <1>1, <3>1, AckTypes DEF Outputs
    <3>3. Range(outbox'[Head(outs)]) = Range(outbox[Head(outs)]) \union {<<msg, 1>>}
      <4>1. Range(Append(outbox[Head(outs)], <<msg, 1>>))
              = Range(outbox[Head(outs)]) \union {<<msg, 1>>}
        BY <3>2, AppendRange
      <4> QED
        BY <3>1, <4>1, AckTypes
    <3>4. \A q \in AsyncQueues : q # Head(outs) => outbox'[q] = outbox[q]
      BY <3>1, AckTypes
    <3> QED
      BY <1>1, <1>5, <3>1, <3>3, <3>4
  <2>2. CASE outbox' = outbox
    BY <2>2
  <2> QED
    BY <2>1, <2>2 DEF ProduceSync, ProduceAsync, EnqueueFails, producerVars
<1>7. \A x \in Messages : InFlight(x)' => InFlight(x) \/ (x = msg /\ outs' = << >>)
  BY <1>6 DEF InFlight
<1>8. AckedIsSettled' /\ TouchedIsRead'
  BY <1>1, <1>3, <1>4, <1>7
  DEF AckInv, AckedIsSettled, TouchedIsRead, Settled, Below
<1>9. InFlightIsDue'
  <2> SUFFICES ASSUME NEW q \in AsyncQueues, NEW m \in Messages, NEW n \in Nat,
                      <<m, n>> \in Range(outbox'[q])
               PROVE  due'[m] \subseteq {n}
    BY DEF InFlightIsDue
  <2>1. CASE <<m, n>> \in Range(outbox[q])
    <3>1. due[m] \subseteq {n} /\ InFlight(m)
      BY <2>1 DEF AckInv, InFlightIsDue, InFlight
    <3> QED
      BY <1>1, <1>3, <3>1
  <2>2. CASE <<m, n>> = <<msg, 1>> /\ due'[msg] \subseteq {1}
    BY <2>2
  <2> QED
    BY <1>6, <2>1, <2>2
<1>10. HandIsUnacked'
  BY <1>1, <1>3, <1>4, <1>7 DEF HandIsUnacked, Hand, Below, Holding
<1>11. DueIsAhead'
  <2>1. (\A i \in DOMAIN outs' : outs'[i] \notin AsyncQueues)
    <3>1. CASE \A i \in DOMAIN outs : outs[i] \notin AsyncQueues
      BY <1>2, <3>1 DEF Range
    <3>2. CASE Len(outs) = 1
      BY <1>2, <3>2
    <3> QED
      BY <1>1, <3>1, <3>2 DEF AckInv, DueIsAhead
  <2>2. ASSUME \A r \in reports' : r.status /\ ~r.asynchronous
        PROVE  due'[msg] \subseteq 1..Len(outs')
    <3>1. PICK status \in BOOLEAN :
             /\ Produce(status)
             /\ Head(outs) \notin AsyncQueues =>
                   \E delivered \in BOOLEAN : ProduceSync(status, delivered)
      BY DEF ProduceSync, ProduceAsync, EnqueueFails
    <3> DEFINE new == [asynchronous |-> Head(outs) \in AsyncQueues,
                       status |-> status]
    <3>2. reports' = reports \union {new}
      BY <3>1 DEF Produce
    <3>3. new.status = status /\ new.asynchronous = (Head(outs) \in AsyncQueues)
      OBVIOUS
    <3>4. status = TRUE /\ Head(outs) \notin AsyncQueues
      BY <2>2, <3>2, <3>3
    <3>5. due' = [due EXCEPT ![msg] = @ \ {Len(outs)}]
      BY <3>1, <3>4 DEF ProduceSync, Delivered
    <3>6. due'[msg] = due[msg] \ {Len(outs)}
      BY <1>1, <3>5, AckTypes
    <3>7. due[msg] \subseteq 1..Len(outs)
      BY <1>1, <2>2, <3>2 DEF AckInv, DueIsAhead
    <3> QED
      BY <1>2, <3>6, <3>7
  <2> QED
    BY <1>1, <2>1, <2>2 DEF DueIsAhead
<1>12. NoOutsYet'
  BY <1>1 DEF NoOutsYet
<1> QED
  BY <1>8, <1>9, <1>10, <1>11, <1>12 DEF AckInv

\* What a step must not do, for nothing new to be acknowledged.
LEMMA NoNewAck ==
    ASSUME \A m \in Messages : PointedAt(m, stored') => Acked(m),
           \A p \in Partitions : committed'[p] \in {committed[p], stored[p]},
           \A t \in Threads : call'[t].at \in Succeeding =>
               call[t].at \in Succeeding /\ call'[t].msg = call[t].msg,
           \A q \in AsyncQueues : Range(dr'[q]) \subseteq Range(dr[q])
    PROVE  \A m \in Messages : Acked(m)' => Acked(m)
<1> SUFFICES ASSUME NEW m \in Messages, Acked(m)'
             PROVE  Acked(m)
  OBVIOUS
<1>1. CASE PointedAt(m, committed')
  BY <1>1, MessageParts DEF Acked, PointedAt
<1>2. CASE \E t \in Threads : call'[t].at \in Succeeding /\ call'[t].msg = m
  BY <1>2 DEF Acked
<1>3. CASE \E q \in AsyncQueues : <<m, TRUE>> \in Range(dr'[q])
  BY <1>3 DEF Acked
<1> QED
  BY <1>1, <1>2, <1>3 DEF Acked, PointedAt

\* The verdict calls on_success for a message nothing of which is due.
LEMMA DispatchAck ==
    ASSUME TypeOK, AckInv, Dispatch
    PROVE  AckInv'
<1>1. /\ pc = "produce" /\ outs = << >> /\ msg \in Messages
      /\ UNCHANGED <<stored, committed, position, dr, outbox, due>>
      /\ pc' \in {"mark", "loop"} /\ outs' = << >>
      /\ pc' = "mark" => msg' = msg
  BY AckTypes
  DEF Dispatch, MarkSuccess, MarkFail, LeaveToCallback, Produced, NextIteration,
      Fail, on_success, on_fail, Holding, ghostVars, consumerVars, producerVars
<1>2. Below(msg, position)
  BY <1>1 DEF AckInv, HandIsUnacked, Holding
<1>3. \A x \in Messages : Acked(x)' => Acked(x) \/ (x = msg /\ Settled(msg))
  <2>1. CASE MarkSuccess /\ on_success(Main, msg)
    <3>1. call' = [call EXCEPT ![Main] = [at |-> "lookup", msg |-> msg]]
      BY <2>1 DEF on_success
    <3>2. \A t \in Threads : t # Main => call'[t] = call[t]
      BY <3>1, AckTypes
    <3>3. call'[Main].msg = msg
      BY <3>1, AckTypes
    <3>4. \A r \in reports : r.status /\ ~r.asynchronous
      BY <2>1, AckTypes, SuccessMeansDelivered DEF MarkSuccess
    <3>5. due[msg] \subseteq 1..Len(outs)
      BY <1>1, <3>4 DEF AckInv, DueIsAhead
    <3>6. Settled(msg)
      <4>1. Len(outs) = 0
        BY <1>1
      <4> QED
        BY <3>5, <4>1 DEF Settled
    <3> QED
      BY <1>1, <3>2, <3>3, <3>6 DEF Acked, PointedAt
  <2>2. CASE \/ MarkFail /\ Fail(Main, msg)
             \/ LeaveToCallback /\ UNCHANGED consumerVars
    <3>1. \A t \in Threads : call'[t].at \in Succeeding => call'[t] = call[t]
      <4>1. CASE call' = call
        BY <4>1
      <4>2. CASE call' = [call EXCEPT ![Main] = [at |-> "close", msg |-> msg]]
        <5>1. call'[Main].at = "close"
          BY <4>2, AckTypes
        <5> QED
          BY <4>2, <5>1, AckTypes DEF Succeeding
      <4> QED
        BY <2>2, <4>1, <4>2 DEF Fail, on_fail, consumerVars
    <3> QED
      BY <1>1, <3>1 DEF Acked, PointedAt
  <2> QED
    BY <2>1, <2>2 DEF Dispatch, consumerVars
<1>4. \A x \in Messages : InFlight(x)' <=> InFlight(x)
  BY <1>1 DEF InFlight
<1>5. AckedIsSettled' /\ InFlightIsDue' /\ TouchedIsRead'
  BY <1>1, <1>2, <1>3, <1>4
  DEF AckInv, AckedIsSettled, InFlightIsDue, TouchedIsRead, Settled, Below
<1>6. HandIsUnacked' /\ DueIsAhead' /\ NoOutsYet'
  BY <1>1, <1>2
  DEF HandIsUnacked, DueIsAhead, NoOutsYet, Hand, Below, Holding
<1> QED
  BY <1>5, <1>6 DEF AckInv

-----------------------------------------------------------------------------
(* The invariant, action by action: brokers, callbacks, commits, crashes *)

\* An output has its outcome: if it was delivered, its message is settled.
LEMMA OutcomeAck ==
    ASSUME TypeOK, AckInv, NEW q \in AsyncQueues, Outcome(q)
    PROVE  AckInv'
<1>0. outbox[q] \in Seq(Outputs)
  BY AckTypes
<1>1. PICK i \in DOMAIN outbox[q], ok \in BOOLEAN :
          /\ Report(q, i, ok)
          /\ UNCHANGED <<engineVars, consumerVars>>
          /\ \/ Delivered(outbox[q][i][1], outbox[q][i][2])
             \/ ok = FALSE /\ UNCHANGED due
  BY DEF Outcome, Deliver, Reject, ghostVars
<1>2. PICK m \in Messages, n \in Nat : outbox[q][i] = <<m, n>>
  <2>1. outbox[q][i] \in Outputs
    BY <1>0
  <2> QED
    BY <2>1 DEF Outputs
<1>3. /\ outbox' = [outbox EXCEPT ![q] = RemoveAt(@, i)]
      /\ dr' = [dr EXCEPT ![q] = Append(@, <<m, ok>>)]
      /\ \/ due' = [due EXCEPT ![m] = @ \ {n}]
         \/ ok = FALSE /\ UNCHANGED due
  BY <1>1, <1>2 DEF Report, Delivered
<1>4. /\ Range(outbox[q]) = {<<m, n>>} \union Range(outbox'[q])
      /\ \A o \in AsyncQueues : Range(outbox'[o]) \subseteq Range(outbox[o])
  <2>1. Range(outbox[q]) = {outbox[q][i]} \union Range(RemoveAt(outbox[q], i))
    BY <1>0, RemoveRange
  <2> QED
    BY <1>2, <1>3, <2>1, AckTypes
<1>5. /\ Range(dr'[q]) = Range(dr[q]) \union {<<m, ok>>}
      /\ \A o \in AsyncQueues : o # q => dr'[o] = dr[o]
  <2>1. <<m, ok>> \in Messages \X BOOLEAN
    OBVIOUS
  <2>2. dr[q] \in Seq(Messages \X BOOLEAN)
    BY AckTypes
  <2>3. Range(Append(dr[q], <<m, ok>>)) = Range(dr[q]) \union {<<m, ok>>}
    BY <2>1, <2>2, AppendRange
  <2> QED
    BY <1>3, <2>3, AckTypes
<1>6. due[m] \subseteq {n} /\ InFlight(m)
  BY <1>4 DEF AckInv, InFlightIsDue, InFlight
<1>7. \A x \in Messages : due'[x] \subseteq due[x]
  BY <1>3, AckTypes
<1>8. ok = TRUE => due'[m] = {}
  BY <1>3, <1>6, AckTypes
<1>9. UNCHANGED <<pc, msg, outs, reports, stored, committed, call, position>>
  BY <1>1 DEF engineVars, consumerVars
<1>10. \A x \in Messages : Acked(x)' => Acked(x) \/ (x = m /\ due'[m] = {})
  <2> SUFFICES ASSUME NEW x \in Messages, Acked(x)',
                      NEW o \in AsyncQueues, <<x, TRUE>> \in Range(dr'[o])
               PROVE  Acked(x) \/ (x = m /\ due'[m] = {})
    BY <1>9 DEF Acked, PointedAt
  <2>1. CASE <<x, TRUE>> \in Range(dr[o])
    BY <2>1 DEF Acked
  <2>2. CASE <<x, TRUE>> = <<m, ok>>
    BY <1>8, <2>2
  <2> QED
    BY <1>5, <2>1, <2>2
<1>11. \A x \in Messages : InFlight(x)' => InFlight(x)
  BY <1>4 DEF InFlight
<1>12. AckedIsSettled'
  BY <1>7, <1>10 DEF AckInv, AckedIsSettled, Settled
<1>13. InFlightIsDue'
  <2> SUFFICES ASSUME NEW o \in AsyncQueues, NEW x \in Messages, NEW k \in Nat,
                      <<x, k>> \in Range(outbox'[o])
               PROVE  due'[x] \subseteq {k}
    BY DEF InFlightIsDue
  <2>1. due[x] \subseteq {k}
    BY <1>4 DEF AckInv, InFlightIsDue
  <2> QED
    BY <1>7, <2>1
<1>14. TouchedIsRead'
  BY <1>6, <1>9, <1>10, <1>11 DEF AckInv, TouchedIsRead, Below
<1>15. HandIsUnacked'
  <2>1. pc \in Holding => msg \in Messages
    BY AckTypes
  <2> QED
    BY <1>6, <1>9, <1>10, <1>11, <2>1
    DEF AckInv, HandIsUnacked, Hand, Below, Holding
<1>16. DueIsAhead'
  <2> SUFFICES ASSUME pc = "produce"
               PROVE  DueIsAhead'
    BY <1>9 DEF DueIsAhead
  <2>1. due'[msg] \subseteq due[msg]
    BY <1>7, AckTypes DEF Holding
  <2> QED
    BY <1>9, <2>1 DEF AckInv, DueIsAhead
<1> QED
  BY <1>9, <1>12, <1>13, <1>14, <1>15, <1>16 DEF AckInv, NoOutsYet

\* A callback calls on_success for a message that its report acknowledged.
LEMMA ServeAck ==
    ASSUME TypeOK, AckInv, NEW t \in Threads, NEW q \in AsyncQueues, Serve(t, q)
    PROVE  AckInv'
<1>1. PICK m \in Messages, ok \in BOOLEAN : Callback(t, q, m, ok)
  BY DEF Serve
<1>2. /\ dr[q] # << >> /\ Head(dr[q]) = <<m, ok>>
      /\ dr' = [dr EXCEPT ![q] = Tail(@)]
      /\ UNCHANGED <<pc, msg, outs, reports, stored, committed, position, outbox, due>>
  BY <1>1 DEF Callback, acked, Fail, on_success, on_fail, engineVars, ghostVars
<1>3. /\ Range(dr[q]) = {<<m, ok>>} \union Range(dr'[q])
      /\ \A o \in AsyncQueues : Range(dr'[o]) \subseteq Range(dr[o])
  <2>1. Range(dr[q]) = {<<m, ok>>} \union Range(Tail(dr[q]))
    BY <1>2, TailRange, AckTypes
  <2> QED
    BY <1>2, <2>1, AckTypes
<1>4. \A u \in Threads : call'[u].at \in Succeeding =>
         call'[u] = call[u] \/ (ok = TRUE /\ call'[u].msg = m)
  <2>1. CASE ok = TRUE /\ call' = [call EXCEPT ![t] = [at |-> "lookup", msg |-> m]]
    BY <2>1, AckTypes
  <2>2. CASE call' = [call EXCEPT ![t] = [at |-> "close", msg |-> m]]
    <3>1. call'[t].at = "close"
      BY <2>2, AckTypes
    <3> QED
      BY <2>2, <3>1, AckTypes DEF Succeeding
  <2>3. CASE call' = call
    BY <2>3
  <2> QED
    BY <1>1, <2>1, <2>2, <2>3 DEF Callback, Fail, on_success, on_fail
<1>5. ok = TRUE => Acked(m)
  BY <1>3 DEF Acked
<1>6. \A x \in Messages : Acked(x)' => Acked(x)
  BY <1>2, <1>3, <1>4, <1>5 DEF Acked, PointedAt
<1> QED
  BY <1>2, <1>6, NothingNewAtAll

\* A call stores and commits only what it, or an earlier one, acknowledges.
LEMMA CallAcks ==
    ASSUME TypeOK, AckInv, NEW t \in Threads, CallStep(t)
    PROVE  AckInv'
<1>0. ConsumerTypeOK
  BY DEF TypeOK
<1>1. /\ UNCHANGED <<msg, outs, reports, position, outbox, dr, due>>
      /\ pc' \in {pc, "aborted"}
  BY DEF CallStep, StepCall, StepKill, StepRaises, Abort, exit_gracefully,
         PollThreadDies, Lookup, Record, StoreOffsets, CloseOnFail, KillOnFail,
         StoreRaises, Close, engineVars, producerVars, ghostVars
<1>2. call[t].at # "idle"
  BY DEF CallStep, StepCall, StepKill, StepRaises, Lookup, Record, StoreOffsets,
         Storing, CloseOnFail, KillOnFail, StoreRaises
<1>3. call[t] \in Frames /\ call[t].msg \in Messages
  BY <1>0, <1>2, BusyFrame
<1>4. Return(t) \/ \E site \in Sites : Goto(t, site)
  BY DEF CallStep, StepCall, StepKill, StepRaises, Lookup, Record, StoreOffsets,
         CloseOnFail, KillOnFail, StoreRaises, Sites
<1>5. /\ \A u \in Threads \ {t} : call'[u] = call[u]
      /\ call'[t].at # "idle" => call'[t].msg = call[t].msg
  BY <1>2, <1>4, CallMoves
<1>6. call'[t].at \in Succeeding => call[t].at \in Succeeding
  <2>1. CASE CloseOnFail(t)
    <3>1. call'[t] = [at |-> "kill", msg |-> call[t].msg]
      BY <1>0, <1>2, <2>1, MoveFrame DEF CloseOnFail, Sites
    <3>2. call'[t].at = "kill"
      BY <3>1
    <3> QED
      BY <3>2 DEF Succeeding
  <2>2. CASE KillOnFail(t)
    <3>1. call'[t].at = "idle"
      BY <1>0, <2>2, ReturnFrame DEF KillOnFail, Idle
    <3> QED
      BY <3>1 DEF Succeeding
  <2> QED
    BY <2>1, <2>2 DEF CallStep, StepCall, StepKill, StepRaises, Lookup, Record,
                      StoreOffsets, Storing, StoreRaises, Succeeding
<1>7. \A u \in Threads : call'[u].at \in Succeeding =>
         call[u].at \in Succeeding /\ call'[u].msg = call[u].msg
  BY <1>5, <1>6 DEF Succeeding
<1>8. \A m \in Messages : PointedAt(m, stored') => Acked(m)
  <2>1. CASE stored' = stored
    BY <2>1 DEF Acked
  <2>2. CASE StoreOffsets(t)
    <3> SUFFICES ASSUME NEW m \in Messages, PointedAt(m, stored')
                 PROVE  Acked(m)
      OBVIOUS
    <3> DEFINE x == call[t].msg
    <3>1. /\ stored' = [stored EXCEPT ![partition(x)] = offset(x) + 1]
          /\ call[t].at \in Succeeding
      BY <2>2 DEF StoreOffsets, Storing, Succeeding
    <3>2. CASE partition(m) # partition(x)
      <4>1. stored'[partition(m)] = stored[partition(m)]
        BY <1>3, <3>1, <3>2, AckTypes, MessageParts
      <4> QED
        BY <4>1 DEF Acked, PointedAt
    <3>3. CASE partition(m) = partition(x)
      <4>1. stored'[partition(m)] = offset(x) + 1
        BY <1>3, <3>1, <3>3, AckTypes, MessageParts
      <4>2. offset(m) \in Nat /\ offset(x) \in Nat
        BY <1>3, MessageParts
      <4>3. offset(m) = offset(x)
        BY <4>1, <4>2 DEF PointedAt
      <4>4. m = x
        BY <1>3, <3>3, <4>3, MessageParts
      <4> QED
        BY <3>1, <4>4 DEF Acked
    <3> QED
      BY <3>2, <3>3
  <2> QED
    BY <2>1, <2>2
    DEF CallStep, StepCall, StepKill, StepRaises, Lookup, Record, CloseOnFail,
        KillOnFail, StoreRaises, Close
<1>9. \A p \in Partitions : committed'[p] \in {committed[p], stored[p]}
  <2>1. CASE Close
    BY <2>1 DEF Close, Final
  <2>2. CASE committed' = committed
    BY <2>2
  <2> QED
    BY <2>1, <2>2
    DEF CallStep, StepCall, StepKill, StepRaises, Lookup, Record, StoreOffsets,
        CloseOnFail, KillOnFail, StoreRaises
<1>10. \A m \in Messages : Acked(m)' => Acked(m)
  BY <1>1, <1>7, <1>8, <1>9, NoNewAck
<1>11. CASE pc' = pc
  BY <1>1, <1>10, <1>11, NothingNewAtAll
<1>12. CASE pc' = "aborted"
  <2>1. AckedIsSettled' /\ InFlightIsDue' /\ TouchedIsRead'
    BY <1>1, <1>10, NothingNew
  <2> QED
    BY <1>12, <2>1
    DEF AckInv, HandIsUnacked, Hand, Holding, NoOutsYet, DueIsAhead
<1> QED
  BY <1>1, <1>11, <1>12

\* A commit takes the offset that is stored, or leaves the one it finds.
LEMMA CommitAck ==
    ASSUME TypeOK, AckInv, Commit \/ CloseConsumer
    PROVE  AckInv'
<1>1. /\ UNCHANGED <<stored, call, position, dr, outbox, due, msg, outs, reports>>
      /\ pc' \in {pc, "stopped"}
  BY DEF Commit, CloseConsumer, ShutdownConsumer, AutoCommit, Close, engineVars,
         producerVars, ghostVars
<1>2. \A p \in Partitions : committed'[p] \in {committed[p], stored[p]}
  BY DEF Commit, AutoCommit, CloseConsumer, Close, Final
<1>3. \A m \in Messages : Acked(m)' => Acked(m)
  <2>1. \A m \in Messages : PointedAt(m, stored') => Acked(m)
    BY <1>1 DEF Acked
  <2> QED
    BY <1>1, <1>2, <2>1, NoNewAck
<1>4. CASE pc' = pc
  BY <1>1, <1>3, <1>4, NothingNewAtAll
<1>5. CASE pc' = "stopped"
  <2>1. AckedIsSettled' /\ InFlightIsDue' /\ TouchedIsRead'
    BY <1>1, <1>3, NothingNew
  <2> QED
    BY <1>5, <2>1
    DEF AckInv, HandIsUnacked, Hand, Holding, NoOutsYet, DueIsAhead
<1> QED
  BY <1>1, <1>4, <1>5

\* What a dead process leaves acknowledged is what it committed.
LEMMA DieAck ==
    ASSUME TypeOK, AckInv, Die
    PROVE  AckInv'
<1>1. /\ pc' = "down" /\ outs' = << >>
      /\ position' = committed /\ UNCHANGED <<committed, due>>
      /\ \A p \in Partitions : stored'[p] = 0
      /\ \A t \in Threads : call'[t] = Idle
      /\ \A q \in AsyncQueues : outbox'[q] = << >> /\ dr'[q] = << >>
  BY DEF Die, Vanish, Resubscribe, Reconnect
<1>2. \A x : x \notin Range(<< >>)
  BY DEF Range
<1>3. \A m \in Messages : ~InFlight(m)'
  BY <1>1, <1>2 DEF InFlight
<1>4. \A m \in Messages : Acked(m)' => PointedAt(m, committed)
  <2> SUFFICES ASSUME NEW m \in Messages, Acked(m)'
               PROVE  PointedAt(m, committed)
    OBVIOUS
  <2>1. ~PointedAt(m, stored')
    BY <1>1, MessageParts DEF PointedAt
  <2>2. \A t \in Threads : call'[t].at \notin Succeeding
    BY <1>1 DEF Idle, Succeeding
  <2> QED
    BY <1>1, <1>2, <2>1, <2>2 DEF Acked, PointedAt
<1>5. AckedIsSettled'
  BY <1>1, <1>4 DEF AckInv, AckedIsSettled, Acked, Settled
<1>6. TouchedIsRead'
  <2>1. \A m \in Messages : PointedAt(m, committed) => Below(m, position')
    BY <1>1, MessageParts DEF PointedAt, Below
  <2> QED
    BY <1>3, <1>4, <2>1 DEF TouchedIsRead, Below
<1>7. InFlightIsDue'
  BY <1>1, <1>2 DEF InFlightIsDue
<1> QED
  BY <1>1, <1>5, <1>6, <1>7
  DEF AckInv, HandIsUnacked, Hand, Holding, NoOutsYet, DueIsAhead

\* The other steps acknowledge nothing, and hold nothing that they did not.
LEMMA RestAck ==
    ASSUME TypeOK, AckInv,
           \/ CheckKillNow \/ PollNothing \/ PollRaises \/ Crash \/ EndIteration
           \/ CloseProducer \/ Signal \/ Restart \/ Terminated \/ UNCHANGED vars
    PROVE  AckInv'
<1>1. UNCHANGED <<stored, committed, call, position, dr, outbox, due>>
  BY DEF CheckKillNow, PollNothing, PollRaises, Crash, EndIteration,
         CloseProducer, Flushed, Signal, Restart, Terminated, vars,
         consumerVars, producerVars, ghostVars
<1>2. /\ AckedIsSettled' /\ InFlightIsDue' /\ TouchedIsRead'
  BY <1>1, AckedSame, NothingNew
<1>3. NoOutsYet'
  BY NoOutsStep
  DEF AckInv, EngineStep, CheckKillNow, PollNothing, PollRaises, Crash,
      EndIteration, CloseProducer, Signal, Restart, Terminated, vars
<1>4. CASE UNCHANGED <<pc, msg, outs, reports>>
  BY <1>1, <1>4, AckedSame, NothingNewAtAll
<1>5. CASE pc' \notin Holding
  BY <1>2, <1>3, <1>5
  DEF AckInv, HandIsUnacked, Hand, Holding, DueIsAhead
<1>6. UNCHANGED <<pc, msg, outs, reports>> \/ pc' \notin Holding
  BY DEF CheckKillNow, LoopAgain, LoopExit, PollNothing, ConsumeNone, PollRaises,
         Abort, Crash, WorkRaises, ProduceRaises, EndIteration, Marked,
         NextIteration, CloseProducer, ShutdownProducer, Signal,
         exit_gracefully, Restart, Start, Terminated, vars, engineVars, Holding
<1> QED
  BY <1>4, <1>5, <1>6

-----------------------------------------------------------------------------
(* The invariant, and what it says *)

LEMMA AckStep ==
    ASSUME Unmixed, TypeOK, AckInv, [Next]_vars
    PROVE  AckInv'
BY PollAck, WorkAck, ProduceAck, DispatchAck, OutcomeAck, ServeAck, CallAcks,
   CommitAck, DieAck, RestAck
DEF Next, MainStep, LoopStep

LEMMA AckInit == Init => AckInv
<1> SUFFICES ASSUME Init
             PROVE  AckInv
  OBVIOUS
<1>1. /\ pc = "loop" /\ outs = << >>
      /\ \A p \in Partitions : stored[p] = 0 /\ committed[p] = 0
      /\ \A t \in Threads : call[t] = Idle
      /\ \A q \in AsyncQueues : outbox[q] = << >> /\ dr[q] = << >>
  BY DEF Init, EngineInit, ConsumerInit, ProducerInit
<1>2. \A x : x \notin Range(<< >>)
  BY DEF Range
<1>3. \A m \in Messages : ~InFlight(m)
  BY <1>1, <1>2 DEF InFlight
<1>4. \A m \in Messages : ~Acked(m)
  <2> SUFFICES ASSUME NEW m \in Messages
               PROVE  ~Acked(m)
    OBVIOUS
  <2>1. ~PointedAt(m, stored) /\ ~PointedAt(m, committed)
    BY <1>1, MessageParts DEF PointedAt
  <2>2. \A t \in Threads : call[t].at \notin Succeeding
    BY <1>1 DEF Idle, Succeeding
  <2> QED
    BY <1>1, <1>2, <2>1, <2>2 DEF Acked
<1> QED
  BY <1>1, <1>2, <1>3, <1>4
  DEF AckInv, AckedIsSettled, InFlightIsDue, TouchedIsRead, HandIsUnacked, Hand,
      Holding, NoOutsYet, DueIsAhead

\* The message a commit points at is settled, whatever its callbacks raced with:
\* for every application that answers a message with one output or with
\* synchronous ones only, with any number of asynchronous producers, reports in
\* any order, failures honoured or not, signals, crashes and restarts.
THEOREM CommitsWhatIsSettled ==
    ASSUME Unmixed
    PROVE  Spec => []LastCommittedSettled
<1>1. TypeOK /\ AckInv /\ [Next]_vars => AckInv'
  BY AckStep
<1>2. TypeOK /\ AckInv => LastCommittedSettled
  <2> SUFFICES ASSUME TypeOK, AckInv, NEW p \in Partitions, committed[p] # 0
               PROVE  Settled(<<p, committed[p] - 1>>)
    BY DEF LastCommittedSettled
  <2> DEFINE m == <<p, committed[p] - 1>>
  <2>1. committed[p] \in 0..(MaxOffset + 1)
    BY DEF TypeOK, ConsumerTypeOK
  <2>2. committed[p] - 1 \in Offsets /\ committed[p] = (committed[p] - 1) + 1
    BY <2>1, TopologyAssumption DEF Offsets
  <2>3. m \in Messages /\ partition(m) = p /\ offset(m) = committed[p] - 1
    BY <2>2 DEF Messages, partition, offset
  <2>4. Acked(m)
    BY <2>2, <2>3 DEF Acked, PointedAt
  <2> QED
    BY <2>3, <2>4 DEF AckInv, AckedIsSettled
<1> QED
  BY <1>1, <1>2, AckInit, TypeCorrect, PTL DEF Spec

-----------------------------------------------------------------------------
(* What makes a worker implement the promise *)

\* What close() commits is not behind what was committed before.
StoredFirst == \A p \in Partitions : stored[p] # 0 => committed[p] <= stored[p]

\* A step that changes what is due settles one message, or reopens the one in hand.
LEMMA DueSteps ==
    ASSUME TypeOK, Hand => ~Below(msg, committed),
           \/ Handle
           \/ \E b \in AppBools : Answer(b)
           \/ \E l \in AppLists : AnswerList(l)
           \/ \E status, delivered \in BOOLEAN : ProduceSync(status, delivered)
           \/ \E q \in AsyncQueues : Outcome(q)
    PROVE  /\ committed' = committed
           /\ \E m \in Messages :
                 /\ \A x \in Messages \ {m} : due'[x] = due[x]
                 /\ m \in Removed => due'[m] \subseteq due[m]
<1> USE AckTypes
<1>1. CASE \E q \in AsyncQueues : Outcome(q)
  <2>0. PICK q \in AsyncQueues : Outcome(q)
    BY <1>1
  <2>1. PICK i \in DOMAIN outbox[q] :
            \/ due' = due
            \/ Delivered(outbox[q][i][1], outbox[q][i][2])
    BY <2>0 DEF Outcome, Deliver, Reject, ghostVars
  <2>2. outbox[q][i] \in Outputs
    BY <2>1
  <2> DEFINE m == outbox[q][i][1]
  <2>3. m \in Messages
    BY <2>2 DEF Outputs
  <2>4. /\ \A x \in Messages \ {m} : due'[x] = due[x]
        /\ due'[m] \subseteq due[m]
    BY <2>1, <2>3 DEF Delivered
  <2>5. committed' = committed
    BY <1>1 DEF Outcome, Deliver, Reject, consumerVars
  <2> QED
    BY <2>3, <2>4, <2>5
<1>2. CASE ~\E q \in AsyncQueues : Outcome(q)
  <2>1. /\ pc \in {"handle", "work", "produce"} /\ msg \in Messages
        /\ pc = "produce" => outs # << >>
        /\ \A x \in Messages \ {msg} : due'[x] = due[x]
        /\ committed' = committed
    BY <1>2 DEF Handle, HandleValid, HandleInvalid, DLQNotConfigured, Answer, WorkBool,
                AnswerList, WorkList, ProduceSync, Produce, Delivered, Holding,
                consumerVars
  <2>2. msg \notin Removed
    BY <2>1 DEF Hand, Removed, Below
  <2> QED
    BY <2>1, <2>2
<1> QED
  BY <1>1, <1>2

\* A commit only moves forward, and every other step leaves it alone.
LEMMA CommitOnlyGrows ==
    ASSUME TypeOK, TypeOK', StoredFirst,
           Commit \/ CloseConsumer \/ \E t \in Threads : CallStep(t)
    PROVE  due' = due /\ Removed \subseteq Removed'
<1>1. due' = due
  BY DEF Commit, CloseConsumer, CallStep, StepCall, StepKill, StepRaises,
         ghostVars
<1>2. \/ committed' = committed
      \/ AutoCommit
      \/ committed' = [p \in Partitions |-> Final(p)]
  BY DEF Commit, AutoCommit, CloseConsumer, Close, CallStep, StepCall,
         StepKill, StepRaises, Lookup, Record, StoreOffsets, CloseOnFail,
         KillOnFail, StoreRaises
<1>3. committed \in [Partitions -> Int] /\ committed' \in [Partitions -> Int]
      /\ stored \in [Partitions -> Int]
  BY DEF TypeOK, ConsumerTypeOK
<1>4. \A p \in Partitions : committed'[p] >= committed[p]
  BY <1>2, <1>3 DEF AutoCommit, Final, StoredFirst
<1> QED
  BY <1>1, <1>3, <1>4, MessageParts DEF Removed

\* A worker that commits forward, over settled messages and never past the one in
\* hand, takes the steps of Delivery.
LEMMA StepImplements ==
    ASSUME TypeOK, TypeOK', [Next]_vars, AtLeastOnce', StoredFirst,
           Hand => ~Below(msg, committed)
    PROVE  [Promise!Next]_(Promise!vars)
<1> DEFINE settled == {m \in Messages : Settled(m)}
<1>1. ASSUME due' = due PROVE settled' = settled
  BY <1>1 DEF Settled
<1>2. CASE \/ Handle
           \/ \E b \in AppBools : Answer(b)
           \/ \E l \in AppLists : AnswerList(l)
           \/ \E status, delivered \in BOOLEAN : ProduceSync(status, delivered)
           \/ \E q \in AsyncQueues : Outcome(q)
  <2>1. Removed' = Removed
    BY <1>2, DueSteps DEF Removed
  <2>2. PICK m \in Messages :
            /\ \A x \in Messages \ {m} : due'[x] = due[x]
            /\ m \in Removed => due'[m] \subseteq due[m]
    BY <1>2, DueSteps
  <2>3. CASE due'[m] = {}
    <3>1. settled' = settled \union {m}
      BY <2>2, <2>3 DEF Settled
    <3> QED
      BY <2>1, <3>1 DEF Promise!Next, Promise!Settle
  <2>4. CASE due'[m] # {}
    <3>1. settled' = settled \ {m}
      BY <2>2, <2>4 DEF Settled
    <3>2. CASE m \notin Removed
      BY <2>1, <3>1, <3>2 DEF Promise!Next, Promise!Reopen
    <3>3. CASE m \in Removed
      <4>1. settled' = settled
        BY <2>2, <2>4, <3>1, <3>3 DEF Settled
      <4> QED
        BY <2>1, <4>1 DEF Promise!vars
    <3> QED
      BY <3>2, <3>3
  <2> QED
    BY <2>3, <2>4
<1>3. CASE Commit \/ CloseConsumer \/ \E t \in Threads : CallStep(t)
  <2>1. due' = due /\ Removed \subseteq Removed'
    BY <1>3, CommitOnlyGrows
  <2>2. settled' = settled /\ Removed' = Removed \union Removed'
    BY <1>1, <2>1
  <2>3. Removed' \subseteq settled
    BY <2>2 DEF AtLeastOnce, Removed
  <2>4. Removed' \in SUBSET Messages
    BY DEF Removed
  <2> QED
    BY <2>2, <2>3, <2>4 DEF Promise!Next, Promise!Remove
<1>4. CASE due' = due /\ committed' = committed
  BY <1>1, <1>4 DEF Promise!vars, Removed
<1>5. ASSUME ~\E t \in Threads : CallStep(t), ~Commit, ~CloseConsumer,
             ~Handle, ~\E b \in AppBools : Answer(b),
             ~\E l \in AppLists : AnswerList(l),
             ~\E status, delivered \in BOOLEAN : ProduceSync(status, delivered),
             ~\E q \in AsyncQueues : Outcome(q)
      PROVE  due' = due /\ committed' = committed
  <2>1. CASE MainStep
    BY <1>5, <2>1
    DEF MainStep, LoopStep, CheckKillNow, PollNothing, PollRaises, Crash,
        Dispatch, Fail, on_success, on_fail, EndIteration, CloseProducer,
        ProduceAsync, EnqueueFails, consumerVars, ghostVars
  <2>2. ASSUME NEW m \in Messages, Poll(m)
        PROVE  due' = due /\ committed' = committed
    BY <2>2 DEF Poll, PollMessage, ghostVars
  <2>3. ASSUME NEW t \in Threads, NEW q \in AsyncQueues, Serve(t, q)
        PROVE  due' = due /\ committed' = committed
    BY <2>3 DEF Serve, Callback, Fail, on_success, on_fail, ghostVars
  <2>4. CASE Signal \/ Die \/ Restart \/ Terminated \/ UNCHANGED vars
    BY <2>4
    DEF Signal, Die, Resubscribe, Restart, Terminated, vars, consumerVars,
        ghostVars
  <2> QED
    BY <1>5, <2>1, <2>2, <2>3, <2>4 DEF Next
<1> QED
  BY <1>2, <1>3, <1>4, <1>5

LEMMA InitImplements == Init => Promise!Init
BY MessageParts
DEF Init, ConsumerInit, Promise!Init, Removed, Settled, Decision

-----------------------------------------------------------------------------
(* At-least-once delivery, for a worker none of whose producers is         *)
(* asynchronous and that stops on failure: then the main thread is alone,  *)
(* handles one message at a time, and a message that is not settled when   *)
(* the iteration ends closes the consumer before the next one is stored.   *)

SyncWorker == AsyncQueues = {} /\ StopOnFailure

\* What is stored or committed covers settled messages only.
CoveredIsSettled ==
    \A m \in Messages :
        Below(m, stored) \/ Below(m, committed) => Settled(m)

\* While the consumer is open, every message read but the one in hand is
\* settled: this is what makes it safe to store the offset of that one.
ReadIsSettled ==
    open => \A m \in Messages : Below(m, position) /\ m # msg => Settled(m)

CoveredIsRead ==
    \A p \in Partitions : stored[p] <= position[p] /\ committed[p] <= position[p]

\* What is stored is at least what is committed, so that the unconditional
\* commit of close() takes nothing back; the message being acknowledged is
\* ahead of both until it is stored.
StoredIsAhead ==
    /\ \A p \in Partitions : stored[p] # 0 => committed[p] <= stored[p]
    /\ call[Main].at \in {"lookup", "seed", "seeded", "store"} =>
          ~Below(msg, stored) /\ ~Below(msg, committed)

\* The message in hand has been read, is covered by nothing until it is
\* marked, and so may be unsettled.
HandIsFresh ==
    /\ pc \in Holding => Below(msg, position)
    /\ pc \in {"handle", "work", "produce"} =>
          ~Below(msg, stored) /\ ~Below(msg, committed)
    /\ pc \in {"loop", "poll", "shutdown", "stopped", "down"} =>
          msg = NoMessage
    /\ pc # "mark" => call[Main] = Idle

\* As long as no output failed, what is due is what is still to be produced.
DueIsUnproduced ==
    pc = "produce" /\ (\A r \in reports : r.status) =>
        due[msg] \subseteq 1..Len(outs)

NoneAsynchronous == \A r \in reports : ~r.asynchronous

\* on_success is called for a settled message, on an open consumer; on_fail
\* leaves the consumer closed.
MarkIsRight ==
    /\ call[Main].at \in {"lookup", "seed", "seeded", "store", "record"} =>
          call[Main].msg = msg /\ Settled(msg) /\ open
    /\ call[Main].at = "kill" => ~open
    /\ pc = "mark" /\ call[Main] = Idle /\ open => Settled(msg)

\* A consumer is closed only on the way to the end of the process.
ClosedEnds ==
    /\ ~open => \/ pc = "mark" /\ call[Main].at = "kill"
                \/ pc \in {"mark", "loop", "shutdown", "stopped"} /\ killNow
    /\ pc = "shutdown" => killNow

SyncInv ==
    /\ CoveredIsSettled
    /\ ReadIsSettled
    /\ CoveredIsRead
    /\ StoredIsAhead
    /\ HandIsFresh
    /\ DueIsUnproduced
    /\ NoneAsynchronous
    /\ MarkIsRight
    /\ ClosedEnds
    /\ pc # "aborted"

-----------------------------------------------------------------------------
(* What the steps of the invariant rest on *)

LEMMA SyncThreads ==
    ASSUME SyncWorker
    PROVE  Threads = {Main}
BY DEF SyncWorker, Threads

-----------------------------------------------------------------------------
(* The invariant, action by action *)

\* A commit covers no more than what was stored or committed before.
LEMMA CommitCovers ==
    ASSUME AutoCommit \/ Close
    PROVE  \A p \in Partitions : committed'[p] \in {stored[p], committed[p]}
BY DEF AutoCommit, Close, Final

\* What the types say, in the form the steps below use it.
LEMMA SyncTypes ==
    ASSUME SyncWorker, TypeOK
    PROVE  /\ pc \in Running \union Ended
           /\ msg \in Messages \union {NoMessage}
           /\ pc \in Holding => msg \in Messages
           /\ reports \in SUBSET DeliveryReport
           /\ killNow \in BOOLEAN /\ open \in BOOLEAN
           /\ position \in [Partitions -> Int]
           /\ stored \in [Partitions -> Int]
           /\ committed \in [Partitions -> Int]
           /\ call \in [{Main} -> Frames \union {Idle}]
           /\ due \in [Messages -> SUBSET Nat]
BY SyncThreads
DEF TypeOK, EngineTypeOK, ConsumerTypeOK, Holding

-----------------------------------------------------------------------------
(* The invariant, action by action *)

\* Reading a message: it comes into hand, and everything before it is settled.
LEMMA PollKeeps ==
    ASSUME SyncWorker, TypeOK, SyncInv, NEW m \in Messages, Poll(m)
    PROVE  SyncInv'
<1> USE SyncTypes DEF SyncInv, Poll, Consume, PollMessage, ghostVars
<1>1. /\ pc = "poll" /\ open /\ msg = NoMessage /\ call[Main].at = "idle"
      /\ pc' = "handle" /\ msg' = m
      /\ position' = [position EXCEPT ![partition(m)] = offset(m) + 1]
      /\ position[partition(m)] = offset(m)
      /\ UNCHANGED <<open, stored, committed, call, reports, outs, killNow, due>>
  BY MessageParts DEF HandIsFresh, ClosedEnds, Idle
<1>2. CoveredIsSettled'
  BY <1>1 DEF CoveredIsSettled, Below, Settled
<1>3. ReadIsSettled'
  <2> SUFFICES ASSUME NEW x \in Messages, Below(x, position'), x # m
               PROVE  Settled(x)
    BY <1>1 DEF ReadIsSettled, Below, Settled
  <2>1. Below(x, position)
    BY <1>1, MessageParts DEF Below
  <2>2. x # NoMessage
    BY DEF Messages, NoMessage
  <2> QED
    BY <1>1, <2>1, <2>2 DEF ReadIsSettled
<1>4. CoveredIsRead'
  BY <1>1 DEF CoveredIsRead
<1>5. HandIsFresh'
  <2>1. stored[partition(m)] <= offset(m) /\ committed[partition(m)] <= offset(m)
    BY <1>1, MessageParts DEF CoveredIsRead
  <2>2. Below(m, position') /\ ~Below(m, stored) /\ ~Below(m, committed)
    BY <1>1, <2>1, MessageParts DEF Below
  <2>3. call'[Main] = Idle
    BY <1>1 DEF HandIsFresh
  <2> QED
    BY <1>1, <2>2, <2>3 DEF HandIsFresh, Below
<1>6. MarkIsRight' /\ StoredIsAhead'
  BY <1>1 DEF MarkIsRight, StoredIsAhead
<1> QED
  BY <1>1, <1>2, <1>3, <1>4, <1>5, <1>6
  DEF DueIsUnproduced, NoneAsynchronous, ClosedEnds

\* The worker may leave the message in hand unsettled again: it is fresh.
LEMMA WorkKeeps ==
    ASSUME SyncWorker, TypeOK, SyncInv,
           \/ Handle
           \/ \E b \in AppBools : Answer(b)
           \/ \E l \in AppLists : AnswerList(l)
    PROVE  SyncInv'
<1> USE SyncTypes DEF SyncInv
<1>1. /\ pc \in {"handle", "work"} /\ pc' \in {"work", "produce", "crashed"}
      /\ call[Main].at = "idle" /\ msg \in Messages
      /\ \A x \in Messages : x # msg => due'[x] = due[x]
      /\ UNCHANGED <<msg, killNow, consumerVars>>
  BY DEF Handle, HandleValid, HandleInvalid, DLQNotConfigured, Answer,
         WorkBool, AnswerList, WorkList, HandIsFresh, Idle, Holding
<1>2. ~Below(msg, stored) /\ ~Below(msg, committed)
  BY <1>1 DEF HandIsFresh
<1>3. CoveredIsSettled' /\ ReadIsSettled' /\ CoveredIsRead'
  BY <1>1, <1>2
  DEF CoveredIsSettled, ReadIsSettled, CoveredIsRead, Below, Settled,
      consumerVars
<1>4. HandIsFresh'
  BY <1>1 DEF HandIsFresh, Holding, Below, consumerVars
<1>5. DueIsUnproduced' /\ NoneAsynchronous'
  <2>1. CASE Handle
    <3>1. NoneAsynchronous'
      BY <2>1
      DEF Handle, HandleValid, HandleInvalid, DLQNotConfigured, NoneAsynchronous
    <3>2. ASSUME pc' = "produce" PROVE due'[msg] \subseteq 1..Len(outs')
      <4>1. due'[msg] = {1} /\ outs' = <<DeadLetterQueue>>
        BY <1>1, <2>1, <3>2
        DEF Handle, HandleValid, HandleInvalid, DLQNotConfigured
      <4> QED
        BY <4>1
    <3> QED
      BY <1>1, <3>1, <3>2 DEF DueIsUnproduced
  <2>2. ASSUME NEW b \in AppBools, Answer(b)
        PROVE  DueIsUnproduced' /\ NoneAsynchronous'
    <3>1. b => due'[msg] = {}
      BY <1>1, <2>2 DEF Answer
    <3>2. \A r \in reports' : r.status = b /\ ~r.asynchronous
      BY <2>2 DEF Answer, WorkBool
    <3>3. (\A r \in reports' : r.status) => b
      BY <2>2, <3>2 DEF Answer, WorkBool
    <3> QED
      BY <1>1, <3>1, <3>2, <3>3 DEF DueIsUnproduced, NoneAsynchronous
  <2>3. ASSUME NEW l \in AppLists, AnswerList(l)
        PROVE  DueIsUnproduced' /\ NoneAsynchronous'
    BY <1>1, <2>3
    DEF AnswerList, WorkList, DueIsUnproduced, NoneAsynchronous
  <2> QED
    BY <2>1, <2>2, <2>3
<1>6. MarkIsRight' /\ StoredIsAhead' /\ ClosedEnds'
  BY <1>1 DEF MarkIsRight, StoredIsAhead, ClosedEnds, consumerVars
<1> QED
  BY <1>1, <1>3, <1>4, <1>5, <1>6

\* A synchronous producer that reports success has delivered the output.
LEMMA ProduceKeeps ==
    ASSUME SyncWorker, TypeOK, SyncInv,
           NEW status \in BOOLEAN, NEW delivered \in BOOLEAN,
           ProduceSync(status, delivered)
    PROVE  SyncInv'
<1> USE SyncTypes DEF SyncInv, SyncWorker
<1>1. /\ pc = "produce" /\ pc' = "produce"
      /\ call[Main].at = "idle" /\ msg \in Messages
      /\ due'[msg] \subseteq due[msg]
      /\ \A x \in Messages : x # msg => due'[x] = due[x]
      /\ UNCHANGED <<msg, killNow, consumerVars>>
  BY DEF ProduceSync, Produce, Delivered, HandIsFresh, Idle, Holding
<1> DEFINE new == [asynchronous |-> FALSE, status |-> status]
<1>2. reports' = reports \union {new}
  <2>1. (Head(outs) \in AsyncQueues) = FALSE
    OBVIOUS
  <2> QED
    BY <2>1 DEF ProduceSync, Produce
<1>8. ~Below(msg, stored) /\ ~Below(msg, committed)
  BY <1>1 DEF HandIsFresh
<1>3. CoveredIsSettled' /\ ReadIsSettled' /\ CoveredIsRead'
  BY <1>1, <1>8
  DEF CoveredIsSettled, ReadIsSettled, CoveredIsRead, Below, Settled,
      consumerVars
<1>4. HandIsFresh'
  BY <1>1 DEF HandIsFresh, Holding, Below, consumerVars
<1>5. DueIsUnproduced'
  <2> SUFFICES ASSUME \A r \in reports' : r.status
               PROVE  due'[msg] \subseteq 1..Len(outs')
    BY <1>1 DEF DueIsUnproduced
  <2>1. status /\ \A r \in reports : r.status
    <3>1. new.status
      BY <1>2
    <3>2. new.status = status
      OBVIOUS
    <3> QED
      BY <1>2, <3>1, <3>2
  <2>2. due'[msg] = due[msg] \ {Len(outs)}
    BY <1>1, <2>1 DEF ProduceSync, Delivered
  <2>3. due[msg] \subseteq 1..Len(outs)
    BY <1>1, <2>1 DEF DueIsUnproduced
  <2>4. Len(outs') = Len(outs) - 1 /\ Len(outs) \in Nat
    BY HeadTailProperties DEF ProduceSync, Produce, TypeOK, EngineTypeOK
  <2> QED
    BY <2>2, <2>3, <2>4
<1>6. NoneAsynchronous'
  BY <1>2 DEF NoneAsynchronous
<1>7. MarkIsRight' /\ StoredIsAhead' /\ ClosedEnds'
  BY <1>1 DEF MarkIsRight, StoredIsAhead, ClosedEnds, consumerVars
<1> QED
  BY <1>1, <1>3, <1>4, <1>5, <1>6, <1>7

\* The verdict that calls on_success finds the message settled.
LEMMA DispatchKeeps ==
    ASSUME SyncWorker, TypeOK, SyncInv, Dispatch
    PROVE  SyncInv'
<1> USE SyncTypes DEF SyncInv, SyncWorker
<1>1. /\ pc = "produce" /\ outs = << >> /\ msg \in Messages
      /\ call[Main] = Idle /\ open
      /\ UNCHANGED <<due, open, position, stored, committed, killNow>>
  BY DEF Dispatch, MarkSuccess, MarkFail, LeaveToCallback, Produced, Fail,
         on_success, on_fail, HandIsFresh, ClosedEnds, Holding, ghostVars,
         consumerVars
<1>2. ~LeaveToCallback
  BY DEF LeaveToCallback, delivery_success, waiting_async, NoneAsynchronous
<1>3. /\ pc' = "mark" /\ UNCHANGED <<msg, outs, reports>>
      /\ \/ call'[Main].at = "close"
         \/ call'[Main] = [at |-> "lookup", msg |-> msg] /\ MarkSuccess
  <2>1. CASE MarkSuccess /\ on_success(Main, msg)
    BY <2>1 DEF MarkSuccess, on_success
  <2>2. CASE MarkFail /\ Fail(Main, msg)
    <3>1. call' = [call EXCEPT ![Main] = [at |-> "close", msg |-> msg]]
      BY <2>2 DEF Fail, on_fail
    <3>2. call'[Main].at = "close"
      BY <3>1
    <3>3. pc' = "mark" /\ UNCHANGED <<msg, outs, reports>>
      BY <2>2 DEF MarkFail
    <3> QED
      BY <3>2, <3>3
  <2> QED
    BY <1>2, <2>1, <2>2 DEF Dispatch
<1>4. MarkSuccess => Settled(msg)
  <2> SUFFICES ASSUME MarkSuccess PROVE due[msg] = {}
    BY DEF Settled
  <2>1. \A r \in reports : r.status
    BY SuccessMeansDelivered DEF MarkSuccess
  <2>2. due[msg] \subseteq 1..0
    BY <1>1, <2>1 DEF DueIsUnproduced
  <2> QED
    BY <2>2
<1>5. CoveredIsSettled' /\ ReadIsSettled' /\ CoveredIsRead'
  BY <1>1, <1>3
  DEF CoveredIsSettled, ReadIsSettled, CoveredIsRead, Below, Settled
<1>6. HandIsFresh'
  BY <1>1, <1>3 DEF HandIsFresh, Holding, Below
<1>7. MarkIsRight'
  BY <1>1, <1>3, <1>4 DEF MarkIsRight, Settled, Idle
<1>8. StoredIsAhead'
  BY <1>1, <1>3 DEF StoredIsAhead, HandIsFresh, Below
<1> QED
  BY <1>1, <1>3, <1>5, <1>6, <1>7, <1>8
  DEF DueIsUnproduced, NoneAsynchronous, ClosedEnds

\* A step of on_success or on_fail in the main thread.
LEMMA CallKeeps ==
    ASSUME SyncWorker, TypeOK, SyncInv, NEW t \in Threads, CallStep(t)
    PROVE  SyncInv'
<1> USE SyncTypes DEF SyncInv
<1>1. t = Main /\ Main \in Threads /\ ConsumerTypeOK
  BY SyncThreads DEF TypeOK
<1>2. call[Main].at # "idle" /\ call[Main] # Idle
  BY <1>1 DEF CallStep, StepCall, StepKill, StepRaises, Lookup, Record,
              StoreOffsets, Storing, CloseOnFail, KillOnFail, StoreRaises, Idle
<1>3. pc = "mark" /\ msg \in Messages /\ call[Main].msg \in Messages
  BY <1>1, <1>2, BusyFrame DEF HandIsFresh, Holding
<1>4. CASE Lookup(Main) \/ Record(Main)
  <2>1. /\ UNCHANGED <<engineVars, ghostVars>>
        /\ UNCHANGED <<open, position, stored, committed>>
    BY <1>1, <1>4
    DEF CallStep, StepCall, StepKill, StepRaises, StoreRaises, KillOnFail,
        Storing, Lookup, Record
  <2>2. open /\ Settled(msg) /\ call[Main].msg = msg
    BY <1>4 DEF Lookup, Record, MarkIsRight
  <2>3. /\ call'[Main].at # "kill"
        /\ call'[Main].at # "idle" => call'[Main].msg = msg
    <3>1. Return(Main) \/ \E site \in Sites : Goto(Main, site) /\ site # "kill"
      BY <1>4 DEF Lookup, Record, Sites
    <3>2. ASSUME NEW site \in Sites, Goto(Main, site)
          PROVE  call'[Main] = [at |-> site, msg |-> msg]
      BY <1>1, <1>2, <2>2, <3>2, MoveFrame
    <3>3. CASE Return(Main)
      <4>1. call'[Main] = Idle
        BY <1>1, <3>3, ReturnFrame
      <4>2. call'[Main].at = "idle"
        BY <4>1 DEF Idle
      <4> QED
        BY <4>2
    <3>4. ASSUME NEW site \in Sites, Goto(Main, site), site # "kill"
          PROVE  call'[Main].at # "kill" /\ call'[Main].msg = msg
      <4>1. call'[Main] = [at |-> site, msg |-> msg]
        BY <3>2, <3>4
      <4>2. call'[Main].at = site /\ call'[Main].msg = msg
        BY <4>1
      <4> QED
        BY <3>4, <4>2
    <3> QED
      BY <3>1, <3>3, <3>4
  <2>4. MarkIsRight'
    BY <1>3, <2>1, <2>2, <2>3
    DEF MarkIsRight, Settled, engineVars, ghostVars, Idle
  <2>5. StoredIsAhead'
    <3>1. call[Main].at # "record" \/ call'[Main].at = "idle"
      BY <1>1, <1>4, ReturnFrame DEF Lookup, Record, Idle
    <3>2. call'[Main].at = "idle"
          \/ call[Main].at \in {"lookup", "seed", "seeded", "store"}
      BY <1>4, <3>1 DEF Lookup, Record
    <3> QED
      BY <2>1, <2>2, <3>2 DEF StoredIsAhead, Below, engineVars
  <2> QED
    BY <1>3, <2>1, <2>2, <2>4, <2>5
    DEF engineVars, ghostVars, CoveredIsSettled, ReadIsSettled, CoveredIsRead,
        HandIsFresh, DueIsUnproduced, NoneAsynchronous, ClosedEnds, Holding,
        Below, Settled
<1>5. CASE StoreOffsets(Main)
  <2>1. UNCHANGED <<engineVars, ghostVars, open, position, committed>>
    BY <1>1, <1>5
    DEF CallStep, StepCall, StepKill, StepRaises, StoreRaises, KillOnFail,
        Storing, StoreOffsets
  <2>2. open /\ Settled(msg) /\ call[Main].msg = msg
    BY <1>5 DEF StoreOffsets, Storing, MarkIsRight
  <2>3. stored' = [stored EXCEPT ![partition(msg)] = offset(msg) + 1]
    BY <1>5, <2>2 DEF StoreOffsets
  <2>4. /\ call'[Main].at # "kill"
        /\ call'[Main].at # "idle" => call'[Main].msg = msg
    <3>1. Return(Main) \/ \E site \in Sites : Goto(Main, site) /\ site # "kill"
      BY <1>5 DEF StoreOffsets, Sites
    <3>2. ASSUME NEW site \in Sites, Goto(Main, site)
          PROVE  call'[Main] = [at |-> site, msg |-> msg]
      BY <1>1, <1>2, <2>2, <3>2, MoveFrame
    <3>3. CASE Return(Main)
      <4>1. call'[Main] = Idle
        BY <1>1, <3>3, ReturnFrame
      <4>2. call'[Main].at = "idle"
        BY <4>1 DEF Idle
      <4> QED
        BY <4>2
    <3>4. ASSUME NEW site \in Sites, Goto(Main, site), site # "kill"
          PROVE  call'[Main].at # "kill" /\ call'[Main].msg = msg
      <4>1. call'[Main] = [at |-> site, msg |-> msg]
        BY <3>2, <3>4
      <4>2. call'[Main].at = site /\ call'[Main].msg = msg
        BY <4>1
      <4> QED
        BY <3>4, <4>2
    <3> QED
      BY <3>1, <3>3, <3>4
  <2>5. MarkIsRight'
    BY <1>3, <2>1, <2>2, <2>4
    DEF MarkIsRight, Settled, engineVars, ghostVars, Idle
  <2>6. Below(msg, position)
    BY <1>3 DEF HandIsFresh, Holding
  <2>7. CoveredIsSettled'
    <3> SUFFICES ASSUME NEW x \in Messages,
                        Below(x, stored') \/ Below(x, committed)
                 PROVE  Settled(x)
      BY <2>1 DEF CoveredIsSettled, Below, Settled, ghostVars
    <3>1. CASE partition(x) = partition(msg) /\ offset(x) <= offset(msg)
      <4>1. Below(x, position)
        BY <1>3, <2>6, <3>1, MessageParts DEF Below
      <4> QED
        BY <2>2, <4>1 DEF ReadIsSettled
    <3>2. CASE Below(x, stored) \/ Below(x, committed)
      BY <3>2 DEF CoveredIsSettled
    <3> QED
      BY <1>3, <2>3, <3>1, <3>2, MessageParts DEF Below
  <2>8. CoveredIsRead'
    BY <1>3, <2>1, <2>3, <2>6, MessageParts DEF CoveredIsRead, Below
  <2>9. StoredIsAhead'
    <3>1. call'[Main].at \in {"record", "idle"}
      <4>1. CASE Return(Main)
        BY <1>1, <4>1, ReturnFrame DEF Idle
      <4>2. CASE Goto(Main, "record")
        <5>1. "record" \in Sites
          BY DEF Sites
        <5>2. call'[Main] = [at |-> "record", msg |-> call[Main].msg]
          BY <1>1, <1>2, <4>2, <5>1, MoveFrame
        <5> QED
          BY <5>2
      <4> QED
        BY <1>5, <4>1, <4>2 DEF StoreOffsets
    <3>2. committed[partition(msg)] <= offset(msg)
      BY <1>3, <1>5, <2>2, MessageParts
      DEF StoreOffsets, Storing, StoredIsAhead, Below
    <3> QED
      BY <1>3, <2>1, <2>3, <3>1, <3>2, MessageParts DEF StoredIsAhead
  <2> QED
    BY <1>3, <2>1, <2>2, <2>5, <2>7, <2>8, <2>9
    DEF engineVars, ghostVars, ReadIsSettled, HandIsFresh, DueIsUnproduced,
        NoneAsynchronous, ClosedEnds, Holding, Below, Settled
<1>6. CASE CloseOnFail(Main)
  <2>1. UNCHANGED <<engineVars, ghostVars, position, stored>>
    BY <1>1, <1>6
    DEF CallStep, StepCall, StepKill, StepRaises, StoreRaises, KillOnFail,
        Storing, CloseOnFail, Close
  <2>2. /\ ~open'
        /\ \A p \in Partitions : committed'[p] \in {stored[p], committed[p]}
    BY <1>6, CommitCovers DEF CloseOnFail, Close
  <2>3. call'[Main].at = "kill"
    <3>1. Goto(Main, "kill") /\ "kill" \in Sites
      BY <1>6 DEF CloseOnFail, Sites
    <3>2. call'[Main] = [at |-> "kill", msg |-> call[Main].msg]
      BY <1>1, <1>2, <3>1, MoveFrame
    <3> QED
      BY <3>2
  <2>4. CoveredIsSettled'
    BY <2>1, <2>2, MessageParts DEF CoveredIsSettled, Below, Settled, ghostVars
  <2>5. CoveredIsRead' /\ StoredIsAhead'
    BY <2>1, <2>2, <2>3 DEF CoveredIsRead, StoredIsAhead
  <2> QED
    BY <1>3, <2>1, <2>2, <2>3, <2>4, <2>5
    DEF engineVars, ReadIsSettled, HandIsFresh, DueIsUnproduced,
        NoneAsynchronous, MarkIsRight, ClosedEnds, Holding, Below, Idle
<1>7. CASE KillOnFail(Main)
  <2>1. /\ UNCHANGED <<pc, msg, outs, reports, due>>
        /\ UNCHANGED <<open, position, stored, committed>>
        /\ killNow' = TRUE /\ ~open
    BY <1>1, <1>7
    DEF CallStep, StepCall, StepKill, StepRaises, StoreRaises, KillOnFail,
        Lookup, Record, StoreOffsets, CloseOnFail, Storing, exit_gracefully,
        MarkIsRight, ghostVars
  <2>2. call'[Main] = Idle
    BY <1>1, <1>7, ReturnFrame DEF KillOnFail
  <2> QED
    BY <1>3, <2>1, <2>2
    DEF CoveredIsSettled, ReadIsSettled, CoveredIsRead, StoredIsAhead,
        HandIsFresh, DueIsUnproduced, NoneAsynchronous, MarkIsRight,
        ClosedEnds, Holding, Below, Settled, Idle
<1>8. ~StoreRaises(Main)
  BY DEF StoreRaises, Storing, MarkIsRight
<1> QED
  BY <1>1, <1>4, <1>5, <1>6, <1>7, <1>8
  DEF CallStep, StepCall, StepKill, StepRaises

\* Commits and closes cover what was covered; a new process reads from there.
LEMMA CommitKeeps ==
    ASSUME SyncWorker, TypeOK, SyncInv, Commit \/ CloseConsumer
    PROVE  SyncInv'
<1> USE SyncTypes DEF SyncInv
<1>1. /\ UNCHANGED <<msg, outs, reports, killNow, due, position, stored, call>>
      /\ \A p \in Partitions : committed'[p] \in {stored[p], committed[p]}
      /\ open' => open
  BY CommitCovers
  DEF Commit, AutoCommit, CloseConsumer, ShutdownConsumer, Close, engineVars,
      ghostVars
<1>2. \/ pc' = pc /\ open' = open
      \/ pc = "shutdown" /\ pc' = "stopped" /\ killNow /\ call[Main].at = "idle"
  BY DEF Commit, AutoCommit, CloseConsumer, ShutdownConsumer, engineVars,
         ClosedEnds, HandIsFresh, Idle
<1>3. CoveredIsSettled'
  BY <1>1, MessageParts DEF CoveredIsSettled, Below, Settled
<1>4. ReadIsSettled' /\ CoveredIsRead'
  BY <1>1 DEF ReadIsSettled, CoveredIsRead, Below, Settled
<1>5. HandIsFresh'
  BY <1>1, <1>2, MessageParts DEF HandIsFresh, Holding, Below
<1>6. MarkIsRight'
  BY <1>1, <1>2 DEF MarkIsRight, Settled
<1>7. StoredIsAhead'
  <2>1. \A p \in Partitions : stored[p] # 0 => committed'[p] <= stored[p]
    BY <1>1 DEF StoredIsAhead
  <2>2. ASSUME call[Main].at \in {"lookup", "seed", "seeded", "store"}
        PROVE  ~Below(msg, stored) /\ ~Below(msg, committed')
    <3>1. call[Main].at # "idle"
      BY <2>2
    <3>2. msg \in Messages
      BY <3>1 DEF HandIsFresh, Holding, Idle
    <3> QED
      BY <1>1, <2>2, <3>2, MessageParts DEF StoredIsAhead, Below
  <2> QED
    BY <1>1, <2>1, <2>2 DEF StoredIsAhead, Below
<1> QED
  BY <1>1, <1>2, <1>3, <1>4, <1>5, <1>6, <1>7
  DEF DueIsUnproduced, NoneAsynchronous, ClosedEnds

LEMMA DieKeeps ==
    ASSUME SyncWorker, TypeOK, SyncInv, Die
    PROVE  SyncInv'
<1> USE SyncTypes DEF SyncInv
<1>1. /\ pc' = "down" /\ msg' = NoMessage /\ reports' = {}
      /\ open' = TRUE /\ position' = committed /\ due' = due
      /\ committed' = committed /\ stored' = [p \in Partitions |-> 0]
      /\ call'[Main] = Idle
  BY SyncThreads DEF Die, Vanish, Resubscribe
<1>2. CoveredIsSettled' /\ ReadIsSettled'
  BY <1>1, MessageParts DEF CoveredIsSettled, ReadIsSettled, Below, Settled
<1>3. CoveredIsRead'
  BY <1>1 DEF CoveredIsRead, TypeOK, ConsumerTypeOK
<1> QED
  BY <1>1, <1>2, <1>3
  DEF StoredIsAhead, HandIsFresh, DueIsUnproduced, NoneAsynchronous,
      MarkIsRight, ClosedEnds, Holding, Idle

-----------------------------------------------------------------------------
(* The theorems *)

\* The actions left: none of them changes what is stored, committed or due.
LEMMA RestKeeps ==
    ASSUME SyncWorker, TypeOK, SyncInv,
           \/ CheckKillNow \/ PollNothing \/ Crash \/ EndIteration
           \/ CloseProducer \/ Signal \/ Restart \/ UNCHANGED vars
    PROVE  SyncInv'
<1> USE SyncTypes DEF SyncInv
<1>1. CASE \/ CheckKillNow \/ PollNothing \/ Crash \/ CloseProducer
           \/ Signal \/ Restart \/ UNCHANGED vars
  <2> USE DEF CoveredIsSettled, ReadIsSettled, CoveredIsRead, StoredIsAhead,
              HandIsFresh, DueIsUnproduced, NoneAsynchronous, MarkIsRight,
              ClosedEnds, Holding, Below, Settled, consumerVars, ghostVars
  <2>1. CASE CheckKillNow
    BY <2>1 DEF CheckKillNow, LoopAgain, LoopExit
  <2>2. CASE PollNothing
    BY <2>2 DEF PollNothing, ConsumeNone, NextIteration
  <2>3. CASE Crash
    BY <2>3 DEF Crash, WorkRaises, ProduceRaises
  <2>5. CASE CloseProducer
    BY <2>5 DEF CloseProducer, ShutdownProducer
  <2>6. CASE Signal
    BY <2>6 DEF Signal, exit_gracefully
  <2>7. CASE Restart
    BY <2>7 DEF Restart, Start
  <2>8. CASE UNCHANGED vars
    BY <2>8 DEF vars, engineVars
  <2> QED
    BY <1>1, <2>1, <2>2, <2>3, <2>5, <2>6, <2>7, <2>8
<1>4. CASE EndIteration
  <2>1. /\ pc = "mark" /\ pc' = "loop" /\ msg' = NoMessage /\ reports' = {}
        /\ UNCHANGED <<killNow, open, position, lastOffset, stored, committed>>
        /\ call' = call /\ due' = due /\ call[Main] = Idle
    BY <1>4 DEF EndIteration, Marked, NextIteration, consumerVars, ghostVars
  <2>2. call[Main].at = "idle"
    BY <2>1 DEF Idle
  <2>3. CoveredIsSettled' /\ CoveredIsRead' /\ StoredIsAhead'
    BY <2>1, <2>2
    DEF CoveredIsSettled, CoveredIsRead, StoredIsAhead, Below, Settled
  <2>4. ReadIsSettled'
    BY <2>1 DEF ReadIsSettled, MarkIsRight, Below, Settled
  <2>5. HandIsFresh'
    BY <2>1 DEF HandIsFresh, Holding
  <2>6. DueIsUnproduced' /\ NoneAsynchronous'
    BY <2>1 DEF DueIsUnproduced, NoneAsynchronous
  <2>7. MarkIsRight'
    BY <2>1, <2>2 DEF MarkIsRight
  <2>8. ClosedEnds'
    BY <2>1, <2>2 DEF ClosedEnds
  <2> QED
    BY <2>1, <2>3, <2>4, <2>5, <2>6, <2>7, <2>8
<1> QED
  BY <1>1, <1>4

LEMMA SyncStep ==
    ASSUME SyncWorker, TypeOK, SyncInv, [Next]_vars
    PROVE  SyncInv'
<1>1. ~PollRaises
  BY DEF PollRaises, SyncInv, ClosedEnds
<1>2. ~ProduceAsync /\ ~EnqueueFails
  BY DEF ProduceAsync, EnqueueFails, SyncWorker
<1>3. ~\E q \in AsyncQueues : TRUE
  BY DEF SyncWorker
<1>4. Terminated => UNCHANGED vars
  BY DEF Terminated
<1> QED
  BY <1>1, <1>2, <1>3, <1>4, PollKeeps, WorkKeeps, ProduceKeeps, DispatchKeeps,
     CallKeeps, CommitKeeps, DieKeeps, RestKeeps
  DEF Next, MainStep, LoopStep

LEMMA SyncAlways ==
    ASSUME SyncWorker
    PROVE  Spec => [](TypeOK /\ SyncInv)
<1>1. Init => SyncInv
  <2>1. Init => position = stored /\ stored = committed
    BY DEF Init, ConsumerInit
  <2>2. Init => \A m \in Messages : ~Below(m, stored)
    BY MessageParts DEF Init, ConsumerInit, Below
  <2> QED
    BY <2>1, <2>2, SyncThreads
    DEF Init, EngineInit, ConsumerInit, SyncInv, CoveredIsSettled,
        ReadIsSettled, CoveredIsRead, StoredIsAhead, HandIsFresh,
        DueIsUnproduced, NoneAsynchronous, MarkIsRight, ClosedEnds, Holding,
        Idle
<1>2. SyncInv /\ TypeOK /\ [Next]_vars => SyncInv'
  BY SyncStep
<1> QED
  BY <1>1, <1>2, TypeCorrect, PTL DEF Spec

\* A Kafka worker with synchronous producers that stops on failure never
\* commits past a message that is not settled, whatever the worker function
\* returns or raises, whatever the producers answer, and wherever the process
\* is signalled, killed and restarted.
THEOREM SyncWorkerAtLeastOnce ==
    ASSUME SyncWorker
    PROVE  Spec => []AtLeastOnce
<1>1. SyncInv => AtLeastOnce
  BY DEF SyncInv, CoveredIsSettled, Below, AtLeastOnce
<1> QED
  BY <1>1, SyncAlways, PTL

\* Nor does a connector ever raise into its loop or its shutdown: failures end
\* it gracefully, as stop_on_failure promises.
THEOREM SyncWorkerIsGraceful ==
    ASSUME SyncWorker
    PROVE  Spec => []GracefulShutdown
<1>1. SyncInv => GracefulShutdown
  BY DEF SyncInv, GracefulShutdown
<1> QED
  BY <1>1, SyncAlways, PTL

\* The synchronous worker implements the abstract promise: each of its steps
\* settles a message, reopens one that was not removed, removes settled ones,
\* or is a stutter.
THEOREM SyncWorkerImplementsDelivery ==
    ASSUME SyncWorker
    PROVE  Spec => ImplementsDelivery
<1>1. TypeOK /\ SyncInv /\ TypeOK' /\ SyncInv' /\ [Next]_vars
      => [Promise!Next]_(Promise!vars)
  <2> SUFFICES ASSUME TypeOK, SyncInv, TypeOK', SyncInv', [Next]_vars
               PROVE  [Promise!Next]_(Promise!vars)
    OBVIOUS
  <2>1. StoredFirst /\ (Hand => ~Below(msg, committed))
    BY DEF SyncInv, StoredIsAhead, StoredFirst, HandIsFresh, Hand
  <2>2. AtLeastOnce'
    BY DEF SyncInv, CoveredIsSettled, AtLeastOnce, Below
  <2> QED
    BY <2>1, <2>2, StepImplements
<1> QED
  BY <1>1, InitImplements, SyncAlways, PTL DEF Spec, ImplementsDelivery, Promise!Spec

-----------------------------------------------------------------------------
(* A stop without a failure *)

\* on_success never takes a message for an old one: what it recorded last of the
\* partition is behind what was read, and behind the message in hand.
LastIsBehind ==
    /\ \A p \in Partitions : lastOffset[p] < position[p]
    /\ pc \in {"handle", "work", "produce"} \/ call[Main].at = "lookup" =>
          lastOffset[partition(msg)] < offset(msg)

\* Everything read is stored, or committed before; or all but the message in hand.
AllStored == \A p \in Partitions : Final(p) = position[p]

AllButHand ==
    /\ position[partition(msg)] = offset(msg) + 1
    /\ \A p \in Partitions :
          Final(p) = IF p = partition(msg) THEN offset(msg) ELSE position[p]

\* Until a message fails, only the message in hand is not stored.
NothingIsLeft ==
    failed = {} =>
        /\ ~open => pc = "stopped"
        /\ pc \in {"loop", "poll", "shutdown", "down"} => AllStored
        /\ pc \in {"handle", "work", "produce"} => AllButHand
        /\ pc = "mark" =>
              /\ call[Main].at \notin {"close", "kill"}
              /\ IF call[Main].at \in {"lookup", "seed", "seeded", "store"}
                 THEN AllButHand
                 ELSE AllStored

StopIsClean ==
    pc = "stopped" =>
        /\ ~open
        /\ failed = {} =>
              /\ committed = position
              /\ \A m \in Messages : Below(m, position) => Settled(m)

CleanInv == LastIsBehind /\ NothingIsLeft /\ StopIsClean

LEMMA CleanTypes ==
    ASSUME SyncWorker, TypeOK
    PROVE  /\ lastOffset \in [Partitions -> Int]
           /\ position \in [Partitions -> Nat]
           /\ stored \in [Partitions -> Nat]
           /\ committed \in [Partitions -> Nat]
           /\ call \in [{Main} -> Frames \union {Idle}]
           /\ pc \in Holding => msg \in Messages
BY SyncTypes DEF TypeOK, ConsumerTypeOK, Offsets, NoOffset

LEMMA CleanPoll ==
    ASSUME SyncWorker, TypeOK, SyncInv, CleanInv, NEW m \in Messages, Poll(m)
    PROVE  CleanInv'
<1>1. /\ pc = "poll" /\ open /\ call[Main].at = "idle"
      /\ pc' = "handle" /\ msg' = m
      /\ position' = [position EXCEPT ![partition(m)] = offset(m) + 1]
      /\ position[partition(m)] = offset(m)
      /\ UNCHANGED <<open, lastOffset, stored, committed, call, failed>>
  BY MessageParts
  DEF Poll, Consume, PollMessage, SyncInv, HandIsFresh, Idle, ghostVars
<1>2. LastIsBehind'
  BY <1>1, CleanTypes, MessageParts DEF CleanInv, LastIsBehind
<1>3. failed = {} => AllButHand'
  BY <1>1, CleanTypes, MessageParts
  DEF CleanInv, NothingIsLeft, AllStored, AllButHand, Final
<1> QED
  BY <1>1, <1>2, <1>3 DEF CleanInv, NothingIsLeft, StopIsClean

\* The message in hand is handled, worked at, and produced.
LEMMA CleanWork ==
    ASSUME SyncWorker, TypeOK, SyncInv, CleanInv,
           pc \in {"handle", "work", "produce"},
           pc' \in {"handle", "work", "produce", "crashed"},
           UNCHANGED <<msg, consumerVars, failed>>
    PROVE  CleanInv'
<1>1. call[Main].at = "idle"
  BY DEF SyncInv, HandIsFresh, Idle
<1>2. UNCHANGED <<open, position, lastOffset, stored, committed, call>>
  BY DEF consumerVars
<1> QED
  BY <1>1, <1>2
  DEF CleanInv, LastIsBehind, NothingIsLeft, StopIsClean, AllButHand, Final

LEMMA CleanDispatch ==
    ASSUME SyncWorker, TypeOK, SyncInv, CleanInv, Dispatch
    PROVE  CleanInv'
<1>1. ~LeaveToCallback
  BY DEF LeaveToCallback, delivery_success, waiting_async, SyncInv, NoneAsynchronous
<1>2. CASE MarkSuccess /\ on_success(Main, msg) /\ UNCHANGED ghostVars
  <2>1. /\ pc = "produce" /\ pc' = "mark" /\ msg' = msg
        /\ UNCHANGED <<open, position, lastOffset, stored, committed, failed>>
        /\ call' = [call EXCEPT ![Main] = [at |-> "lookup", msg |-> msg]]
    BY <1>2 DEF MarkSuccess, Produced, on_success, ghostVars
  <2>2. call'[Main].at = "lookup"
    BY <2>1, CleanTypes
  <2> QED
    BY <2>1, <2>2
    DEF CleanInv, LastIsBehind, NothingIsLeft, StopIsClean, AllButHand, Final
<1>3. CASE MarkFail /\ Fail(Main, msg)
  <2>1. /\ pc' = "mark" /\ failed' # {}
        /\ UNCHANGED <<open, position, lastOffset, stored, committed>>
        /\ call' = [call EXCEPT ![Main] = [at |-> "close", msg |-> msg]]
    BY <1>3 DEF MarkFail, Fail, on_fail, SyncWorker
  <2>2. call'[Main].at = "close"
    BY <2>1, CleanTypes
  <2> QED
    BY <2>1, <2>2 DEF CleanInv, LastIsBehind, NothingIsLeft, StopIsClean
<1> QED
  BY <1>1, <1>2, <1>3 DEF Dispatch

LEMMA CleanCall ==
    ASSUME SyncWorker, TypeOK, SyncInv, CleanInv, NEW t \in Threads, CallStep(t)
    PROVE  CleanInv'
<1>1. t = Main /\ Main \in Threads /\ ConsumerTypeOK
  BY SyncThreads DEF TypeOK
<1>2. call[Main].at # "idle" /\ call[Main] # Idle
  BY <1>1 DEF CallStep, StepCall, StepKill, StepRaises, Lookup, Record,
              StoreOffsets, Storing, CloseOnFail, KillOnFail, StoreRaises, Idle
<1>3. pc = "mark" /\ msg \in Messages
  BY <1>2, CleanTypes DEF SyncInv, HandIsFresh, Holding
<1>4. /\ UNCHANGED <<msg, failed>>
      /\ pc' = "mark" \/ StoreRaises(Main)
  BY <1>1, <1>3 DEF CallStep, StepCall, StepKill, StepRaises, exit_gracefully, Abort,
                    engineVars, ghostVars
<1>5. ~StoreRaises(Main)
  BY DEF StoreRaises, Storing, SyncInv, MarkIsRight
<1>6. \A site \in Sites : Goto(Main, site) => call'[Main].at = site
  <2> SUFFICES ASSUME NEW site \in Sites, Goto(Main, site)
               PROVE  call'[Main].at = site
    OBVIOUS
  <2>1. call'[Main] = [at |-> site, msg |-> call[Main].msg]
    BY <1>1, <1>2, MoveFrame
  <2> QED
    BY <2>1
<1>7. Return(Main) => call'[Main].at = "idle"
  BY <1>1, ReturnFrame DEF Idle
<1>8. /\ "seed" \in Sites /\ "seeded" \in Sites /\ "store" \in Sites
      /\ "record" \in Sites /\ "kill" \in Sites
  BY DEF Sites
<1>9. CASE Lookup(Main)
  <2>1. call[Main].at = "lookup" /\ call[Main].msg = msg
    BY <1>9 DEF Lookup, SyncInv, MarkIsRight
  <2>2. lastOffset[partition(msg)] < offset(msg)
    BY <2>1 DEF CleanInv, LastIsBehind
  <2>3. /\ UNCHANGED <<open, position, lastOffset, stored, committed>>
        /\ Goto(Main, "seed") \/ Goto(Main, "store")
    BY <1>3, <1>9, <2>1, <2>2, CleanTypes, MessageParts DEF Lookup
  <2>4. call'[Main].at \in {"seed", "store"}
    BY <1>6, <1>8, <2>3
  <2> QED
    BY <1>3, <1>4, <1>5, <2>1, <2>3, <2>4
    DEF CleanInv, LastIsBehind, NothingIsLeft, StopIsClean, AllButHand, Final
<1>10. CASE Record(Main)
  <2>1. /\ call[Main].at \in {"seed", "record"} /\ call[Main].msg = msg
        /\ lastOffset' = [lastOffset EXCEPT ![partition(msg)] = offset(msg)]
        /\ UNCHANGED <<open, position, stored, committed>>
        /\ call[Main].at = "seed" => Goto(Main, "seeded")
        /\ call[Main].at = "record" => Return(Main)
    BY <1>10 DEF Record, SyncInv, MarkIsRight
  <2>2. \/ call[Main].at = "seed" /\ call'[Main].at = "seeded"
        \/ call[Main].at = "record" /\ call'[Main].at = "idle"
    BY <1>6, <1>7, <1>8, <2>1
  <2>3. offset(msg) < position[partition(msg)]
    BY <1>3 DEF SyncInv, HandIsFresh, Below, Holding
  <2>4. LastIsBehind'
    BY <1>3, <1>4, <1>5, <2>1, <2>2, <2>3, CleanTypes, MessageParts
    DEF CleanInv, LastIsBehind
  <2> QED
    BY <1>3, <1>4, <1>5, <2>1, <2>2, <2>4
    DEF CleanInv, NothingIsLeft, StopIsClean, AllButHand, AllStored, Final
<1>11. CASE StoreOffsets(Main)
  <2>1. /\ call[Main].at \in {"seeded", "store"} /\ call[Main].msg = msg
        /\ stored' = [stored EXCEPT ![partition(msg)] = offset(msg) + 1]
        /\ UNCHANGED <<open, position, lastOffset, committed>>
        /\ call[Main].at = "store" => Goto(Main, "record")
        /\ call[Main].at = "seeded" => Return(Main)
    BY <1>11 DEF StoreOffsets, Storing, SyncInv, MarkIsRight
  <2>2. call'[Main].at \in {"record", "idle"}
    BY <1>6, <1>7, <1>8, <2>1
  <2>3. failed = {} => AllStored'
    BY <1>3, <2>1, CleanTypes, MessageParts
    DEF CleanInv, NothingIsLeft, AllButHand, AllStored, Final
  <2> QED
    BY <1>3, <1>4, <1>5, <2>1, <2>2, <2>3
    DEF CleanInv, LastIsBehind, NothingIsLeft, StopIsClean
<1>12. CASE CloseOnFail(Main) \/ KillOnFail(Main)
  <2>1. failed # {}
    BY <1>3, <1>12 DEF CloseOnFail, KillOnFail, CleanInv, NothingIsLeft
  <2>2. /\ UNCHANGED <<position, lastOffset>>
        /\ Goto(Main, "kill") \/ Return(Main)
    BY <1>12 DEF CloseOnFail, KillOnFail, Close
  <2>3. call'[Main].at \in {"kill", "idle"}
    BY <1>6, <1>7, <1>8, <2>2
  <2> QED
    BY <1>3, <1>4, <1>5, <2>1, <2>2, <2>3
    DEF CleanInv, LastIsBehind, NothingIsLeft, StopIsClean
<1> QED
  BY <1>1, <1>5, <1>9, <1>10, <1>11, <1>12 DEF CallStep, StepCall, StepKill, StepRaises

\* The commits of an interval change nothing of what the close will leave; the
\* close leaves everything read.
LEMMA CleanCommit ==
    ASSUME SyncWorker, TypeOK, SyncInv, CleanInv, Commit \/ CloseConsumer
    PROVE  CleanInv'
<1>1. CASE Commit
  <2>1. /\ open /\ UNCHANGED <<pc, msg, failed>>
        /\ UNCHANGED <<open, position, lastOffset, stored, call>>
        /\ committed' = [p \in Partitions |->
              IF stored[p] > committed[p] THEN stored[p] ELSE committed[p]]
    BY <1>1 DEF Commit, AutoCommit, engineVars, ghostVars
  <2>2. \A p \in Partitions : Final(p)' = Final(p)
    BY <2>1, CleanTypes DEF Final
  <2>3. AllStored => AllStored'
    BY <2>1, <2>2 DEF AllStored
  <2>4. AllButHand => AllButHand'
    BY <2>1, <2>2 DEF AllButHand
  <2> QED
    BY <2>1, <2>3, <2>4 DEF CleanInv, LastIsBehind, NothingIsLeft, StopIsClean
<1>2. CASE CloseConsumer
  <2>1. /\ pc = "shutdown" /\ pc' = "stopped" /\ open' = FALSE
        /\ UNCHANGED <<msg, failed, due, position, lastOffset, stored, call>>
        /\ committed' = IF open THEN [p \in Partitions |-> Final(p)] ELSE committed
    BY <1>2 DEF CloseConsumer, ShutdownConsumer, Close, ghostVars
  <2>2. call[Main].at = "idle"
    BY <2>1 DEF SyncInv, HandIsFresh, Idle
  <2>3. failed = {} => open /\ AllStored
    BY <2>1 DEF CleanInv, NothingIsLeft
  <2>4. failed = {} => committed' = position
    BY <2>1, <2>3, CleanTypes DEF AllStored
  <2>5. ASSUME failed = {}, NEW m \in Messages, Below(m, position)
        PROVE  Settled(m)
    <3>1. msg = NoMessage /\ m # NoMessage
      BY <2>1 DEF SyncInv, HandIsFresh, Messages, NoMessage
    <3> QED
      BY <2>3, <2>5, <3>1 DEF SyncInv, ReadIsSettled
  <2> QED
    BY <2>1, <2>2, <2>4, <2>5
    DEF CleanInv, LastIsBehind, NothingIsLeft, StopIsClean, Below, Settled
<1> QED
  BY <1>1, <1>2

LEMMA CleanRest ==
    ASSUME SyncWorker, TypeOK, SyncInv, CleanInv,
           \/ CheckKillNow \/ PollNothing \/ EndIteration \/ CloseProducer \/ Signal
           \/ Die \/ Restart \/ UNCHANGED vars
    PROVE  CleanInv'
<1>1. CASE CheckKillNow \/ PollNothing \/ CloseProducer \/ Restart
  <2>1. /\ pc \in {"loop", "poll", "shutdown", "down"}
        /\ pc' \in {"loop", "poll", "shutdown"}
        /\ UNCHANGED <<consumerVars, failed>>
    BY <1>1 DEF CheckKillNow, LoopAgain, LoopExit, PollNothing, ConsumeNone,
                NextIteration, CloseProducer, ShutdownProducer, Restart, Start,
                ghostVars
  <2>2. call[Main].at = "idle"
    BY <2>1 DEF SyncInv, HandIsFresh, Idle
  <2> QED
    BY <2>1, <2>2
    DEF CleanInv, LastIsBehind, NothingIsLeft, StopIsClean, AllStored, Final,
        consumerVars
<1>2. CASE EndIteration
  <2>1. /\ pc = "mark" /\ pc' = "loop" /\ call[Main].at = "idle"
        /\ UNCHANGED <<consumerVars, failed>>
    BY <1>2 DEF EndIteration, Marked, NextIteration, Idle, ghostVars
  <2> QED
    BY <2>1
    DEF CleanInv, LastIsBehind, NothingIsLeft, StopIsClean, AllStored, Final,
        consumerVars
<1>3. CASE Signal \/ UNCHANGED vars
  <2>1. UNCHANGED <<pc, msg, consumerVars, due, failed>>
    BY <1>3 DEF Signal, exit_gracefully, vars, engineVars, ghostVars
  <2>2. /\ AllStored' <=> AllStored
        /\ AllButHand' <=> AllButHand
    BY <2>1 DEF AllStored, AllButHand, Final, consumerVars
  <2> QED
    BY <2>1, <2>2
    DEF CleanInv, LastIsBehind, NothingIsLeft, StopIsClean, Below, Settled,
        consumerVars
<1>4. CASE Die
  <2>1. /\ pc' = "down" /\ open' /\ position' = committed /\ committed' = committed
        /\ lastOffset' = [p \in Partitions |-> -1]
        /\ stored' = [p \in Partitions |-> 0]
        /\ call'[Main] = Idle
    BY <1>4, SyncThreads DEF Die, Vanish, Resubscribe, NoOffset
  <2>2. AllStored'
    BY <2>1 DEF AllStored, Final
  <2> QED
    BY <2>1, <2>2, CleanTypes
    DEF CleanInv, LastIsBehind, NothingIsLeft, StopIsClean, Idle
<1> QED
  BY <1>1, <1>2, <1>3, <1>4

LEMMA CleanStep ==
    ASSUME SyncWorker, TypeOK, SyncInv, CleanInv, [Next]_vars
    PROVE  CleanInv'
<1>1. ~PollRaises
  BY DEF PollRaises, SyncInv, ClosedEnds
<1>2. ~ProduceAsync /\ ~EnqueueFails
  BY DEF ProduceAsync, EnqueueFails, SyncWorker
<1>3. ~\E q \in AsyncQueues : TRUE
  BY DEF SyncWorker
<1>4. Terminated => UNCHANGED vars
  BY DEF Terminated
<1>5. CASE \/ Handle \/ Crash
           \/ \E b \in AppBools : Answer(b)
           \/ \E l \in AppLists : AnswerList(l)
           \/ \E s, d \in BOOLEAN : ProduceSync(s, d)
  BY <1>5, CleanWork
  DEF Handle, HandleValid, HandleInvalid, DLQNotConfigured, Crash, WorkRaises,
      ProduceRaises, Answer, WorkBool, AnswerList, WorkList, ProduceSync, Produce,
      ghostVars
<1> QED
  BY <1>1, <1>2, <1>3, <1>4, <1>5, CleanPoll, CleanDispatch, CleanCall,
     CleanCommit, CleanRest DEF Next, MainStep, LoopStep

\* A process that stops with no failure leaves nothing to be done again: whatever
\* the interval commits took before, the close commits every message it read, in
\* every partition, and each of them is settled.
THEOREM SyncWorkerStopsClean ==
    ASSUME SyncWorker
    PROVE  Spec => []CleanStop
<1>1. Init => CleanInv
  <2>1. Init => /\ pc = "loop" /\ open
                /\ \A p \in Partitions : /\ lastOffset[p] = -1 /\ position[p] = 0
                                         /\ stored[p] = 0 /\ committed[p] = 0
                /\ call[Main] = Idle
    BY SyncThreads DEF Init, EngineInit, ConsumerInit, NoOffset
  <2> QED
    BY <2>1
    DEF CleanInv, LastIsBehind, NothingIsLeft, StopIsClean, AllStored, Final, Idle
<1>2. TypeOK /\ SyncInv /\ CleanInv /\ [Next]_vars => CleanInv'
  BY CleanStep
<1>3. CleanInv => CleanStop
  BY DEF CleanInv, StopIsClean, CleanStop, Below
<1> QED
  BY <1>1, <1>2, <1>3, SyncAlways, PTL DEF Spec

-----------------------------------------------------------------------------
(* Outputs in flight: at-least-once delivery with one asynchronous         *)
(* producer, for applications that answer each message with one output, or *)
(* fail it, under the conditions of the run kafka_ordered.                 *)

\* Applications whose every answer is one output to q, or a failure; q's reports come
\* in the order of production.
SingleOutput(q) ==
    /\ AsyncQueues = {q}
    /\ AppLists \subseteq {<<q>>}
    /\ DeadLetterQueue \in {q, NoDLQ}
    /\ TRUE \notin AppBools
    /\ OrderedReports
    /\ ~EnqueueMayFail

OrderedWorker(q) == SingleOutput(q) /\ StopOnFailure /\ ~MaySignal

Before(m, n) == partition(m) = partition(n) => offset(m) < offset(n)

\* The message in hand, until its output is in the producer's hands.
Held ==
    \/ pc \in {"handle", "work", "mark", "crashed"}
    \/ pc = "produce" /\ (outs # << >> \/ \E r \in reports : ~r.status)

\* Nothing has failed that a callback was told of.
Healthy(q) == open /\ call[q].at \notin {"close", "kill"}

\* An output of m, or the report of one, or m itself, is on its way to a callback.
Pending(q, m) ==
    \/ \E i \in DOMAIN dr[q] : dr[q][i][1] = m
    \/ \E i \in DOMAIN outbox[q] : outbox[q][i][1] = m
    \/ Held /\ m = msg

ReadIsPending(q) ==
    Healthy(q) =>
        \A m \in Messages : Below(m, position) => Settled(m) \/ Pending(q, m)

InOrder(s) == \A i, j \in DOMAIN s : i < j => Before(s[i][1], s[j][1])

\* The callbacks come in the order of consumption: the one that runs, those that wait,
\* those whose outputs are in flight, and the message in hand.
Lined(waiting, flying, frame, m, held, offsets) ==
    /\ InOrder(waiting) /\ InOrder(flying)
    /\ \A i \in DOMAIN waiting, j \in DOMAIN flying :
          Before(waiting[i][1], flying[j][1])
    /\ \A i \in DOMAIN waiting :
          /\ Below(waiting[i][1], offsets)
          /\ frame # Idle => Before(frame.msg, waiting[i][1])
          /\ held => Before(waiting[i][1], m)
    /\ \A j \in DOMAIN flying :
          /\ frame # Idle => Before(frame.msg, flying[j][1])
          /\ held => Before(flying[j][1], m)
    /\ frame # Idle /\ held => Before(frame.msg, m)

InLine(q) == Healthy(q) => Lined(dr[q], outbox[q], call[q], msg, Held, position)

\* on_success is called for a message when it and those before it are settled.
CallCovers(q) ==
    Healthy(q) /\ call[q] # Idle =>
        \A m \in Messages :
            partition(m) = partition(call[q].msg) /\ offset(m) <= offset(call[q].msg)
                => Settled(m)

HandIsAhead == Hand => ~Below(msg, stored) /\ ~Below(msg, committed)

\* No offset is past what is still on its way to a callback, or to its store.
Coming(q, m) ==
    \/ Pending(q, m)
    \/ call[q].at \in {"lookup", "seed", "seeded", "store"} /\ call[q].msg = m

ComingIsAhead(q) ==
    Healthy(q) =>
        \A m \in Messages : Coming(q, m) => ~Below(m, stored) /\ ~Below(m, committed)

\* What a message is answered with: the one output, or the one failure.
Verdict(q) ==
    /\ pc \in {"loop", "poll", "handle", "work", "down"} => reports = {}
    /\ pc = "produce" =>
          \/ outs = <<q>> /\ reports = {}
          \/ outs = << >> /\ reports = {[asynchronous |-> TRUE, status |-> TRUE]}
          \/ outs = << >> /\ reports = {[asynchronous |-> FALSE, status |-> FALSE]}

\* The main thread stores nothing while the consumer is open; a consumer is closed
\* before the process is told to stop.
StopIsClosed ==
    open =>
        /\ ~killNow
        /\ \A t \in Threads : call[t].at # "kill"
        /\ pc \notin {"shutdown", "stopped", "aborted"}
        /\ call[Main].at \notin Succeeding
        /\ pc = "mark" => call[Main].at = "close"

\* The parts about messages, and those about the main thread.
LineInv(q) ==
    /\ ReadIsPending(q)
    /\ InLine(q)
    /\ CallCovers(q)
    /\ CoveredIsSettled
    /\ HandIsAhead
    /\ CoveredIsRead
    /\ StoredFirst
    /\ ComingIsAhead(q)

MainInv(q) ==
    /\ Verdict(q)
    /\ StopIsClosed
    /\ NoOutsYet

-----------------------------------------------------------------------------
(* What the steps of the invariant rest on *)

LEMMA OrderTypes ==
    ASSUME NEW q, OrderedWorker(q), TypeOK
    PROVE  /\ q \in AsyncQueues /\ q \in Threads /\ Main \in Threads
           /\ q # Main /\ Threads = {Main, q}
           /\ outbox \in [AsyncQueues -> Seq(Outputs)] /\ outbox[q] \in Seq(Outputs)
           /\ dr \in [AsyncQueues -> Seq(Messages \X BOOLEAN)]
           /\ dr[q] \in Seq(Messages \X BOOLEAN)
           /\ \A i \in DOMAIN outbox[q] : outbox[q][i][1] \in Messages
           /\ \A i \in DOMAIN dr[q] : dr[q][i][1] \in Messages
           /\ call \in [Threads -> Frames \union {Idle}]
           /\ \A t \in Threads : call[t] # Idle => call[t].msg \in Messages
                                                 /\ call[t].at \in Sites
           /\ position \in [Partitions -> Nat]
           /\ stored \in [Partitions -> Nat]
           /\ committed \in [Partitions -> Nat]
           /\ due \in [Messages -> SUBSET Nat]
           /\ pc \in Holding => msg \in Messages
<1> USE AckTypes, TopologyAssumption DEF OrderedWorker, SingleOutput, Threads
<1>1. q \in AsyncQueues /\ q # Main
  OBVIOUS
<1>2. outbox[q] \in Seq(Outputs) /\ dr[q] \in Seq(Messages \X BOOLEAN)
  BY <1>1
<1>3. /\ \A i \in DOMAIN outbox[q] : outbox[q][i][1] \in Messages
      /\ \A i \in DOMAIN dr[q] : dr[q][i][1] \in Messages
  <2>1. \A i \in DOMAIN outbox[q] : outbox[q][i] \in Outputs
    BY <1>2
  <2>2. \A i \in DOMAIN dr[q] : dr[q][i] \in Messages \X BOOLEAN
    BY <1>2
  <2> QED
    BY <2>1, <2>2 DEF Outputs
<1>4. \A t \in Threads : call[t] # Idle => call[t].msg \in Messages /\ call[t].at \in Sites
  BY DEF Frames
<1> QED
  BY <1>1, <1>2, <1>3, <1>4

\* A healthy producer's callback is one of success.
LEMMA HealthyCall ==
    ASSUME NEW q, OrderedWorker(q), TypeOK, Healthy(q), call[q] # Idle
    PROVE  call[q].at \in Succeeding
BY OrderTypes DEF Healthy, Succeeding, Sites

LEMMA OrderedIsUnmixed ==
    ASSUME NEW q, OrderedWorker(q)
    PROVE  Unmixed
<1> SUFFICES ASSUME NEW l \in AppLists PROVE Len(l) <= 1
  BY DEF Unmixed
<1>1. l = <<q>>
  BY DEF OrderedWorker, SingleOutput
<1> QED
  BY <1>1

\* The parts about messages survive a step of the main thread alone.
LEMMA OnlyMain ==
    ASSUME NEW q, OrderedWorker(q), TypeOK, LineInv(q),
           UNCHANGED <<open, position, stored, committed, outbox, dr, due>>,
           call'[q] = call[q],
           Healthy(q) => (Held' <=> Held),
           Held' => msg' = msg, Hand' => Hand /\ msg' = msg
    PROVE  LineInv(q)'
<1> USE DEF LineInv
<1>1. CASE Healthy(q)
  <2>1. Healthy(q)' /\ (Held' <=> Held) /\ (Held => msg' = msg)
    BY <1>1 DEF Healthy
  <2>2. ReadIsPending(q)'
    BY <1>1, <2>1 DEF ReadIsPending, Pending, Below, Settled
  <2>3. InLine(q)'
    BY <1>1, <2>1 DEF InLine, Lined, InOrder, Before, Below
  <2>4. CallCovers(q)'
    BY <1>1, <2>1 DEF CallCovers, Settled
  <2>5. ComingIsAhead(q)'
    BY <1>1, <2>1 DEF ComingIsAhead, Coming, Pending, Below
  <2> QED
    BY <2>2, <2>3, <2>4, <2>5
    DEF CoveredIsSettled, HandIsAhead, CoveredIsRead, StoredFirst, Below, Settled
<1>2. CASE ~Healthy(q)
  <2>1. ~Healthy(q)'
    BY <1>2 DEF Healthy
  <2> QED
    BY <2>1 DEF ReadIsPending, InLine, Lined, CallCovers, CoveredIsSettled, HandIsAhead,
                CoveredIsRead, StoredFirst, ComingIsAhead, Below, Settled
<1> QED
  BY <1>1, <1>2

-----------------------------------------------------------------------------
(* The main thread *)

OneReport == [asynchronous |-> TRUE, status |-> TRUE]

OneFailure == [asynchronous |-> FALSE, status |-> FALSE]

LEMMA VerdictLoop ==
    ASSUME NEW q, SingleOutput(q), EngineTypeOK, Verdict(q), NoOutsYet, LoopStep
    PROVE  Verdict(q)'
<1> USE DEF Verdict
<1>1. CASE /\ pc' \in {"loop", "poll", "handle", "work", "down"} /\ reports' = {}
  BY <1>1
<1>2. CASE pc' \notin {"loop", "poll", "handle", "work", "down", "produce"}
  BY <1>2
<1>3. CASE Handle
  <2>1. CASE HandleInvalid
    BY <2>1 DEF HandleInvalid, SingleOutput
  <2>2. CASE HandleValid \/ DLQNotConfigured
    BY <1>1, <1>2, <2>2 DEF HandleValid, DLQNotConfigured
  <2> QED
    BY <1>3, <2>1, <2>2 DEF Handle
<1>4. ASSUME NEW b \in AppBools, Answer(b) PROVE Verdict(q)'
  <2>1. b = FALSE
    BY EngineAssumption DEF SingleOutput
  <2> QED
    BY <1>4, <2>1 DEF Answer, WorkBool, NoOutsYet
<1>5. ASSUME NEW l \in AppLists, AnswerList(l) PROVE Verdict(q)'
  <2>1. l = <<q>>
    BY DEF SingleOutput
  <2> QED
    BY <1>5, <2>1 DEF AnswerList, WorkList
<1>6. CASE \/ ProduceAsync \/ EnqueueFails \/ \E st, d \in BOOLEAN : ProduceSync(st, d)
  <2>1. /\ outs = <<q>> /\ reports = {} /\ Head(outs) = q /\ Tail(outs) = << >>
        /\ q \in AsyncQueues /\ ~EnqueueMayFail
    BY <1>6 DEF ProduceAsync, EnqueueFails, ProduceSync, Produce, SingleOutput
  <2>2. ProduceAsync
    BY <1>6, <2>1 DEF EnqueueFails, ProduceSync
  <2> QED
    BY <2>1, <2>2 DEF ProduceAsync, Produce
<1>7. CASE CheckKillNow
  BY <1>1, <1>2, <1>7 DEF CheckKillNow, LoopAgain, LoopExit
<1>8. CASE PollNothing \/ EndIteration
  BY <1>8 DEF PollNothing, ConsumeNone, EndIteration, Marked, NextIteration
<1>9. CASE PollRaises \/ Crash \/ CloseConsumer
  BY <1>9 DEF PollRaises, Abort, Crash, WorkRaises, ProduceRaises, CloseConsumer,
              ShutdownConsumer
<1> QED
  BY <1>3, <1>4, <1>5, <1>6, <1>7, <1>8, <1>9 DEF LoopStep

LEMMA VerdictStep ==
    ASSUME NEW q, OrderedWorker(q), TypeOK, MainInv(q), [Next]_vars
    PROVE  Verdict(q)'
<1> USE DEF MainInv
<1>1. CASE LoopStep
  BY <1>1, VerdictLoop DEF OrderedWorker, TypeOK
<1>2. CASE Die \/ Restart \/ \E m \in Messages : Poll(m)
  BY <1>2 DEF Die, Vanish, Restart, Start, Poll, Consume, Verdict
<1>3. CASE Dispatch \/ CloseProducer
  BY <1>3 DEF Dispatch, MarkSuccess, MarkFail, LeaveToCallback, NextIteration,
              CloseProducer, ShutdownProducer, Verdict
<1>4. CASE \/ \E o \in AsyncQueues : Outcome(o)
           \/ \E t \in Threads, o \in AsyncQueues : Serve(t, o)
           \/ Commit \/ Signal \/ Terminated \/ UNCHANGED vars
  BY <1>4 DEF Outcome, Deliver, Reject, Serve, Callback, Commit, Signal,
              exit_gracefully, Terminated, vars, engineVars, Verdict
<1>5. ASSUME NEW t \in Threads, CallStep(t) PROVE Verdict(q)'
  BY <1>5 DEF CallStep, StepCall, StepKill, StepRaises, exit_gracefully, Abort,
              engineVars, Verdict
<1> QED
  BY <1>1, <1>2, <1>3, <1>4, <1>5 DEF Next, MainStep

\* What a message is answered with, the verdict turns into one of two actions.
LEMMA NeverMarkSuccess ==
    ASSUME NEW q, Verdict(q)
    PROVE  /\ ~MarkSuccess
           /\ MarkFail => reports = {OneFailure}
           /\ LeaveToCallback => reports = {OneReport}
<1>1. Produced => reports = {OneReport} \/ reports = {OneFailure}
  BY DEF Produced, Verdict, OneReport, OneFailure
<1>2. CASE reports = {OneReport}
  <2>1. /\ waiting_async(reports) = {OneReport} /\ sync_failures(reports) = {}
    BY <1>2 DEF waiting_async, sync_failures, OneReport
  <2>2. delivery_success(reports) = OneReport
    BY <2>1 DEF delivery_success, OneReport
  <2> QED
    BY <1>2, <2>2 DEF MarkSuccess, MarkFail, OneReport
<1>3. CASE reports = {OneFailure}
  <2>1. /\ waiting_async(reports) = {} /\ sync_failures(reports) = {OneFailure}
    BY <1>3 DEF waiting_async, sync_failures, OneFailure
  <2>2. delivery_success(reports) = OneFailure
    BY <2>1 DEF delivery_success, OneFailure
  <2> QED
    BY <1>3, <2>2 DEF MarkSuccess, LeaveToCallback, OneFailure
<1> QED
  BY <1>1, <1>2, <1>3 DEF MarkSuccess, MarkFail, LeaveToCallback

\* The other steps of a call, for the thread that makes it.
LEMMA CallFrames ==
    ASSUME TypeOK, NEW t \in Threads, CallStep(t)
    PROVE  /\ \A u \in Threads \ {t} : call'[u] = call[u]
           /\ \/ call'[t] = Idle
              \/ call'[t].msg = call[t].msg /\ call'[t].at \in Sites
           /\ call[t].at # "idle"
           /\ call[t].at \in Succeeding /\ call'[t] # Idle => call'[t].at \in Succeeding
           /\ call[t].at \in {"close", "kill"} /\ call'[t] # Idle => call'[t].at = "kill"
           /\ call'[t].at = "kill" => ~open'
           /\ open' => open
<1>0. ConsumerTypeOK
  BY DEF TypeOK
<1>1. CASE \/ Lookup(t) /\ (Goto(t, "seed") \/ Goto(t, "store"))
           \/ Record(t) /\ Goto(t, "seeded")
           \/ StoreOffsets(t) /\ Goto(t, "record")
  <2>1. call[t].at \in Succeeding /\ call[t].at # "idle" /\ open' = open
    BY <1>1 DEF Lookup, Record, StoreOffsets, Storing, Succeeding
  <2>2. PICK site \in Succeeding : Goto(t, site)
    BY <1>1 DEF Succeeding
  <2>3. site \in Sites
    BY DEF Sites, Succeeding
  <2>4. /\ call'[t] = [at |-> site, msg |-> call[t].msg]
        /\ \A u \in Threads \ {t} : call'[u] = call[u]
    BY <1>0, <2>1, <2>2, <2>3, MoveFrame
  <2> QED
    BY <2>1, <2>3, <2>4 DEF Succeeding
<1>2. CASE CloseOnFail(t)
  <2>1. call[t].at = "close" /\ Goto(t, "kill") /\ ~open' /\ "kill" \in Sites
    BY <1>2 DEF CloseOnFail, Close, Sites
  <2>2. /\ call'[t] = [at |-> "kill", msg |-> call[t].msg]
        /\ \A u \in Threads \ {t} : call'[u] = call[u]
    BY <1>0, <2>1, MoveFrame
  <2> QED
    BY <2>1, <2>2 DEF Succeeding
<1>3. CASE /\ Lookup(t) \/ Record(t) \/ StoreOffsets(t) \/ StoreRaises(t) \/ KillOnFail(t)
           /\ Return(t)
  <2>1. call[t].at # "idle" /\ open' = open
    BY <1>3 DEF Lookup, Record, StoreOffsets, StoreRaises, Storing, KillOnFail
  <2>2. call'[t] = Idle /\ \A u \in Threads \ {t} : call'[u] = call[u]
    BY <1>0, <1>3, ReturnFrame
  <2> QED
    BY <2>1, <2>2 DEF Idle
<1> QED
  BY <1>1, <1>2, <1>3
  DEF CallStep, StepCall, StepKill, StepRaises, Lookup, Record, StoreOffsets,
      StoreRaises, KillOnFail

LEMMA StopStep ==
    ASSUME NEW q, OrderedWorker(q), TypeOK, MainInv(q), [Next]_vars
    PROVE  StopIsClosed'
<1> USE DEF MainInv, StopIsClosed
<1>0. Main \in Threads /\ q \in Threads /\ Main # q /\ Threads = {Main, q}
  BY OrderTypes
<1>1. CASE /\ UNCHANGED <<open, call>> /\ killNow' = killNow
           /\ pc' \notin {"shutdown", "stopped", "aborted", "mark"}
  BY <1>1
<1>2. CASE UNCHANGED <<open, call, killNow, pc>>
  BY <1>2
<1>3. CASE LoopStep
  <2>1. CASE CheckKillNow
    BY <2>1 DEF CheckKillNow, LoopAgain, LoopExit, consumerVars
  <2>2. CASE PollRaises \/ CloseConsumer
    BY <2>2 DEF PollRaises, CloseConsumer, Close, consumerVars
  <2>3. CASE \/ PollNothing \/ Handle \/ \E b \in AppBools : Answer(b)
             \/ \E l \in AppLists : AnswerList(l)
             \/ Crash \/ EndIteration
    BY <2>3 DEF PollNothing, ConsumeNone, Handle, HandleValid, HandleInvalid,
                DLQNotConfigured, Answer, WorkBool, AnswerList, WorkList, Crash,
                WorkRaises, ProduceRaises, EndIteration, Marked, NextIteration,
                consumerVars
  <2>4. CASE \/ \E st, d \in BOOLEAN : ProduceSync(st, d)
             \/ ProduceAsync \/ EnqueueFails
    BY <2>4 DEF ProduceSync, ProduceAsync, EnqueueFails, Produce, consumerVars
  <2> QED
    BY <1>3, <2>1, <2>2, <2>3, <2>4 DEF LoopStep
<1>4. CASE Dispatch
  <2>1. CASE LeaveToCallback /\ UNCHANGED consumerVars
    BY <2>1 DEF LeaveToCallback, NextIteration, consumerVars
  <2>2. CASE MarkFail /\ Fail(Main, msg)
    <3>1. call' = [call EXCEPT ![Main] = [at |-> "close", msg |-> msg]] /\ open' = open
      BY <2>2 DEF Fail, on_fail, OrderedWorker, SingleOutput
    <3>2. call'[Main] = [at |-> "close", msg |-> msg] /\ call'[q] = call[q]
      BY <1>0, <3>1, AckTypes
    <3>3. pc' = "mark" /\ killNow' = killNow
      BY <2>2 DEF MarkFail
    <3> QED
      BY <1>0, <3>1, <3>2, <3>3 DEF Succeeding
  <2> QED
    BY <1>4, <2>1, <2>2, NeverMarkSuccess DEF Dispatch
<1>5. CASE CloseProducer
  BY <1>5 DEF CloseProducer, ShutdownProducer, consumerVars
<1>6. ASSUME NEW m \in Messages, Poll(m) PROVE StopIsClosed'
  BY <1>6 DEF Poll, Consume, PollMessage
<1>7. ASSUME NEW o \in AsyncQueues, Outcome(o) PROVE StopIsClosed'
  BY <1>7 DEF Outcome, Deliver, Reject, engineVars, consumerVars
<1>8. ASSUME NEW t \in Threads, NEW o \in AsyncQueues, Serve(t, o)
      PROVE  StopIsClosed'
  <2>1. PICK m \in Messages, ok \in BOOLEAN : Callback(t, o, m, ok)
    BY <1>8 DEF Serve
  <2>2. UNCHANGED <<pc, killNow, open>>
    BY <2>1 DEF Callback, Fail, on_success, on_fail, engineVars
  <2>3. CASE t = Main
    BY <1>0, <2>1, <2>2, <2>3 DEF Callback, Serves, OrderedWorker, SingleOutput
  <2>4. CASE t = q
    <3>1. \/ call' = [call EXCEPT ![q] = [at |-> "lookup", msg |-> m]]
          \/ call' = [call EXCEPT ![q] = [at |-> "close", msg |-> m]]
      BY <2>1, <2>4 DEF Callback, Fail, on_success, on_fail, OrderedWorker, SingleOutput
    <3>2. call'[q].at # "kill" /\ call'[Main] = call[Main]
      BY <1>0, <3>1, AckTypes
    <3> QED
      BY <1>0, <2>2, <3>2
  <2> QED
    BY <1>0, <2>3, <2>4
<1>9. ASSUME NEW t \in Threads, CallStep(t) PROVE StopIsClosed'
  <2>1. CASE t = Main
    <3>1. open' => call[Main].at # "close"
      BY <1>9, <2>1 DEF CallStep, StepCall, StepKill, StepRaises, Lookup, Record,
                        StoreOffsets, Storing, StoreRaises, CloseOnFail, Close,
                        KillOnFail
    <3>2. open' => open /\ call[Main].at \in Succeeding \union {"close", "kill"}
      BY <1>9, <2>1, CallFrames, AckTypes DEF Succeeding, Sites, Frames, Idle
    <3> QED
      BY <1>0, <3>1, <3>2
  <2>2. CASE t = q
    <3>1. call'[Main] = call[Main] /\ (open' => open /\ call'[q].at # "kill")
      BY <1>0, <1>9, <2>2, CallFrames
    <3>2. open' => UNCHANGED <<pc, killNow>>
      <4>1. CASE StepCall(q)
        BY <4>1 DEF StepCall, engineVars
      <4>2. CASE StepKill(q)
        BY <1>0, <3>1, <4>2 DEF StepKill, KillOnFail
      <4>3. CASE StepRaises(q)
        BY <1>0, <4>3 DEF StepRaises, engineVars
      <4> QED
        BY <1>9, <2>2, <4>1, <4>2, <4>3 DEF CallStep
    <3> QED
      BY <1>0, <3>1, <3>2
  <2> QED
    BY <1>0, <2>1, <2>2
<1>10. CASE Die
  <2>1. \A t \in Threads : call'[t] = Idle
    BY <1>10 DEF Die, Resubscribe
  <2> QED
    BY <1>0, <1>10, <2>1 DEF Die, Vanish, Idle, Succeeding
<1>11. CASE Commit \/ Signal \/ Restart \/ Terminated \/ UNCHANGED vars
  BY <1>11 DEF Commit, AutoCommit, Signal, OrderedWorker, Restart, Start, Terminated,
               vars, engineVars, consumerVars
<1> QED
  BY <1>3, <1>4, <1>5, <1>6, <1>7, <1>8, <1>9, <1>10, <1>11 DEF Next, MainStep

LEMMA MainInvStep ==
    ASSUME NEW q, OrderedWorker(q), TypeOK, MainInv(q), [Next]_vars
    PROVE  MainInv(q)'
<1>1. NoOutsYet'
  BY Composition, NoOutsStep DEF MainInv
<1> QED
  BY <1>1, VerdictStep, StopStep DEF MainInv

-----------------------------------------------------------------------------
(* Messages on their way to a callback *)

LEMMA OutboxIsRead ==
    ASSUME NEW q, OrderedWorker(q), TypeOK, AckInv, NEW i \in DOMAIN outbox[q]
    PROVE  Below(outbox[q][i][1], position)
<1>1. outbox[q][i] \in Messages \X Nat /\ q \in AsyncQueues
  BY OrderTypes DEF Outputs
<1>2. outbox[q][i] = <<outbox[q][i][1], outbox[q][i][2]>>
  BY <1>1
<1>3. outbox[q][i] \in Range(outbox[q])
  BY DEF Range
<1>4. InFlight(outbox[q][i][1])
  BY <1>1, <1>2, <1>3 DEF InFlight
<1> QED
  BY <1>1, <1>4 DEF AckInv, TouchedIsRead

LEMMA OrderPoll ==
    ASSUME NEW q, OrderedWorker(q), TypeOK, AckInv, LineInv(q), MainInv(q),
           NEW m \in Messages, Poll(m)
    PROVE  LineInv(q)'
<1> USE DEF LineInv
<1>1. /\ pc = "poll" /\ pc' = "handle" /\ msg' = m
      /\ open /\ position[partition(m)] = offset(m)
      /\ position' = [position EXCEPT ![partition(m)] = offset(m) + 1]
      /\ UNCHANGED <<open, stored, committed, call, outbox, dr, due>>
  BY DEF Poll, Consume, PollMessage, producerVars, ghostVars
<1>2. ~Held /\ Held'
  BY <1>1 DEF Held
<1>3. ASSUME NEW n \in Messages, Below(n, position)'
      PROVE  Below(n, position) \/ n = m
  <2>1. /\ n = <<partition(n), offset(n)>> /\ m = <<partition(m), offset(m)>>
        /\ partition(n) \in Partitions /\ offset(n) \in Nat /\ offset(m) \in Nat
    BY MessageParts
  <2>2. CASE partition(n) = partition(m)
    <3>1. position'[partition(n)] = offset(m) + 1
      BY <1>1, <2>1, <2>2, OrderTypes
    <3>2. offset(n) < offset(m) \/ offset(n) = offset(m)
      BY <1>3, <2>1, <3>1 DEF Below
    <3> QED
      BY <1>1, <2>1, <2>2, <3>2 DEF Below
  <2>3. CASE partition(n) # partition(m)
    BY <1>1, <1>3, <2>1, <2>3, OrderTypes DEF Below
  <2> QED
    BY <2>2, <2>3
<1>4. \A n \in Messages : Below(n, position) => Below(n, position)' /\ Before(n, m)
  BY <1>1, OrderTypes, MessageParts DEF Below, Before
<1>5. CASE Healthy(q)
  <2>1. Healthy(q)'
    BY <1>1, <1>5 DEF Healthy
  <2>2. ReadIsPending(q)'
    <3> SUFFICES ASSUME NEW n \in Messages, Below(n, position)'
                 PROVE  Settled(n)' \/ Pending(q, n)'
      BY DEF ReadIsPending
    <3>1. CASE n = m
      BY <1>1, <1>2, <3>1 DEF Pending
    <3>2. CASE Below(n, position)
      BY <1>1, <1>2, <1>5, <3>2 DEF ReadIsPending, Pending, Settled
    <3> QED
      BY <1>3, <3>1, <3>2
  <2>3. /\ \A i \in DOMAIN dr[q] : Below(dr[q][i][1], position)
        /\ \A i \in DOMAIN outbox[q] : Below(outbox[q][i][1], position)
        /\ call[q] # Idle => Below(call[q].msg, position)
    <3>1. call[q] # Idle => Below(call[q].msg, position)
      BY <1>5, OrderTypes, HealthyCall DEF AckInv, TouchedIsRead, Acked
    <3> QED
      BY <1>5, <3>1, OutboxIsRead DEF InLine, Lined
  <2>4. InLine(q)'
    <3>1. /\ \A i \in DOMAIN dr[q] : /\ Below(dr[q][i][1], position)'
                                     /\ Before(dr[q][i][1], m)
          /\ \A i \in DOMAIN outbox[q] : Before(outbox[q][i][1], m)
          /\ call[q] # Idle => Before(call[q].msg, m)
      <4>1. \A n : Below(n, position)' <=> Below(n, position')
        BY DEF Below
      <4>2. \A n \in Messages : Below(n, position) => Below(n, position') /\ Before(n, m)
        BY <1>4, <4>1
      <4>3. \A i \in DOMAIN dr[q] : Below(dr[q][i][1], position)' <=> Below(dr[q][i][1], position')
        BY <1>1 DEF Below
      <4> QED
        BY <2>3, <4>2, <4>3, OrderTypes
    <3> QED
      BY <1>1, <1>2, <1>5, <3>1 DEF InLine, Lined, InOrder, Before
  <2>5. CallCovers(q)'
    BY <1>1, <1>5 DEF CallCovers, Settled
  <2>6. ComingIsAhead(q)'
    <3> SUFFICES ASSUME NEW n \in Messages, Coming(q, n)'
                 PROVE  ~Below(n, stored) /\ ~Below(n, committed)
      BY <1>1 DEF ComingIsAhead, Below
    <3>1. CASE n = m
      BY <1>1, <3>1, OrderTypes, MessageParts DEF CoveredIsRead, Below
    <3>2. CASE n # m
      <4>1. Coming(q, n)
        BY <1>1, <1>2, <3>2 DEF Coming, Pending
      <4> QED
        BY <1>5, <4>1 DEF ComingIsAhead
    <3> QED
      BY <3>1, <3>2
  <2> QED
    BY <1>1, <2>2, <2>4, <2>5, <2>6, OrderTypes, MessageParts
    DEF CoveredIsSettled, HandIsAhead, CoveredIsRead, StoredFirst, Below, Settled
<1>6. CASE ~Healthy(q)
  <2>1. ~Healthy(q)'
    BY <1>1, <1>6 DEF Healthy
  <2>2. ReadIsPending(q)' /\ InLine(q)' /\ CallCovers(q)' /\ ComingIsAhead(q)'
    BY <2>1 DEF ReadIsPending, InLine, CallCovers, ComingIsAhead
  <2> QED
    BY <1>1, <2>2, OrderTypes, MessageParts
    DEF CoveredIsSettled, HandIsAhead, CoveredIsRead, StoredFirst, Below, Settled
<1> QED
  BY <1>5, <1>6

\* The message in hand is due again: none of what is stored, committed or about to
\* be is past it.
LEMMA HandReopens ==
    ASSUME NEW q, OrderedWorker(q), TypeOK, LineInv(q), Hand, Hand', msg' = msg,
           \A m \in Messages \ {msg} : due'[m] = due[m],
           UNCHANGED <<consumerVars, outbox, dr>>
    PROVE  LineInv(q)'
<1> USE DEF LineInv
<1>1. msg \in Messages /\ Held /\ Held'
  BY OrderTypes DEF Hand, Held, Holding
<1>2. UNCHANGED <<open, position, stored, committed, call>>
  BY DEF consumerVars
<1>3. \A m \in Messages : Settled(m) => Settled(m)' \/ m = msg
  BY DEF Settled
<1>4. ReadIsPending(q)'
  BY <1>1, <1>2, <1>3 DEF Healthy, ReadIsPending, Pending, Below
<1>5. InLine(q)'
  BY <1>1, <1>2 DEF Healthy, InLine, Lined, InOrder, Before, Below
<1>6. CallCovers(q)'
  <2> SUFFICES ASSUME Healthy(q), call[q] # Idle, NEW m \in Messages,
                      partition(m) = partition(call[q].msg),
                      offset(m) <= offset(call[q].msg)
               PROVE  Settled(m)'
    BY <1>2 DEF CallCovers, Healthy
  <2>1. Before(call[q].msg, msg)
    BY <1>1 DEF InLine, Lined
  <2>2. m # msg
    BY <1>1, <2>1, OrderTypes, MessageParts DEF Before
  <2> QED
    BY <1>3, <2>2 DEF CallCovers
<1>7. CoveredIsSettled'
  BY <1>2, <1>3 DEF CoveredIsSettled, HandIsAhead, Below
<1>8. ComingIsAhead(q)'
  BY <1>1, <1>2 DEF Healthy, ComingIsAhead, Coming, Pending, Below
<1> QED
  BY <1>2, <1>4, <1>5, <1>6, <1>7, <1>8
  DEF HandIsAhead, CoveredIsRead, StoredFirst, Below

LEMMA OrderWork ==
    ASSUME NEW q, OrderedWorker(q), TypeOK, LineInv(q), MainInv(q),
           \/ Handle \/ Crash
           \/ \E b \in AppBools : Answer(b)
           \/ \E l \in AppLists : AnswerList(l)
    PROVE  LineInv(q)'
<1>0. UNCHANGED <<consumerVars, outbox, dr>> /\ msg' = msg
  BY DEF Handle, HandleValid, HandleInvalid, DLQNotConfigured, Crash, WorkRaises,
         ProduceRaises, Answer, WorkBool, AnswerList, WorkList, producerVars
<1>1. CASE Handle /\ HandleInvalid
  <2>1. Hand /\ Hand' /\ \A m \in Messages \ {msg} : due'[m] = due[m]
    BY <1>1, OrderTypes DEF Handle, HandleInvalid, Hand
  <2> QED
    BY <1>0, <2>1, HandReopens
<1>2. ASSUME NEW l \in AppLists, AnswerList(l) PROVE LineInv(q)'
  <2>1. l = <<q>>
    BY DEF OrderedWorker, SingleOutput
  <2>2. Hand /\ Hand' /\ \A m \in Messages \ {msg} : due'[m] = due[m]
    BY <1>2, <2>1, OrderTypes DEF AnswerList, WorkList, Hand
  <2> QED
    BY <1>0, <2>2, HandReopens
<1>3. CASE \/ Handle /\ ~HandleInvalid
           \/ Crash
           \/ \E b \in AppBools : Answer(b)
  <2>1. Held /\ Held' /\ (Hand' => Hand) /\ due' = due
    <3>1. CASE Handle /\ ~HandleInvalid
      BY <3>1 DEF Handle, HandleValid, DLQNotConfigured, Held, Hand
    <3>2. CASE Crash
      BY <3>2 DEF Crash, WorkRaises, ProduceRaises, Held, Hand, ghostVars
    <3>3. ASSUME NEW b \in AppBools, Answer(b)
          PROVE  Held /\ Held' /\ (Hand' => Hand) /\ due' = due
      <4>1. b = FALSE
        BY EngineAssumption DEF OrderedWorker, SingleOutput
      <4>2. pc = "work" /\ pc' = "produce" /\ outs' = outs /\ outs = << >>
            /\ reports' = {OneFailure} /\ due' = due
        BY <3>3, <4>1 DEF Answer, WorkBool, MainInv, NoOutsYet, OneFailure
      <4>3. ~OneFailure.status
        BY DEF OneFailure
      <4> QED
        BY <4>2, <4>3 DEF Held, Hand
    <3> QED
      BY <1>3, <3>1, <3>2, <3>3
  <2>2. UNCHANGED <<open, position, stored, committed, call, outbox, dr>>
    BY <1>0 DEF consumerVars
  <2> QED
    BY <1>0, <2>1, <2>2, OnlyMain
<1> QED
  BY <1>1, <1>2, <1>3

LEMMA OrderProduce ==
    ASSUME NEW q, OrderedWorker(q), TypeOK, LineInv(q), MainInv(q),
           \/ ProduceAsync \/ EnqueueFails
           \/ \E st, d \in BOOLEAN : ProduceSync(st, d)
    PROVE  LineInv(q)'
<1> USE DEF LineInv
<1> DEFINE s == outbox[q]
           r == outbox'[q]
           n == Len(s)
<1>1. /\ pc = "produce" /\ outs = <<q>> /\ reports = {} /\ Head(outs) = q
      /\ Tail(outs) = << >> /\ q \in AsyncQueues /\ ~EnqueueMayFail
  BY OrderTypes
  DEF ProduceAsync, EnqueueFails, ProduceSync, Produce, OrderedWorker, SingleOutput,
      MainInv, Verdict
<1>2. ProduceAsync
  BY <1>1 DEF EnqueueFails, ProduceSync
<1>3. /\ pc' = "produce" /\ outs' = << >> /\ reports' = {OneReport} /\ msg' = msg
      /\ r = Append(s, <<msg, Len(outs)>>)
      /\ UNCHANGED <<open, position, stored, committed, call, dr, due>>
  BY <1>1, <1>2, OrderTypes
  DEF ProduceAsync, Produce, Enqueue, OneReport, consumerVars, ghostVars
<1>4. Held /\ ~Held' /\ ~Hand' /\ msg \in Messages
  BY <1>1, <1>3, OrderTypes DEF Held, Hand, OneReport, Holding
<1>5. /\ n \in Nat /\ DOMAIN s = 1..n /\ DOMAIN r = 1..(n + 1)
      /\ \A i \in 1..n : r[i] = s[i]
      /\ r[n + 1] = <<msg, Len(outs)>>
  <2>1. <<msg, Len(outs)>> \in Outputs /\ s \in Seq(Outputs)
    BY <1>1, <1>4, OrderTypes DEF Outputs
  <2> QED
    BY <1>3, <2>1, AppendProperties
<1>6. r[n + 1][1] = msg
  BY <1>5
<1> HIDE DEF r, s, n
<1>7. CASE Healthy(q)
  <2>1. Healthy(q)'
    BY <1>3, <1>7 DEF Healthy
  <2>2. ReadIsPending(q)'
    <3> SUFFICES ASSUME NEW m \in Messages, Below(m, position), ~Settled(m)
                 PROVE  Pending(q, m)'
      BY <1>3 DEF ReadIsPending, Below, Settled
    <3>1. CASE Held /\ m = msg
      <4>1. n + 1 \in DOMAIN r /\ r[n + 1][1] = m
        BY <1>5, <1>6, <3>1
      <4> QED
        BY <4>1 DEF Pending, r
    <3>2. CASE \E i \in DOMAIN s : s[i][1] = m
      <4>1. \E i \in DOMAIN r : r[i][1] = m
        BY <1>5, <3>2
      <4> QED
        BY <4>1 DEF Pending, r
    <3>3. CASE \E i \in DOMAIN dr[q] : dr[q][i][1] = m
      BY <1>3, <3>3 DEF Pending
    <3> QED
      BY <1>7, <3>1, <3>2, <3>3 DEF ReadIsPending, Pending, s
  <2>3. \A j \in DOMAIN r :
            (j \in DOMAIN s /\ r[j] = s[j]) \/ (j = n + 1 /\ r[j][1] = msg)
    BY <1>5, <1>6
  <2>4. InLine(q)'
    <3>1. /\ InOrder(dr[q]) /\ InOrder(s)
          /\ \A i \in DOMAIN dr[q], j \in DOMAIN s : Before(dr[q][i][1], s[j][1])
          /\ \A i \in DOMAIN dr[q] : /\ Below(dr[q][i][1], position)
                                     /\ call[q] # Idle => Before(call[q].msg, dr[q][i][1])
                                     /\ Before(dr[q][i][1], msg)
          /\ \A j \in DOMAIN s : /\ call[q] # Idle => Before(call[q].msg, s[j][1])
                                 /\ Before(s[j][1], msg)
          /\ call[q] # Idle => Before(call[q].msg, msg)
      BY <1>4, <1>7 DEF InLine, Lined, s
    <3>2. InOrder(r)
      <4> SUFFICES ASSUME NEW i \in DOMAIN r, NEW j \in DOMAIN r, i < j
                   PROVE  Before(r[i][1], r[j][1])
        BY DEF InOrder
      <4>1. i \in DOMAIN s /\ r[i] = s[i]
        BY <1>5
      <4> QED
        BY <2>3, <3>1, <4>1 DEF InOrder
    <3>3. \A i \in DOMAIN dr[q], j \in DOMAIN r : Before(dr[q][i][1], r[j][1])
      BY <2>3, <3>1
    <3>4. \A j \in DOMAIN r : call[q] # Idle => Before(call[q].msg, r[j][1])
      BY <2>3, <3>1
    <3> QED
      BY <1>3, <1>4, <3>1, <3>2, <3>3, <3>4 DEF InLine, Lined, r, Below, InOrder, Before
  <2>5. CallCovers(q)'
    BY <1>3, <1>7 DEF CallCovers, Settled
  <2>6. ComingIsAhead(q)'
    <3> SUFFICES ASSUME NEW m \in Messages, Coming(q, m)'
                 PROVE  Coming(q, m)
      BY <1>3, <1>7 DEF ComingIsAhead, Below
    <3>1. CASE \E i \in DOMAIN r : r[i][1] = m
      BY <1>4, <2>3, <3>1 DEF Coming, Pending, s
    <3> QED
      BY <1>3, <1>4, <3>1 DEF Coming, Pending, r
  <2> QED
    BY <1>3, <1>4, <2>2, <2>4, <2>5, <2>6
    DEF CoveredIsSettled, HandIsAhead, CoveredIsRead, StoredFirst, Below, Settled
<1>8. CASE ~Healthy(q)
  BY <1>3, <1>4, <1>8
  DEF Healthy, ReadIsPending, InLine, Lined, CallCovers, CoveredIsSettled, HandIsAhead,
      CoveredIsRead, StoredFirst, ComingIsAhead, Below, Settled
<1> QED
  BY <1>7, <1>8

\* The first output in flight has its outcome: with OrderedReports, the reports come in
\* the order of production.
LEMMA OrderOutcome ==
    ASSUME NEW q, OrderedWorker(q), TypeOK, AckInv, LineInv(q),
           NEW o \in AsyncQueues, Outcome(o)
    PROVE  LineInv(q)'
<1> USE DEF LineInv
<1> DEFINE s == outbox[q]
           r == outbox'[q]
           n == Len(s)
           d == dr[q]
           e == dr'[q]
           k == Len(d)
<1>0. o = q
  BY DEF OrderedWorker, SingleOutput
<1>1. PICK i \in DOMAIN s, ok \in BOOLEAN :
          Report(q, i, ok) /\ (UNCHANGED due \/ Delivered(s[i][1], s[i][2]))
          /\ UNCHANGED <<engineVars, consumerVars>>
  BY <1>0 DEF Outcome, Deliver, Reject, ghostVars
<1>2. /\ i = 1 /\ r = RemoveAt(s, 1) /\ e = Append(d, <<s[1][1], ok>>)
      /\ UNCHANGED <<open, position, stored, committed, call, pc, msg, outs, reports>>
  BY <1>1, OrderTypes DEF Report, OrderedWorker, SingleOutput, consumerVars, engineVars
<1>3. /\ n \in Nat /\ 1 \in 1..n /\ DOMAIN s = 1..n /\ DOMAIN r = 1..(n - 1)
      /\ \A j \in 1..(n - 1) : r[j] = s[j + 1]
  <2>1. s \in Seq(Outputs) /\ 1 \in DOMAIN s
    BY <1>1, <1>2, OrderTypes
  <2>2. n \in Nat /\ DOMAIN s = 1..n
    BY <2>1
  <2>3. /\ DOMAIN RemoveAt(s, 1) = 1..(n - 1)
        /\ \A j \in 1..(n - 1) : RemoveAt(s, 1)[j] = IF j < 1 THEN s[j] ELSE s[j + 1]
    BY <2>1, RemoveParts
  <2>4. \A j \in 1..(n - 1) : RemoveAt(s, 1)[j] = s[j + 1]
    BY <2>2, <2>3
  <2> HIDE DEF s, n, r
  <2> QED
    BY <1>2, <2>1, <2>2, <2>3, <2>4
<1>4. /\ k \in Nat /\ DOMAIN d = 1..k /\ DOMAIN e = 1..(k + 1)
      /\ \A j \in 1..k : e[j] = d[j]
      /\ e[k + 1] = <<s[1][1], ok>>
  <2>1. d \in Seq(Messages \X BOOLEAN) /\ <<s[1][1], ok>> \in Messages \X BOOLEAN
    BY <1>1, <1>2, OrderTypes
  <2> QED
    BY <1>2, <2>1, AppendProperties
<1>5. e[k + 1][1] = s[1][1]
  BY <1>4
<1>6. \A m \in Messages : Settled(m) => Settled(m)'
  <2>1. s[i][1] \in Messages
    BY <1>1, OrderTypes
  <2> QED
    BY <1>1, <2>1, OrderTypes DEF Delivered, Settled
<1>7. Below(s[1][1], position)
  BY <1>1, <1>2, OutboxIsRead
<1>8. (Held' <=> Held) /\ (Hand' <=> Hand) /\ (Healthy(q)' <=> Healthy(q))
  BY <1>2 DEF Held, Hand, Healthy
<1>9. \A j \in DOMAIN s : j = 1 \/ (j - 1 \in DOMAIN r /\ r[j - 1] = s[j])
  BY <1>3
<1>10. \A j \in DOMAIN r : j + 1 \in DOMAIN s /\ r[j] = s[j + 1] /\ 1 < j + 1
  BY <1>3
<1>11. \A j \in DOMAIN e :
            (j \in DOMAIN d /\ e[j] = d[j]) \/ (j = k + 1 /\ e[j][1] = s[1][1])
  BY <1>4, <1>5
<1>12. 1 \in DOMAIN s /\ k + 1 \in DOMAIN e
  BY <1>3, <1>4
<1>13. \A j \in DOMAIN d : j \in DOMAIN e /\ e[j] = d[j]
  BY <1>4
<1> DEFINE Here(m) == \/ \E j \in DOMAIN d : d[j][1] = m
                      \/ \E j \in DOMAIN s : s[j][1] = m
                      \/ Held /\ m = msg
           There(m) == \/ \E j \in DOMAIN e : e[j][1] = m
                       \/ \E j \in DOMAIN r : r[j][1] = m
                       \/ Held /\ m = msg
<1>14. \A m : (Pending(q, m) <=> Here(m)) /\ (Pending(q, m)' <=> There(m))
  BY <1>2, <1>8 DEF Pending
<1> HIDE DEF r, s, n, d, e, k
<1>15. ReadIsPending(q)'
  <2> SUFFICES ASSUME Healthy(q), NEW m \in Messages, Below(m, position), ~Settled(m)
               PROVE  There(m)
    BY <1>2, <1>6, <1>8, <1>14 DEF ReadIsPending, Below
  <2>1. Here(m)
    BY <1>14 DEF ReadIsPending
  <2>2. ASSUME NEW j \in DOMAIN d, d[j][1] = m PROVE There(m)
    BY <1>13, <2>2
  <2>3. ASSUME NEW j \in DOMAIN s, s[j][1] = m PROVE There(m)
    BY <1>5, <1>9, <1>12, <2>3
  <2> QED
    BY <2>1, <2>2, <2>3
<1>16. InLine(q)'
  <2> SUFFICES ASSUME Healthy(q) PROVE InLine(q)'
    BY <1>8 DEF InLine, Lined
  <2>1. Lined(d, s, call[q], msg, Held, position)
    BY DEF InLine, d, s
  <2>2. \A i1, j1 \in DOMAIN e : i1 < j1 => Before(e[i1][1], e[j1][1])
    <3> SUFFICES ASSUME NEW i1 \in DOMAIN e, NEW j1 \in DOMAIN e, i1 < j1
                 PROVE  Before(e[i1][1], e[j1][1])
      OBVIOUS
    <3>1. i1 \in DOMAIN d /\ e[i1] = d[i1]
      BY <1>4
    <3> QED
      BY <1>11, <1>12, <2>1, <3>1 DEF Lined, InOrder
  <2>3. \A i1, j1 \in DOMAIN r : i1 < j1 => Before(r[i1][1], r[j1][1])
    <3> SUFFICES ASSUME NEW i1 \in DOMAIN r, NEW j1 \in DOMAIN r, i1 < j1
                 PROVE  Before(r[i1][1], r[j1][1])
      OBVIOUS
    <3>1. i1 + 1 < j1 + 1
      BY <1>3
    <3> QED
      BY <1>10, <2>1, <3>1 DEF Lined, InOrder
  <2>4. \A i1 \in DOMAIN e, j1 \in DOMAIN r : Before(e[i1][1], r[j1][1])
    BY <1>10, <1>11, <1>12, <2>1 DEF Lined, InOrder
  <2>5. \A i1 \in DOMAIN e :
            /\ Below(e[i1][1], position)
            /\ call[q] # Idle => Before(call[q].msg, e[i1][1])
            /\ Held => Before(e[i1][1], msg)
    BY <1>7, <1>11, <1>12, <2>1 DEF Lined
  <2>6. \A j1 \in DOMAIN r :
            /\ call[q] # Idle => Before(call[q].msg, r[j1][1])
            /\ Held => Before(r[j1][1], msg)
    BY <1>10, <2>1 DEF Lined
  <2>7. Lined(e, r, call[q], msg, Held, position)
    BY <2>1, <2>2, <2>3, <2>4, <2>5, <2>6 DEF Lined, InOrder
  <2>8. Lined(e, r, call'[q], msg', Held', position')
    BY <1>2, <1>8, <2>7 DEF Lined
  <2> QED
    BY <2>8 DEF InLine, e, r
<1>17. CallCovers(q)'
  BY <1>2, <1>6, <1>8 DEF CallCovers
<1>18. ComingIsAhead(q)'
  <2> SUFFICES ASSUME NEW m \in Messages, Coming(q, m)'
               PROVE  Coming(q, m)
    BY <1>2, <1>8 DEF ComingIsAhead, Below
  <2>1. There(m) => Here(m)
    BY <1>10, <1>11, <1>12
  <2> QED
    BY <1>2, <1>14, <2>1 DEF Coming
<1> QED
  BY <1>2, <1>6, <1>8, <1>15, <1>16, <1>17, <1>18
  DEF CoveredIsSettled, HandIsAhead, CoveredIsRead, StoredFirst, Below

LEMMA StoredStaysFirst ==
    ASSUME TypeOK, StoredFirst, stored' = stored,
           \A p \in Partitions : committed'[p] \in {committed[p], stored[p]}
    PROVE  StoredFirst'
<1> SUFFICES ASSUME NEW p \in Partitions, stored[p] # 0
             PROVE  committed'[p] <= stored[p]
  BY DEF StoredFirst
<1>1. committed[p] <= stored[p] /\ stored[p] \in Nat
  BY AckTypes DEF StoredFirst
<1>2. committed'[p] = committed[p] \/ committed'[p] = stored[p]
  OBVIOUS
<1> QED
  BY <1>1, <1>2

\* Once something has failed, the consumer only goes on to be closed.
LEMMA Unhealthy ==
    ASSUME NEW q, LineInv(q), ~Healthy(q)', Hand' => Hand /\ msg' = msg,
           UNCHANGED <<position, stored, due>>,
           \A m \in Messages : Below(m, committed)' => Below(m, stored) \/ Below(m, committed),
           \A p \in Partitions : committed'[p] \in {committed[p], stored[p]},
           TypeOK
    PROVE  LineInv(q)'
<1> USE DEF LineInv
<1>1. ReadIsPending(q)' /\ InLine(q)' /\ CallCovers(q)'
  BY DEF ReadIsPending, InLine, CallCovers
<1>2. CoveredIsSettled'
  BY DEF CoveredIsSettled, Below, Settled
<1>3. HandIsAhead'
  <2> SUFFICES ASSUME Hand' PROVE ~Below(msg, stored)' /\ ~Below(msg, committed)'
    BY DEF HandIsAhead
  <2>1. ~Below(msg, stored) /\ ~Below(msg, committed) /\ msg' = msg /\ msg \in Messages
    BY AckTypes DEF HandIsAhead, Hand, Holding
  <2> QED
    BY <2>1 DEF Below
<1>4. CoveredIsRead'
  BY DEF CoveredIsRead
<1>5. StoredFirst' /\ ComingIsAhead(q)'
  BY StoredStaysFirst DEF ComingIsAhead
<1> QED
  BY <1>1, <1>2, <1>3, <1>4, <1>5

\* The callback of a report.
LEMMA OrderServe ==
    ASSUME NEW q, OrderedWorker(q), TypeOK, AckInv, LineInv(q), MainInv(q),
           NEW t \in Threads, NEW o \in AsyncQueues, Serve(t, o)
    PROVE  LineInv(q)'
<1> USE DEF LineInv
<1> DEFINE d == dr[q]
           e == dr'[q]
           s == outbox[q]
<1>0. o = q
  BY DEF OrderedWorker, SingleOutput
<1>1. PICK m \in Messages, ok \in BOOLEAN : Callback(t, q, m, ok)
  BY <1>0 DEF Serve
<1>2. /\ UNCHANGED <<open, position, stored, committed, outbox, due>>
      /\ UNCHANGED <<pc, msg, outs, reports>>
  BY <1>1 DEF Callback, Fail, acked, on_success, on_fail, engineVars, ghostVars
<1>3. (Held' <=> Held) /\ (Hand' <=> Hand)
  BY <1>2 DEF Held, Hand
<1>4. CASE ~Healthy(q)'
  <2>1. \A n \in Messages : Below(n, committed)' <=> Below(n, committed)
    BY <1>2 DEF Below
  <2> QED
    BY <1>2, <1>3, <1>4, <2>1, Unhealthy
<1>5. CASE Healthy(q)'
  <2>1. t = q /\ ok
    <3>1. open /\ t \in {Main, q}
      BY <1>2, <1>5, OrderTypes DEF Healthy
    <3>2. t = q
      BY <1>1, <3>1, OrderTypes DEF Callback, Serves, MainInv, StopIsClosed
    <3>3. ASSUME ~ok PROVE FALSE
      <4>1. call' = [call EXCEPT ![q] = [at |-> "close", msg |-> m]]
        BY <1>1, <3>2, <3>3 DEF Callback, Fail, on_fail, OrderedWorker, SingleOutput
      <4>2. call'[q] = [at |-> "close", msg |-> m]
        BY <4>1, OrderTypes
      <4> QED
        BY <1>5, <4>2 DEF Healthy
    <3> QED
      BY <3>2, <3>3
  <2>2. /\ call[q] = Idle /\ call'[q] = [at |-> "lookup", msg |-> m]
        /\ call'[q] # Idle /\ call'[q].msg = m
        /\ d # << >> /\ Head(d) = <<m, TRUE>> /\ e = Tail(d)
    <3>1. call[q] = Idle /\ call' = [call EXCEPT ![q] = [at |-> "lookup", msg |-> m]]
      BY <1>1, <2>1 DEF Callback, on_success
    <3>2. call'[q] = [at |-> "lookup", msg |-> m]
      BY <3>1, OrderTypes
    <3>3. d # << >> /\ Head(d) = <<m, TRUE>> /\ e = Tail(d)
      BY <1>1, <2>1, OrderTypes DEF Callback, acked
    <3>4. call'[q] # Idle /\ call'[q].msg = m
      BY <3>2 DEF Idle
    <3> HIDE DEF d, e
    <3> QED
      BY <3>1, <3>2, <3>3, <3>4
  <2>3. /\ d \in Seq(Messages \X BOOLEAN) /\ Len(d) \in Nat \ {0} /\ DOMAIN d = 1..Len(d)
        /\ d[1] = <<m, TRUE>> /\ DOMAIN e = 1..(Len(d) - 1)
        /\ \A j \in 1..(Len(d) - 1) : e[j] = d[j + 1]
    <3>1. d \in Seq(Messages \X BOOLEAN)
      BY OrderTypes
    <3>2. d # << >> /\ Head(d) = <<m, TRUE>> /\ e = Tail(d)
      BY <2>2
    <3> HIDE DEF d, e
    <3>3. Len(d) \in Nat \ {0} /\ DOMAIN d = 1..Len(d) /\ d[1] = Head(d)
      BY <3>1, <3>2
    <3>4. Len(Tail(d)) = Len(d) - 1 /\ DOMAIN Tail(d) = 1..(Len(d) - 1)
      BY <3>1, <3>2, <3>3
    <3>5. \A j \in 1..(Len(d) - 1) : Tail(d)[j] = d[j + 1]
      BY <3>1, <3>2, <3>3
    <3> QED
      BY <3>1, <3>2, <3>3, <3>4, <3>5
  <2>4. Healthy(q)
    BY <1>2, <1>5, <2>2 DEF Healthy, Idle
  <2>5. Lined(d, s, call[q], msg, Held, position)
    BY <2>4 DEF InLine
  <2>6. d[1][1] = m /\ 1 \in DOMAIN d
    BY <2>3
  <2>7. \A j \in DOMAIN e : j + 1 \in DOMAIN d /\ e[j] = d[j + 1] /\ 1 < j + 1
    BY <2>3
  <2>8. \A j \in DOMAIN d : j = 1 \/ (j - 1 \in DOMAIN e /\ e[j - 1] = d[j] /\ 1 < j)
    BY <2>3
  <2>9. Settled(m)
    <3>1. <<m, TRUE>> \in Range(d) /\ q \in AsyncQueues
      BY <2>3, <2>6, OrderTypes DEF Range
    <3> QED
      BY <3>1 DEF AckInv, AckedIsSettled, Acked
  <2>10. \A n \in Messages : Settled(n)' <=> Settled(n)
    BY <1>2 DEF Settled
  <2>11. \A n : Pending(q, n) <=> \/ \E j \in DOMAIN d : d[j][1] = n
                                  \/ \E j \in DOMAIN s : s[j][1] = n
                                  \/ Held /\ n = msg
    BY DEF Pending
  <2>12. \A n : Pending(q, n)' <=> \/ \E j \in DOMAIN e : e[j][1] = n
                                   \/ \E j \in DOMAIN s : s[j][1] = n
                                   \/ Held /\ n = msg
    BY <1>2, <1>3 DEF Pending
  <2>13. /\ \A j \in DOMAIN d : j = 1 \/ Before(m, d[j][1])
         /\ \A j \in DOMAIN s : Before(m, s[j][1])
         /\ Held => Before(m, msg)
    BY <2>5, <2>6, <2>8 DEF Lined, InOrder
  <2>14. Below(m, position)
    BY <2>5, <2>6 DEF Lined
  <2> HIDE DEF d, e, s
  <2>15. ReadIsPending(q)'
    <3> SUFFICES ASSUME NEW n \in Messages, Below(n, position), ~Settled(n)
                 PROVE  Pending(q, n)'
      BY <1>2, <2>10 DEF ReadIsPending, Below
    <3>1. Pending(q, n) /\ n # m
      BY <2>4, <2>9 DEF ReadIsPending
    <3> QED
      BY <2>6, <2>8, <2>11, <2>12, <3>1
  <2>16. InLine(q)'
    <3>1. InOrder(e) /\ InOrder(s)
      <4>1. \A i, j \in DOMAIN e : i < j => i + 1 < j + 1
        BY <2>3
      <4> QED
        BY <2>5, <2>7, <4>1 DEF Lined, InOrder
    <3>2. /\ \A i \in DOMAIN e, j \in DOMAIN s : Before(e[i][1], s[j][1])
          /\ \A i \in DOMAIN e : /\ Below(e[i][1], position)
                                 /\ Before(m, e[i][1])
                                 /\ Held => Before(e[i][1], msg)
          /\ \A j \in DOMAIN s : Held => Before(s[j][1], msg)
      BY <2>5, <2>7, <2>13 DEF Lined
    <3>3. Lined(e, s, call'[q], msg, Held, position)
      BY <2>2, <2>13, <3>1, <3>2 DEF Lined
    <3>4. Lined(e, s, call'[q], msg', Held', position')
      BY <1>2, <1>3, <3>3 DEF Lined
    <3> QED
      BY <1>2, <3>4 DEF InLine, e, s
  <2>17. CallCovers(q)'
    <3> SUFFICES ASSUME NEW n \in Messages, partition(n) = partition(m),
                        offset(n) <= offset(m)
                 PROVE  Settled(n)
      BY <2>2, <2>10 DEF CallCovers
    <3>1. Below(n, position)
      BY <2>14, OrderTypes, MessageParts DEF Below
    <3>2. ~Before(m, n)
      BY MessageParts DEF Before
    <3>3. ASSUME Pending(q, n) PROVE n = m
      <4>1. CASE \E j \in DOMAIN d : d[j][1] = n
        BY <2>6, <2>13, <3>2, <4>1
      <4>2. CASE \E j \in DOMAIN s : s[j][1] = n
        BY <2>13, <3>2, <4>2
      <4> QED
        BY <2>11, <2>13, <3>2, <3>3, <4>1, <4>2
    <3> QED
      BY <2>4, <2>9, <3>1, <3>3 DEF ReadIsPending
  <2>18. ComingIsAhead(q)'
    <3> SUFFICES ASSUME NEW n \in Messages, Coming(q, n)'
                 PROVE  Pending(q, n)
      BY <1>2, <2>4 DEF ComingIsAhead, Coming, Below
    <3> QED
      BY <2>2, <2>6, <2>7, <2>11, <2>12 DEF Coming
  <2> QED
    BY <1>2, <1>3, <2>10, <2>15, <2>16, <2>17, <2>18
    DEF CoveredIsSettled, HandIsAhead, CoveredIsRead, StoredFirst, Below
<1> QED
  BY <1>4, <1>5

\* The steps of a running on_success or on_fail.
LEMMA OrderCall ==
    ASSUME NEW q, OrderedWorker(q), TypeOK, AckInv, LineInv(q), MainInv(q),
           NEW t \in Threads, CallStep(t)
    PROVE  LineInv(q)'
<1> USE DEF LineInv
<1>0. t \in {Main, q} /\ Main # q /\ q \in Threads /\ Main \in Threads
  BY OrderTypes
<1>1. UNCHANGED <<position, outbox, dr, due, msg, outs, reports>> /\ (Hand' => Hand)
  <2>1. CASE StepCall(t)
    BY <2>1 DEF StepCall, Lookup, Record, StoreOffsets, CloseOnFail, Close, engineVars,
                producerVars, ghostVars, Hand
  <2>2. CASE StepKill(t)
    BY <2>2 DEF StepKill, KillOnFail, exit_gracefully, producerVars, ghostVars, Hand
  <2>3. CASE StepRaises(t)
    BY <2>3 DEF StepRaises, StoreRaises, Abort, PollThreadDies, engineVars,
                producerVars, ghostVars, Hand
  <2> QED
    BY <2>1, <2>2, <2>3 DEF CallStep
<1>2. CASE ~Healthy(q)'
  <2>1. CASE stored' = stored
    <3>1. \A p \in Partitions : committed'[p] \in {committed[p], stored[p]}
      <4>1. CASE committed' = committed
        BY <4>1
      <4>2. CASE CloseOnFail(t)
        BY <4>2 DEF CloseOnFail, Close, Final
      <4> QED
        BY <4>1, <4>2 DEF CallStep, StepCall, StepKill, StepRaises, Lookup, Record,
                          StoreOffsets, StoreRaises, KillOnFail
    <3>2. \A m \in Messages :
              Below(m, committed)' => Below(m, stored) \/ Below(m, committed)
      BY <3>1, MessageParts DEF Below
    <3> QED
      BY <1>1, <1>2, <2>1, <3>1, <3>2, Unhealthy
  <2>2. CASE StoreOffsets(t)
    <3>1. open /\ open' /\ call[t].at \in Succeeding
      BY <2>2 DEF StoreOffsets, Storing, Succeeding
    <3>2. t = q
      BY <1>0, <3>1 DEF MainInv, StopIsClosed
    <3>3. call'[q] # Idle => call'[q].at \in Succeeding
      BY <1>0, <3>1, <3>2, CallFrames
    <3> QED
      BY <1>2, <3>1, <3>3 DEF Healthy, Succeeding, Idle
  <2> QED
    BY <2>1, <2>2 DEF CallStep, StepCall, StepKill, StepRaises, Lookup, Record,
                      CloseOnFail, Close, StoreRaises, KillOnFail
<1>3. CASE Healthy(q)'
  <2>1. open /\ open'
    BY <1>3, CallFrames DEF Healthy
  <2>2. t = q
    <3> SUFFICES ASSUME t = Main PROVE FALSE
      BY <1>0
    <3>1. call[Main].at = "close"
      BY <1>0, <2>1, CallFrames, OrderTypes
      DEF MainInv, StopIsClosed, Sites, Frames, Idle, Succeeding
    <3>2. CloseOnFail(Main)
      BY <3>1 DEF CallStep, StepCall, StepKill, StepRaises, Lookup, Record,
                  StoreOffsets, Storing, StoreRaises, KillOnFail
    <3> QED
      BY <2>1, <3>2 DEF CloseOnFail, Close
  <2>3. call[q].at \in Succeeding
    <3>1. call[q].at # "close"
      <4> SUFFICES ASSUME call[q].at = "close" PROVE FALSE
        OBVIOUS
      <4>1. CloseOnFail(q)
        BY <2>2 DEF CallStep, StepCall, StepKill, StepRaises, Lookup, Record,
                    StoreOffsets, Storing, StoreRaises, KillOnFail
      <4> QED
        BY <2>1, <4>1 DEF CloseOnFail, Close
    <3> QED
      BY <1>0, <2>1, <2>2, <3>1, CallFrames, OrderTypes
      DEF MainInv, StopIsClosed, Sites, Frames, Idle, Succeeding
  <2>4. \/ stored' = stored /\ committed' = committed /\ UNCHANGED <<pc, killNow>>
        \/ StoreOffsets(q) /\ UNCHANGED <<pc, killNow>>
    BY <2>1, <2>2, <2>3
    DEF CallStep, StepCall, StepKill, StepRaises, Lookup, Record, CloseOnFail,
        StoreRaises, KillOnFail, Succeeding, engineVars
  <2>5. (Held' <=> Held) /\ msg' = msg
    BY <1>1, <2>4 DEF Held
  <2>6. Healthy(q) /\ call[q] # Idle /\ call[q].msg \in Messages
    BY <2>1, <2>3, OrderTypes DEF Healthy, Succeeding, Idle
  <2>7. call'[q] = Idle \/ call'[q].msg = call[q].msg
    BY <1>0, <2>2, CallFrames
  <2>8. ReadIsPending(q)'
    BY <1>1, <2>5, <2>6 DEF ReadIsPending, Pending, Below, Settled
  <2>9. InLine(q)'
    <3>1. Lined(dr[q], outbox[q], call[q], msg, Held, position)
      BY <2>6 DEF InLine
    <3>2. Lined(dr[q], outbox[q], call'[q], msg, Held, position)
      BY <2>6, <2>7, <3>1 DEF Lined
    <3>3. Lined(dr'[q], outbox'[q], call'[q], msg', Held', position')
      BY <1>1, <2>5, <3>2 DEF Lined
    <3> QED
      BY <3>3 DEF InLine
  <2>10. CallCovers(q)'
    BY <1>1, <2>6, <2>7 DEF CallCovers, Settled
  <2>11. CASE stored' = stored /\ committed' = committed
    <3>1. call'[q].at \in {"lookup", "seed", "seeded", "store"} =>
              call[q].at \in {"lookup", "seed", "seeded", "store"}
      <4>1. CASE call[q].at = "record"
        <5>1. Return(q)
          BY <2>2, <4>1 DEF CallStep, StepCall, StepKill, StepRaises, Lookup, Record,
                            StoreOffsets, Storing, CloseOnFail, StoreRaises, KillOnFail
        <5> QED
          BY <1>0, <5>1, ReturnFrame DEF TypeOK, Idle
      <4>2. CASE call[q].at # "record"
        BY <2>3, <4>2 DEF Succeeding
      <4> QED
        BY <4>1, <4>2
    <3>2. ComingIsAhead(q)'
      BY <1>1, <2>5, <2>6, <2>7, <2>11, <3>1 DEF ComingIsAhead, Coming, Pending, Below, Idle
    <3> QED
      BY <1>1, <2>5, <2>8, <2>9, <2>10, <2>11, <3>2
      DEF CoveredIsSettled, HandIsAhead, CoveredIsRead, StoredFirst, Below, Settled
  <2>12. CASE StoreOffsets(q)
    <3> DEFINE x == call[q].msg
    <3>1. /\ stored' = [stored EXCEPT ![partition(x)] = offset(x) + 1]
          /\ committed' = committed
      BY <2>12 DEF StoreOffsets
    <3>2. partition(x) \in Partitions /\ offset(x) \in Nat
      BY <2>6, MessageParts
    <3>3. \A m \in Messages : Below(m, stored)' =>
              Below(m, stored) \/ (partition(m) = partition(x) /\ offset(m) <= offset(x))
      BY <3>1, <3>2, OrderTypes, MessageParts DEF Below
    <3>4. CoveredIsSettled'
      BY <1>1, <2>6, <3>1, <3>3 DEF CoveredIsSettled, CallCovers, Below, Settled
    <3>5. HandIsAhead'
      <4> SUFFICES ASSUME Hand'
                   PROVE  ~Below(msg, stored)' /\ ~Below(msg, committed)'
        BY DEF HandIsAhead
      <4>1. Hand /\ Held /\ msg \in Messages
        BY <1>1, OrderTypes DEF Hand, Held, Holding
      <4>2. Before(x, msg)
        BY <2>6, <4>1 DEF InLine, Lined
      <4>3. ~(partition(msg) = partition(x) /\ offset(msg) <= offset(x))
        BY <2>6, <4>1, <4>2, MessageParts DEF Before
      <4>4. ~Below(msg, stored)'
        <5>1. Below(msg, stored)' <=> Below(msg, stored')
          BY <1>1 DEF Below
        <5>2. \A m \in Messages : Below(m, stored') =>
                  Below(m, stored) \/ (partition(m) = partition(x) /\ offset(m) <= offset(x))
          BY <3>3 DEF Below
        <5> QED
          BY <4>1, <4>3, <5>1, <5>2 DEF HandIsAhead
      <4> QED
        BY <1>1, <3>1, <4>1, <4>4 DEF HandIsAhead, Below
    <3>6. CoveredIsRead'
      <4>1. Below(x, position)
        BY <2>3, <2>6, OrderTypes DEF AckInv, TouchedIsRead, Acked
      <4> QED
        BY <1>1, <3>1, <3>2, <4>1, OrderTypes DEF CoveredIsRead, Below
    <3>7. StoredFirst'
      <4>1. ~Below(x, committed)
        BY <2>6, <2>12 DEF ComingIsAhead, Coming, StoreOffsets, Storing
      <4> QED
        BY <3>1, <3>2, <4>1, OrderTypes DEF StoredFirst, Below
    <3>8. ComingIsAhead(q)'
      <4>1. call'[q] = Idle \/ call'[q].at = "record"
        <5>1. Goto(q, "record") \/ Return(q)
          BY <2>12 DEF StoreOffsets
        <5>2. "record" \in Sites /\ call[q].at # "idle" /\ ConsumerTypeOK
          BY <2>3 DEF Sites, Succeeding, TypeOK
        <5>3. CASE Goto(q, "record")
          <6>1. call'[q] = [at |-> "record", msg |-> x]
            BY <1>0, <5>2, <5>3, MoveFrame
          <6> QED
            BY <6>1
        <5>4. CASE Return(q)
          BY <1>0, <5>2, <5>4, ReturnFrame
        <5> QED
          BY <5>1, <5>3, <5>4
      <4> SUFFICES ASSUME NEW m \in Messages, Pending(q, m)
                   PROVE  ~Below(m, stored)' /\ ~Below(m, committed)'
        BY <1>1, <2>5, <4>1 DEF ComingIsAhead, Coming, Pending, Idle
      <4>2. Before(x, m)
        BY <2>6 DEF InLine, Lined, Pending
      <4>3. ~(partition(m) = partition(x) /\ offset(m) <= offset(x))
        BY <2>6, <4>2, MessageParts DEF Before
      <4> QED
        BY <2>6, <3>1, <3>3, <4>3 DEF ComingIsAhead, Coming, Below
    <3> QED
      BY <2>8, <2>9, <2>10, <3>4, <3>5, <3>6, <3>7, <3>8
  <2> QED
    BY <2>4, <2>11, <2>12
<1> QED
  BY <1>2, <1>3

LEMMA OrderCommit ==
    ASSUME NEW q, OrderedWorker(q), TypeOK, LineInv(q), Commit
    PROVE  LineInv(q)'
<1> USE DEF LineInv
<1>1. /\ UNCHANGED <<open, position, stored, call, outbox, dr, due>>
      /\ UNCHANGED <<pc, msg, outs, reports>>
      /\ \A p \in Partitions : committed'[p] \in {committed[p], stored[p]}
  BY DEF Commit, AutoCommit, engineVars, producerVars, ghostVars
<1>2. (Held' <=> Held) /\ (Hand' <=> Hand) /\ (Healthy(q)' <=> Healthy(q))
  BY <1>1 DEF Held, Hand, Healthy
<1>3. \A m \in Messages :
          Below(m, committed)' => Below(m, stored) \/ Below(m, committed)
  BY <1>1, MessageParts DEF Below
<1>4. CASE ~Healthy(q)'
  BY <1>1, <1>2, <1>3, <1>4, Unhealthy
<1>5. CASE Healthy(q)
  <2>1. ReadIsPending(q)' /\ InLine(q)' /\ CallCovers(q)'
    BY <1>1, <1>2, <1>5
    DEF ReadIsPending, Pending, InLine, Lined, InOrder, Before, CallCovers, Below, Settled
  <2>2. CoveredIsSettled'
    BY <1>1, <1>3 DEF CoveredIsSettled, Below, Settled
  <2>3. HandIsAhead'
    <3> SUFFICES ASSUME Hand PROVE ~Below(msg, stored)' /\ ~Below(msg, committed)'
      BY <1>2 DEF HandIsAhead
    <3>1. msg \in Messages
      BY OrderTypes DEF Hand, Holding
    <3>2. partition(msg) \in Partitions
      BY <3>1, MessageParts
    <3> QED
      BY <1>1, <3>2 DEF HandIsAhead, Below
  <2>4. StoredFirst'
    BY <1>1, StoredStaysFirst
  <2>5. ComingIsAhead(q)'
    BY <1>1, <1>2, <1>3, <1>5 DEF ComingIsAhead, Coming, Pending, Below
  <2> QED
    BY <1>1, <2>1, <2>2, <2>3, <2>4, <2>5 DEF CoveredIsRead
<1> QED
  BY <1>2, <1>4, <1>5

LEMMA OrderDie ==
    ASSUME NEW q, OrderedWorker(q), TypeOK, LineInv(q), Die
    PROVE  LineInv(q)'
<1> USE DEF LineInv
<1>1. /\ position' = committed /\ committed' = committed /\ due' = due /\ pc' = "down"
      /\ stored' = [p \in Partitions |-> 0]
      /\ outbox'[q] = << >> /\ dr'[q] = << >> /\ call'[q] = Idle
  BY OrderTypes DEF Die, Vanish, Resubscribe, Reconnect
<1>2. ~Held' /\ ~Hand'
  BY <1>1 DEF Held, Hand
<1>3. \A m \in Messages : ~Below(m, stored)' /\ (Below(m, committed)' <=> Below(m, committed))
                          /\ (Below(m, position)' <=> Below(m, committed))
  BY <1>1, MessageParts DEF Below
<1>4. \A m : Settled(m)' <=> Settled(m)
  BY <1>1 DEF Settled
<1>5. ReadIsPending(q)' /\ CoveredIsSettled'
  BY <1>3, <1>4 DEF ReadIsPending, CoveredIsSettled
<1>6. InLine(q)' /\ CallCovers(q)'
  BY <1>1, <1>2 DEF InLine, Lined, InOrder, CallCovers
<1>7. CoveredIsRead'
  BY <1>1, OrderTypes DEF CoveredIsRead
<1>8. StoredFirst' /\ ComingIsAhead(q)'
  BY <1>1, <1>2 DEF StoredFirst, ComingIsAhead, Coming, Pending, Idle
<1> QED
  BY <1>2, <1>5, <1>6, <1>7, <1>8 DEF HandIsAhead

-----------------------------------------------------------------------------
(* The invariant, and what it shows *)

\* The steps that reach no callback and no offset.
LEMMA OrderIdle ==
    ASSUME NEW q, OrderedWorker(q), TypeOK, LineInv(q), MainInv(q),
           \/ CheckKillNow \/ PollNothing \/ PollRaises \/ Dispatch \/ EndIteration
           \/ CloseProducer \/ CloseConsumer \/ Signal \/ Restart \/ Terminated
           \/ UNCHANGED vars
    PROVE  LineInv(q)'
<1> USE DEF LineInv
<1>1. /\ UNCHANGED <<position, stored, due, outbox, dr>>
      /\ (CloseConsumer \/ UNCHANGED <<open, committed>>)
      /\ (CloseConsumer \/ Dispatch \/ call' = call)
  BY DEF CheckKillNow, PollNothing, PollRaises, Dispatch, EndIteration, CloseProducer,
         CloseConsumer, Signal, Restart, Terminated, vars, consumerVars, producerVars,
         ghostVars, Fail, on_success, on_fail, Flushed, Close
<1>2. CASE \/ CheckKillNow \/ PollNothing \/ CloseProducer \/ Restart \/ Terminated
           \/ UNCHANGED vars
  <2>1. UNCHANGED <<open, committed, call>>
    BY <1>1, <1>2 DEF CheckKillNow, PollNothing, CloseProducer, Restart, Terminated,
                      vars, consumerVars
  <2>2. (Held' <=> Held) /\ (Hand' <=> Hand) /\ (Held => msg' = msg)
    BY <1>2 DEF CheckKillNow, LoopAgain, LoopExit, PollNothing, ConsumeNone,
                NextIteration, CloseProducer, ShutdownProducer, Restart, Start,
                Terminated, vars, engineVars, Held, Hand
  <2>3. Hand => Held
    BY DEF Hand, Held
  <2> QED
    BY <1>1, <2>1, <2>2, <2>3, OnlyMain
<1>3. CASE PollRaises \/ EndIteration \/ CloseConsumer
  <2>1. ~open
    BY <1>3 DEF PollRaises, EndIteration, Marked, CloseConsumer, ShutdownConsumer,
                MainInv, StopIsClosed, Idle
  <2>2. ~open' /\ committed' = committed
    BY <1>1, <1>3, <2>1 DEF CloseConsumer, Close
  <2>3. ~Hand'
    BY <1>3 DEF PollRaises, Abort, EndIteration, Marked, NextIteration, CloseConsumer,
                ShutdownConsumer, Hand
  <2>4. \A m \in Messages : Below(m, committed)' <=> Below(m, committed)
    BY <2>2 DEF Below
  <2> QED
    BY <1>1, <2>2, <2>3, <2>4, Unhealthy DEF Healthy
<1>4. CASE Dispatch
  <2>0. Main \in Threads /\ q # Main
    BY OrderTypes
  <2>1. CASE MarkFail /\ Fail(Main, msg)
    <3>1. reports = {OneFailure} /\ ~OneFailure.status
      BY <2>1, NeverMarkSuccess DEF MainInv, OneFailure
    <3>2. Held /\ Held' /\ ~Hand' /\ msg' = msg
      BY <2>1, <3>1 DEF MarkFail, Produced, Held, Hand
    <3>3. call' = [call EXCEPT ![Main] = [at |-> "close", msg |-> msg]]
      BY <2>1 DEF Fail, on_fail, OrderedWorker, SingleOutput
    <3>4. call'[q] = call[q]
      BY <2>0, <3>3, OrderTypes
    <3>5. UNCHANGED <<open, committed>>
      BY <2>1 DEF Fail, on_fail
    <3> QED
      BY <1>1, <3>2, <3>4, <3>5, OnlyMain
  <2>2. CASE LeaveToCallback /\ UNCHANGED consumerVars
    <3>1. reports = {OneReport} /\ OneReport.status
      BY <2>2, NeverMarkSuccess DEF MainInv, OneReport
    <3>2. ~Held /\ ~Held' /\ ~Hand'
      BY <2>2, <3>1 DEF LeaveToCallback, Produced, NextIteration, Held, Hand
    <3>3. UNCHANGED <<open, committed, call>>
      BY <2>2 DEF consumerVars
    <3> QED
      BY <1>1, <3>2, <3>3, OnlyMain
  <2> QED
    BY <1>4, <2>1, <2>2, NeverMarkSuccess DEF Dispatch, MainInv
<1> QED
  BY <1>2, <1>3, <1>4 DEF Signal, OrderedWorker, SingleOutput

LEMMA OrderInit ==
    ASSUME NEW q, OrderedWorker(q), Init
    PROVE  LineInv(q) /\ MainInv(q)
<1>1. /\ pc = "loop" /\ outs = << >> /\ reports = {} /\ ~killNow
      /\ q \in AsyncQueues /\ q \in Threads /\ Main \in Threads
  BY DEF Init, EngineInit, OrderedWorker, SingleOutput, Threads
<1>2. /\ outbox[q] = << >> /\ dr[q] = << >> /\ \A t \in Threads : call[t] = Idle
      /\ \A p \in Partitions : position[p] = 0 /\ stored[p] = 0 /\ committed[p] = 0
  BY <1>1 DEF Init, ConsumerInit, ProducerInit
<1>3. \A m \in Messages : ~Below(m, position) /\ ~Below(m, stored) /\ ~Below(m, committed)
  BY <1>2, MessageParts DEF Below
<1>4. ~Held /\ ~Hand
  BY <1>1 DEF Held, Hand
<1>5. LineInv(q)
  BY <1>1, <1>2, <1>3, <1>4
  DEF LineInv, ReadIsPending, InLine, Lined, InOrder, CallCovers, CoveredIsSettled,
      HandIsAhead, CoveredIsRead, StoredFirst, ComingIsAhead
<1>6. StopIsClosed
  BY <1>1, <1>2 DEF StopIsClosed, Idle, Succeeding
<1> QED
  BY <1>1, <1>5, <1>6 DEF MainInv, Verdict, NoOutsYet

LEMMA OrderStep ==
    ASSUME NEW q, OrderedWorker(q), TypeOK, AckInv, LineInv(q), MainInv(q), [Next]_vars
    PROVE  LineInv(q)' /\ MainInv(q)'
<1> SUFFICES LineInv(q)'
  BY MainInvStep
<1>1. CASE LoopStep
  BY <1>1, OrderIdle, OrderWork, OrderProduce DEF LoopStep
<1>2. CASE Dispatch \/ CloseProducer \/ Signal \/ Restart \/ Terminated \/ UNCHANGED vars
  BY <1>2, OrderIdle
<1>3. CASE \E m \in Messages : Poll(m)
  BY <1>3, OrderPoll
<1>4. CASE \E o \in AsyncQueues : Outcome(o)
  BY <1>4, OrderOutcome
<1>5. CASE \E t \in Threads, o \in AsyncQueues : Serve(t, o)
  BY <1>5, OrderServe
<1>6. CASE \E t \in Threads : CallStep(t)
  BY <1>6, OrderCall
<1>7. CASE Commit
  BY <1>7, OrderCommit
<1>8. CASE Die
  BY <1>8, OrderDie
<1> QED
  BY <1>1, <1>2, <1>3, <1>4, <1>5, <1>6, <1>7, <1>8 DEF Next, MainStep

\* A worker with one asynchronous producer, whose reports come in order and whose first
\* failure stops the process, loses no message: what the group committed past is settled,
\* whatever callbacks, commits, failures and crashes come in between.
THEOREM OrderedWorkerAtLeastOnce ==
    ASSUME NEW q, OrderedWorker(q)
    PROVE  Spec => []AtLeastOnce
<1>1. Init => LineInv(q) /\ MainInv(q)
  BY OrderInit
<1>2. TypeOK /\ AckInv /\ LineInv(q) /\ MainInv(q) /\ [Next]_vars
      => LineInv(q)' /\ MainInv(q)'
  BY OrderStep
<1>3. LineInv(q) => AtLeastOnce
  BY DEF LineInv, CoveredIsSettled, AtLeastOnce, Below
<1>4. TypeOK /\ AckInv /\ [Next]_vars => AckInv'
  BY OrderedIsUnmixed, AckStep
<1>5. Init => AckInv
  BY AckInit
<1> QED
  BY <1>1, <1>2, <1>3, <1>4, <1>5, TypeCorrect, PTL DEF Spec

\* It implements the promise, too: no callback that comes late takes back what the
\* group committed, and none reopens a message.
THEOREM OrderedWorkerImplementsDelivery ==
    ASSUME NEW q, OrderedWorker(q)
    PROVE  Spec => ImplementsDelivery
<1>1. Init => LineInv(q) /\ MainInv(q)
  BY OrderInit
<1>2. TypeOK /\ AckInv /\ LineInv(q) /\ MainInv(q) /\ [Next]_vars
      => LineInv(q)' /\ MainInv(q)'
  BY OrderStep
<1>3. /\ Init => AckInv
      /\ TypeOK /\ AckInv /\ [Next]_vars => AckInv'
  BY OrderedIsUnmixed, AckInit, AckStep
<1>4. TypeOK /\ LineInv(q) /\ TypeOK' /\ LineInv(q)' /\ [Next]_vars
      => [Promise!Next]_(Promise!vars)
  <2> SUFFICES ASSUME TypeOK, LineInv(q), TypeOK', LineInv(q)', [Next]_vars
               PROVE  [Promise!Next]_(Promise!vars)
    OBVIOUS
  <2>1. StoredFirst /\ (Hand => ~Below(msg, committed))
    BY DEF LineInv, HandIsAhead
  <2>2. AtLeastOnce'
    BY DEF LineInv, CoveredIsSettled, AtLeastOnce, Below
  <2> QED
    BY <2>1, <2>2, StepImplements
<1> QED
  BY <1>1, <1>2, <1>3, <1>4, InitImplements, TypeCorrect, PTL
  DEF Spec, ImplementsDelivery, Promise!Spec

-----------------------------------------------------------------------------
(* Batches *)

\* A batch is named after one of its messages.
LEMMA NameIsMessage ==
    ASSUME NEW batch \in Batches
    PROVE  Name(batch) \in Messages
<1>1. PICK n \in 1..BatchSize : batch \in [1..n -> Messages]
  BY DEF Batches
<1>2. n \in Nat /\ n >= 1
  BY <1>1, BatchSizeAssumption
<1>3. batch \in Seq(Messages) /\ Len(batch) = n
  BY <1>1, <1>2, SeqDef
<1>4. Head(batch) \in Messages
  BY <1>2, <1>3
<1>5. Range(batch) \subseteq Messages
  BY <1>1 DEF Range
<1> QED
  BY <1>4, <1>5 DEF Name

\* What the proof needs of the types: calls and rests are per thread.
ThreadsOK ==
    /\ EngineTypeOK
    /\ ProducerTypeOK
    /\ DOMAIN call = Threads
    /\ DOMAIN rest = Threads

\* The steps of the loop keep to themselves.
LEMMA LoopComposes ==
    ASSUME EngineTypeOK, LoopStep
    PROVE  EngineStep /\ ProducerStep /\ UNCHANGED <<call, dr>>
<1>1. CASE ProduceAsync
  <2>1. <<msg, Len(outs)>> \in Outputs
    BY <1>1 DEF ProduceAsync, Produce, EngineTypeOK, Holding, Outputs
  <2> QED
    BY <1>1, <2>1 DEF ProduceAsync, Enqueue, EngineStep, ProducerStep, consumerVars
<1>2. CASE ~ProduceAsync
  <2>1. UNCHANGED <<producerVars, call>>
    BY <1>2 DEF LoopStep, CheckKillNow, PollNothing, PollRaises, Handle, Answer,
                AnswerList, Crash, ProduceSync, EnqueueFails, EndIteration,
                CloseConsumer, consumerVars
  <2>2. EngineStep
    BY <1>2 DEF LoopStep, CheckKillNow, PollNothing, PollRaises, Handle, Answer,
                AnswerList, Crash, ProduceSync, EnqueueFails, EndIteration,
                CloseConsumer, EngineStep
  <2> QED
    BY <2>1, <2>2 DEF ProducerStep, producerVars
<1> QED
  BY <1>1, <1>2

\* Each step of a batch worker is one step, or none, of its main thread and of its
\* producers.
LEMMA BatchComposition ==
    ASSUME ThreadsOK, [BatchNext]_allVars
    PROVE  EngineStep /\ ProducerStep /\ DOMAIN call' = Threads /\ DOMAIN rest' = Threads
<1> USE DEF ThreadsOK
<1>1. CASE LoopStep /\ UNCHANGED batchVars
  BY <1>1, LoopComposes DEF batchVars
<1>2. CASE DispatchBatch
  <2>1. EngineStep
    BY <1>2 DEF DispatchBatch, EngineStep
  <2>2. ProducerStep
    BY <1>2 DEF DispatchBatch, ProducerStep
  <2>3. DOMAIN call' = Threads /\ DOMAIN rest' = Threads
    BY <1>2 DEF DispatchBatch, FailBatch, on_success_batch, on_success,
                on_fail_batch, consumerVars
  <2> QED
    BY <2>1, <2>2, <2>3
<1>3. CASE CloseProducer /\ UNCHANGED batchVars
  BY <1>3 DEF CloseProducer, EngineStep, ProducerStep, consumerVars, batchVars
<1>4. ASSUME NEW batch \in Batches, PollBatch(batch) \/ JoinRaises(batch)
      PROVE  EngineStep /\ UNCHANGED <<call, rest, producerVars>>
  BY <1>4, NameIsMessage DEF PollBatch, JoinRaises, ConsumeBatch, EngineStep
<1>5. ASSUME NEW t \in Threads, NEW q \in AsyncQueues, ServeBatch(t, q)
      PROVE  /\ EngineStep /\ ProducerStep
             /\ DOMAIN call' = Threads /\ DOMAIN rest' = Threads
  <2>1. PICK m \in Messages, ok \in BOOLEAN : CallbackBatch(t, q, m, ok)
    BY <1>5 DEF ServeBatch
  <2>2. EngineStep
    BY <2>1 DEF CallbackBatch, EngineStep
  <2>3. ProducerStep
    BY <2>1 DEF CallbackBatch, ProducerStep
  <2>4. DOMAIN call' = Threads /\ DOMAIN rest' = Threads
    BY <2>1 DEF CallbackBatch, FailBatch, on_success_batch, on_success, on_fail_batch
  <2> QED
    BY <2>2, <2>3, <2>4
<1>6. ASSUME NEW t \in Threads, BatchCallStep(t)
      PROVE  /\ EngineStep /\ ProducerStep
             /\ DOMAIN call' = Threads /\ DOMAIN rest' = Threads
  <2>1. CASE StepCall(t) /\ UNCHANGED batchVars
    BY <2>1 DEF StepCall, Lookup, Record, StoreOffsets, CloseOnFail, Goto, Return,
                EngineStep, ProducerStep, batchVars
  <2>2. CASE StepNextMessage(t)
    BY <2>2 DEF StepNextMessage, NextMessage, on_success, EngineStep, ProducerStep
  <2>3. CASE StepOnFail(t)
    BY <2>3 DEF StepOnFail, OnFailRaises, Return, EngineStep, ProducerStep, Threads
  <2> QED
    BY <1>6, <2>1, <2>2, <2>3 DEF BatchCallStep
<1>7. CASE Elsewhere /\ UNCHANGED batchVars
  <2>1. ASSUME NEW q \in AsyncQueues, Outcome(q) PROVE EngineStep /\ ProducerStep
    <3>1. PICK i \in DOMAIN outbox[q], ok \in BOOLEAN :
              Report(q, i, ok) /\ UNCHANGED engineVars
      BY <2>1 DEF Outcome, Deliver, Reject
    <3>2. i \in Nat
      BY DEF ProducerTypeOK
    <3> QED
      BY <3>1, <3>2 DEF EngineStep, ProducerStep
  <2>2. ASSUME Commit \/ Signal \/ Restart \/ Terminated
        PROVE  EngineStep /\ ProducerStep
    BY <2>2 DEF Commit, Signal, Restart, Terminated, vars, EngineStep, ProducerStep
  <2>3. UNCHANGED <<call, rest>>
    BY <1>7 DEF Elsewhere, Outcome, Deliver, Reject, Commit, AutoCommit, Signal,
                Restart, Terminated, vars, consumerVars, batchVars
  <2> QED
    BY <1>7, <2>1, <2>2, <2>3 DEF Elsewhere
<1>8. CASE DieBatch
  BY <1>8 DEF DieBatch, Die, Resubscribe, EngineStep, ProducerStep
<1>9. CASE UNCHANGED allVars
  BY <1>9 DEF allVars, vars, consumerVars, batchVars, EngineStep, ProducerStep
<1>10. UNCHANGED producerVars => ProducerStep
  BY DEF ProducerStep
<1> QED
  BY <1>1, <1>2, <1>3, <1>4, <1>5, <1>6, <1>7, <1>8, <1>9, <1>10
  DEF BatchNext, BatchMainStep

-----------------------------------------------------------------------------

\* As Quiet, with the lists that on_success goes through.
BatchQuiet(q) ==
    /\ outbox[q] = << >>
    /\ dr[q] = << >>
    /\ Free(q)

BatchOthersAreQuiet ==
    \A q \in AsyncQueues : q \in Range(OutputQueues) \/ BatchQuiet(q)

BatchShutIsQuiet ==
    /\ pc \in {"shutdown", "stopped"} =>
          \A q \in AsyncQueues : q \in Range(outs) \/ BatchQuiet(q)
    /\ pc = "stopped" => outs = << >>

BatchCallsInside ==
    Free(Main) \/ pc \in {"mark", "aborted"} \/ (pc = "shutdown" /\ outs # << >>)

BatchDrainInv ==
    /\ OutsAreOutputs
    /\ BatchOthersAreQuiet
    /\ BatchShutIsQuiet
    /\ BatchCallsInside

\* A step of a call is a step of one thread that is not free, and leaves the
\* producers their queues.
LEMMA CallOfOneThread ==
    ASSUME ThreadsOK, NEW t \in Threads, BatchCallStep(t)
    PROVE  /\ ~Free(t)
           /\ outbox' = outbox /\ dr' = dr
           /\ \A u \in Threads \ {t} : call'[u] = call[u] /\ rest'[u] = rest[u]
<1> USE DEF ThreadsOK
<1>1. CASE StepCall(t) /\ UNCHANGED batchVars
  <2>1. call[t].at # "idle"
    BY <1>1 DEF StepCall, Lookup, Record, StoreOffsets, Storing, CloseOnFail
  <2>2. \E f : call' = [call EXCEPT ![t] = f]
    BY <1>1 DEF StepCall, Lookup, Record, StoreOffsets, CloseOnFail, Goto, Return
  <2> QED
    BY <1>1, <2>1, <2>2 DEF StepCall, Free, Idle, batchVars, producerVars
<1>2. CASE StepNextMessage(t)
  BY <1>2 DEF StepNextMessage, NextMessage, on_success, Free, producerVars
<1>3. CASE StepOnFail(t)
  BY <1>3 DEF StepOnFail, OnFailRaises, Return, Free, Idle, PollThreadDies, producerVars
<1> QED
  BY <1>1, <1>2, <1>3 DEF BatchCallStep

\* Nothing makes a quiet producer busy but an output that is produced to it.
LEMMA BatchStaysQuiet ==
    ASSUME ThreadsOK, [BatchNext]_allVars, NEW q \in AsyncQueues, BatchQuiet(q),
           pc = "produce" => outs = << >> \/ Head(outs) # q
    PROVE  BatchQuiet(q)'
<1> USE DEF BatchQuiet, Free, ThreadsOK
<1>0. q # Main /\ q \in Threads /\ Main \in Threads
  BY TopologyAssumption DEF Threads
<1>1. CASE UNCHANGED <<producerVars, call, rest>>
  BY <1>1 DEF producerVars
<1>2. CASE LoopStep /\ UNCHANGED batchVars
  <2>1. CASE ProduceAsync
    BY <1>2, <2>1 DEF ProduceAsync, Produce, Enqueue, consumerVars, batchVars
  <2>2. CASE ~ProduceAsync
    BY <1>1, <1>2, <2>2
    DEF LoopStep, CheckKillNow, PollNothing, PollRaises, Handle, Answer,
        AnswerList, Crash, ProduceSync, EnqueueFails, EndIteration,
        CloseConsumer, consumerVars, batchVars
  <2> QED
    BY <2>1, <2>2
<1>3. CASE DispatchBatch
  BY <1>0, <1>3
  DEF DispatchBatch, FailBatch, on_success_batch, on_success, on_fail_batch,
      producerVars, consumerVars
<1>4. ASSUME NEW o \in AsyncQueues, Outcome(o), UNCHANGED batchVars
      PROVE  BatchQuiet(q)'
  <2>1. PICK i \in DOMAIN outbox[o], ok \in BOOLEAN :
            Report(o, i, ok) /\ UNCHANGED consumerVars
    BY <1>4 DEF Outcome, Deliver, Reject
  <2>2. o # q
    BY <2>1
  <2> QED
    BY <1>4, <2>1, <2>2 DEF Report, consumerVars, batchVars, ProducerTypeOK
<1>5. ASSUME NEW t \in Threads, NEW o \in AsyncQueues, ServeBatch(t, o)
      PROVE  BatchQuiet(q)'
  <2>1. PICK m \in Messages, ok \in BOOLEAN : CallbackBatch(t, o, m, ok)
    BY <1>5 DEF ServeBatch
  <2>2. o # q /\ t \in {o, Main}
    BY <2>1 DEF CallbackBatch, acked, Serves
  <2>3. call'[q] = call[q] /\ rest'[q] = rest[q]
    BY <1>0, <2>1, <2>2
    DEF CallbackBatch, FailBatch, on_success_batch, on_success, on_fail_batch
  <2> QED
    BY <2>1, <2>2, <2>3 DEF CallbackBatch, acked, ProducerTypeOK
<1>6. ASSUME NEW t \in Threads, BatchCallStep(t) PROVE BatchQuiet(q)'
  BY <1>0, <1>6, CallOfOneThread
<1>7. CASE CloseProducer /\ UNCHANGED batchVars
  BY <1>7 DEF CloseProducer, Flushed, producerVars, consumerVars, batchVars
<1>8. CASE DieBatch
  BY <1>0, <1>8 DEF DieBatch, Die, Reconnect, Resubscribe
<1>9. CASE \/ \E batch \in Batches : PollBatch(batch) \/ JoinRaises(batch)
           \/ (Commit \/ Signal \/ Restart \/ Terminated) /\ UNCHANGED batchVars
           \/ UNCHANGED allVars
  BY <1>1, <1>9
  DEF PollBatch, JoinRaises, ConsumeBatch, Commit, AutoCommit, Signal, Restart,
      Terminated, vars, allVars, consumerVars, batchVars
<1> QED
  BY <1>2, <1>3, <1>4, <1>5, <1>6, <1>7, <1>8, <1>9
  DEF BatchNext, BatchMainStep, Elsewhere

LEMMA BatchOthersStep ==
    ASSUME ThreadsOK, BatchDrainInv, [BatchNext]_allVars
    PROVE  BatchOthersAreQuiet'
<1> SUFFICES ASSUME NEW q \in AsyncQueues, q \notin Range(OutputQueues)
             PROVE  BatchQuiet(q)'
  BY DEF BatchOthersAreQuiet
<1>1. outs # << >> => Head(outs) \in Range(OutputQueues)
  BY DEF BatchDrainInv, OutsAreOutputs, ThreadsOK, EngineTypeOK
<1> QED
  BY <1>1, BatchStaysQuiet DEF BatchDrainInv, BatchOthersAreQuiet

LEMMA BatchShutStep ==
    ASSUME ThreadsOK, BatchDrainInv, [BatchNext]_allVars
    PROVE  BatchShutIsQuiet'
<1> USE DEF BatchDrainInv
<1> DEFINE Shut == {"shutdown", "stopped"}
<1>1. CASE pc' \notin Shut
  BY <1>1 DEF BatchShutIsQuiet
<1>2. CASE pc \in Shut /\ UNCHANGED <<pc, outs>>
  BY <1>2, BatchStaysQuiet DEF BatchShutIsQuiet
<1>3. CASE CheckKillNow
  <2>1. CASE LoopExit
    BY <1>3, <2>1, BatchOthersStep DEF LoopExit, BatchOthersAreQuiet, BatchShutIsQuiet
  <2>2. CASE LoopAgain
    BY <1>1, <2>2 DEF LoopAgain
  <2> QED
    BY <1>3, <2>1, <2>2 DEF CheckKillNow
<1>4. CASE CloseProducer /\ (\A t \in {Main, Head(outs)} \intersect Threads :
                                rest[t] = << >>)
                         /\ UNCHANGED batchVars
  <2>1. /\ pc = "shutdown" /\ pc' = "shutdown"
        /\ outs # << >> /\ outs' = Tail(outs) /\ outs \in Seq(Queues)
    BY <1>4 DEF CloseProducer, ShutdownProducer, ThreadsOK, EngineTypeOK
  <2> SUFFICES ASSUME NEW q \in AsyncQueues
               PROVE  q \in Range(outs') \/ BatchQuiet(q)'
    BY <2>1 DEF BatchShutIsQuiet
  <2>2. CASE q = Head(outs)
    <3>1. rest[q] = << >> /\ rest' = rest
      BY <1>4, <2>2 DEF Threads, batchVars
    <3> QED
      BY <1>4, <2>2, <3>1 DEF CloseProducer, Flushed, BatchQuiet, Free, consumerVars
  <2>3. CASE q # Head(outs) /\ q \in Range(outs)
    BY <2>1, <2>3, TailRange
  <2>4. CASE BatchQuiet(q)
    BY <2>1, <2>4, BatchStaysQuiet
  <2> QED
    BY <2>1, <2>2, <2>3, <2>4 DEF BatchShutIsQuiet
<1>5. CASE CloseConsumer /\ UNCHANGED batchVars
  <2>1. /\ pc = "shutdown" /\ outs = << >> /\ outs' = << >>
        /\ UNCHANGED <<outbox, dr, call, rest>>
    BY <1>5 DEF CloseConsumer, ShutdownConsumer, producerVars, batchVars
  <2> QED
    BY <2>1 DEF BatchShutIsQuiet, BatchQuiet, Free
<1>6. CASE LoopStep /\ UNCHANGED batchVars /\ ~CheckKillNow /\ ~CloseConsumer
  <2>1. pc' \notin Shut
    BY <1>6
    DEF LoopStep, PollNothing, ConsumeNone, PollRaises, Handle, HandleValid,
        HandleInvalid, DLQNotConfigured, Answer, WorkBool, AnswerList, WorkList,
        Crash, WorkRaises, ProduceRaises, ProduceSync, ProduceAsync,
        EnqueueFails, Produce, EndIteration, Marked, NextIteration, Abort
  <2> QED
    BY <1>1, <2>1
<1>7. \/ pc' \notin Shut
      \/ pc \in Shut /\ UNCHANGED <<pc, outs>>
      \/ BatchMainStep
  <2>1. CASE \E batch \in Batches : PollBatch(batch) \/ JoinRaises(batch)
    BY <2>1 DEF PollBatch, JoinRaises, Consume, Abort
  <2>2. CASE \/ \E q \in AsyncQueues : Outcome(q)
             \/ \E t \in Threads, q \in AsyncQueues : ServeBatch(t, q)
             \/ \E t \in Threads : BatchCallStep(t)
    BY <2>2
    DEF Outcome, Deliver, Reject, ServeBatch, CallbackBatch, BatchCallStep, StepCall,
        StepNextMessage, StepOnFail, Abort, engineVars
  <2>3. CASE Commit \/ Signal \/ DieBatch \/ Restart \/ Terminated \/ UNCHANGED allVars
    BY <2>3 DEF Commit, Signal, exit_gracefully, DieBatch, Die, Vanish, Restart, Start,
                Terminated, vars, allVars, engineVars
  <2> QED
    BY <2>1, <2>2, <2>3 DEF BatchNext, Elsewhere
<1>8. CASE DispatchBatch
  BY <1>1, <1>8 DEF DispatchBatch, MarkSuccess, MarkFail, LeaveToCallback, NextIteration
<1> QED
  BY <1>1, <1>2, <1>3, <1>4, <1>5, <1>6, <1>7, <1>8 DEF BatchMainStep

LEMMA BatchCallsStep ==
    ASSUME ThreadsOK, BatchDrainInv, [BatchNext]_allVars
    PROVE  BatchCallsInside'
<1> USE DEF BatchDrainInv, BatchCallsInside, ThreadsOK
<1>0. Main \in Threads /\ Main \notin AsyncQueues
  BY TopologyAssumption DEF Threads
<1>1. CASE LoopStep /\ rest[Main] = << >> /\ UNCHANGED batchVars
  BY <1>1
  DEF LoopStep, CheckKillNow, LoopAgain, LoopExit, PollNothing, ConsumeNone,
      PollRaises, Handle, HandleValid, HandleInvalid, DLQNotConfigured,
      Answer, WorkBool, AnswerList, WorkList, Crash, WorkRaises,
      ProduceRaises, ProduceSync, ProduceAsync, EnqueueFails, Produce,
      EndIteration, Marked, CloseConsumer, ShutdownConsumer, consumerVars,
      batchVars, Free
<1>2. CASE DispatchBatch
  BY <1>2 DEF DispatchBatch, MarkSuccess, MarkFail, LeaveToCallback, Produced,
              consumerVars, Free
<1>3. CASE CloseProducer /\ (\A t \in {Main, Head(outs)} \intersect Threads :
                                rest[t] = << >>)
                         /\ UNCHANGED batchVars
  BY <1>0, <1>3 DEF CloseProducer, consumerVars, batchVars, Free
<1>4. ASSUME NEW t \in Threads, NEW q \in AsyncQueues, ServeBatch(t, q)
      PROVE  BatchCallsInside'
  <2>1. PICK m \in Messages, ok \in BOOLEAN : CallbackBatch(t, q, m, ok)
    BY <1>4 DEF ServeBatch
  <2>2. UNCHANGED <<pc, outs>>
    BY <2>1 DEF CallbackBatch, engineVars
  <2>3. CASE t = Main
    BY <1>0, <2>1, <2>2, <2>3 DEF CallbackBatch, Serves
  <2>4. CASE t # Main
    BY <1>0, <2>1, <2>2, <2>4
    DEF CallbackBatch, FailBatch, on_success_batch, on_success, on_fail_batch, Free
  <2> QED
    BY <2>3, <2>4
<1>5. ASSUME NEW t \in Threads, BatchCallStep(t) PROVE BatchCallsInside'
  <2>1. CASE t # Main
    <3>1. UNCHANGED <<pc, outs>>
      BY <1>5, <2>1
      DEF BatchCallStep, StepCall, StepNextMessage, StepOnFail, engineVars
    <3> QED
      BY <1>0, <1>5, <2>1, <3>1, CallOfOneThread DEF Free
  <2>2. CASE t = Main /\ StepOnFail(t)
    <3>1. call'[Main] = Idle /\ rest' = rest
      BY <1>0, <2>2 DEF StepOnFail, OnFailRaises, Return
    <3> QED
      BY <2>2, <3>1 DEF StepOnFail, OnFailRaises, Abort, Free
  <2>3. CASE t = Main /\ ~StepOnFail(t)
    BY <1>5, <2>3, CallOfOneThread
    DEF BatchCallStep, StepCall, StepNextMessage, engineVars
  <2> QED
    BY <2>1, <2>2, <2>3
<1>6. CASE DieBatch
  BY <1>0, <1>6 DEF DieBatch, Die, Resubscribe, Free
<1>7. CASE \E batch \in Batches : PollBatch(batch) \/ JoinRaises(batch)
  BY <1>7 DEF PollBatch, JoinRaises, ConsumeBatch, Consume, Abort, Free
<1>8. CASE (Elsewhere /\ UNCHANGED batchVars) \/ UNCHANGED allVars
  BY <1>8 DEF Elsewhere, Outcome, Deliver, Reject, Commit, AutoCommit, Signal,
              exit_gracefully, Restart, Start, Terminated, vars, allVars, batchVars,
              engineVars, consumerVars, Free
<1> QED
  BY <1>1, <1>2, <1>3, <1>4, <1>5, <1>6, <1>7, <1>8 DEF BatchNext, BatchMainStep

\* run_component returns only when every output of every batch has its outcome, every
\* report has had its callback, and each on_success has gone through the whole of
\* its list: for every application, size of batch and number of producers.
THEOREM BatchShutdownDrains == BatchSpec => []BatchStopDrained
<1>1. BatchInit => ThreadsOK /\ BatchDrainInv
  <2> SUFFICES ASSUME BatchInit PROVE ThreadsOK /\ BatchDrainInv
    OBVIOUS
  <2>1. EngineTypeOK
    <3>1. killNow \in BOOLEAN
      BY DEF BatchInit, Init, EngineInit
    <3> QED
      BY <3>1 DEF BatchInit, Init, EngineInit, EngineTypeOK, Running, Holding
  <2>2. ProducerTypeOK
    BY DEF BatchInit, Init, ProducerInit, ProducerTypeOK
  <2>3. DOMAIN call = Threads /\ DOMAIN rest = Threads
    BY DEF BatchInit, Init, ConsumerInit
  <2>4. BatchDrainInv
    BY DEF BatchInit, Init, EngineInit, ConsumerInit, ProducerInit, BatchDrainInv,
           OutsAreOutputs, BatchOthersAreQuiet, BatchShutIsQuiet, BatchCallsInside,
           BatchQuiet, Free, Threads
  <2> QED
    BY <2>1, <2>2, <2>3, <2>4 DEF ThreadsOK
<1>2. ThreadsOK /\ BatchDrainInv /\ [BatchNext]_allVars
        => ThreadsOK' /\ BatchDrainInv'
  BY BatchComposition, EngineTypes, ProducerTypes, OutsStep, BatchOthersStep,
     BatchShutStep, BatchCallsStep
  DEF ThreadsOK, BatchDrainInv
<1>3. BatchDrainInv => BatchStopDrained
  BY DEF BatchDrainInv, BatchShutIsQuiet, BatchCallsInside, BatchQuiet,
         BatchStopDrained, Threads, Range
<1> QED
  BY <1>1, <1>2, <1>3, PTL DEF BatchSpec

-----------------------------------------------------------------------------
(* What a batch is *)

\* The types, and that every output and every report is of a batch that was read.
BatchTypes ==
    /\ BatchTypeOK
    /\ due \in [Messages -> SUBSET Nat]
    /\ \A q \in AsyncQueues :
          /\ \A i \in DOMAIN dr[q] : message_context[dr[q][i][1]] # << >>
          /\ \A i \in DOMAIN outbox[q] : message_context[outbox[q][i][1]] # << >>

\* Indices of a batch that are of one partition are counted in their order.
LEMMA Ranks ==
    ASSUME NEW n \in Nat, NEW S \in SUBSET (1..n)
    PROVE  /\ IsFiniteSet(S) /\ Cardinality(S) \in Nat
           /\ \A i \in S : Cardinality({j \in S : j < i}) \in 0..(Cardinality(S) - 1)
           /\ \A k \in 0..(Cardinality(S) - 1) :
                 \E i \in S : Cardinality({j \in S : j < i}) = k
<1> DEFINE C == Cardinality(S)
           before(i) == {j \in S : j < i}
           rank == [i \in S |-> Cardinality(before(i))]
<1>1. IsFiniteSet(S) /\ C \in Nat
  <2>1. IsFiniteSet(1..n)
    BY FS_Interval
  <2>2. IsFiniteSet(S)
    BY <2>1, FS_Subset
  <2> QED
    BY <2>2, FS_CardinalityType
<1>2. \A i \in S : IsFiniteSet(before(i)) /\ Cardinality(before(i)) \in Nat
  BY <1>1, FS_Subset, FS_CardinalityType
<1>3. ASSUME NEW T \in SUBSET S, NEW i \in T, i \notin before(i), before(i) \subseteq T
      PROVE  Cardinality(before(i)) < Cardinality(T)
  <2>1. IsFiniteSet(T) /\ Cardinality(T) \in Nat
    BY <1>1, FS_Subset, FS_CardinalityType
  <2>2. /\ Cardinality(before(i)) <= Cardinality(T)
        /\ Cardinality(T) = Cardinality(before(i)) => T = before(i)
    BY <1>3, <2>1, FS_Subset
  <2>3. Cardinality(T) # Cardinality(before(i))
    BY <1>3, <2>2
  <2> HIDE DEF before
  <2> QED
    BY <1>2, <2>1, <2>2, <2>3
<1>4. ASSUME NEW i \in S PROVE rank[i] \in 0..(C - 1)
  <2>1. i \in Int /\ i \notin before(i) /\ before(i) \subseteq S
    OBVIOUS
  <2>2. Cardinality(before(i)) < C
    BY <1>3, <2>1
  <2> HIDE DEF before, C
  <2> QED
    BY <1>1, <1>2, <2>2
<1>5. ASSUME NEW i \in S, NEW k \in S, i < k PROVE rank[i] < rank[k]
  <2>1. before(k) \in SUBSET S /\ i \in before(k) /\ i \notin before(i)
    BY <1>5
  <2>2. before(i) \subseteq before(k)
    <3>1. \A j \in S : j \in Nat /\ (j < i => j < k)
      BY <1>5
    <3> QED
      BY <3>1
  <2>3. Cardinality(before(i)) < Cardinality(before(k))
    BY <1>3, <2>1, <2>2
  <2> QED
    BY <2>3
<1>6. rank \in Injection(S, 0..(C - 1))
  <2>1. ASSUME NEW i \in S, NEW k \in S, rank[i] = rank[k] PROVE i = k
    <3>1. rank[i] \in Int /\ rank[k] \in Int /\ i \in Int /\ k \in Int
      BY <1>4
    <3> HIDE DEF rank
    <3> QED
      BY <1>5, <2>1, <3>1
  <2>2. rank \in [S -> 0..(C - 1)]
    BY <1>4
  <2> HIDE DEF rank, C
  <2> QED
    BY <2>1, <2>2 DEF Injection, IsInjective
<1>7. IsFiniteSet(0..(C - 1)) /\ Cardinality(0..(C - 1)) = C
  <2>1. /\ IsFiniteSet(0..(C - 1))
        /\ Cardinality(0..(C - 1)) = IF 0 > C - 1 THEN 0 ELSE C - 1 - 0 + 1
    BY <1>1, FS_Interval
  <2> HIDE DEF C
  <2> QED
    BY <1>1, <2>1
<1>8. rank \in Surjection(S, 0..(C - 1))
  BY <1>6, <1>7, FS_Injection
<1>9. \A k \in 0..(C - 1) : \E i \in S : rank[i] = k
  BY <1>8 DEF Surjection
<1> QED
  BY <1>1, <1>4, <1>9

\* A batch is what comes next of each partition: nothing is read twice or left out.
LEMMA BatchIsNext ==
    ASSUME NEW batch \in Batches, position \in [Partitions -> 0..(MaxOffset + 1)],
           ConsumeBatch(batch)
    PROVE  /\ position' \in [Partitions -> 0..(MaxOffset + 1)]
           /\ batch \in Seq(Messages)
           /\ batch # << >>
           /\ Range(batch) \subseteq Messages
           /\ \A m \in Messages : Below(m, position) => Below(m, position')
           /\ \A m \in Range(batch) : ~Below(m, position) /\ Below(m, position')
           /\ \A m \in Messages :
                 Below(m, position') => Below(m, position) \/ m \in Range(batch)
<1>1. PICK n \in 1..BatchSize : batch \in [1..n -> Messages]
  BY DEF Batches
<1>2. n \in Nat /\ n >= 1 /\ DOMAIN batch = 1..n
  BY <1>1, BatchSizeAssumption
<1>3. /\ batch \in Seq(Messages) /\ batch # << >> /\ Range(batch) \subseteq Messages
  <2>1. batch \in Seq(Messages) /\ Len(batch) = n
    BY <1>1, <1>2, SeqDef
  <2>2. Range(batch) \subseteq Messages
    BY <1>1 DEF Range
  <2> QED
    BY <1>2, <2>1, <2>2
<1> DEFINE S(p) == Of(batch, p)
           count(p) == Cardinality(S(p))
           rank(p, i) == Cardinality({j \in S(p) : j < i})
<1>4. ASSUME NEW p
      PROVE  /\ S(p) \in SUBSET (1..n) /\ count(p) \in Nat
             /\ \A i \in S(p) : rank(p, i) \in 0..(count(p) - 1)
             /\ \A k \in 0..(count(p) - 1) : \E i \in S(p) : rank(p, i) = k
  <2>1. S(p) \in SUBSET (1..n)
    BY <1>2 DEF Of
  <2> HIDE DEF S
  <2> QED
    BY <1>2, <2>1, Ranks
<1>5. ASSUME NEW i \in 1..n
      PROVE  /\ batch[i] \in Messages /\ i \in S(partition(batch[i]))
             /\ offset(batch[i]) =
                     position[partition(batch[i])] + rank(partition(batch[i]), i)
  BY <1>1, <1>2 DEF ConsumeBatch, Of
<1>6. ASSUME NEW p \in Partitions
      PROVE  /\ position[p] \in Nat /\ position'[p] = position[p] + count(p)
             /\ position'[p] \in 0..(MaxOffset + 1)
  <2>1. position[p] \in Nat /\ position[p] \in 0..(MaxOffset + 1)
    BY TopologyAssumption
  <2>2. position'[p] = position[p] + count(p)
    BY DEF ConsumeBatch
  <2>3. CASE count(p) = 0
    <3> HIDE DEF count
    <3> QED
      BY <2>1, <2>2, <2>3
  <2>4. CASE count(p) > 0
    <3>1. count(p) - 1 \in 0..(count(p) - 1)
      BY <1>4, <2>4
    <3>2. PICK i \in S(p) : rank(p, i) = count(p) - 1
      BY <1>4, <3>1
    <3>3. i \in 1..n /\ partition(batch[i]) = p
      BY <1>4, <3>2 DEF Of
    <3>4. /\ offset(batch[i]) = position[p] + (count(p) - 1)
          /\ offset(batch[i]) \in 0..MaxOffset
      BY <1>5, <3>2, <3>3, MessageParts DEF Offsets
    <3>5. count(p) \in Nat
      BY <1>4
    <3> HIDE DEF count
    <3> QED
      BY <2>1, <2>2, <3>4, <3>5, TopologyAssumption
  <2>5. count(p) = 0 \/ count(p) > 0
    BY <1>4
  <2> QED
    BY <2>1, <2>2, <2>3, <2>4, <2>5
<1>7. position' \in [Partitions -> 0..(MaxOffset + 1)]
  BY <1>6 DEF ConsumeBatch
<1>8. ASSUME NEW m \in Messages, Below(m, position) PROVE Below(m, position')
  <2>1. partition(m) \in Partitions /\ offset(m) \in Nat /\ count(partition(m)) \in Nat
    BY <1>4, MessageParts
  <2> HIDE DEF count
  <2> QED
    BY <1>6, <1>8, <2>1 DEF Below
<1>9. ASSUME NEW m \in Range(batch) PROVE ~Below(m, position) /\ Below(m, position')
  <2>1. PICK i \in 1..n : m = batch[i]
    BY <1>2, <1>9 DEF Range
  <2>2. /\ m \in Messages /\ i \in S(partition(m))
        /\ offset(m) = position[partition(m)] + rank(partition(m), i)
    BY <1>5, <2>1
  <2>3. partition(m) \in Partitions /\ offset(m) \in Nat
    BY <2>2, MessageParts
  <2>4. /\ rank(partition(m), i) \in 0..(count(partition(m)) - 1)
        /\ count(partition(m)) \in Nat
    BY <1>4, <2>2
  <2> HIDE DEF count, rank, S
  <2> QED
    BY <1>6, <2>2, <2>3, <2>4 DEF Below
<1>10. ASSUME NEW m \in Messages, Below(m, position'), ~Below(m, position)
       PROVE  m \in Range(batch)
  <2> DEFINE p == partition(m)
             k == offset(m) - position[p]
  <2>1. p \in Partitions /\ offset(m) \in Nat /\ count(p) \in Nat /\ position[p] \in Nat
    BY <1>4, <1>6, MessageParts
  <2>2. k \in 0..(count(p) - 1)
    <3>1. position'[p] = position[p] + count(p)
      BY <1>6, <2>1
    <3> HIDE DEF count
    <3> QED
      BY <1>10, <2>1, <3>1 DEF Below
  <2>3. PICK i \in S(p) : rank(p, i) = k
    BY <1>4, <2>2
  <2>4. i \in 1..n /\ partition(batch[i]) = p
    BY <1>4, <2>3 DEF Of
  <2>5. batch[i] \in Messages /\ offset(batch[i]) = position[p] + k
    BY <1>5, <2>3, <2>4
  <2>6. offset(batch[i]) = offset(m)
    BY <2>1, <2>5
  <2>7. batch[i] = m
    BY <2>4, <2>5, <2>6, MessageParts
  <2> QED
    BY <1>2, <2>4, <2>7 DEF Range
<1> QED
  BY <1>3, <1>7, <1>8, <1>9, <1>10

-----------------------------------------------------------------------------
(* The types of a batch worker *)

\* What a step of the worker does to its consumer.
BatchConsumerStep ==
    \/ \E batch \in Batches : ConsumeBatch(batch)
    \/ \E t \in Threads, batch \in Seq(Messages) \ {<< >>} :
          on_success_batch(t, batch) \/ on_fail_batch(t, batch)
    \/ \E t \in Threads : NextMessage(t) \/ OnFailRaises(t)
    \/ /\ \E t \in Threads : Lookup(t) \/ Record(t) \/ StoreOffsets(t) \/ CloseOnFail(t)
       /\ UNCHANGED rest
    \/ (AutoCommit \/ (Close /\ UNCHANGED call)) /\ UNCHANGED rest
    \/ Resubscribe /\ rest' = [t \in Threads |-> << >>]
    \/ UNCHANGED <<consumerVars, rest>>

\* A thread's call moves on, or returns.
LEMMA BatchFrame ==
    ASSUME BatchConsumerTypeOK, NEW t \in Threads, call[t].at \in Sites
    PROVE  /\ call[t].msg \in Messages
           /\ \A site \in Sites : Goto(t, site) =>
                 /\ call' \in [Threads -> BatchFrames \union {Idle}]
                 /\ call'[t] = [at |-> site, msg |-> call[t].msg]
                 /\ \A u \in Threads \ {t} : call'[u] = call[u]
<1> USE DEF BatchConsumerTypeOK
<1>1. call[t] \in Frames
  <2>1. call[t].at # "idle" /\ call[t].at # "topic"
    BY DEF Sites
  <2>2. call[t] # Idle
    BY <2>1 DEF Idle
  <2>3. call[t] \notin [at : {"topic"}, msg : Messages]
    BY <2>1
  <2> QED
    BY <2>2, <2>3 DEF BatchFrames
<1>2. ASSUME NEW site \in Sites, Goto(t, site)
      PROVE  /\ call' \in [Threads -> BatchFrames \union {Idle}]
             /\ call'[t] = [at |-> site, msg |-> call[t].msg]
             /\ \A u \in Threads \ {t} : call'[u] = call[u]
  <2>1. call'[t] = [call[t] EXCEPT !.at = site]
    BY <1>2 DEF Goto
  <2>2. call'[t] = [at |-> site, msg |-> call[t].msg]
    BY <1>1, <2>1 DEF Frames
  <2>3. call'[t] \in Frames
    BY <1>1, <1>2, <2>2 DEF Frames
  <2>4. DOMAIN call' = Threads /\ \A u \in Threads \ {t} : call'[u] = call[u]
    BY <1>2 DEF Goto
  <2> QED
    BY <1>2, <2>2, <2>3, <2>4 DEF Goto, BatchFrames
<1> QED
  BY <1>1, <1>2 DEF Frames

LEMMA BatchConsumerTypes ==
    ASSUME BatchConsumerTypeOK, BatchConsumerStep
    PROVE  BatchConsumerTypeOK'
<1> USE DEF BatchConsumerTypeOK
<1>1. ASSUME NEW batch \in Batches, ConsumeBatch(batch)
      PROVE  BatchConsumerTypeOK'
  <2>1. position' \in [Partitions -> 0..(MaxOffset + 1)]
    BY <1>1, BatchIsNext
  <2> QED
    BY <1>1, <2>1 DEF ConsumeBatch
<1>2. ASSUME NEW t \in Threads, NEW m \in Messages, NEW r \in Seq(Messages),
             on_success(t, m), rest' = [rest EXCEPT ![t] = r]
      PROVE  BatchConsumerTypeOK'
  <2>1. [at |-> "lookup", msg |-> m] \in BatchFrames
    BY DEF BatchFrames, Frames, Sites
  <2> QED
    BY <1>2, <2>1 DEF on_success
<1>3. ASSUME NEW t \in Threads, NEW batch \in Seq(Messages) \ {<< >>},
             on_success_batch(t, batch) \/ on_fail_batch(t, batch)
      PROVE  BatchConsumerTypeOK'
  <2>1. Head(batch) \in Messages /\ Tail(batch) \in Seq(Messages)
    BY HeadTailProperties
  <2>2. CASE on_success_batch(t, batch)
    BY <1>2, <2>1, <2>2 DEF on_success_batch
  <2>3. CASE on_fail_batch(t, batch)
    <3>1. [at |-> "topic", msg |-> Head(batch)] \in BatchFrames
      BY <2>1 DEF BatchFrames
    <3> QED
      BY <2>3, <3>1 DEF on_fail_batch
  <2> QED
    BY <1>3, <2>2, <2>3
<1>4. ASSUME NEW t \in Threads, NextMessage(t) PROVE BatchConsumerTypeOK'
  <2>1. rest[t] \in Seq(Messages) /\ rest[t] # << >>
    BY <1>4 DEF NextMessage
  <2>2. Head(rest[t]) \in Messages /\ Tail(rest[t]) \in Seq(Messages)
    BY <2>1, HeadTailProperties
  <2> QED
    BY <1>2, <1>4, <2>2 DEF NextMessage
<1>5. ASSUME NEW t \in Threads, OnFailRaises(t) PROVE BatchConsumerTypeOK'
  BY <1>5 DEF OnFailRaises, Return
<1>6. ASSUME NEW t \in Threads, Lookup(t) \/ CloseOnFail(t), UNCHANGED rest
      PROVE  BatchConsumerTypeOK'
  <2>1. call' \in [Threads -> BatchFrames \union {Idle}]
    <3>1. call[t].at \in Sites
      BY <1>6 DEF Lookup, CloseOnFail, Sites
    <3>2. CASE Return(t)
      BY <3>2 DEF Return
    <3>3. CASE \E site \in Sites : Goto(t, site)
      BY <3>1, <3>3, BatchFrame
    <3> QED
      BY <1>6, <3>2, <3>3 DEF Lookup, CloseOnFail, Sites
  <2> QED
    BY <1>6, <2>1 DEF Lookup, CloseOnFail, Close, Final
<1>7. ASSUME NEW t \in Threads, Record(t) \/ StoreOffsets(t), UNCHANGED rest
      PROVE  BatchConsumerTypeOK'
  <2>1. call[t].at \in Sites
    BY <1>7 DEF Record, StoreOffsets, Storing, Sites
  <2>2. call[t].msg \in Messages
    BY <2>1, BatchFrame
  <2>3. call' \in [Threads -> BatchFrames \union {Idle}]
    <3>1. CASE Return(t)
      BY <3>1 DEF Return
    <3>2. CASE \E site \in Sites : Goto(t, site)
      BY <2>1, <3>2, BatchFrame
    <3> QED
      BY <1>7, <3>1, <3>2 DEF Record, StoreOffsets, Sites
  <2>4. /\ partition(call[t].msg) \in Partitions
        /\ offset(call[t].msg) \in Offsets
        /\ offset(call[t].msg) + 1 \in 0..(MaxOffset + 1)
    BY <2>2, MessageParts
  <2>5. CASE Record(t)
    BY <1>7, <2>3, <2>4, <2>5 DEF Record
  <2>6. CASE StoreOffsets(t)
    BY <1>7, <2>3, <2>4, <2>6 DEF StoreOffsets
  <2> QED
    BY <1>7, <2>5, <2>6
<1>8. CASE (AutoCommit \/ (Close /\ UNCHANGED call)) /\ UNCHANGED rest
  BY <1>8 DEF AutoCommit, Close, Final
<1>9. CASE Resubscribe /\ rest' = [t \in Threads |-> << >>]
  <2>1. /\ open' = TRUE /\ position' = committed /\ committed' = committed
        /\ lastOffset' = [p \in Partitions |-> NoOffset]
        /\ stored' = [p \in Partitions |-> 0]
        /\ call' = [t \in Threads |-> Idle]
    BY <1>9 DEF Resubscribe
  <2>2. stored' \in [Partitions -> 0..(MaxOffset + 1)]
    BY <2>1, TopologyAssumption
  <2>3. rest' \in [Threads -> Seq(Messages)]
    BY <1>9
  <2> QED
    BY <2>1, <2>2, <2>3
<1>10. CASE UNCHANGED <<consumerVars, rest>>
  BY <1>10 DEF consumerVars
<1> QED
  BY <1>1, <1>3, <1>4, <1>5, <1>6, <1>7, <1>8, <1>9, <1>10 DEF BatchConsumerStep

\* Each step of a batch worker is one step, or none, of its consumer.
LEMMA BatchConsumes ==
    ASSUME BatchTypes, [BatchNext]_allVars
    PROVE  BatchConsumerStep
<1> USE DEF BatchTypes, BatchTypeOK
<1>0. Main \in Threads /\ AsyncQueues \subseteq Threads
  BY DEF Threads
<1>1. CASE LoopStep /\ UNCHANGED batchVars
  <2>1. UNCHANGED consumerVars \/ (Close /\ UNCHANGED call)
    BY <1>1
    DEF LoopStep, CheckKillNow, PollNothing, PollRaises, Handle, Answer, AnswerList,
        Crash, ProduceSync, ProduceAsync, EnqueueFails, EndIteration, CloseConsumer
  <2> QED
    BY <1>1, <2>1 DEF BatchConsumerStep, batchVars
<1>2. CASE DispatchBatch
  <2>1. CASE LeaveToCallback /\ UNCHANGED <<consumerVars, rest, ghostVars>>
    BY <2>1 DEF BatchConsumerStep
  <2>2. CASE ~(LeaveToCallback /\ UNCHANGED <<consumerVars, rest, ghostVars>>)
    <3>1. message_context[msg] \in Seq(Messages) \ {<< >>}
      BY <1>2, <2>2
      DEF DispatchBatch, MarkSuccess, MarkFail, Produced, EngineTypeOK, Holding,
          NoMessage
    <3> QED
      BY <1>0, <1>2, <2>2, <3>1 DEF DispatchBatch, FailBatch, BatchConsumerStep
  <2> QED
    BY <2>1, <2>2
<1>3. ASSUME NEW batch \in Batches, PollBatch(batch) \/ JoinRaises(batch)
      PROVE  BatchConsumerStep
  BY <1>3 DEF PollBatch, JoinRaises, BatchConsumerStep
<1>4. ASSUME NEW t \in Threads, NEW q \in AsyncQueues, ServeBatch(t, q)
      PROVE  BatchConsumerStep
  <2>1. PICK m \in Messages, ok \in BOOLEAN : CallbackBatch(t, q, m, ok)
    BY <1>4 DEF ServeBatch
  <2>2. dr[q] \in Seq(Messages \X BOOLEAN) /\ dr[q] # << >> /\ dr[q][1] = <<m, ok>>
    BY <2>1 DEF CallbackBatch, acked, ProducerTypeOK
  <2>3. message_context[m] # << >>
    BY <2>2, EmptySeq, LenProperties
  <2>4. message_context[m] \in Seq(Messages) \ {<< >>}
    BY <2>3
  <2> QED
    BY <2>1, <2>4 DEF CallbackBatch, FailBatch, BatchConsumerStep
<1>5. ASSUME NEW t \in Threads, BatchCallStep(t) PROVE BatchConsumerStep
  BY <1>5 DEF BatchCallStep, StepCall, StepNextMessage, StepOnFail, BatchConsumerStep,
              batchVars
<1>6. CASE Elsewhere /\ UNCHANGED batchVars
  <2>1. UNCHANGED consumerVars \/ AutoCommit
    BY <1>6
    DEF Elsewhere, Outcome, Deliver, Reject, Commit, Signal, Restart, Terminated,
                vars
  <2> QED
    BY <1>6, <2>1 DEF BatchConsumerStep, batchVars
<1>7. CASE DieBatch
  BY <1>7 DEF DieBatch, Die, BatchConsumerStep
<1>8. CASE UNCHANGED allVars
  BY <1>8 DEF allVars, vars, batchVars, BatchConsumerStep
<1>9. CASE CloseProducer /\ UNCHANGED batchVars
  BY <1>9 DEF CloseProducer, BatchConsumerStep, batchVars
<1> QED
  BY <1>1, <1>2, <1>3, <1>4, <1>5, <1>6, <1>7, <1>8, <1>9 DEF BatchNext, BatchMainStep

\* A batch is kept as long as its name is in hand, in flight or reported.
ContextsKept ==
    /\ message_context \in [Messages -> Seq(Messages)]
    /\ pc \in Holding => message_context[msg] # << >>
    /\ \A q \in AsyncQueues :
          /\ \A i \in DOMAIN dr[q] : message_context[dr[q][i][1]] # << >>
          /\ \A i \in DOMAIN outbox[q] : message_context[outbox[q][i][1]] # << >>

\* What is in flight or reported now was so before, or was in hand.
LEMMA LinesStep ==
    ASSUME ThreadsOK, [BatchNext]_allVars, ~DieBatch, NEW q \in AsyncQueues
    PROVE  /\ \A j \in DOMAIN dr'[q] :
                 \/ \E i \in DOMAIN dr[q] : dr'[q][j][1] = dr[q][i][1]
                 \/ \E i \in DOMAIN outbox[q] : dr'[q][j][1] = outbox[q][i][1]
           /\ \A j \in DOMAIN outbox'[q] :
                 \/ \E i \in DOMAIN outbox[q] : outbox'[q][j][1] = outbox[q][i][1]
                 \/ pc \in Holding /\ outbox'[q][j][1] = msg
<1> USE DEF ThreadsOK
<1>0. outbox[q] \in Seq(Outputs) /\ dr[q] \in Seq(Messages \X BOOLEAN)
  BY DEF ProducerTypeOK
<1>1. CASE UNCHANGED <<outbox, dr>>
  BY <1>1
<1>2. CASE ProduceAsync
  <2>1. PICK e \in Outputs : /\ pc \in Holding /\ e[1] = msg /\ Enqueue(Head(outs), e)
    <3>1. <<msg, Len(outs)>> \in Outputs
      BY <1>2 DEF ProduceAsync, Produce, EngineTypeOK, Holding, Outputs
    <3> QED
      BY <1>2, <3>1 DEF ProduceAsync, Produce, Holding
  <2>2. CASE q = Head(outs)
    <3>1. outbox'[q] = Append(outbox[q], e) /\ dr' = dr
      BY <2>1, <2>2 DEF Enqueue, ProducerTypeOK
    <3>2. \A j \in DOMAIN outbox'[q] :
              \/ j \in DOMAIN outbox[q] /\ outbox'[q][j] = outbox[q][j]
              \/ outbox'[q][j] = e
      BY <1>0, <3>1, AppendProperties
    <3> QED
      BY <2>1, <3>1, <3>2
  <2>3. CASE q # Head(outs)
    BY <2>1, <2>3 DEF Enqueue, ProducerTypeOK
  <2> QED
    BY <2>2, <2>3
<1>3. ASSUME NEW o \in AsyncQueues, Outcome(o)
      PROVE  /\ \A j \in DOMAIN dr'[q] :
                   \/ \E i \in DOMAIN dr[q] : dr'[q][j][1] = dr[q][i][1]
                   \/ \E i \in DOMAIN outbox[q] : dr'[q][j][1] = outbox[q][i][1]
             /\ \A j \in DOMAIN outbox'[q] :
                   \E i \in DOMAIN outbox[q] : outbox'[q][j][1] = outbox[q][i][1]
  <2>1. PICK k \in DOMAIN outbox[o], ok \in BOOLEAN : Report(o, k, ok)
    BY <1>3 DEF Outcome, Deliver, Reject
  <2>2. CASE o # q
    BY <2>1, <2>2 DEF Report, ProducerTypeOK
  <2>3. CASE o = q
    <3> DEFINE e == <<outbox[q][k][1], ok>>
    <3>1. /\ outbox'[q] = RemoveAt(outbox[q], k)
          /\ dr'[q] = Append(dr[q], e)
      BY <2>1, <2>3 DEF Report, ProducerTypeOK
    <3>2. outbox[q][k] \in Outputs
      BY <1>0, <2>3
    <3>3. e \in Messages \X BOOLEAN /\ e[1] = outbox[q][k][1]
      BY <3>2 DEF Outputs
    <3>4. \A j \in DOMAIN dr'[q] :
              (j \in DOMAIN dr[q] /\ dr'[q][j] = dr[q][j]) \/ dr'[q][j] = e
      BY <1>0, <3>1, <3>3, AppendProperties
    <3>5. \A j \in DOMAIN outbox'[q] :
              \E i \in DOMAIN outbox[q] : outbox'[q][j] = outbox[q][i]
      <4>1. /\ DOMAIN outbox[q] = 1..Len(outbox[q]) /\ Len(outbox[q]) \in Nat
            /\ DOMAIN RemoveAt(outbox[q], k) = 1..(Len(outbox[q]) - 1)
            /\ \A j \in 1..(Len(outbox[q]) - 1) :
                  RemoveAt(outbox[q], k)[j]
                      = IF j < k THEN outbox[q][j] ELSE outbox[q][j + 1]
        BY <1>0, <2>3, RemoveParts
      <4>2. \A j \in 1..(Len(outbox[q]) - 1) :
                j \in DOMAIN outbox[q] /\ j + 1 \in DOMAIN outbox[q]
        BY <4>1
      <4> QED
        BY <3>1, <4>1, <4>2
    <3> QED
      BY <2>3, <3>3, <3>4, <3>5
  <2> QED
    BY <2>2, <2>3
<1>4. ASSUME NEW t \in Threads, NEW o \in AsyncQueues, ServeBatch(t, o)
      PROVE  /\ \A j \in DOMAIN dr'[q] : \E i \in DOMAIN dr[q] : dr'[q][j] = dr[q][i]
             /\ outbox' = outbox
  <2>1. PICK m \in Messages, ok \in BOOLEAN : acked(o, m, ok)
    BY <1>4 DEF ServeBatch, CallbackBatch
  <2>2. CASE o # q
    BY <2>1, <2>2 DEF acked, ProducerTypeOK
  <2>3. CASE o = q
    <3>1. dr'[q] = Tail(dr[q]) /\ dr[q] # << >> /\ outbox' = outbox
      BY <2>1, <2>3 DEF acked, ProducerTypeOK
    <3>2. \A j \in DOMAIN Tail(dr[q]) :
              j + 1 \in DOMAIN dr[q] /\ Tail(dr[q])[j] = dr[q][j + 1]
      BY <1>0, <3>1, HeadTailProperties
    <3> QED
      BY <3>1, <3>2
  <2> QED
    BY <2>2, <2>3
<1>5. CASE LoopStep /\ ~ProduceAsync
  BY <1>1, <1>5
  DEF LoopStep, CheckKillNow, PollNothing, PollRaises, Handle, Answer, AnswerList,
      Crash, ProduceSync, EnqueueFails, EndIteration, CloseConsumer, producerVars
<1>6. ASSUME NEW t \in Threads, BatchCallStep(t) PROVE UNCHANGED <<outbox, dr>>
  BY <1>6, CallOfOneThread
<1>7. CASE \/ CloseProducer \/ DispatchBatch
           \/ \E batch \in Batches : PollBatch(batch) \/ JoinRaises(batch)
           \/ Commit \/ Signal \/ Restart \/ Terminated \/ UNCHANGED allVars
  BY <1>1, <1>7
  DEF CloseProducer, Flushed, DispatchBatch, PollBatch, JoinRaises, Commit, Signal,
      Restart, Terminated, vars, allVars, producerVars
<1> QED
  BY <1>1, <1>2, <1>3, <1>4, <1>5, <1>6, <1>7 DEF BatchNext, BatchMainStep, Elsewhere

LEMMA ContextsStep ==
    ASSUME BatchTypes, [BatchNext]_allVars
    PROVE  ContextsKept'
<1> USE DEF BatchTypes, BatchTypeOK, ContextsKept
<1>0. ThreadsOK
  BY DEF ThreadsOK, BatchConsumerTypeOK
<1>1. CASE DieBatch
  <2>1. /\ message_context' = [m \in Messages |-> << >>] /\ pc' = "down"
        /\ \A q \in AsyncQueues : dr'[q] = << >> /\ outbox'[q] = << >>
    BY <1>1 DEF DieBatch, Die, Vanish, Reconnect
  <2>2. message_context' \in [Messages -> Seq(Messages)]
    BY <2>1
  <2> QED
    BY <2>1, <2>2 DEF Holding
<1>2. CASE ~DieBatch
  <2>1. /\ message_context' \in [Messages -> Seq(Messages)]
        /\ \A m \in Messages : message_context[m] # << >> => message_context'[m] # << >>
        /\ pc' \in Holding =>
              (pc \in Holding /\ msg' = msg) \/ message_context'[msg'] # << >>
    <3>1. ASSUME NEW batch \in Batches, PollBatch(batch)
          PROVE  /\ message_context' \in [Messages -> Seq(Messages)]
                 /\ \A m \in Messages :
                       message_context[m] # << >> => message_context'[m] # << >>
                 /\ message_context'[msg'] # << >>
      <4>1. batch \in Seq(Messages) /\ batch # << >> /\ Name(batch) \in Messages
        BY <3>1, BatchIsNext, NameIsMessage DEF PollBatch, BatchConsumerTypeOK
      <4> QED
        BY <3>1, <4>1 DEF PollBatch, NamedAfter, Consume
    <3>2. CASE UNCHANGED message_context
               /\ (pc' \in Holding => pc \in Holding /\ msg' = msg)
      BY <3>2
    <3>3. CASE LoopStep /\ UNCHANGED batchVars
      BY <3>2, <3>3
      DEF LoopStep, CheckKillNow, LoopAgain, LoopExit, PollNothing, ConsumeNone,
          PollRaises, Handle, HandleValid, HandleInvalid, DLQNotConfigured,
          Answer, WorkBool, AnswerList, WorkList, Crash, WorkRaises,
          ProduceRaises, ProduceSync, ProduceAsync, EnqueueFails, Produce,
          EndIteration, Marked, CloseConsumer, ShutdownConsumer, NextIteration,
          Abort, batchVars, Holding
    <3>4. CASE DispatchBatch
      BY <3>2, <3>4 DEF DispatchBatch, MarkSuccess, MarkFail, LeaveToCallback, Produced,
                        NextIteration, Holding
    <3>5. ASSUME NEW batch \in Batches, JoinRaises(batch)
          PROVE  UNCHANGED message_context
                 /\ (pc' \in Holding => pc \in Holding /\ msg' = msg)
      BY <3>5 DEF JoinRaises, Abort, Holding
    <3>6. ASSUME NEW t \in Threads, NEW q \in AsyncQueues, ServeBatch(t, q)
          PROVE  UNCHANGED message_context
                 /\ (pc' \in Holding => pc \in Holding /\ msg' = msg)
      BY <3>6 DEF ServeBatch, CallbackBatch, engineVars
    <3>7. ASSUME NEW t \in Threads, BatchCallStep(t)
          PROVE  UNCHANGED message_context
                 /\ (pc' \in Holding => pc \in Holding /\ msg' = msg)
      BY <3>7 DEF BatchCallStep, StepCall, StepNextMessage, StepOnFail, Abort, Holding,
                  batchVars, engineVars
    <3>8. CASE Elsewhere /\ UNCHANGED batchVars
      BY <3>2, <3>8 DEF Elsewhere, Outcome, Deliver, Reject, Commit, Signal,
                        exit_gracefully, Restart, Start, Terminated, vars, batchVars,
                        engineVars, Holding
    <3>9. CASE (CloseProducer /\ UNCHANGED batchVars) \/ UNCHANGED allVars
      BY <3>2, <3>9 DEF CloseProducer, ShutdownProducer, allVars, vars, batchVars,
                        engineVars, Holding
    <3> QED
      BY <1>2, <3>1, <3>2, <3>3, <3>4, <3>5, <3>6, <3>7, <3>8, <3>9
      DEF BatchNext, BatchMainStep
  <2>2. pc \in Holding => msg \in Messages
    BY DEF EngineTypeOK
  <2>3. pc' \in Holding => message_context'[msg'] # << >>
    BY <2>1, <2>2
  <2>4. ASSUME NEW q \in AsyncQueues
        PROVE  /\ \A i \in DOMAIN dr[q] : dr[q][i][1] \in Messages
               /\ \A i \in DOMAIN outbox[q] : outbox[q][i][1] \in Messages
    <3>1. /\ \A i \in DOMAIN dr[q] : dr[q][i] \in Messages \X BOOLEAN
          /\ \A i \in DOMAIN outbox[q] : outbox[q][i] \in Outputs
      BY DEF ProducerTypeOK
    <3> QED
      BY <3>1 DEF Outputs
  <2>5. ASSUME NEW q \in AsyncQueues
        PROVE  /\ \A j \in DOMAIN dr'[q] : message_context'[dr'[q][j][1]] # << >>
               /\ \A j \in DOMAIN outbox'[q] :
                      message_context'[outbox'[q][j][1]] # << >>
    <3>1. \A j \in DOMAIN dr'[q] : message_context'[dr'[q][j][1]] # << >>
      BY <1>0, <1>2, <2>1, <2>4, LinesStep
    <3>2. \A j \in DOMAIN outbox'[q] : message_context'[outbox'[q][j][1]] # << >>
      BY <1>0, <1>2, <2>1, <2>2, <2>4, LinesStep
    <3> QED
      BY <3>1, <3>2
  <2> QED
    BY <2>1, <2>3, <2>5
<1> QED
  BY <1>1, <1>2

LEMMA BatchDueTypes ==
    ASSUME BatchTypes, [BatchNext]_allVars
    PROVE  due' \in [Messages -> SUBSET Nat]
<1> USE DEF BatchTypes, BatchTypeOK
<1>1. ASSUME NEW n, NEW S \in SUBSET Nat, due' = [due EXCEPT ![n] = S]
      PROVE  due' \in [Messages -> SUBSET Nat]
  BY <1>1
<1>2. CASE UNCHANGED due
  BY <1>2
<1>3. ASSUME NEW n \in Messages, NEW i, Delivered(n, i)
      PROVE  due' \in [Messages -> SUBSET Nat]
  BY <1>3 DEF Delivered
<1>4. CASE LoopStep
  <2>1. ASSUME NEW l \in AppLists, AnswerList(l) PROVE due' \in [Messages -> SUBSET Nat]
    <3>1. 1..Len(l) \in SUBSET Nat
      BY QueueFacts
    <3> QED
      BY <1>1, <2>1, <3>1 DEF AnswerList
  <2>2. ASSUME NEW b \in AppBools, Answer(b) PROVE due' \in [Messages -> SUBSET Nat]
    BY <2>2 DEF Answer
  <2>3. CASE Handle
    <3>1. {1} \in SUBSET Nat
      OBVIOUS
    <3> QED
      BY <1>1, <2>3, <3>1 DEF Handle
  <2>4. CASE \E st, d \in BOOLEAN : ProduceSync(st, d)
    <3>1. msg \in Messages
      BY <2>4 DEF ProduceSync, Produce, EngineTypeOK, Holding
    <3> QED
      BY <1>3, <2>4, <3>1 DEF ProduceSync
  <2> QED
    BY <1>2, <1>4, <2>1, <2>2, <2>3, <2>4
    DEF LoopStep, CheckKillNow, PollNothing, PollRaises, Crash, ProduceAsync,
        EnqueueFails, EndIteration, CloseConsumer, ghostVars
<1>5. ASSUME NEW q \in AsyncQueues, Outcome(q) PROVE due' \in [Messages -> SUBSET Nat]
  <2>1. PICK i \in DOMAIN outbox[q] :
            Delivered(outbox[q][i][1], outbox[q][i][2]) \/ UNCHANGED due
    BY <1>5 DEF Outcome, Deliver, Reject, ghostVars
  <2>2. outbox[q][i] \in Outputs
    BY DEF ProducerTypeOK
  <2> QED
    BY <1>2, <1>3, <2>1, <2>2 DEF Outputs
<1>6. ASSUME NEW batch \in Batches, PollBatch(batch)
      PROVE  due' \in [Messages -> SUBSET Nat]
  <2>1. {Decision} \in SUBSET Nat
    BY DEF Decision
  <2> QED
    BY <1>1, <1>6, <2>1 DEF PollBatch
<1>7. CASE \/ CloseProducer \/ DispatchBatch
           \/ \E batch \in Batches : JoinRaises(batch)
           \/ \E t \in Threads, q \in AsyncQueues : ServeBatch(t, q)
           \/ \E t \in Threads : BatchCallStep(t)
  BY <1>2, <1>7
  DEF CloseProducer, DispatchBatch, FailBatch, JoinRaises, ServeBatch, CallbackBatch,
      BatchCallStep, StepCall, StepNextMessage, StepOnFail, ghostVars
<1>8. CASE Commit \/ Signal \/ Restart \/ Terminated \/ DieBatch \/ UNCHANGED allVars
  BY <1>2, <1>8
  DEF Commit, Signal, Restart, Terminated, DieBatch, Die, vars, allVars, ghostVars
<1> QED
  BY <1>4, <1>5, <1>6, <1>7, <1>8 DEF BatchNext, BatchMainStep, Elsewhere

LEMMA BatchTypesStep ==
    ASSUME BatchTypes, [BatchNext]_allVars
    PROVE  BatchTypes'
<1>1. ThreadsOK
  BY DEF BatchTypes, BatchTypeOK, ThreadsOK, BatchConsumerTypeOK
<1>2. EngineTypeOK' /\ ProducerTypeOK'
  BY <1>1, BatchComposition, EngineTypes, ProducerTypes DEF ThreadsOK
<1>3. BatchConsumerTypeOK'
  BY BatchConsumes, BatchConsumerTypes DEF BatchTypes, BatchTypeOK
<1> QED
  BY <1>2, <1>3, ContextsStep, BatchDueTypes DEF BatchTypes, BatchTypeOK, ContextsKept

LEMMA BatchTypesInit == BatchInit => BatchTypes
<1> SUFFICES ASSUME BatchInit PROVE BatchTypes
  OBVIOUS
<1>1. EngineTypeOK
  <2>1. killNow \in BOOLEAN
    BY DEF BatchInit, Init, EngineInit
  <2> QED
    BY <2>1 DEF BatchInit, Init, EngineInit, EngineTypeOK, Running, Holding
<1>2. ProducerTypeOK
  BY DEF BatchInit, Init, ProducerInit, ProducerTypeOK
<1>3. BatchConsumerTypeOK
  <2>1. open \in BOOLEAN
    BY DEF BatchInit, Init, ConsumerInit
  <2>2. /\ position \in [Partitions -> 0..(MaxOffset + 1)]
        /\ stored \in [Partitions -> 0..(MaxOffset + 1)]
        /\ committed \in [Partitions -> 0..(MaxOffset + 1)]
    BY TopologyAssumption DEF BatchInit, Init, ConsumerInit
  <2> QED
    BY <2>1, <2>2 DEF BatchInit, Init, ConsumerInit, BatchConsumerTypeOK
<1>4. due \in [Messages -> SUBSET Nat]
  BY DEF BatchInit, Init, Decision
<1>5. message_context \in [Messages -> Seq(Messages)] /\ pc \notin Holding
  BY DEF BatchInit, Init, EngineInit, Holding
<1>6. \A q \in AsyncQueues : dr[q] = << >> /\ outbox[q] = << >>
  BY DEF BatchInit, Init, ProducerInit
<1> QED
  BY <1>1, <1>2, <1>3, <1>4, <1>5, <1>6 DEF BatchTypes, BatchTypeOK

\* A worker that reads batches is type correct for every application, topology and size
\* of batch; while a batch is handled, message_context has the list of its messages, so
\* that on_success and on_fail are passed one.
THEOREM BatchTypeCorrect == BatchSpec => []BatchTypeOK
<1>1. BatchTypes => BatchTypeOK
  BY DEF BatchTypes
<1> QED
  BY <1>1, BatchTypesInit, BatchTypesStep, PTL DEF BatchSpec

-----------------------------------------------------------------------------
(* At-least-once delivery of batches, for the applications of the section  *)
(* on outputs in flight (SingleOutput), whether or not failures stop them  *)
(* and signals are sent.                                                   *)

\* Messages that may be forgotten, as BatchAtLeastOnce has it.
Ok == {m \in Messages : BatchSettled(m) \/ m \in mishandled}

\* The messages that the offset of m stands for.
UpTo(m) == {n \in Messages : partition(n) = partition(m) /\ offset(n) <= offset(m)}

\* The batches on their way to a callback, by name: those whose reports wait, those
\* whose outputs are in flight, and the one in hand.
InHand == IF Hand THEN <<msg>> ELSE << >>

LenOf(waiting, flying, hand) == Len(waiting) + Len(flying) + Len(hand)

LineOf(waiting, flying, hand) ==
    [i \in 1..LenOf(waiting, flying, hand) |->
        IF i <= Len(waiting) THEN waiting[i][1]
        ELSE IF i <= Len(waiting) + Len(flying) THEN flying[i - Len(waiting)][1]
        ELSE hand[i - Len(waiting) - Len(flying)]]

LineLen(q) == LenOf(dr[q], outbox[q], InHand)

Line(q) == LineOf(dr[q], outbox[q], InHand)

\* m is of one of the first k batches in line.
InBatch(q, k, m) == \E i \in 1..k : m \in Range(message_context[Line(q)[i]])

\* What on_success will acknowledge for a batch is of that batch or of one before it in
\* line, or may be forgotten already.
CoversLine(q) ==
    \A k \in 1..LineLen(q) :
        \A m \in Range(message_context[Line(q)[k]]) :
            \A n \in UpTo(m) : n \in Ok \/ InBatch(q, k, n)

\* The main thread may still get to read another batch.
Reading ==
    \/ pc \in {"loop", "poll", "down"}
    \/ Hand
    \/ pc = "produce" /\ reports = {OneReport}

ReadInLine(q) ==
    Reading => \A m \in Messages :
                  Below(m, position) => m \in Ok \/ InBatch(q, LineLen(q), m)

\* What a running on_success has still to acknowledge may be forgotten.
RunCovers ==
    \A t \in Threads :
        /\ call[t].at \in Succeeding => UpTo(call[t].msg) \subseteq Ok
        /\ \A i \in DOMAIN rest[t] : UpTo(rest[t][i]) \subseteq Ok

CoveredIsOk ==
    \A m \in Messages : Below(m, stored) \/ Below(m, committed) => m \in Ok

ContextsRead == \A m \in Messages : message_context[m] # << >> => Below(m, position)

ReportsTrue(q) == \A i \in DOMAIN dr[q] : dr[q][i][2] => Settled(dr[q][i][1])

\* The only output of a batch is all that it is due, once it is decided on.
DueInFlight(q) ==
    /\ \A i \in DOMAIN outbox[q] :
          outbox[q][i][2] = 1 /\ due[outbox[q][i][1]] \subseteq {1}
    /\ pc = "produce" /\ outs # << >> => due[msg] \subseteq {1}

HandUndecided == pc \in {"handle", "work"} => Decision \in due[msg]

\* A batch that failed aborts the main thread: on_fail has no topic() to log.
MarkAborts == pc = "mark" => call[Main].at = "topic"

BatchLineInv(q) ==
    /\ CoversLine(q)
    /\ ReadInLine(q)
    /\ RunCovers
    /\ CoveredIsOk
    /\ ContextsRead
    /\ ReportsTrue(q)
    /\ DueInFlight(q)
    /\ HandUndecided

BatchMainInv(q) == MarkAborts /\ Verdict(q) /\ NoOutsYet

-----------------------------------------------------------------------------
(* The line of batches, step by step *)

LEMMA LineParts ==
    ASSUME NEW waiting \in Seq(Messages \X BOOLEAN), NEW flying \in Seq(Outputs),
           NEW hand \in Seq(Messages)
    PROVE  LET a == Len(waiting)
               b == Len(flying)
               n == LenOf(waiting, flying, hand)
               line == LineOf(waiting, flying, hand)
           IN  /\ a \in Nat /\ b \in Nat /\ n \in Nat /\ n = a + b + Len(hand)
               /\ \A k \in 1..a : k \in 1..n /\ line[k] = waiting[k][1]
               /\ \A k \in 1..b : a + k \in 1..n /\ line[a + k] = flying[k][1]
               /\ \A k \in 1..Len(hand) :
                      a + b + k \in 1..n /\ line[a + b + k] = hand[k]
               /\ \A k \in 1..n : line[k] \in Messages
               /\ \A k \in 1..n : \/ k \in 1..a
                                  \/ k - a \in 1..b
                                  \/ k - a - b \in 1..Len(hand)
<1> DEFINE a == Len(waiting)
           b == Len(flying)
           c == Len(hand)
           n == LenOf(waiting, flying, hand)
           line == LineOf(waiting, flying, hand)
<1>1. a \in Nat /\ b \in Nat /\ c \in Nat /\ n = a + b + c /\ n \in Nat
  BY DEF LenOf
<1>2. \A k \in 1..n :
          line[k] = IF k <= a THEN waiting[k][1]
                    ELSE IF k <= a + b THEN flying[k - a][1] ELSE hand[k - a - b]
  BY DEF LineOf
<1>3. /\ \A k \in 1..a : waiting[k][1] \in Messages
      /\ \A k \in 1..b : flying[k][1] \in Messages
      /\ \A k \in 1..c : hand[k] \in Messages
  <2>1. /\ \A k \in 1..a : waiting[k] \in Messages \X BOOLEAN
        /\ \A k \in 1..b : flying[k] \in Outputs
    OBVIOUS
  <2> QED
    BY <2>1 DEF Outputs
<1> HIDE DEF a, b, c, n, line
<1>4. ASSUME NEW k \in 1..a PROVE k \in 1..n /\ line[k] = waiting[k][1]
  BY <1>1, <1>2
<1>5. ASSUME NEW k \in 1..b PROVE a + k \in 1..n /\ line[a + k] = flying[k][1]
  <2> DEFINE i == a + k
  <2>1. i \in 1..n /\ ~(i <= a) /\ i <= a + b /\ i - a = k
    BY <1>1
  <2> HIDE DEF i
  <2>2. line[i] = flying[i - a][1]
    BY <1>2, <2>1
  <2> QED
    BY <2>1, <2>2 DEF i
<1>6. ASSUME NEW k \in 1..c PROVE a + b + k \in 1..n /\ line[a + b + k] = hand[k]
  <2> DEFINE i == a + b + k
  <2>1. i \in 1..n /\ ~(i <= a) /\ ~(i <= a + b) /\ i - a - b = k
    BY <1>1
  <2> HIDE DEF i
  <2>2. line[i] = hand[i - a - b]
    BY <1>2, <2>1
  <2> QED
    BY <2>1, <2>2 DEF i
<1>7. ASSUME NEW k \in 1..n
      PROVE  k \in 1..a \/ k - a \in 1..b \/ k - a - b \in 1..c
  BY <1>1
<1>8. ASSUME NEW k \in 1..n PROVE line[k] \in Messages
  <2>1. CASE k \in 1..a
    BY <1>3, <1>4, <2>1
  <2>2. CASE k - a \in 1..b
    <3>1. a + (k - a) = k
      BY <1>1
    <3> QED
      BY <1>3, <1>5, <2>2, <3>1
  <2>3. CASE k - a - b \in 1..c
    <3>1. a + b + (k - a - b) = k
      BY <1>1
    <3> QED
      BY <1>3, <1>6, <2>3, <3>1
  <2> QED
    BY <1>7, <2>1, <2>2, <2>3
<1> QED
  BY <1>1, <1>4, <1>5, <1>6, <1>7, <1>8 DEF a, b, c, n, line

\* The first d leave the line, and what is left of it keeps its order.
ShiftOf(w, f, h, w1, f1, h1, d) ==
    \A k \in 1..LenOf(w1, f1, h1) :
        /\ k + d \in 1..LenOf(w, f, h)
        /\ LineOf(w1, f1, h1)[k] = LineOf(w, f, h)[k + d]

Shift(q, d) == ShiftOf(dr[q], outbox[q], InHand, dr'[q], outbox'[q], InHand', d)

\* s1 is s without its first element.
DropsFirst(s, s1) == Len(s) = Len(s1) + 1 /\ \A k \in 1..Len(s1) : s1[k] = s[k + 1]

\* s1 is s with one element more.
AddsLast(s, s1) == Len(s1) = Len(s) + 1 /\ \A k \in 1..Len(s) : s1[k] = s[k]

\* The first output of f is reported at the end of w.
MovesFirst(f, f1, w, w1) ==
    AddsLast(w, w1) /\ DropsFirst(f, f1) /\ w1[Len(w) + 1][1] = f[1][1]

\* What was in hand is dropped.
LEMMA LineDrops ==
    ASSUME NEW w \in Seq(Messages \X BOOLEAN), NEW f \in Seq(Outputs),
           NEW h \in Seq(Messages), NEW h1 \in Seq(Messages), Len(h1) = 0
    PROVE  ShiftOf(w, f, h, w, f, h1, 0)
<1> DEFINE a == Len(w)
           b == Len(f)
           n == LenOf(w, f, h)
           m == LenOf(w, f, h1)
           s == LineOf(w, f, h)
           r == LineOf(w, f, h1)
<1>1. /\ a \in Nat /\ b \in Nat /\ n \in Nat
      /\ \A k \in 1..a : k \in 1..n /\ s[k] = w[k][1]
      /\ \A k \in 1..b : a + k \in 1..n /\ s[a + k] = f[k][1]
  BY LineParts
<1>2. /\ m = a + b + Len(h1)
      /\ \A k \in 1..a : k \in 1..m /\ r[k] = w[k][1]
      /\ \A k \in 1..b : a + k \in 1..m /\ r[a + k] = f[k][1]
  BY LineParts
<1> HIDE DEF a, b, n, m, s, r
<1>3. m = a + b
  BY <1>1, <1>2
<1>4. ASSUME NEW k \in 1..m PROVE k + 0 \in 1..n /\ r[k] = s[k + 0]
  <2>1. CASE k \in 1..a
    BY <1>1, <1>2, <2>1
  <2>2. CASE k - a \in 1..b
    <3> DEFINE i == k - a
    <3>1. a + i = k /\ i \in 1..b /\ k + 0 = k
      BY <1>1, <1>3, <2>2
    <3> HIDE DEF i
    <3> QED
      BY <1>1, <1>2, <3>1
  <2> QED
    BY <1>1, <1>3, <2>1, <2>2
<1> QED
  BY <1>4 DEF ShiftOf, n, m, s, r

\* The output of the batch in hand is produced.
LEMMA LineProduces ==
    ASSUME NEW w \in Seq(Messages \X BOOLEAN), NEW f \in Seq(Outputs),
           NEW g \in Seq(Outputs), NEW h \in Seq(Messages), NEW h1 \in Seq(Messages),
           AddsLast(f, g), Len(h) = 1, h[1] = g[Len(f) + 1][1], Len(h1) = 0
    PROVE  ShiftOf(w, f, h, w, g, h1, 0) /\ LenOf(w, g, h1) = LenOf(w, f, h)
<1> DEFINE a == Len(w)
           b == Len(f)
           b1 == Len(g)
           c == Len(h)
           c1 == Len(h1)
           n == LenOf(w, f, h)
           m == LenOf(w, g, h1)
           s == LineOf(w, f, h)
           r == LineOf(w, g, h1)
<1>1. /\ a \in Nat /\ b \in Nat /\ n \in Nat /\ n = a + b + c
      /\ \A k \in 1..a : k \in 1..n /\ s[k] = w[k][1]
      /\ \A k \in 1..b : a + k \in 1..n /\ s[a + k] = f[k][1]
      /\ \A k \in 1..c : a + b + k \in 1..n /\ s[a + b + k] = h[k]
  BY LineParts
<1>2. /\ m = a + b1 + c1
      /\ \A k \in 1..a : k \in 1..m /\ r[k] = w[k][1]
      /\ \A k \in 1..b1 : a + k \in 1..m /\ r[a + k] = g[k][1]
  BY LineParts
<1>3. /\ b1 = b + 1 /\ c = 1 /\ c1 = 0
      /\ (\A k \in 1..b : g[k] = f[k]) /\ h[1] = g[b + 1][1]
  BY DEF AddsLast
<1> HIDE DEF b1, c, c1, a, b, n, m, s, r
<1>4. m = a + b + 1 /\ n = a + b + 1
  BY <1>1, <1>2, <1>3
<1>5. ASSUME NEW k \in 1..m PROVE k + 0 \in 1..n /\ r[k] = s[k + 0]
  <2>0. k + 0 = k /\ k \in 1..n
    BY <1>4
  <2>1. CASE k \in 1..a
    BY <1>1, <1>2, <2>0, <2>1
  <2>2. CASE k - a \in 1..b
    <3> DEFINE i == k - a
    <3>1. a + i = k /\ i \in 1..b /\ i \in 1..b1
      BY <1>1, <1>3, <1>4, <2>2
    <3> HIDE DEF i
    <3>2. g[i] = f[i] /\ r[a + i] = g[i][1] /\ s[a + i] = f[i][1]
      BY <1>1, <1>2, <1>3, <3>1
    <3> QED
      BY <2>0, <3>1, <3>2
  <2>3. CASE k = a + b + 1
    <3>1. a + (b + 1) = k /\ b + 1 \in 1..b1 /\ 1 \in 1..c
      BY <1>1, <1>3, <2>3
    <3>2. r[a + (b + 1)] = g[b + 1][1] /\ s[a + b + 1] = h[1]
      BY <1>1, <1>2, <3>1
    <3> QED
      BY <1>3, <2>0, <2>3, <3>1, <3>2
  <2> QED
    BY <1>1, <1>4, <2>1, <2>2, <2>3
<1> QED
  BY <1>4, <1>5 DEF ShiftOf, n, m, s, r

\* The first output in flight is reported.
LEMMA LineReports ==
    ASSUME NEW w \in Seq(Messages \X BOOLEAN), NEW w1 \in Seq(Messages \X BOOLEAN),
           NEW f \in Seq(Outputs), NEW f1 \in Seq(Outputs), NEW h \in Seq(Messages),
           MovesFirst(f, f1, w, w1)
    PROVE  ShiftOf(w, f, h, w1, f1, h, 0) /\ LenOf(w1, f1, h) = LenOf(w, f, h)
<1> DEFINE a == Len(w)
           b == Len(f1)
           c == Len(h)
           a1 == Len(w1)
           b1 == Len(f)
           n == LenOf(w, f, h)
           m == LenOf(w1, f1, h)
           s == LineOf(w, f, h)
           r == LineOf(w1, f1, h)
<1>1. /\ a \in Nat /\ b1 \in Nat /\ n \in Nat /\ n = a + b1 + c
      /\ \A k \in 1..a : k \in 1..n /\ s[k] = w[k][1]
      /\ \A k \in 1..b1 : a + k \in 1..n /\ s[a + k] = f[k][1]
      /\ \A k \in 1..c : a + b1 + k \in 1..n /\ s[a + b1 + k] = h[k]
  BY LineParts
<1>2. /\ a1 \in Nat /\ b \in Nat /\ m = a1 + b + c
      /\ \A k \in 1..a1 : k \in 1..m /\ r[k] = w1[k][1]
      /\ \A k \in 1..b : a1 + k \in 1..m /\ r[a1 + k] = f1[k][1]
      /\ \A k \in 1..c : a1 + b + k \in 1..m /\ r[a1 + b + k] = h[k]
  BY LineParts
<1>3. /\ a1 = a + 1 /\ b1 = b + 1 /\ c \in Nat
      /\ \A k \in 1..a : w1[k] = w[k]
      /\ \A k \in 1..b : f1[k] = f[k + 1]
      /\ w1[a + 1][1] = f[1][1]
  BY DEF MovesFirst, AddsLast, DropsFirst
<1> HIDE DEF a1, b1, a, b, c, n, m, s, r
<1>4. m = a + b + c + 1 /\ n = m
  BY <1>1, <1>2, <1>3
<1>5. ASSUME NEW k \in 1..m PROVE k + 0 \in 1..n /\ r[k] = s[k + 0]
  <2>0. k + 0 = k /\ k \in 1..n /\ k \in Nat
    BY <1>2, <1>3, <1>4
  <2>1. CASE k \in 1..a
    <3>1. k \in 1..a1
      BY <1>1, <1>3, <2>1
    <3>2. r[k] = w1[k][1] /\ s[k] = w[k][1] /\ w1[k] = w[k]
      BY <1>1, <1>2, <1>3, <2>1, <3>1
    <3> QED
      BY <2>0, <3>2
  <2>2. CASE k = a + 1
    <3>1. k \in 1..a1 /\ 1 \in 1..b1
      BY <1>1, <1>2, <1>3, <2>2
    <3>2. r[k] = w1[k][1] /\ s[a + 1] = f[1][1]
      BY <1>1, <1>2, <3>1
    <3> QED
      BY <1>3, <2>0, <2>2, <3>2
  <2>3. CASE k - (a + 1) \in 1..b
    <3> DEFINE i == k - (a + 1)
    <3>1. i \in 1..b /\ a1 + i = k /\ i + 1 \in 1..b1 /\ a + (i + 1) = k
      BY <1>1, <1>2, <1>3, <2>0, <2>3
    <3> HIDE DEF i
    <3>2. r[a1 + i] = f1[i][1] /\ s[a + (i + 1)] = f[i + 1][1] /\ f1[i] = f[i + 1]
      BY <1>1, <1>2, <1>3, <3>1
    <3> QED
      BY <2>0, <3>1, <3>2
  <2>4. CASE k - (a + 1 + b) \in 1..c
    <3> DEFINE i == k - (a + 1 + b)
    <3>1. i \in 1..c /\ a1 + b + i = k /\ a + b1 + i = k
      BY <1>1, <1>2, <1>3, <2>0, <2>4
    <3> HIDE DEF i
    <3>2. r[a1 + b + i] = h[i] /\ s[a + b1 + i] = h[i]
      BY <1>1, <1>2, <3>1
    <3> QED
      BY <2>0, <3>1, <3>2
  <2> QED
    BY <1>1, <1>2, <1>3, <1>4, <2>0, <2>1, <2>2, <2>3, <2>4
<1> QED
  BY <1>4, <1>5 DEF ShiftOf, n, m, s, r

\* The callback of the first report takes it from the line.
LEMMA LineCalls ==
    ASSUME NEW w \in Seq(Messages \X BOOLEAN), NEW w1 \in Seq(Messages \X BOOLEAN),
           NEW f \in Seq(Outputs), NEW h \in Seq(Messages),
           DropsFirst(w, w1)
    PROVE  /\ ShiftOf(w, f, h, w1, f, h, 1) /\ LenOf(w1, f, h) + 1 = LenOf(w, f, h)
           /\ 1 \in 1..LenOf(w, f, h) /\ LineOf(w, f, h)[1] = w[1][1]
<1> DEFINE a == Len(w1)
           b == Len(f)
           c == Len(h)
           a1 == Len(w)
           n == LenOf(w, f, h)
           m == LenOf(w1, f, h)
           s == LineOf(w, f, h)
           r == LineOf(w1, f, h)
<1>1. /\ a1 \in Nat /\ b \in Nat /\ n \in Nat /\ n = a1 + b + c
      /\ \A k \in 1..a1 : k \in 1..n /\ s[k] = w[k][1]
      /\ \A k \in 1..b : a1 + k \in 1..n /\ s[a1 + k] = f[k][1]
      /\ \A k \in 1..c : a1 + b + k \in 1..n /\ s[a1 + b + k] = h[k]
  BY LineParts
<1>2. /\ a \in Nat /\ m = a + b + c
      /\ \A k \in 1..a : k \in 1..m /\ r[k] = w1[k][1]
      /\ \A k \in 1..b : a + k \in 1..m /\ r[a + k] = f[k][1]
      /\ \A k \in 1..c : a + b + k \in 1..m /\ r[a + b + k] = h[k]
  BY LineParts
<1>3. a1 = a + 1 /\ c \in Nat /\ \A k \in 1..a : w1[k] = w[k + 1]
  BY DEF DropsFirst
<1> HIDE DEF a1, a, b, c, n, m, s, r
<1>4. m = a + b + c /\ n = m + 1
  BY <1>1, <1>2, <1>3
<1>5. ASSUME NEW k \in 1..m PROVE k + 1 \in 1..n /\ r[k] = s[k + 1]
  <2>0. k + 1 \in 1..n /\ k \in Nat
    BY <1>1, <1>2, <1>3, <1>4
  <2>1. CASE k \in 1..a
    <3>1. k + 1 \in 1..a1
      BY <1>2, <1>3, <2>1
    <3>2. r[k] = w1[k][1] /\ s[k + 1] = w[k + 1][1] /\ w1[k] = w[k + 1]
      BY <1>1, <1>2, <1>3, <2>1, <3>1
    <3> QED
      BY <2>0, <3>2
  <2>2. CASE k - a \in 1..b
    <3> DEFINE i == k - a
    <3>1. i \in 1..b /\ a + i = k /\ a1 + i = k + 1
      BY <1>1, <1>2, <1>3, <2>0, <2>2
    <3> HIDE DEF i
    <3>2. r[a + i] = f[i][1] /\ s[a1 + i] = f[i][1]
      BY <1>1, <1>2, <3>1
    <3> QED
      BY <2>0, <3>1, <3>2
  <2>3. CASE k - (a + b) \in 1..c
    <3> DEFINE i == k - (a + b)
    <3>1. i \in 1..c /\ a + b + i = k /\ a1 + b + i = k + 1
      BY <1>1, <1>2, <1>3, <2>0, <2>3
    <3> HIDE DEF i
    <3>2. r[a + b + i] = h[i] /\ s[a1 + b + i] = h[i]
      BY <1>1, <1>2, <3>1
    <3> QED
      BY <2>0, <3>1, <3>2
  <2> QED
    BY <1>1, <1>2, <1>3, <1>4, <2>0, <2>1, <2>2, <2>3
<1>6. 1 \in 1..n /\ s[1] = w[1][1]
  <2>1. 1 \in 1..a1
    BY <1>2, <1>3
  <2> QED
    BY <1>1, <2>1
<1> QED
  BY <1>4, <1>5, <1>6 DEF ShiftOf, n, m, s, r

\* A batch comes into hand, last in line.
LEMMA LineReads ==
    ASSUME NEW w \in Seq(Messages \X BOOLEAN), NEW f \in Seq(Outputs),
           NEW h \in Seq(Messages), NEW h1 \in Seq(Messages), Len(h) = 0, Len(h1) = 1
    PROVE  /\ LenOf(w, f, h) \in Nat /\ LenOf(w, f, h1) = LenOf(w, f, h) + 1
           /\ \A k \in 1..LenOf(w, f, h) :
                 /\ k \in 1..LenOf(w, f, h1)
                 /\ LineOf(w, f, h1)[k] = LineOf(w, f, h)[k]
           /\ LineOf(w, f, h1)[LenOf(w, f, h1)] = h1[1]
<1> DEFINE a == Len(w)
           b == Len(f)
           n == LenOf(w, f, h)
           m == LenOf(w, f, h1)
           s == LineOf(w, f, h)
           r == LineOf(w, f, h1)
<1>1. /\ a \in Nat /\ b \in Nat /\ n \in Nat /\ n = a + b + Len(h)
      /\ \A k \in 1..a : k \in 1..n /\ s[k] = w[k][1]
      /\ \A k \in 1..b : a + k \in 1..n /\ s[a + k] = f[k][1]
  BY LineParts
<1>2. /\ m = a + b + Len(h1)
      /\ \A k \in 1..a : k \in 1..m /\ r[k] = w[k][1]
      /\ \A k \in 1..b : a + k \in 1..m /\ r[a + k] = f[k][1]
      /\ \A k \in 1..Len(h1) : a + b + k \in 1..m /\ r[a + b + k] = h1[k]
  BY LineParts
<1> HIDE DEF a, b, n, m, s, r
<1>3. n = a + b /\ m = n + 1
  BY <1>1, <1>2
<1>4. ASSUME NEW k \in 1..n PROVE k \in 1..m /\ r[k] = s[k]
  <2>1. CASE k \in 1..a
    BY <1>1, <1>2, <2>1
  <2>2. CASE k - a \in 1..b
    <3> DEFINE i == k - a
    <3>1. a + i = k /\ i \in 1..b
      BY <1>1, <1>3, <2>2
    <3> HIDE DEF i
    <3> QED
      BY <1>1, <1>2, <3>1
  <2> QED
    BY <1>1, <1>3, <2>1, <2>2
<1>5. r[m] = h1[1]
  <2>1. 1 \in 1..Len(h1) /\ a + b + 1 = m
    BY <1>1, <1>3
  <2> QED
    BY <1>2, <2>1
<1> QED
  BY <1>1, <1>3, <1>4, <1>5 DEF n, m, s, r

\* What the types say of the line, before and after a step.
LEMMA LineTypes ==
    ASSUME BatchTypes, BatchTypes', NEW q \in AsyncQueues
    PROVE  /\ dr[q] \in Seq(Messages \X BOOLEAN) /\ dr'[q] \in Seq(Messages \X BOOLEAN)
           /\ outbox[q] \in Seq(Outputs) /\ outbox'[q] \in Seq(Outputs)
           /\ InHand \in Seq(Messages) /\ InHand' \in Seq(Messages)
           /\ LineLen(q) \in Nat /\ LineLen(q)' \in Nat
           /\ \A k \in 1..LineLen(q) :
                 Line(q)[k] \in Messages /\ message_context[Line(q)[k]] # << >>
<1> DEFINE w == dr[q]
           f == outbox[q]
           a == Len(w)
           b == Len(f)
           c == Len(InHand)
           n == LineLen(q)
           s == Line(q)
<1>1. /\ w \in Seq(Messages \X BOOLEAN) /\ dr'[q] \in Seq(Messages \X BOOLEAN)
      /\ f \in Seq(Outputs) /\ outbox'[q] \in Seq(Outputs)
  BY DEF BatchTypes, BatchTypeOK, ProducerTypeOK
<1>2. Hand => msg \in Messages /\ message_context[msg] # << >>
  BY DEF Hand, Holding, EngineTypeOK, BatchTypes, BatchTypeOK
<1>3. Hand' => msg' \in Messages
  BY DEF Hand, Holding, EngineTypeOK, BatchTypes, BatchTypeOK
<1>4. InHand \in Seq(Messages) /\ InHand' \in Seq(Messages)
  BY <1>2, <1>3 DEF InHand
<1>5. /\ a \in Nat /\ b \in Nat /\ n \in Nat
      /\ \A k \in 1..a : k \in 1..n /\ s[k] = w[k][1]
      /\ \A k \in 1..b : a + k \in 1..n /\ s[a + k] = f[k][1]
      /\ \A k \in 1..c : a + b + k \in 1..n /\ s[a + b + k] = InHand[k]
      /\ \A k \in 1..n : s[k] \in Messages
      /\ \A k \in 1..n : k \in 1..a \/ k - a \in 1..b \/ k - a - b \in 1..c
  BY <1>1, <1>4, LineParts DEF LineLen, Line
<1>6. LineLen(q)' \in Nat
  BY <1>1, <1>4, LineParts DEF LineLen
<1>7. /\ \A k \in 1..a : message_context[w[k][1]] # << >>
      /\ \A k \in 1..b : message_context[f[k][1]] # << >>
  <2>1. DOMAIN w = 1..a /\ DOMAIN f = 1..b
    BY <1>1
  <2> QED
    BY <2>1 DEF BatchTypes
<1>8. \A k \in 1..c : message_context[InHand[k]] # << >>
  BY <1>2 DEF InHand
<1> HIDE DEF w, f, a, b, c, n, s
<1>9. ASSUME NEW k \in 1..n PROVE message_context[s[k]] # << >>
  <2>1. CASE k \in 1..a
    BY <1>5, <1>7, <2>1
  <2>2. CASE k - a \in 1..b
    <3> DEFINE i == k - a
    <3>1. i \in 1..b /\ a + i = k
      BY <1>5, <2>2
    <3> HIDE DEF i
    <3>2. s[a + i] = f[i][1]
      BY <1>5, <3>1
    <3> QED
      BY <1>7, <3>1, <3>2
  <2>3. CASE k - a - b \in 1..c
    <3> DEFINE i == k - a - b
    <3>1. i \in 1..c /\ a + b + i = k
      BY <1>5, <2>3
    <3> HIDE DEF i
    <3>2. s[a + b + i] = InHand[i]
      BY <1>5, <3>1
    <3> QED
      BY <1>8, <3>1, <3>2
  <2> QED
    BY <1>5, <2>1, <2>2, <2>3
<1> QED
  BY <1>1, <1>4, <1>5, <1>6, <1>9 DEF w, f, n, s

\* How a step moves the line: a batch is read, a report has its callback, or none leaves
\* it, but for the one in hand when no other will be read.
LEMMA LineStep ==
    ASSUME NEW q, SingleOutput(q), BatchTypes, BatchTypes', BatchMainInv(q),
           [BatchNext]_allVars, ~DieBatch, ~(\E batch \in Batches : PollBatch(batch)),
           ~(\E t \in Threads : ServeBatch(t, q))
    PROVE  Shift(q, 0) /\ (LineLen(q)' = LineLen(q) \/ ~Reading')
<1> USE DEF SingleOutput
<1>0. /\ q \in AsyncQueues
      /\ dr[q] \in Seq(Messages \X BOOLEAN) /\ dr'[q] \in Seq(Messages \X BOOLEAN)
      /\ outbox[q] \in Seq(Outputs) /\ outbox'[q] \in Seq(Outputs)
      /\ InHand \in Seq(Messages) /\ InHand' \in Seq(Messages)
      /\ LineLen(q) \in Nat
  BY LineTypes
<1>1. ASSUME dr'[q] = dr[q], outbox'[q] = outbox[q], InHand' = InHand
      PROVE  Shift(q, 0) /\ LineLen(q)' = LineLen(q)
  <2>1. LineLen(q)' = LineLen(q) /\ Line(q)' = Line(q) /\ LineLen(q) \in Nat
    BY <1>0, <1>1 DEF LineLen, Line
  <2>2. \A k \in 1..LineLen(q) : k + 0 = k
    BY <2>1
  <2> QED
    BY <1>1, <2>1, <2>2 DEF Shift, ShiftOf, LineLen, Line
<1>2. ASSUME dr'[q] = dr[q], outbox'[q] = outbox[q], InHand' = << >>, ~Reading'
      PROVE  Shift(q, 0) /\ (LineLen(q)' = LineLen(q) \/ ~Reading')
  <2>1. Len(InHand') = 0
    BY <1>2
  <2> QED
    BY <1>0, <1>2, <2>1, LineDrops DEF Shift
<1>3. CASE ProduceAsync
  <2>1. outs = <<q>> /\ Head(outs) = q /\ Tail(outs) = << >>
    BY <1>3 DEF ProduceAsync, Produce, BatchMainInv, Verdict
  <2> DEFINE e == <<msg, Len(outs)>>
  <2>2. /\ Hand /\ ~Hand' /\ dr' = dr /\ outbox'[q] = Append(outbox[q], e)
    BY <1>0, <1>3, <2>1
    DEF ProduceAsync, Produce, Enqueue, Hand, BatchTypes, BatchTypeOK,
                            ProducerTypeOK
  <2>3. InHand = <<msg>> /\ InHand' = << >>
    BY <2>2 DEF InHand
  <2>4. e \in Outputs /\ e[1] = msg
    BY <1>3 DEF ProduceAsync, Produce, EngineTypeOK, Holding, Outputs, BatchTypes,
                BatchTypeOK
  <2> HIDE DEF e
  <2>5. /\ Len(outbox'[q]) = Len(outbox[q]) + 1
        /\ \A k \in 1..Len(outbox[q]) : outbox'[q][k] = outbox[q][k]
        /\ outbox'[q][Len(outbox[q]) + 1] = e
    BY <1>0, <2>2, <2>4, AppendProperties
  <2>6. Len(InHand) = 1 /\ InHand[1] = e[1] /\ Len(InHand') = 0
    BY <2>3, <2>4
  <2> DEFINE w == dr[q]
             f == outbox[q]
             g == outbox'[q]
             h == InHand
             h1 == InHand'
  <2>7. /\ w \in Seq(Messages \X BOOLEAN) /\ f \in Seq(Outputs) /\ g \in Seq(Outputs)
        /\ h \in Seq(Messages) /\ h1 \in Seq(Messages)
        /\ AddsLast(f, g) /\ Len(h) = 1 /\ h[1] = g[Len(f) + 1][1] /\ Len(h1) = 0
    BY <1>0, <2>5, <2>6 DEF AddsLast
  <2>8. dr'[q] = w
    BY <2>2
  <2> HIDE DEF w, f, g, h, h1
  <2>9. ShiftOf(w, f, h, w, g, h1, 0) /\ LenOf(w, g, h1) = LenOf(w, f, h)
    BY <2>7, LineProduces
  <2> QED
    BY <2>8, <2>9 DEF Shift, LineLen, w, f, g, h, h1
<1>4. ASSUME Outcome(q) PROVE Shift(q, 0) /\ LineLen(q)' = LineLen(q)
  <2>1. PICK i \in DOMAIN outbox[q], ok \in BOOLEAN :
                Report(q, i, ok) /\ UNCHANGED engineVars
    BY <1>4 DEF Outcome, Deliver, Reject
  <2> DEFINE e == <<outbox[q][1][1], ok>>
  <2>2. /\ i = 1 /\ outbox'[q] = RemoveAt(outbox[q], 1) /\ dr'[q] = Append(dr[q], e)
        /\ InHand' = InHand
    BY <1>0, <2>1
    DEF Report, BatchTypes, BatchTypeOK, ProducerTypeOK, engineVars, InHand,
                      Hand
  <2>3. /\ Len(outbox[q]) \in Nat /\ 1 \in 1..Len(outbox[q])
        /\ outbox'[q] \in Seq(Outputs)
        /\ DOMAIN outbox'[q] = 1..(Len(outbox[q]) - 1)
        /\ \A k \in 1..(Len(outbox[q]) - 1) : outbox'[q][k] = outbox[q][k + 1]
    <3>1. outbox[q] \in Seq(Outputs) /\ 1 \in DOMAIN outbox[q]
      BY <1>0, <2>1, <2>2
    <3>2. /\ RemoveAt(outbox[q], 1) \in Seq(Outputs)
          /\ DOMAIN outbox[q] = 1..Len(outbox[q]) /\ Len(outbox[q]) \in Nat
          /\ DOMAIN RemoveAt(outbox[q], 1) = 1..(Len(outbox[q]) - 1)
          /\ \A k \in 1..(Len(outbox[q]) - 1) :
                RemoveAt(outbox[q], 1)[k]
                    = IF k < 1 THEN outbox[q][k] ELSE outbox[q][k + 1]
      BY <3>1, RemoveParts
    <3>3. \A k \in 1..(Len(outbox[q]) - 1) : ~(k < 1)
      BY <3>2
    <3> QED
      BY <2>2, <3>1, <3>2, <3>3
  <2>4. Len(outbox[q]) = Len(outbox'[q]) + 1
    <3>1. DOMAIN outbox'[q] = 1..Len(outbox'[q]) /\ Len(outbox'[q]) \in Nat
      BY <2>3
    <3> DEFINE x == Len(outbox[q])
               y == Len(outbox'[q])
    <3>2. 1..y = 1..(x - 1) /\ x \in Nat /\ y \in Nat /\ 1 \in 1..x
      BY <2>3, <3>1
    <3> HIDE DEF x, y
    <3>3. y = x - 1
      BY <3>2
    <3>4. x = y + 1
      BY <3>2, <3>3
    <3> QED
      BY <3>4 DEF x, y
  <2>5. e \in Messages \X BOOLEAN /\ e[1] = outbox[q][1][1]
    <3>1. outbox[q][1] \in Outputs
      BY <1>0, <2>1, <2>2
    <3> QED
      BY <3>1 DEF Outputs
  <2> HIDE DEF e
  <2>6. /\ Len(dr'[q]) = Len(dr[q]) + 1
        /\ \A k \in 1..Len(dr[q]) : dr'[q][k] = dr[q][k]
        /\ dr'[q][Len(dr[q]) + 1] = e
    BY <1>0, <2>2, <2>5, AppendProperties
  <2>7. \A k \in 1..Len(outbox'[q]) : outbox'[q][k] = outbox[q][k + 1]
    BY <2>3, <2>4
  <2> DEFINE waiting == dr[q]
             waits == dr'[q]
             flying == outbox[q]
             flies == outbox'[q]
             hand == InHand
  <2>8. /\ waiting \in Seq(Messages \X BOOLEAN) /\ waits \in Seq(Messages \X BOOLEAN)
        /\ flying \in Seq(Outputs) /\ flies \in Seq(Outputs) /\ hand \in Seq(Messages)
        /\ MovesFirst(flying, flies, waiting, waits)
    BY <1>0, <2>4, <2>5, <2>6, <2>7 DEF MovesFirst, AddsLast, DropsFirst
  <2>9. InHand' = hand
    BY <2>2
  <2> HIDE DEF waiting, waits, flying, flies, hand
  <2>10. /\ ShiftOf(waiting, flying, hand, waits, flies, hand, 0)
         /\ LenOf(waits, flies, hand) = LenOf(waiting, flying, hand)
    BY ONLY <2>8, LineReports
  <2> QED
    BY <2>9, <2>10 DEF Shift, LineLen, waiting, waits, flying, flies, hand
<1>5. CASE LoopStep /\ ~ProduceAsync
  <2>1. UNCHANGED <<dr, outbox>>
    BY <1>5
    DEF LoopStep, CheckKillNow, PollNothing, PollRaises, Handle, Answer, AnswerList,
        Crash, ProduceSync, EnqueueFails, EndIteration, CloseConsumer, producerVars
  <2>2. \/ (Hand' <=> Hand) /\ msg' = msg
        \/ ~Hand' /\ ~Hand
        \/ ~Hand' /\ ~Reading'
    <3>1. ASSUME NEW b \in AppBools, Answer(b)
          PROVE  ~Hand' /\ ~Reading'
      <4>1. b = FALSE
        BY EngineAssumption
      <4>2. pc' = "produce" /\ outs' = << >> /\ reports' = {OneFailure}
        BY <3>1, <4>1 DEF Answer, WorkBool, BatchMainInv, NoOutsYet, OneFailure
      <4>3. OneFailure.status # OneReport.status
        BY DEF OneFailure, OneReport
      <4>4. {OneFailure} # {OneReport}
        BY <4>3
      <4> QED
        BY <4>2, <4>4 DEF Hand, Reading
    <3>2. ASSUME NEW l \in AppLists, AnswerList(l)
          PROVE  (Hand' <=> Hand) /\ msg' = msg
      <4>1. l = <<q>>
        OBVIOUS
      <4> QED
        BY <3>2, <4>1 DEF AnswerList, WorkList, Hand
    <3>3. ~EnqueueFails /\ ~\E st, d \in BOOLEAN : ProduceSync(st, d)
      BY DEF EnqueueFails, ProduceSync, Produce, BatchMainInv, Verdict
    <3>4. CASE CheckKillNow \/ PollNothing \/ PollRaises
      BY <3>4 DEF CheckKillNow, LoopAgain, LoopExit, PollNothing, ConsumeNone,
                  NextIteration, PollRaises, Abort, Hand
    <3>5. CASE Handle
      BY <3>5 DEF Handle, HandleValid, HandleInvalid, DLQNotConfigured, Hand, Reading
    <3>6. CASE Crash
      BY <3>6 DEF Crash, WorkRaises, ProduceRaises, Hand, Reading
    <3>7. CASE EndIteration \/ CloseConsumer
      BY <3>7 DEF EndIteration, Marked, NextIteration, CloseConsumer, ShutdownConsumer,
                  Hand
    <3> QED
      BY <1>5, <3>1, <3>2, <3>3, <3>4, <3>5, <3>6, <3>7 DEF LoopStep
  <2> QED
    BY <1>1, <1>2, <2>1, <2>2 DEF InHand
<1>6. ASSUME NEW t \in Threads, BatchCallStep(t)
      PROVE  Shift(q, 0) /\ (LineLen(q)' = LineLen(q) \/ ~Reading')
  <2>1. UNCHANGED <<dr, outbox>>
    <3>1. ThreadsOK
      BY DEF ThreadsOK, BatchTypes, BatchTypeOK, BatchConsumerTypeOK
    <3> QED
      BY <1>6, <3>1, CallOfOneThread
  <2>2. UNCHANGED <<pc, msg, outs>> \/ pc' = "aborted"
    BY <1>6 DEF BatchCallStep, StepCall, StepNextMessage, StepOnFail, Abort, engineVars
  <2> QED
    BY <1>1, <1>2, <2>1, <2>2 DEF InHand, Hand, Reading
<1>7. CASE CloseProducer \/ DispatchBatch
  <2>1. UNCHANGED <<dr, outbox>> /\ ~Hand /\ ~Hand'
    BY <1>7
    DEF CloseProducer, ShutdownProducer, Flushed, DispatchBatch, MarkSuccess, MarkFail,
        LeaveToCallback, Produced, NextIteration, producerVars, Hand
  <2> QED
    BY <1>1, <2>1 DEF InHand
<1>8. CASE \E batch \in Batches : JoinRaises(batch)
  <2>1. UNCHANGED <<dr, outbox>> /\ ~Hand /\ ~Hand'
    BY <1>8 DEF JoinRaises, Abort, producerVars, Hand
  <2> QED
    BY <1>1, <2>1 DEF InHand
<1>9. CASE Commit \/ Signal \/ Restart \/ Terminated \/ UNCHANGED allVars
  <2>1. UNCHANGED <<dr, outbox>>
        /\ ((UNCHANGED <<pc, msg, outs>>) \/ (~Hand /\ ~Hand'))
    BY <1>9 DEF Commit, Signal, exit_gracefully, Restart, Start, Terminated, allVars,
                vars, engineVars, producerVars, Hand
  <2> QED
    BY <1>1, <2>1 DEF InHand, Hand
<1> QED
  BY <1>3, <1>4, <1>5, <1>6, <1>7, <1>8, <1>9 DEF BatchNext, BatchMainStep, Elsewhere

-----------------------------------------------------------------------------
(* What a step may change of the batches, and of what may be forgotten *)

\* A batch is named after one of its own.
LEMMA NameIsOfBatch ==
    ASSUME NEW batch, batch \in Seq(Messages), batch # << >>
    PROVE  Name(batch) \in Range(batch)
<1>1. Head(batch) \in Range(batch)
  <2>1. 1 \in DOMAIN batch /\ Head(batch) = batch[1]
    BY HeadTailProperties, EmptySeq
  <2> QED
    BY <2>1 DEF Range
<1> QED
  BY <1>1 DEF Name

\* No batch is renamed, and no position goes back, while the process lives.
BatchesKept ==
    /\ \A n \in Messages :
          message_context[n] # << >> => message_context'[n] = message_context[n]
    /\ \A m \in Messages : Below(m, position) => Below(m, position')

LEMMA BatchesKeep ==
    ASSUME BatchTypes, ContextsRead, [BatchNext]_allVars, ~DieBatch
    PROVE  BatchesKept
<1> USE DEF BatchTypes, BatchTypeOK
<1>1. ASSUME NEW batch \in Batches, PollBatch(batch)
      PROVE  BatchesKept
  <2>1. /\ batch \in Seq(Messages) /\ batch # << >> /\ Range(batch) \subseteq Messages
        /\ \A m \in Messages : Below(m, position) => Below(m, position')
        /\ \A m \in Range(batch) : ~Below(m, position)
    BY <1>1, BatchIsNext DEF PollBatch, BatchConsumerTypeOK
  <2>2. Name(batch) \in Messages /\ message_context[Name(batch)] = << >>
    BY <2>1, NameIsOfBatch DEF ContextsRead
  <2> QED
    BY <1>1, <2>1, <2>2 DEF PollBatch, NamedAfter, BatchesKept
<1>2. ASSUME NEW batch \in Batches, JoinRaises(batch)
      PROVE  BatchesKept
  <2>1. \A m \in Messages : Below(m, position) => Below(m, position')
    BY <1>2, BatchIsNext DEF JoinRaises, BatchConsumerTypeOK
  <2> QED
    BY <1>2, <2>1 DEF JoinRaises, BatchesKept
<1>3. CASE UNCHANGED <<position, message_context>>
  BY <1>3 DEF BatchesKept, Below
<1>4. CASE LoopStep /\ UNCHANGED batchVars
  BY <1>3, <1>4
  DEF LoopStep, CheckKillNow, PollNothing, PollRaises, Handle, Answer, AnswerList,
      Crash, ProduceSync, ProduceAsync, EnqueueFails, EndIteration, CloseConsumer,
      Close, batchVars, consumerVars
<1>5. CASE DispatchBatch \/ (CloseProducer /\ UNCHANGED batchVars)
  BY <1>3, <1>5
  DEF DispatchBatch, FailBatch, on_success_batch, on_success, on_fail_batch,
      CloseProducer, batchVars, consumerVars
<1>6. ASSUME NEW t \in Threads, NEW q \in AsyncQueues, ServeBatch(t, q)
      PROVE  BatchesKept
  BY <1>3, <1>6 DEF ServeBatch, CallbackBatch, FailBatch, on_success_batch, on_success,
                    on_fail_batch
<1>7. ASSUME NEW t \in Threads, BatchCallStep(t)
      PROVE  BatchesKept
  BY <1>3, <1>7
  DEF BatchCallStep, StepCall, Lookup, Record, StoreOffsets, CloseOnFail, Close,
      StepNextMessage, NextMessage, on_success, StepOnFail, OnFailRaises, batchVars
<1>8. CASE (Elsewhere /\ UNCHANGED batchVars) \/ UNCHANGED allVars
  BY <1>3, <1>8
  DEF Elsewhere, Outcome, Deliver, Reject, Commit, AutoCommit, Signal, Restart,
      Terminated, vars, allVars, batchVars, consumerVars
<1> QED
  BY <1>1, <1>2, <1>4, <1>5, <1>6, <1>7, <1>8 DEF BatchNext, BatchMainStep

\* Nor is a batch that is settled due again.
SettledKept ==
    \A n \in Messages : message_context[n] # << >> /\ Settled(n) => Settled(n)'

LEMMA SettledKeep ==
    ASSUME NEW q, SingleOutput(q), BatchTypes, ContextsRead, HandUndecided,
           BatchMainInv(q), [BatchNext]_allVars, ~DieBatch
    PROVE  SettledKept
<1> USE DEF BatchTypes, BatchTypeOK, SettledKept, Settled
<1>1. CASE UNCHANGED due
  BY <1>1
<1>2. ASSUME NEW n \in Messages, NEW i, Delivered(n, i)
      PROVE  SettledKept
  BY <1>2 DEF Delivered
<1>3. ASSUME NEW n, NEW S, due' = [due EXCEPT ![n] = S],
             n \in Messages => message_context[n] = << >> \/ ~Settled(n)
      PROVE  SettledKept
  BY <1>3
<1>4. CASE LoopStep
  <2>1. ASSUME NEW l \in AppLists, AnswerList(l) PROVE SettledKept
    <3>1. ~Settled(msg)
      BY <2>1 DEF AnswerList, WorkList, HandUndecided
    <3> QED
      BY <1>3, <2>1, <3>1 DEF AnswerList
  <2>2. ASSUME NEW b \in AppBools, Answer(b) PROVE SettledKept
    <3>1. b = FALSE
      BY EngineAssumption DEF SingleOutput
    <3> QED
      BY <1>1, <2>2, <3>1 DEF Answer
  <2>3. CASE Handle
    <3>1. ~Settled(msg)
      BY <2>3 DEF Handle, HandleValid, HandleInvalid, DLQNotConfigured, HandUndecided
    <3> QED
      BY <1>1, <1>3, <2>3, <3>1 DEF Handle
  <2>4. CASE \E st, d \in BOOLEAN : ProduceSync(st, d)
    <3>1. msg \in Messages
      BY <2>4 DEF ProduceSync, Produce, EngineTypeOK, Holding
    <3> QED
      BY <1>1, <1>2, <2>4, <3>1 DEF ProduceSync
  <2> QED
    BY <1>1, <1>4, <2>1, <2>2, <2>3, <2>4
    DEF LoopStep, CheckKillNow, PollNothing, PollRaises, Crash, ProduceAsync,
        EnqueueFails, EndIteration, CloseConsumer, ghostVars
<1>5. ASSUME NEW o \in AsyncQueues, Outcome(o) PROVE SettledKept
  <2>1. PICK i \in DOMAIN outbox[o] :
            Delivered(outbox[o][i][1], outbox[o][i][2]) \/ UNCHANGED due
    BY <1>5 DEF Outcome, Deliver, Reject, ghostVars
  <2>2. outbox[o][i] \in Outputs
    BY DEF ProducerTypeOK
  <2> QED
    BY <1>1, <1>2, <2>1, <2>2 DEF Outputs
<1>6. ASSUME NEW batch \in Batches, PollBatch(batch) PROVE SettledKept
  <2>1. /\ batch \in Seq(Messages) /\ batch # << >> /\ Range(batch) \subseteq Messages
        /\ \A m \in Range(batch) : ~Below(m, position)
    BY <1>6, BatchIsNext DEF PollBatch, BatchConsumerTypeOK
  <2>2. message_context[Name(batch)] = << >>
    BY <2>1, NameIsOfBatch DEF ContextsRead
  <2> QED
    BY <1>3, <1>6, <2>2 DEF PollBatch
<1>7. CASE \/ CloseProducer \/ DispatchBatch
           \/ \E batch \in Batches : JoinRaises(batch)
           \/ \E t \in Threads, o \in AsyncQueues : ServeBatch(t, o)
           \/ \E t \in Threads : BatchCallStep(t)
  BY <1>1, <1>7
  DEF CloseProducer, DispatchBatch, FailBatch, JoinRaises, ServeBatch, CallbackBatch,
      BatchCallStep, StepCall, StepNextMessage, StepOnFail, ghostVars
<1>8. CASE Commit \/ Signal \/ Restart \/ Terminated \/ UNCHANGED allVars
  BY <1>1, <1>8
  DEF Commit, Signal, Restart, Terminated, vars, allVars, ghostVars
<1> QED
  BY <1>4, <1>5, <1>6, <1>7, <1>8 DEF BatchNext, BatchMainStep, Elsewhere

\* What may be forgotten still may, while the process lives.
LEMMA OkGrows ==
    ASSUME BatchTypes, BatchesKept, SettledKept, [BatchNext]_allVars, ~DieBatch
    PROVE  Ok \subseteq Ok'
<1>1. settledBefore' = settledBefore /\ mishandled \subseteq mishandled'
  <2>1. ASSUME NEW t \in Threads, NEW q \in AsyncQueues, ServeBatch(t, q)
        PROVE  settledBefore' = settledBefore /\ mishandled \subseteq mishandled'
    BY <2>1 DEF ServeBatch, CallbackBatch
  <2> QED
    BY <2>1
    DEF BatchNext, BatchMainStep, Elsewhere, DispatchBatch, PollBatch, JoinRaises,
                BatchCallStep, StepNextMessage, StepOnFail, batchVars, allVars
<1>2. ASSUME NEW m \in Messages, NEW n \in Messages, Settled(n),
             m \in Range(message_context[n])
      PROVE  Settled(n)' /\ m \in Range(message_context'[n])
  <2>1. message_context[n] # << >>
    BY <1>2, EmptySeq DEF Range
  <2> QED
    BY <1>2, <2>1 DEF BatchesKept, SettledKept
<1> QED
  BY <1>1, <1>2 DEF Ok, BatchSettled

\* What the batches in line cover stays covered when the first d leave, if theirs may be
\* forgotten.
LEMMA CoverKeeps ==
    ASSUME NEW q \in AsyncQueues, NEW d \in 0..1, BatchTypes, BatchTypes', BatchesKept,
           Ok \subseteq Ok', Shift(q, d), d <= LineLen(q),
           d = 1 => Range(message_context[Line(q)[1]]) \subseteq Ok'
    PROVE  /\ CoversLine(q) => CoversLine(q)'
           /\ ReadInLine(q) /\ Reading /\ LineLen(q)' + d = LineLen(q)
                 /\ (\A m \in Messages : Below(m, position') => Below(m, position))
                 => ReadInLine(q)'
<1>1. /\ LineLen(q) \in Nat /\ LineLen(q)' \in Nat /\ d \in Nat
      /\ \A k \in 1..LineLen(q) :
            Line(q)[k] \in Messages /\ message_context[Line(q)[k]] # << >>
  BY LineTypes
<1>2. \A k \in 1..LineLen(q)' :
         k + d \in 1..LineLen(q) /\ Line(q)'[k] = Line(q)[k + d]
  BY DEF Shift, ShiftOf, LineLen, Line
<1>3. \A k \in 1..LineLen(q) :
          message_context'[Line(q)[k]] = message_context[Line(q)[k]]
  BY <1>1 DEF BatchesKept
<1>4. ASSUME NEW k \in 0..LineLen(q)', NEW m, InBatch(q, k + d, m)
      PROVE  m \in Ok' \/ InBatch(q, k, m)'
  <2>1. PICK i \in 1..(k + d) : m \in Range(message_context[Line(q)[i]])
    BY <1>4 DEF InBatch
  <2>2. CASE i = 1 /\ d = 1
    BY <2>1, <2>2
  <2>3. CASE ~(i = 1 /\ d = 1)
    <3> DEFINE j == i - d
    <3>1. j \in 1..k /\ j \in 1..LineLen(q)' /\ j + d = i
      BY <1>1, <2>3
    <3> HIDE DEF j
    <3>2. Line(q)'[j] = Line(q)[i] /\ i \in 1..LineLen(q)
      BY <1>2, <3>1
    <3>3. m \in Range(message_context'[Line(q)'[j]])
      BY <1>3, <2>1, <3>2
    <3> QED
      BY <3>1, <3>3 DEF InBatch
  <2> QED
    BY <2>2, <2>3
<1>5. ASSUME CoversLine(q) PROVE CoversLine(q)'
  <2> SUFFICES ASSUME NEW k \in 1..LineLen(q)',
                      NEW m \in Range(message_context'[Line(q)'[k]]), NEW n \in UpTo(m)
               PROVE  n \in Ok' \/ InBatch(q, k, n)'
    BY DEF CoversLine, UpTo
  <2>1. k + d \in 1..LineLen(q) /\ m \in Range(message_context[Line(q)[k + d]])
    BY <1>2, <1>3
  <2>2. n \in Ok \/ InBatch(q, k + d, n)
    BY <1>5, <2>1 DEF CoversLine
  <2>3. k \in 0..LineLen(q)'
    BY <1>1
  <2> QED
    BY <1>4, <2>2, <2>3
<1>6. ASSUME ReadInLine(q), Reading, LineLen(q)' + d = LineLen(q),
             \A m \in Messages : Below(m, position') => Below(m, position)
      PROVE  ReadInLine(q)'
  <2> SUFFICES ASSUME NEW m \in Messages, Below(m, position')
               PROVE  m \in Ok' \/ InBatch(q, LineLen(q), m)'
    BY DEF ReadInLine, Below
  <2>1. PICK k \in 0..LineLen(q)' : k = LineLen(q)'
    BY <1>1
  <2>2. m \in Ok \/ InBatch(q, k + d, m)
    BY <1>6, <2>1 DEF ReadInLine
  <2>3. m \in Ok' \/ InBatch(q, k, m)'
    BY <1>4, <2>2
  <2> QED
    BY <2>1, <2>3 DEF InBatch
<1> QED
  BY <1>5, <1>6

-----------------------------------------------------------------------------
(* The main thread of a batch worker *)

LEMMA BatchVerdictStep ==
    ASSUME NEW q, SingleOutput(q), BatchTypes, BatchMainInv(q), [BatchNext]_allVars
    PROVE  Verdict(q)' /\ NoOutsYet'
<1> USE DEF BatchMainInv
<1>1. Verdict(q)'
  <2>1. CASE LoopStep
    BY <2>1, VerdictLoop DEF BatchTypes, BatchTypeOK
  <2>2. CASE DieBatch \/ Restart \/ \E batch \in Batches : PollBatch(batch)
    BY <2>2 DEF DieBatch, Die, Vanish, Restart, Start, PollBatch, Consume, Verdict
  <2>3. CASE DispatchBatch \/ CloseProducer
    BY <2>3 DEF DispatchBatch, MarkSuccess, MarkFail, LeaveToCallback, NextIteration,
                CloseProducer, ShutdownProducer, Verdict
  <2>4. CASE \/ \E o \in AsyncQueues : Outcome(o)
             \/ \E t \in Threads, o \in AsyncQueues : ServeBatch(t, o)
             \/ \E batch \in Batches : JoinRaises(batch)
             \/ Commit \/ Signal \/ Terminated \/ UNCHANGED allVars
    BY <2>4 DEF Outcome, Deliver, Reject, ServeBatch, CallbackBatch, JoinRaises, Abort,
                Commit, Signal, exit_gracefully, Terminated, vars, allVars, engineVars,
                Verdict
  <2>5. ASSUME NEW t \in Threads, BatchCallStep(t) PROVE Verdict(q)'
    BY <2>5 DEF BatchCallStep, StepCall, StepNextMessage, StepOnFail, Abort, engineVars,
                Verdict
  <2> QED
    BY <2>1, <2>2, <2>3, <2>4, <2>5 DEF BatchNext, BatchMainStep, Elsewhere
<1>2. ThreadsOK
  BY DEF ThreadsOK, BatchTypes, BatchTypeOK, BatchConsumerTypeOK
<1>3. NoOutsYet'
  BY <1>2, BatchComposition, NoOutsStep
<1> QED
  BY <1>1, <1>3

\* The main thread's own call of on_fail is the last thing it does.
LEMMA MarkAbortsStep ==
    ASSUME NEW q, SingleOutput(q), BatchTypes, BatchMainInv(q), [BatchNext]_allVars
    PROVE  MarkAborts'
<1> USE DEF BatchMainInv, MarkAborts
<1>0. /\ DOMAIN call = Threads /\ Main \in Threads /\ Main \notin AsyncQueues
      /\ ThreadsOK
  BY TopologyAssumption DEF BatchTypes, BatchTypeOK, BatchConsumerTypeOK, Threads,
                            ThreadsOK
<1>1. CASE pc' # "mark"
  BY <1>1
<1>2. CASE UNCHANGED <<pc, call>>
  BY <1>2
<1>3. CASE LoopStep
  BY <1>1, <1>3
  DEF LoopStep, CheckKillNow, LoopAgain, LoopExit, PollNothing, ConsumeNone, PollRaises,
      Handle, HandleValid, HandleInvalid, DLQNotConfigured, Answer, WorkBool,
      AnswerList, WorkList, Crash, WorkRaises, ProduceRaises, ProduceSync,
      ProduceAsync, EnqueueFails, Produce, EndIteration, Marked, CloseConsumer,
      ShutdownConsumer, NextIteration, Abort
<1>4. CASE DispatchBatch
  <2>1. ~MarkSuccess
    BY NeverMarkSuccess
  <2>2. CASE MarkFail /\ FailBatch(Main, msg)
    BY <1>0, <2>2 DEF FailBatch, on_fail_batch
  <2>3. CASE LeaveToCallback
    BY <2>3 DEF LeaveToCallback, NextIteration
  <2> QED
    BY <1>4, <2>1, <2>2, <2>3 DEF DispatchBatch
<1>5. ASSUME NEW t \in Threads, NEW o \in AsyncQueues, ServeBatch(t, o)
      PROVE  MarkAborts'
  <2>1. pc' = pc /\ (pc = "mark" => t # Main)
    BY <1>0, <1>5 DEF ServeBatch, CallbackBatch, Serves, engineVars
  <2>2. t # Main => call'[Main] = call[Main]
    BY <1>0, <1>5
    DEF ServeBatch, CallbackBatch, FailBatch, on_success_batch, on_success,
        on_fail_batch
  <2> QED
    BY <2>1, <2>2
<1>6. ASSUME NEW t \in Threads, BatchCallStep(t) PROVE MarkAborts'
  <2>1. CASE t = Main /\ pc = "mark"
    <3>1. call[Main].at = "topic"
      BY <2>1
    <3>2. StepOnFail(Main)
      BY <1>6, <2>1, <3>1
      DEF BatchCallStep, StepCall, Lookup, Record, StoreOffsets, Storing, CloseOnFail,
          StepNextMessage, NextMessage, on_success, Idle
    <3> QED
      BY <3>2 DEF StepOnFail, Abort
  <2>2. CASE t # Main
    <3>1. call'[Main] = call[Main]
      BY <1>0, <1>6, <2>2, CallOfOneThread
    <3> QED
      BY <1>6, <2>2, <3>1
      DEF BatchCallStep, StepCall, StepNextMessage, StepOnFail, engineVars
  <2>3. CASE pc # "mark"
    BY <1>6, <2>3
    DEF BatchCallStep, StepCall, StepNextMessage, StepOnFail, Abort, engineVars
  <2> QED
    BY <2>1, <2>2, <2>3
<1>7. CASE (Elsewhere /\ UNCHANGED batchVars) \/ UNCHANGED allVars
  BY <1>1, <1>2, <1>7
  DEF Elsewhere, Outcome, Deliver, Reject, Commit, AutoCommit, Signal, exit_gracefully,
      Restart, Start, Terminated, vars, allVars, engineVars, consumerVars
<1>8. CASE DieBatch \/ CloseProducer
  BY <1>1, <1>8 DEF DieBatch, Die, Vanish, CloseProducer, ShutdownProducer
<1>9. CASE \E batch \in Batches : PollBatch(batch) \/ JoinRaises(batch)
  BY <1>1, <1>9 DEF PollBatch, Consume, JoinRaises, Abort
<1> QED
  BY <1>3, <1>4, <1>5, <1>6, <1>7, <1>8, <1>9 DEF BatchNext, BatchMainStep

\* A main thread that will read no other batch never gets to.
LEMMA ReadingStep ==
    ASSUME NEW q, SingleOutput(q), BatchTypes, BatchMainInv(q), [BatchNext]_allVars,
           ~DieBatch, Reading'
    PROVE  Reading
<1> USE DEF BatchMainInv, Reading
<1>1. CASE UNCHANGED engineVars
  BY <1>1 DEF engineVars, Hand
<1>2. CASE pc \in {"loop", "poll", "handle", "work", "down"}
  BY <1>2 DEF Hand
<1>3. CASE pc' \notin {"loop", "poll", "down", "handle", "work", "produce"}
  BY <1>3 DEF Hand
<1>4. CASE LoopStep
  <2>1. ~EndIteration
    BY DEF EndIteration, Marked, MarkAborts, Idle
  <2>2. CASE ProduceAsync \/ EnqueueFails \/ \E st, d \in BOOLEAN : ProduceSync(st, d)
    BY <2>2 DEF ProduceAsync, EnqueueFails, ProduceSync, Produce, Hand
  <2>3. CASE Crash \/ CloseConsumer
    BY <1>3, <2>3 DEF Crash, WorkRaises, ProduceRaises, CloseConsumer, ShutdownConsumer
  <2>4. CASE \/ CheckKillNow \/ PollNothing \/ PollRaises \/ Handle
             \/ \E b \in AppBools : Answer(b)
             \/ \E l \in AppLists : AnswerList(l)
    BY <1>2, <2>4
    DEF CheckKillNow, LoopAgain, LoopExit, PollNothing, ConsumeNone, PollRaises, Handle,
        HandleValid, HandleInvalid, DLQNotConfigured, Answer, WorkBool, AnswerList,
        WorkList
  <2> QED
    BY <1>4, <2>1, <2>2, <2>3, <2>4 DEF LoopStep
<1>5. CASE DispatchBatch
  <2>1. ~MarkSuccess /\ (LeaveToCallback => reports = {OneReport})
    BY NeverMarkSuccess
  <2>2. CASE MarkFail
    BY <1>3, <2>2 DEF MarkFail
  <2>3. CASE LeaveToCallback
    BY <2>1, <2>3 DEF LeaveToCallback, Produced
  <2> QED
    BY <1>5, <2>1, <2>2, <2>3 DEF DispatchBatch
<1>6. CASE CloseProducer
  BY <1>3, <1>6 DEF CloseProducer, ShutdownProducer
<1>7. CASE \E batch \in Batches : PollBatch(batch) \/ JoinRaises(batch)
  BY <1>2, <1>3, <1>7 DEF PollBatch, Consume, JoinRaises, Abort
<1>8. CASE \/ \E t \in Threads, o \in AsyncQueues : ServeBatch(t, o)
           \/ \E t \in Threads : BatchCallStep(t)
  BY <1>1, <1>3, <1>8 DEF ServeBatch, CallbackBatch, BatchCallStep, StepCall,
                          StepNextMessage, StepOnFail, Abort
<1>9. CASE Elsewhere \/ UNCHANGED allVars
  <2>1. CASE Signal
    BY <2>1 DEF Signal, exit_gracefully, Hand
  <2>2. CASE ~Signal
    BY <1>1, <1>2, <1>9, <2>2
    DEF Elsewhere, Outcome, Deliver, Reject, Commit, Restart, Start, Terminated, vars,
        allVars
  <2> QED
    BY <2>1, <2>2
<1> QED
  BY <1>4, <1>5, <1>6, <1>7, <1>8, <1>9 DEF BatchNext, BatchMainStep

-----------------------------------------------------------------------------
(* The invariant of the line, part by part *)

\* The first batch in line leaves it when its report has its callback; then its messages
\* may be forgotten.
LEMMA ServeLine ==
    ASSUME NEW q \in AsyncQueues, BatchTypes, BatchTypes', ReportsTrue(q),
           NEW t \in Threads, NEW m \in Messages, NEW ok \in BOOLEAN,
           CallbackBatch(t, q, m, ok)
    PROVE  /\ Shift(q, 1) /\ LineLen(q)' + 1 = LineLen(q) /\ 1 <= LineLen(q)
           /\ Line(q)[1] = m
           /\ Range(message_context[m]) \subseteq Ok'
<1>0. /\ dr[q] \in Seq(Messages \X BOOLEAN) /\ dr'[q] \in Seq(Messages \X BOOLEAN)
      /\ outbox[q] \in Seq(Outputs) /\ InHand \in Seq(Messages)
  BY LineTypes
<1>1. /\ dr[q] # << >> /\ Head(dr[q]) = <<m, ok>> /\ dr'[q] = Tail(dr[q])
      /\ outbox' = outbox /\ InHand' = InHand
  BY DEF CallbackBatch, acked, engineVars, InHand, Hand, BatchTypes, BatchTypeOK,
         ProducerTypeOK
<1>2. /\ Len(dr[q]) = Len(dr'[q]) + 1 /\ 1 \in DOMAIN dr[q] /\ dr[q][1] = <<m, ok>>
      /\ \A k \in 1..Len(dr'[q]) : dr'[q][k] = dr[q][k + 1]
  <2>1. /\ Len(Tail(dr[q])) = Len(dr[q]) - 1 /\ Len(dr[q]) \in Nat /\ Len(dr[q]) # 0
        /\ \A k \in 1..Len(Tail(dr[q])) : Tail(dr[q])[k] = dr[q][k + 1]
        /\ Head(dr[q]) = dr[q][1] /\ DOMAIN dr[q] = 1..Len(dr[q])
    BY <1>0, <1>1, HeadTailProperties, EmptySeq
  <2> DEFINE a == Len(dr[q])
             b == Len(Tail(dr[q]))
  <2>2. a \in Nat /\ a # 0 /\ b = a - 1 /\ DOMAIN dr[q] = 1..a
    BY <2>1
  <2> HIDE DEF a, b
  <2>3. a = b + 1 /\ 1 \in DOMAIN dr[q]
    BY <2>2
  <2> QED
    BY <1>1, <2>1, <2>3 DEF a, b
<1>3. Shift(q, 1) /\ LineLen(q)' + 1 = LineLen(q) /\ 1 <= LineLen(q) /\ Line(q)[1] = m
  <2> DEFINE waiting == dr[q]
             waits == dr'[q]
             flying == outbox[q]
             hand == InHand
  <2>1. /\ waiting \in Seq(Messages \X BOOLEAN) /\ waits \in Seq(Messages \X BOOLEAN)
        /\ flying \in Seq(Outputs) /\ hand \in Seq(Messages)
        /\ DropsFirst(waiting, waits)
    BY <1>0, <1>2 DEF DropsFirst
  <2>2. outbox'[q] = flying /\ InHand' = hand /\ waiting[1][1] = m
    BY <1>1, <1>2
  <2> HIDE DEF waiting, waits, flying, hand
  <2>3. /\ ShiftOf(waiting, flying, hand, waits, flying, hand, 1)
        /\ LenOf(waits, flying, hand) + 1 = LenOf(waiting, flying, hand)
        /\ 1 \in 1..LenOf(waiting, flying, hand)
        /\ LineOf(waiting, flying, hand)[1] = waiting[1][1]
    BY ONLY <2>1, LineCalls
  <2>4. 1 <= LenOf(waiting, flying, hand)
    BY <2>3
  <2> QED
    BY <2>2, <2>3, <2>4 DEF Shift, LineLen, Line, waiting, waits, flying, hand
<1>4. ASSUME NEW x \in Range(message_context[m]) PROVE x \in Ok'
  <2>1. x \in Messages
    BY DEF BatchTypes, BatchTypeOK, Range
  <2>2. CASE ok
    <3>1. dr[q][1][2] /\ dr[q][1][1] = m
      BY <1>2, <2>2
    <3>2. Settled(m)
      BY <1>2, <3>1 DEF ReportsTrue
    <3>3. Settled(m)' /\ message_context' = message_context
      BY <2>2, <3>2 DEF CallbackBatch, Settled, ghostVars
    <3> QED
      BY <2>1, <3>3 DEF Ok, BatchSettled
  <2>3. CASE ~ok
    BY <2>1, <2>3 DEF CallbackBatch, Ok
  <2> QED
    BY <2>2, <2>3
<1> QED
  BY <1>3, <1>4

\* Every offset that an on_success now acknowledges stands for batches that may be
\* forgotten.
LEMMA RunCoversStep ==
    ASSUME NEW q, SingleOutput(q), BatchTypes, BatchTypes', BatchLineInv(q),
           BatchMainInv(q), Ok \subseteq Ok',
           [BatchNext]_allVars, ~DieBatch
    PROVE  RunCovers'
<1> USE DEF BatchLineInv
<1>0. /\ DOMAIN call = Threads /\ rest \in [Threads -> Seq(Messages)]
      /\ q \in AsyncQueues
  BY DEF BatchTypes, BatchTypeOK, BatchConsumerTypeOK, SingleOutput
<1>1. CASE UNCHANGED <<call, rest>>
  BY <1>1 DEF RunCovers
<1>2. ASSUME NEW t \in Threads,
             \A u \in Threads \ {t} : call'[u] = call[u] /\ rest'[u] = rest[u],
             call'[t].at \in Succeeding => UpTo(call'[t].msg) \subseteq Ok',
             \A i \in DOMAIN rest'[t] : UpTo(rest'[t][i]) \subseteq Ok'
      PROVE  RunCovers'
  BY <1>2 DEF RunCovers
<1>3. ASSUME NEW t \in Threads, on_fail_batch(t, message_context[msg])
      PROVE  RunCovers'
  <2>1. call'[t].at = "topic"
    BY <1>0, <1>3 DEF on_fail_batch
  <2>2. \A i \in DOMAIN rest'[t] : UpTo(rest'[t][i]) \subseteq Ok'
    BY <1>3 DEF on_fail_batch, RunCovers
  <2> QED
    BY <1>0, <1>2, <1>3, <2>1, <2>2 DEF on_fail_batch, Succeeding
<1>4. CASE DispatchBatch
  <2>1. ~MarkSuccess
    BY NeverMarkSuccess DEF BatchMainInv
  <2>2. Main \in Threads
    BY DEF Threads
  <2> QED
    BY <1>1, <1>3, <1>4, <2>1, <2>2 DEF DispatchBatch, FailBatch, consumerVars
<1>5. ASSUME NEW t \in Threads, NEW o \in AsyncQueues, ServeBatch(t, o)
      PROVE  RunCovers'
  <2>1. o = q
    BY DEF SingleOutput
  <2>2. PICK m \in Messages, ok \in BOOLEAN : CallbackBatch(t, q, m, ok)
    BY <1>5, <2>1 DEF ServeBatch
  <2>3. 1 \in 1..LineLen(q) /\ Line(q)[1] = m /\ Range(message_context[m]) \subseteq Ok'
    <3>1. 1 <= LineLen(q) /\ LineLen(q) \in Nat
      BY <1>0, <2>2, ServeLine, LineTypes
    <3> QED
      BY <1>0, <2>2, <3>1, ServeLine
  <2>4. ASSUME NEW x \in Range(message_context[m]) PROVE UpTo(x) \subseteq Ok'
    <3> SUFFICES ASSUME NEW n \in UpTo(x) PROVE n \in Ok'
      OBVIOUS
    <3>1. n \in Ok \/ InBatch(q, 1, n)
      BY <2>3 DEF CoversLine
    <3>2. InBatch(q, 1, n) => n \in Range(message_context[m])
      BY <2>3 DEF InBatch
    <3> QED
      BY <2>3, <3>1, <3>2
  <2>5. message_context[m] \in Seq(Messages) /\ message_context[m] # << >>
    <3>1. dr[q] # << >> /\ Head(dr[q]) = <<m, ok>> /\ dr[q] \in Seq(Messages \X BOOLEAN)
      BY <1>0, <2>2, LineTypes DEF CallbackBatch, acked
    <3>2. 1 \in DOMAIN dr[q] /\ dr[q][1] = <<m, ok>>
      BY <3>1, HeadTailProperties, EmptySeq
    <3> QED
      BY <1>0, <3>2 DEF BatchTypes, BatchTypeOK
  <2>6. CASE ok
    <3> DEFINE batch == message_context[m]
    <3>1. /\ Head(batch) \in Range(batch)
          /\ \A i \in DOMAIN Tail(batch) : Tail(batch)[i] \in Range(batch)
      <4>1. /\ Head(batch) = batch[1] /\ 1 \in DOMAIN batch
            /\ \A i \in DOMAIN Tail(batch) :
                  i + 1 \in DOMAIN batch /\ Tail(batch)[i] = batch[i + 1]
        BY <2>5, HeadTailProperties, EmptySeq
      <4> QED
        BY <4>1 DEF Range
    <3>2. /\ call'[t] = [at |-> "lookup", msg |-> Head(batch)] /\ rest'[t] = Tail(batch)
          /\ \A u \in Threads \ {t} : call'[u] = call[u] /\ rest'[u] = rest[u]
      BY <1>0, <2>2, <2>6 DEF CallbackBatch, on_success_batch, on_success
    <3> HIDE DEF batch
    <3>3. /\ UpTo(Head(batch)) \subseteq Ok'
          /\ \A i \in DOMAIN Tail(batch) : UpTo(Tail(batch)[i]) \subseteq Ok'
      BY <2>4, <3>1 DEF batch
    <3>4. UpTo(call'[t].msg) \subseteq Ok'
      BY <3>2, <3>3
    <3>5. \A i \in DOMAIN rest'[t] : UpTo(rest'[t][i]) \subseteq Ok'
      BY <3>2, <3>3
    <3> QED
      BY <1>2, <3>2, <3>4, <3>5
  <2>7. CASE ~ok
    <3>1. /\ call'[t].at = "topic"
          /\ rest' = rest
          /\ \A u \in Threads \ {t} : call'[u] = call[u]
      BY <1>0, <2>2, <2>7 DEF CallbackBatch, FailBatch, on_fail_batch
    <3>2. \A i \in DOMAIN rest'[t] : UpTo(rest'[t][i]) \subseteq Ok'
      BY <3>1 DEF RunCovers
    <3> QED
      BY <1>2, <3>1, <3>2 DEF Succeeding
  <2> QED
    BY <2>6, <2>7
<1>6. ASSUME NEW t \in Threads, BatchCallStep(t)
      PROVE  RunCovers'
  <2>0. \A u \in Threads \ {t} : call'[u] = call[u] /\ rest'[u] = rest[u]
    <3>1. ThreadsOK
      BY DEF ThreadsOK, BatchTypes, BatchTypeOK, BatchConsumerTypeOK
    <3> QED
      BY <1>6, <3>1, CallOfOneThread
  <2>1. CASE StepCall(t) /\ UNCHANGED batchVars
    <3>1. CASE Return(t)
      <4>1. call'[t].at \notin Succeeding
        BY <1>0, <3>1 DEF Return, Idle, Succeeding
      <4> QED
        BY <1>2, <2>0, <2>1, <4>1 DEF batchVars, RunCovers
    <3>2. CASE ~Return(t)
      <4>1. PICK site \in Sites : Goto(t, site) /\ call[t].at \in Sites
                                 /\ (site \in Succeeding => call[t].at \in Succeeding)
        BY <2>1, <3>2 DEF StepCall, Lookup, Record, StoreOffsets, Storing, CloseOnFail,
                          Sites, Succeeding
      <4>2. call'[t] = [at |-> site, msg |-> call[t].msg]
        BY <4>1, BatchFrame DEF BatchTypes, BatchTypeOK
      <4>3. call'[t].at \in Succeeding => UpTo(call'[t].msg) \subseteq Ok'
        BY <4>1, <4>2 DEF RunCovers
      <4> QED
        BY <1>2, <2>0, <2>1, <4>3 DEF batchVars, RunCovers
    <3> QED
      BY <3>1, <3>2
  <2>2. CASE StepNextMessage(t)
    <3> DEFINE r == rest[t]
    <3>1. r \in Seq(Messages) /\ r # << >>
      BY <1>0, <2>2 DEF StepNextMessage, NextMessage
    <3>2. /\ call'[t] = [at |-> "lookup", msg |-> Head(r)] /\ rest'[t] = Tail(r)
      BY <1>0, <2>2 DEF StepNextMessage, NextMessage, on_success
    <3>3. \A i \in DOMAIN r : UpTo(r[i]) \subseteq Ok'
      BY DEF RunCovers
    <3> HIDE DEF r
    <3>4. /\ Head(r) = r[1] /\ 1 \in DOMAIN r
          /\ \A i \in DOMAIN Tail(r) : i + 1 \in DOMAIN r /\ Tail(r)[i] = r[i + 1]
      BY <3>1, HeadTailProperties, EmptySeq
    <3>5. UpTo(call'[t].msg) \subseteq Ok'
      BY <3>2, <3>3, <3>4
    <3>6. \A i \in DOMAIN rest'[t] : UpTo(rest'[t][i]) \subseteq Ok'
      BY <3>2, <3>3, <3>4
    <3> QED
      BY <1>2, <2>0, <3>5, <3>6
  <2>3. CASE StepOnFail(t)
    <3>1. call'[t].at \notin Succeeding /\ rest' = rest
      BY <1>0, <2>3 DEF StepOnFail, OnFailRaises, Return, Idle, Succeeding
    <3> QED
      BY <1>2, <2>0, <3>1 DEF RunCovers
  <2> QED
    BY <1>6, <2>1, <2>2, <2>3 DEF BatchCallStep
<1>7. CASE LoopStep /\ UNCHANGED batchVars
  BY <1>1, <1>7, LoopComposes DEF BatchTypes, BatchTypeOK, batchVars
<1>8. CASE \/ CloseProducer /\ UNCHANGED batchVars
           \/ \E batch \in Batches : PollBatch(batch) \/ JoinRaises(batch)
  BY <1>1, <1>8 DEF CloseProducer, PollBatch, JoinRaises, ConsumeBatch, consumerVars,
                    batchVars
<1>9. CASE (Elsewhere /\ UNCHANGED batchVars) \/ UNCHANGED allVars
  BY <1>1, <1>9
  DEF Elsewhere, Outcome, Deliver, Reject, Commit, AutoCommit, Signal, Restart,
      Terminated, vars, allVars, consumerVars, batchVars
<1> QED
  BY <1>4, <1>5, <1>6, <1>7, <1>8, <1>9 DEF BatchNext, BatchMainStep

\* No offset is stored or committed but one that an on_success acknowledged.
LEMMA CoveredStep ==
    ASSUME BatchTypes, BatchTypes', CoveredIsOk, RunCovers, Ok \subseteq Ok',
           [BatchNext]_allVars, ~DieBatch
    PROVE  CoveredIsOk'
<1> USE DEF CoveredIsOk
<1>0. /\ stored \in [Partitions -> 0..(MaxOffset + 1)]
      /\ committed \in [Partitions -> 0..(MaxOffset + 1)]
  BY DEF BatchTypes, BatchTypeOK, BatchConsumerTypeOK
<1>1. ASSUME stored' = stored,
             \A p \in Partitions : committed'[p] \in {stored[p], committed[p]}
      PROVE  CoveredIsOk'
  BY <1>1, MessageParts DEF Below
<1>2. CASE UNCHANGED <<stored, committed>>
  BY <1>1, <1>2
<1>3. CASE AutoCommit \/ Close
  BY <1>1, <1>3 DEF AutoCommit, Close, Final
<1>4. ASSUME NEW t \in Threads, StoreOffsets(t)
      PROVE  CoveredIsOk'
  <2> DEFINE c == call[t].msg
  <2>1. call[t].at \in Succeeding /\ c \in Messages
    <3>1. call[t].at \in Sites /\ call[t].at \in Succeeding
      BY <1>4 DEF StoreOffsets, Storing, Sites, Succeeding
    <3> QED
      BY <3>1, BatchFrame DEF BatchTypes, BatchTypeOK
  <2>2. UpTo(c) \subseteq Ok'
    BY <2>1 DEF RunCovers
  <2>3. /\ committed' = committed
        /\ stored' = [stored EXCEPT ![partition(c)] = offset(c) + 1]
    BY <1>4 DEF StoreOffsets
  <2> HIDE DEF c
  <2>4. ASSUME NEW m \in Messages, Below(m, stored')
        PROVE  m \in Ok'
    <3>1. partition(m) \in Partitions /\ offset(m) \in Nat /\ offset(c) \in Nat
      BY <2>1, MessageParts
    <3>2. CASE partition(m) = partition(c)
      <4>1. offset(m) < offset(c) + 1
        BY <1>0, <2>3, <2>4, <3>1, <3>2 DEF Below
      <4>2. m \in UpTo(c)
        BY <3>1, <3>2, <4>1 DEF UpTo
      <4> QED
        BY <2>2, <4>2
    <3>3. CASE partition(m) # partition(c)
      BY <1>0, <2>3, <2>4, <3>1, <3>3 DEF Below
    <3> QED
      BY <3>2, <3>3
  <2> QED
    BY <2>3, <2>4 DEF Below
<1>5. CASE LoopStep
  <2>1. UNCHANGED <<stored, committed>> \/ Close
    BY <1>5
    DEF LoopStep, CheckKillNow, PollNothing, PollRaises, Handle, Answer, AnswerList,
        Crash, ProduceSync, ProduceAsync, EnqueueFails, EndIteration, CloseConsumer,
        consumerVars
  <2> QED
    BY <1>2, <1>3, <2>1
<1>6. ASSUME NEW t \in Threads, BatchCallStep(t)
      PROVE  CoveredIsOk'
  <2>1. UNCHANGED <<stored, committed>> \/ StoreOffsets(t) \/ Close
    BY <1>6 DEF BatchCallStep, StepCall, Lookup, Record, CloseOnFail, StepNextMessage,
                NextMessage, on_success, StepOnFail, OnFailRaises
  <2> QED
    BY <1>2, <1>3, <1>4, <2>1
<1>7. CASE DispatchBatch \/ CloseProducer
  BY <1>2, <1>7
  DEF DispatchBatch, FailBatch, on_success_batch, on_success, on_fail_batch,
                    CloseProducer, consumerVars
<1>8. ASSUME NEW t \in Threads, NEW q \in AsyncQueues, ServeBatch(t, q)
      PROVE  CoveredIsOk'
  BY <1>2, <1>8 DEF ServeBatch, CallbackBatch, FailBatch, on_success_batch, on_success,
                    on_fail_batch
<1>9. ASSUME NEW batch \in Batches, PollBatch(batch) \/ JoinRaises(batch)
      PROVE  CoveredIsOk'
  BY <1>2, <1>9 DEF PollBatch, JoinRaises, ConsumeBatch
<1>10. CASE Elsewhere \/ UNCHANGED allVars
  BY <1>2, <1>3, <1>10
  DEF Elsewhere, Outcome, Deliver, Reject, Commit, Signal, Restart, Terminated, vars,
      allVars, consumerVars
<1> QED
  BY <1>5, <1>6, <1>7, <1>8, <1>9, <1>10 DEF BatchNext, BatchMainStep

LEMMA ContextsReadStep ==
    ASSUME BatchTypes, ContextsRead, BatchesKept, [BatchNext]_allVars, ~DieBatch
    PROVE  ContextsRead'
<1> USE DEF ContextsRead
<1>1. ASSUME NEW batch \in Batches, PollBatch(batch) PROVE ContextsRead'
  <2>1. /\ batch \in Seq(Messages) /\ batch # << >>
        /\ \A m \in Range(batch) : Below(m, position')
    BY <1>1, BatchIsNext DEF PollBatch, BatchTypes, BatchTypeOK, BatchConsumerTypeOK
  <2>2. Below(Name(batch), position')
    BY <2>1, NameIsOfBatch
  <2>3. message_context' = [message_context EXCEPT ![Name(batch)] = batch]
        /\ DOMAIN message_context = Messages
    BY <1>1 DEF PollBatch, NamedAfter, BatchTypes, BatchTypeOK
  <2>4. ASSUME NEW m \in Messages, message_context'[m] # << >> PROVE Below(m, position')
    BY <2>2, <2>3, <2>4 DEF BatchesKept
  <2> QED
    BY <2>4 DEF Below
<1>2. CASE message_context' = message_context
  BY <1>2 DEF BatchesKept, Below
<1>3. ASSUME NEW t \in Threads, NEW q \in AsyncQueues, ServeBatch(t, q)
      PROVE  message_context' = message_context
  BY <1>3 DEF ServeBatch, CallbackBatch
<1> QED
  BY <1>1, <1>2, <1>3
  DEF BatchNext, BatchMainStep, Elsewhere, DispatchBatch, JoinRaises, BatchCallStep,
      StepNextMessage, StepOnFail, batchVars, allVars

\* What is left to deliver of a batch, its delivery aside, is kept.
LEMMA DueStaysSmall ==
    ASSUME NEW q, SingleOutput(q), BatchTypes, ContextsRead, [BatchNext]_allVars,
           ~DieBatch, NEW n \in Messages, message_context[n] # << >>,
           due[n] \subseteq {1}
    PROVE  due'[n] \subseteq {1}
<1> USE DEF BatchTypes, BatchTypeOK
<1>1. CASE UNCHANGED due
  BY <1>1
<1>2. ASSUME NEW m, NEW i, Delivered(m, i) PROVE due'[n] \subseteq {1}
  BY <1>2 DEF Delivered
<1>3. ASSUME NEW m, NEW S, due' = [due EXCEPT ![m] = S], m = n => S \subseteq {1}
      PROVE  due'[n] \subseteq {1}
  BY <1>3
<1>4. CASE LoopStep
  <2>1. ASSUME NEW l \in AppLists, AnswerList(l) PROVE due'[n] \subseteq {1}
    <3>1. l = <<q>>
      BY DEF SingleOutput
    <3>2. 1..Len(l) = {1}
      BY <3>1
    <3> QED
      BY <1>3, <2>1, <3>2 DEF AnswerList
  <2>2. ASSUME NEW b \in AppBools, Answer(b) PROVE due'[n] \subseteq {1}
    BY <1>1, <1>3, <2>2 DEF Answer
  <2>3. CASE Handle
    BY <1>1, <1>3, <2>3 DEF Handle
  <2>4. CASE \E st, d \in BOOLEAN : ProduceSync(st, d)
    BY <1>1, <1>2, <2>4 DEF ProduceSync
  <2> QED
    BY <1>1, <1>4, <2>1, <2>2, <2>3, <2>4
    DEF LoopStep, CheckKillNow, PollNothing, PollRaises, Crash, ProduceAsync,
        EnqueueFails, EndIteration, CloseConsumer, ghostVars
<1>5. ASSUME NEW o \in AsyncQueues, Outcome(o) PROVE due'[n] \subseteq {1}
  BY <1>1, <1>2, <1>5 DEF Outcome, Deliver, Reject, ghostVars
<1>6. ASSUME NEW batch \in Batches, PollBatch(batch) PROVE due'[n] \subseteq {1}
  <2>1. /\ batch \in Seq(Messages) /\ batch # << >> /\ Range(batch) \subseteq Messages
        /\ \A m \in Range(batch) : ~Below(m, position)
    BY <1>6, BatchIsNext DEF PollBatch, BatchConsumerTypeOK
  <2>2. Name(batch) # n
    BY <2>1, NameIsOfBatch DEF ContextsRead
  <2> QED
    BY <1>3, <1>6, <2>2 DEF PollBatch
<1>7. CASE \/ CloseProducer \/ DispatchBatch
           \/ \E batch \in Batches : JoinRaises(batch)
           \/ \E t \in Threads, o \in AsyncQueues : ServeBatch(t, o)
           \/ \E t \in Threads : BatchCallStep(t)
  BY <1>1, <1>7
  DEF CloseProducer, DispatchBatch, FailBatch, JoinRaises, ServeBatch, CallbackBatch,
      BatchCallStep, StepCall, StepNextMessage, StepOnFail, ghostVars
<1>8. CASE Commit \/ Signal \/ Restart \/ Terminated \/ UNCHANGED allVars
  BY <1>1, <1>8 DEF Commit, Signal, Restart, Terminated, vars, allVars, ghostVars
<1> QED
  BY <1>4, <1>5, <1>6, <1>7, <1>8 DEF BatchNext, BatchMainStep, Elsewhere

\* The first output in flight has its outcome.
LEMMA OutcomeParts ==
    ASSUME NEW q, SingleOutput(q), BatchTypes, BatchTypes', DueInFlight(q), Outcome(q)
    PROVE  \E n \in Messages, ok \in BOOLEAN :
              /\ 1 \in DOMAIN outbox[q] /\ outbox[q][1][1] = n
              /\ outbox'[q] = RemoveAt(outbox[q], 1)
              /\ dr'[q] = Append(dr[q], <<n, ok>>)
              /\ due[n] \subseteq {1} /\ (Delivered(n, 1) \/ (UNCHANGED due /\ ~ok))
<1>0. /\ q \in AsyncQueues /\ outbox[q] \in Seq(Outputs)
      /\ dr \in [AsyncQueues -> Seq(Messages \X BOOLEAN)]
      /\ outbox \in [AsyncQueues -> Seq(Outputs)]
  BY DEF SingleOutput, BatchTypes, BatchTypeOK, ProducerTypeOK
<1>1. PICK i \in DOMAIN outbox[q], ok \in BOOLEAN :
          /\ Report(q, i, ok)
          /\ Delivered(outbox[q][i][1], outbox[q][i][2]) \/ (UNCHANGED due /\ ~ok)
  <2>1. PICK i \in DOMAIN outbox[q] :
                Reject(q, i) \/ \E ok \in BOOLEAN : Deliver(q, i, ok)
    BY DEF Outcome
  <2>2. CASE Reject(q, i)
    BY <2>2 DEF Reject, ghostVars
  <2>3. ASSUME NEW ok \in BOOLEAN, Deliver(q, i, ok)
        PROVE  Report(q, i, ok) /\ Delivered(outbox[q][i][1], outbox[q][i][2])
    BY <2>3 DEF Deliver
  <2> QED
    BY <2>1, <2>2, <2>3
<1>2. i = 1
  BY <1>1 DEF Report, SingleOutput
<1> DEFINE n == outbox[q][1][1]
<1>3. outbox[q][1] \in Outputs /\ n \in Messages
  BY <1>0, <1>1, <1>2 DEF Outputs
<1>4. outbox[q][1][2] = 1 /\ due[n] \subseteq {1}
  BY <1>1, <1>2 DEF DueInFlight
<1>5. outbox'[q] = RemoveAt(outbox[q], 1) /\ dr'[q] = Append(dr[q], <<n, ok>>)
  BY <1>0, <1>1, <1>2 DEF Report
<1>6. Delivered(n, 1) \/ (UNCHANGED due /\ ~ok)
  BY <1>1, <1>2, <1>4
<1> HIDE DEF n
<1>7. 1 \in DOMAIN outbox[q] /\ outbox[q][1][1] = n
  BY <1>1, <1>2 DEF n
<1> QED
  BY <1>3, <1>4, <1>5, <1>6, <1>7

\* Where the lines of q change.
LEMMA LinesOf ==
    ASSUME NEW q, SingleOutput(q), BatchTypes, [BatchNext]_allVars, ~DieBatch
    PROVE  \/ UNCHANGED <<outbox, dr>>
           \/ ProduceAsync
           \/ Outcome(q)
           \/ \E t \in Threads : ServeBatch(t, q)
<1>1. \A o \in AsyncQueues : o = q
  BY DEF SingleOutput
<1>2. ASSUME NEW t \in Threads, BatchCallStep(t) PROVE UNCHANGED <<outbox, dr>>
  <2>1. ThreadsOK
    BY DEF ThreadsOK, BatchTypes, BatchTypeOK, BatchConsumerTypeOK
  <2> QED
    BY <1>2, <2>1, CallOfOneThread
<1>3. CASE LoopStep /\ ~ProduceAsync
  BY <1>3
  DEF LoopStep, CheckKillNow, PollNothing, PollRaises, Handle, Answer, AnswerList,
      Crash, ProduceSync, EnqueueFails, EndIteration, CloseConsumer, producerVars
<1>4. CASE \/ CloseProducer \/ DispatchBatch
           \/ \E batch \in Batches : PollBatch(batch) \/ JoinRaises(batch)
           \/ Commit \/ Signal \/ Restart \/ Terminated \/ UNCHANGED allVars
  BY <1>4
  DEF CloseProducer, Flushed, DispatchBatch, PollBatch, JoinRaises, Commit, Signal,
      Restart, Terminated, vars, allVars, producerVars
<1> QED
  BY <1>1, <1>2, <1>3, <1>4 DEF BatchNext, BatchMainStep, Elsewhere

LEMMA ReportsTrueStep ==
    ASSUME NEW q, SingleOutput(q), BatchTypes, BatchTypes', ReportsTrue(q),
           DueInFlight(q), SettledKept, [BatchNext]_allVars, ~DieBatch
    PROVE  ReportsTrue(q)'
<1>0. q \in AsyncQueues /\ dr[q] \in Seq(Messages \X BOOLEAN)
  BY DEF SingleOutput, BatchTypes, BatchTypeOK, ProducerTypeOK
<1>1. ASSUME NEW i \in DOMAIN dr[q], dr[q][i][2] PROVE due'[dr[q][i][1]] = {}
  <2>1. /\ dr[q][i] \in Messages \X BOOLEAN
        /\ message_context[dr[q][i][1]] # << >>
    BY <1>0 DEF BatchTypes
  <2>2. dr[q][i][1] \in Messages /\ Settled(dr[q][i][1])
    BY <1>1, <2>1 DEF ReportsTrue
  <2> QED
    BY <2>1, <2>2 DEF SettledKept, Settled
<1>2. CASE dr' = dr
  BY <1>1, <1>2 DEF ReportsTrue, Settled
<1>3. CASE Outcome(q)
  <2>1. PICK n \in Messages, ok \in BOOLEAN :
            /\ dr'[q] = Append(dr[q], <<n, ok>>)
            /\ due[n] \subseteq {1} /\ (Delivered(n, 1) \/ (UNCHANGED due /\ ~ok))
    BY <1>3, OutcomeParts
  <2>2. <<n, ok>> \in Messages \X BOOLEAN
    OBVIOUS
  <2>3. \A j \in DOMAIN dr'[q] :
            (j \in DOMAIN dr[q] /\ dr'[q][j] = dr[q][j]) \/ dr'[q][j] = <<n, ok>>
    BY <1>0, <2>1, <2>2, AppendProperties
  <2>4. ok => due'[n] = {}
    BY <2>1 DEF Delivered, BatchTypes
  <2>5. ASSUME NEW j \in DOMAIN dr'[q], dr'[q][j][2] PROVE due'[dr'[q][j][1]] = {}
    <3>1. CASE j \in DOMAIN dr[q] /\ dr'[q][j] = dr[q][j]
      BY <1>1, <2>5, <3>1
    <3>2. CASE dr'[q][j] = <<n, ok>>
      <4>1. dr'[q][j][1] = n /\ dr'[q][j][2] = ok
        BY <3>2
      <4> QED
        BY <2>4, <2>5, <4>1
    <3> QED
      BY <2>3, <3>1, <3>2
  <2> QED
    BY <2>5 DEF ReportsTrue, Settled
<1>4. ASSUME NEW t \in Threads, ServeBatch(t, q)
      PROVE  ReportsTrue(q)'
  <2>1. dr'[q] = Tail(dr[q]) /\ dr[q] # << >>
    BY <1>0, <1>4 DEF ServeBatch, CallbackBatch, acked, BatchTypes, BatchTypeOK,
                      ProducerTypeOK
  <2>2. \A j \in DOMAIN Tail(dr[q]) :
            j + 1 \in DOMAIN dr[q] /\ Tail(dr[q])[j] = dr[q][j + 1]
    BY <1>0, <2>1, HeadTailProperties
  <2>3. ASSUME NEW j \in DOMAIN dr'[q], dr'[q][j][2] PROVE due'[dr'[q][j][1]] = {}
    <3>1. j + 1 \in DOMAIN dr[q] /\ dr'[q][j] = dr[q][j + 1]
      BY <2>1, <2>2
    <3> QED
      BY <1>1, <2>3, <3>1
  <2> QED
    BY <2>3 DEF ReportsTrue, Settled
<1>5. CASE ProduceAsync
  BY <1>2, <1>5 DEF ProduceAsync, Enqueue
<1> QED
  BY <1>2, <1>3, <1>4, <1>5, LinesOf

LEMMA DueInFlightStep ==
    ASSUME NEW q, SingleOutput(q), BatchTypes, BatchTypes', ContextsRead,
           BatchMainInv(q), DueInFlight(q), [BatchNext]_allVars, ~DieBatch
    PROVE  DueInFlight(q)'
<1>0. /\ q \in AsyncQueues /\ outbox[q] \in Seq(Outputs)
      /\ pc \in Holding => msg \in Messages /\ message_context[msg] # << >>
  BY DEF SingleOutput, BatchTypes, BatchTypeOK, ProducerTypeOK, EngineTypeOK
<1>1. ASSUME NEW i \in DOMAIN outbox[q]
      PROVE  outbox[q][i][2] = 1 /\ due'[outbox[q][i][1]] \subseteq {1}
  <2>1. outbox[q][i] \in Outputs /\ message_context[outbox[q][i][1]] # << >>
    BY <1>0 DEF BatchTypes
  <2>2. outbox[q][i][1] \in Messages
    BY <2>1 DEF Outputs
  <2> QED
    BY <2>1, <2>2, DueStaysSmall DEF DueInFlight
<1>2. \A i \in DOMAIN outbox'[q] :
         outbox'[q][i][2] = 1 /\ due'[outbox'[q][i][1]] \subseteq {1}
  <2>1. CASE outbox' = outbox
    BY <1>1, <2>1
  <2>2. CASE ProduceAsync
    <3>1. outs = <<q>> /\ Head(outs) = q /\ Len(outs) = 1
      BY <2>2 DEF ProduceAsync, Produce, BatchMainInv, Verdict
    <3> DEFINE e == <<msg, 1>>
    <3>2. outbox'[q] = Append(outbox[q], e)
      BY <1>0, <2>2, <3>1 DEF ProduceAsync, Enqueue, BatchTypes, BatchTypeOK,
                              ProducerTypeOK
    <3>3. /\ msg \in Messages /\ message_context[msg] # << >> /\ due[msg] \subseteq {1}
          /\ due' = due
      BY <1>0, <2>2 DEF ProduceAsync, Produce, Holding, DueInFlight, ghostVars
    <3>4. e \in Outputs /\ e[1] = msg /\ e[2] = 1
      BY <3>3 DEF Outputs
    <3> HIDE DEF e
    <3>5. \A j \in DOMAIN outbox'[q] :
              \/ j \in DOMAIN outbox[q] /\ outbox'[q][j] = outbox[q][j]
              \/ outbox'[q][j] = e
      BY <1>0, <3>2, <3>4, AppendProperties
    <3> QED
      BY <1>1, <3>3, <3>4, <3>5
  <2>3. CASE Outcome(q)
    <3>1. 1 \in DOMAIN outbox[q] /\ outbox'[q] = RemoveAt(outbox[q], 1)
      BY <2>3, OutcomeParts
    <3>2. \A j \in DOMAIN outbox'[q] :
              \E i \in DOMAIN outbox[q] : outbox'[q][j] = outbox[q][i]
      <4>1. /\ DOMAIN outbox[q] = 1..Len(outbox[q]) /\ Len(outbox[q]) \in Nat
            /\ DOMAIN RemoveAt(outbox[q], 1) = 1..(Len(outbox[q]) - 1)
            /\ \A j \in 1..(Len(outbox[q]) - 1) :
                  RemoveAt(outbox[q], 1)[j]
                      = IF j < 1 THEN outbox[q][j] ELSE outbox[q][j + 1]
        BY <1>0, <3>1, RemoveParts
      <4>2. \A j \in 1..(Len(outbox[q]) - 1) :
                j \in DOMAIN outbox[q] /\ j + 1 \in DOMAIN outbox[q]
        BY <4>1
      <4> QED
        BY <3>1, <4>1, <4>2
    <3> QED
      BY <1>1, <3>2
  <2>4. ASSUME NEW t \in Threads, ServeBatch(t, q) PROVE outbox' = outbox
    BY <2>4 DEF ServeBatch, CallbackBatch, acked
  <2> QED
    BY <2>1, <2>2, <2>3, <2>4, LinesOf
<1>3. ASSUME pc' = "produce", outs' # << >>
      PROVE  due'[msg'] \subseteq {1}
  <2>1. CASE pc = "produce" /\ outs # << >> /\ msg' = msg
    BY <1>0, <2>1, DueStaysSmall DEF DueInFlight, Holding
  <2>2. CASE Handle
    <3>1. due' = [due EXCEPT ![msg] = {1}] /\ msg' = msg /\ msg \in Messages
      BY <1>0, <1>3, <2>2
      DEF Handle, HandleValid, HandleInvalid, DLQNotConfigured, Holding
    <3> QED
      BY <3>1 DEF BatchTypes
  <2>3. ASSUME NEW l \in AppLists, AnswerList(l) PROVE due'[msg'] \subseteq {1}
    <3>1. l = <<q>>
      BY DEF SingleOutput
    <3>2. 1..Len(l) = {1}
      BY <3>1
    <3>3. due' = [due EXCEPT ![msg] = {1}] /\ msg' = msg /\ msg \in Messages
      BY <1>0, <2>3, <3>2 DEF AnswerList, WorkList, Holding
    <3> QED
      BY <3>3 DEF BatchTypes
  <2>4. ASSUME NEW b \in AppBools, Answer(b) PROVE FALSE
    BY <1>3, <2>4 DEF Answer, WorkBool, BatchMainInv, NoOutsYet
  <2>5. CASE ProduceAsync \/ EnqueueFails \/ \E st, d \in BOOLEAN : ProduceSync(st, d)
    BY <2>1, <2>5 DEF ProduceAsync, EnqueueFails, ProduceSync, Produce
  <2>6. CASE CheckKillNow \/ PollNothing \/ PollRaises \/ Crash \/ EndIteration
             \/ CloseConsumer
    BY <1>3, <2>6
    DEF CheckKillNow, LoopAgain, LoopExit, PollNothing, ConsumeNone, PollRaises, Abort,
        Crash, WorkRaises, ProduceRaises, EndIteration, Marked, NextIteration,
        CloseConsumer, ShutdownConsumer
  <2>7. CASE UNCHANGED <<pc, msg, outs>>
    BY <1>3, <2>1, <2>7
  <2>8. CASE DispatchBatch \/ CloseProducer
    BY <1>3, <2>8 DEF DispatchBatch, MarkSuccess, MarkFail, LeaveToCallback,
                      NextIteration, CloseProducer, ShutdownProducer
  <2>9. CASE \/ \E batch \in Batches : PollBatch(batch) \/ JoinRaises(batch)
             \/ \E t \in Threads, o \in AsyncQueues : ServeBatch(t, o)
             \/ \E t \in Threads : BatchCallStep(t)
    BY <1>3, <2>7, <2>9
    DEF PollBatch, Consume, JoinRaises, Abort, ServeBatch, CallbackBatch, BatchCallStep,
        StepCall, StepNextMessage, StepOnFail, engineVars
  <2>10. CASE Elsewhere \/ UNCHANGED allVars
    BY <1>3, <2>7, <2>10
    DEF Elsewhere, Outcome, Deliver, Reject, Commit, Signal, exit_gracefully, Restart,
        Start, Terminated, vars, allVars, engineVars
  <2> QED
    BY <2>2, <2>3, <2>4, <2>5, <2>6, <2>8, <2>9, <2>10
    DEF BatchNext, BatchMainStep, LoopStep
<1> QED
  BY <1>2, <1>3 DEF DueInFlight

LEMMA HandUndecidedStep ==
    ASSUME NEW q, SingleOutput(q), BatchTypes, BatchTypes', DueInFlight(q),
           HandUndecided, [BatchNext]_allVars, ~DieBatch
    PROVE  HandUndecided'
<1> USE DEF HandUndecided
<1>1. CASE pc' \notin {"handle", "work"}
  BY <1>1
<1>2. CASE pc \in {"handle", "work"} /\ msg' = msg /\ due' = due
  BY <1>2
<1>3. CASE UNCHANGED <<pc, msg, due>>
  BY <1>3
<1>4. CASE LoopStep
  BY <1>1, <1>2, <1>4
  DEF LoopStep, CheckKillNow, LoopAgain, LoopExit, PollNothing, ConsumeNone, PollRaises,
      Handle, HandleValid, HandleInvalid, DLQNotConfigured, Answer, WorkBool,
      AnswerList, WorkList, Crash, WorkRaises, ProduceRaises, ProduceSync,
      ProduceAsync, EnqueueFails, Produce, EndIteration, Marked, CloseConsumer,
      ShutdownConsumer, NextIteration, Abort, ghostVars
<1>5. ASSUME NEW batch \in Batches, PollBatch(batch)
      PROVE  HandUndecided'
  <2>1. msg' = Name(batch) /\ Name(batch) \in Messages
        /\ due' = [due EXCEPT ![Name(batch)] = {Decision}]
    BY <1>5, NameIsMessage DEF PollBatch, Consume
  <2> QED
    BY <2>1 DEF BatchTypes
<1>6. CASE Outcome(q)
  <2>1. pc' = pc /\ msg' = msg
    BY <1>6 DEF Outcome, Deliver, Reject, engineVars
  <2>2. PICK n \in Messages : Delivered(n, 1) \/ UNCHANGED due
    BY <1>6, OutcomeParts
  <2>3. \A m \in Messages : Decision \in due[m] => Decision \in due'[m]
    BY <2>2 DEF Delivered, Decision, BatchTypes
  <2>4. pc \in {"handle", "work"} => msg \in Messages
    BY DEF BatchTypes, BatchTypeOK, EngineTypeOK, Holding
  <2> QED
    BY <2>1, <2>3, <2>4
<1>7. CASE DispatchBatch \/ CloseProducer \/ \E batch \in Batches : JoinRaises(batch)
  BY <1>1, <1>7
  DEF DispatchBatch, MarkSuccess, MarkFail, LeaveToCallback, NextIteration,
                    CloseProducer, ShutdownProducer, JoinRaises, Abort
<1>8. CASE \/ \E t \in Threads, o \in AsyncQueues : ServeBatch(t, o)
           \/ \E t \in Threads : BatchCallStep(t)
  BY <1>1, <1>3, <1>8
  DEF ServeBatch, CallbackBatch, FailBatch, BatchCallStep, StepCall, StepNextMessage,
      StepOnFail, Abort, engineVars, ghostVars
<1>9. CASE Commit \/ Signal \/ Restart \/ Terminated \/ UNCHANGED allVars
  BY <1>1, <1>3, <1>9 DEF Commit, Signal, exit_gracefully, Restart, Start, Terminated,
                          vars, allVars, engineVars, ghostVars
<1>10. \A o \in AsyncQueues : o = q
  BY DEF SingleOutput
<1> QED
  BY <1>4, <1>5, <1>6, <1>7, <1>8, <1>9, <1>10 DEF BatchNext, BatchMainStep, Elsewhere

\* A batch that is read comes last in line, and is all that was read since.
LEMMA PollKeepsLine ==
    ASSUME NEW q, SingleOutput(q), BatchTypes, BatchTypes', BatchLineInv(q),
           BatchesKept, Ok \subseteq Ok', NEW batch \in Batches, PollBatch(batch)
    PROVE  CoversLine(q)' /\ ReadInLine(q)'
<1> DEFINE n == LineLen(q)
           n1 == LineLen(q)'
<1>0. /\ q \in AsyncQueues /\ dr[q] \in Seq(Messages \X BOOLEAN)
      /\ outbox[q] \in Seq(Outputs)
      /\ InHand \in Seq(Messages)
      /\ InHand' \in Seq(Messages)
      /\ \A k \in 1..n : Line(q)[k] \in Messages /\ message_context[Line(q)[k]] # << >>
  BY LineTypes DEF SingleOutput
<1>1. /\ batch \in Seq(Messages) /\ batch # << >> /\ Range(batch) \subseteq Messages
      /\ \A m \in Messages :
            Below(m, position') => Below(m, position) \/ m \in Range(batch)
      /\ \A m \in Range(batch) : Below(m, position')
  BY BatchIsNext DEF PollBatch, BatchTypes, BatchTypeOK, BatchConsumerTypeOK
<1>2. /\ InHand = << >> /\ InHand' = <<Name(batch)>> /\ dr' = dr /\ outbox' = outbox
      /\ Reading
  BY DEF PollBatch, Consume, InHand, Hand, Reading, producerVars
<1>3. /\ n \in Nat /\ n1 = n + 1
      /\ \A k \in 1..n : k \in 1..n1 /\ Line(q)'[k] = Line(q)[k]
      /\ Line(q)'[n1] = Name(batch)
  <2> DEFINE waiting == dr[q]
             flying == outbox[q]
             hand == InHand
             hand1 == InHand'
  <2>1. /\ waiting \in Seq(Messages \X BOOLEAN) /\ flying \in Seq(Outputs)
        /\ hand \in Seq(Messages) /\ hand1 \in Seq(Messages)
        /\ Len(hand) = 0 /\ Len(hand1) = 1
    BY <1>0, <1>2
  <2>2. dr'[q] = waiting /\ outbox'[q] = flying /\ hand1[1] = Name(batch)
    BY <1>2
  <2> HIDE DEF waiting, flying, hand, hand1
  <2>3. /\ LenOf(waiting, flying, hand) \in Nat
        /\ LenOf(waiting, flying, hand1) = LenOf(waiting, flying, hand) + 1
        /\ \A k \in 1..LenOf(waiting, flying, hand) :
              /\ k \in 1..LenOf(waiting, flying, hand1)
              /\ LineOf(waiting, flying, hand1)[k] = LineOf(waiting, flying, hand)[k]
        /\ LineOf(waiting, flying, hand1)[LenOf(waiting, flying, hand1)] = hand1[1]
    BY ONLY <2>1, LineReads
  <2> QED
    BY <2>2, <2>3 DEF LineLen, Line, waiting, flying, hand, hand1
<1>4. message_context'[Name(batch)] = batch
  BY <1>1, NameIsOfBatch DEF PollBatch, NamedAfter, BatchTypes, BatchTypeOK
<1>5. \A k \in 1..n : message_context'[Line(q)'[k]] = message_context[Line(q)[k]]
  BY <1>0, <1>3 DEF BatchesKept
<1> HIDE DEF n, n1
<1>6. ASSUME NEW k \in 1..n, NEW m, InBatch(q, k, m)
      PROVE  \A l \in k..n1 : InBatch(q, l, m)'
  <2>1. PICK i \in 1..k : m \in Range(message_context[Line(q)[i]])
    BY <1>6 DEF InBatch
  <2>2. i \in 1..n /\ \A l \in k..n1 : i \in 1..l
    BY <1>3, <2>1
  <2>3. m \in Range(message_context'[Line(q)'[i]])
    BY <1>5, <2>1, <2>2
  <2> QED
    BY <2>2, <2>3 DEF InBatch
<1>7. ASSUME NEW m \in Messages, Below(m, position')
      PROVE  m \in Ok' \/ \A l \in 1..n1 : l = n1 => InBatch(q, l, m)'
  <2>1. CASE m \in Range(batch)
    <3>1. ASSUME NEW l \in 1..n1, l = n1 PROVE InBatch(q, l, m)'
      <4>1. m \in Range(message_context'[Line(q)'[l]]) /\ l \in 1..l
        BY <1>3, <1>4, <2>1, <3>1
      <4> QED
        BY <4>1 DEF InBatch
    <3> QED
      BY <3>1
  <2>2. CASE Below(m, position)
    <3>1. m \in Ok \/ InBatch(q, n, m)
      BY <1>2, <2>2 DEF BatchLineInv, ReadInLine, n
    <3>2. CASE InBatch(q, n, m)
      <4>1. n \in 1..n
        <5>1. \E i \in 1..n : TRUE
          BY <3>2 DEF InBatch
        <5> QED
          BY <1>3, <5>1
      <4>2. PICK k \in 1..n : k = n
        BY <4>1
      <4>3. InBatch(q, k, m)
        BY <3>2, <4>2
      <4>4. \A l \in k..n1 : InBatch(q, l, m)'
        BY <1>6, <4>3
      <4> QED
        BY <1>3, <4>2, <4>4
    <3> QED
      BY <3>1, <3>2
  <2> QED
    BY <1>1, <1>7, <2>1, <2>2
<1>8. ReadInLine(q)'
  <2> SUFFICES ASSUME NEW m \in Messages, Below(m, position')
               PROVE  m \in Ok' \/ InBatch(q, LineLen(q), m)'
    BY DEF ReadInLine, Below
  <2>1. PICK l \in 1..n1 : l = n1
    BY <1>3
  <2> QED
    BY <1>7, <2>1 DEF InBatch, n1
<1>9. CoversLine(q)'
  <2> SUFFICES ASSUME NEW k \in 1..n1,
                      NEW m \in Range(message_context'[Line(q)'[k]]), NEW x \in UpTo(m)
               PROVE  x \in Ok' \/ InBatch(q, k, x)'
    BY DEF CoversLine, UpTo, n1
  <2>1. CASE k \in 1..n
    <3>1. m \in Range(message_context[Line(q)[k]])
      BY <1>5, <2>1
    <3>2. x \in Ok \/ InBatch(q, k, x)
      BY <2>1, <3>1 DEF BatchLineInv, CoversLine, n
    <3>3. k \in k..n1
      BY <1>3, <2>1
    <3> QED
      BY <1>6, <2>1, <3>2, <3>3
  <2>2. CASE k = n1
    <3>1. m \in Range(batch) /\ m \in Messages
      BY <1>1, <1>3, <1>4, <2>2
    <3>2. x \in Messages /\ Below(x, position')
      <4>1. /\ partition(x) = partition(m) /\ offset(x) <= offset(m) /\ x \in Messages
            /\ offset(x) \in Nat /\ offset(m) \in Nat /\ partition(m) \in Partitions
        BY <3>1, MessageParts DEF UpTo
      <4>2. Below(m, position') /\ position'[partition(m)] \in Nat
        BY <1>1, <3>1, <4>1, TopologyAssumption
        DEF BatchTypes, BatchTypeOK, BatchConsumerTypeOK
      <4> QED
        BY <4>1, <4>2 DEF Below
    <3> QED
      BY <1>7, <2>2, <3>2
  <2> QED
    BY <1>3, <2>1, <2>2
<1> QED
  BY <1>8, <1>9

\* Every step but the death of the process keeps the line.
LEMMA LineKeeps ==
    ASSUME NEW q, SingleOutput(q), BatchTypes, BatchTypes', BatchLineInv(q),
           BatchMainInv(q), BatchesKept, Ok \subseteq Ok',
           [BatchNext]_allVars, ~DieBatch
    PROVE  CoversLine(q)' /\ ReadInLine(q)'
<1> USE DEF BatchLineInv
<1>0. /\ q \in AsyncQueues /\ LineLen(q) \in Nat /\ LineLen(q)' \in Nat
  BY LineTypes DEF SingleOutput
<1>1. CASE \E batch \in Batches : PollBatch(batch)
  BY <1>1, PollKeepsLine
<1>2. CASE \E t \in Threads : ServeBatch(t, q)
  <2>1. PICK t \in Threads, m \in Messages, ok \in BOOLEAN : CallbackBatch(t, q, m, ok)
    BY <1>2 DEF ServeBatch
  <2>2. /\ Shift(q, 1) /\ LineLen(q)' + 1 = LineLen(q) /\ 1 <= LineLen(q)
        /\ Range(message_context[Line(q)[1]]) \subseteq Ok'
    BY <1>0, <2>1, ServeLine
  <2>3. position' = position /\ (Reading' => Reading)
    BY <2>1 DEF CallbackBatch, FailBatch, on_success_batch, on_success, on_fail_batch,
                engineVars, Reading, Hand
  <2>4. 1 \in 0..1
    OBVIOUS
  <2>5. CoversLine(q)' /\ (Reading => ReadInLine(q)')
    BY <1>0, <2>2, <2>3, <2>4, CoverKeeps DEF Below
  <2> QED
    BY <2>3, <2>5 DEF ReadInLine
<1>3. CASE ~(\E batch \in Batches : PollBatch(batch))
           /\ ~(\E t \in Threads : ServeBatch(t, q))
  <2>1. Shift(q, 0) /\ (LineLen(q)' = LineLen(q) \/ ~Reading')
    BY <1>3, LineStep
  <2>2. 0 \in 0..1 /\ 0 <= LineLen(q) /\ 0 # 1
    BY <1>0
  <2>3. CoversLine(q)'
    BY <1>0, <2>1, <2>2, CoverKeeps
  <2>4. CASE Reading'
    <3>1. Reading /\ LineLen(q)' + 0 = LineLen(q)
      BY <1>0, <2>1, <2>4, ReadingStep
    <3>2. \A m \in Messages : Below(m, position') => Below(m, position)
      <4>1. ~(\E batch \in Batches : JoinRaises(batch))
        BY <2>4 DEF JoinRaises, Abort, Reading, Hand
      <4>2. position' = position
        <5>1. CASE LoopStep
          BY <5>1
          DEF LoopStep, CheckKillNow, PollNothing, PollRaises, Handle, Answer,
              AnswerList, Crash, ProduceSync, ProduceAsync, EnqueueFails,
              EndIteration, CloseConsumer, Close, consumerVars
        <5>2. CASE DispatchBatch \/ CloseProducer
          BY <5>2
          DEF DispatchBatch, FailBatch, on_success_batch, on_success, on_fail_batch,
              CloseProducer, consumerVars
        <5>3. ASSUME NEW t \in Threads, NEW o \in AsyncQueues, ServeBatch(t, o)
              PROVE  position' = position
          BY <5>3
          DEF ServeBatch, CallbackBatch, FailBatch, on_success_batch, on_success,
              on_fail_batch
        <5>4. ASSUME NEW t \in Threads, BatchCallStep(t) PROVE position' = position
          BY <5>4
          DEF BatchCallStep, StepCall, Lookup, Record, StoreOffsets, CloseOnFail, Close,
              StepNextMessage, NextMessage, on_success, StepOnFail, OnFailRaises
        <5>5. CASE Elsewhere \/ UNCHANGED allVars
          BY <5>5
          DEF Elsewhere, Outcome, Deliver, Reject, Commit, AutoCommit, Signal, Restart,
              Terminated, vars, allVars, consumerVars
        <5> QED
          BY <1>3, <4>1, <5>1, <5>2, <5>3, <5>4, <5>5 DEF BatchNext, BatchMainStep
      <4> QED
        BY <4>2 DEF Below
    <3> QED
      BY <1>0, <2>1, <2>2, <3>1, <3>2, CoverKeeps
  <2> QED
    BY <2>3, <2>4 DEF ReadInLine
<1> QED
  BY <1>1, <1>2, <1>3

\* What a process leaves behind when it dies is what the group committed past: the line
\* is empty, and the next process reads from there.
LEMMA DieKeepsLine ==
    ASSUME NEW q, SingleOutput(q), BatchTypes, CoveredIsOk, DieBatch
    PROVE  BatchLineInv(q)'
<1>0. /\ q \in AsyncQueues
      /\ stored \in [Partitions -> 0..(MaxOffset + 1)]
      /\ committed \in [Partitions -> 0..(MaxOffset + 1)]
  BY DEF SingleOutput, BatchTypes, BatchTypeOK, BatchConsumerTypeOK
<1>1. /\ pc' = "down" /\ dr'[q] = << >> /\ outbox'[q] = << >>
      /\ position' = committed /\ committed' = committed
      /\ stored' = [p \in Partitions |-> 0]
      /\ call' = [t \in Threads |-> Idle] /\ rest' = [t \in Threads |-> << >>]
      /\ message_context' = [m \in Messages |-> << >>]
      /\ settledBefore' = {m \in Messages : BatchSettled(m)}
      /\ mishandled' = mishandled \intersect Removed
  BY <1>0 DEF DieBatch, Die, Vanish, Resubscribe, Reconnect
<1>2. ASSUME NEW m \in Messages, Below(m, committed) PROVE m \in Ok'
  <2>1. m \in Removed /\ m \in Ok
    BY <1>2 DEF Removed, Below, CoveredIsOk
  <2> QED
    BY <1>1, <2>1 DEF Ok, BatchSettled
<1>3. ASSUME NEW m \in Messages PROVE ~Below(m, stored')
  BY <1>1, MessageParts DEF Below
<1>4. ~Hand' /\ InHand' = << >> /\ LineLen(q)' = 0
  BY <1>1 DEF Hand, InHand, LineLen, LenOf
<1>5. CoversLine(q)'
  BY <1>4 DEF CoversLine
<1>6. ReadInLine(q)' /\ CoveredIsOk'
  BY <1>1, <1>2, <1>3 DEF ReadInLine, CoveredIsOk, Below
<1>7. RunCovers'
  BY <1>1 DEF RunCovers, Idle, Succeeding
<1> QED
  BY <1>1, <1>5, <1>6, <1>7
  DEF BatchLineInv, ContextsRead, ReportsTrue, DueInFlight, HandUndecided

LEMMA BatchLineInit ==
    ASSUME NEW q, SingleOutput(q), BatchInit
    PROVE  BatchLineInv(q) /\ BatchMainInv(q)
<1>1. /\ pc = "loop"
      /\ outs = << >>
      /\ reports = {}
      /\ dr[q] = << >>
      /\ outbox[q] = << >>
      /\ position = [p \in Partitions |-> 0] /\ committed = [p \in Partitions |-> 0]
      /\ stored = [p \in Partitions |-> 0]
      /\ call = [t \in Threads |-> Idle] /\ rest = [t \in Threads |-> << >>]
      /\ message_context = [m \in Messages |-> << >>]
  BY DEF BatchInit, Init, EngineInit, ConsumerInit, ProducerInit, SingleOutput
<1>2. ASSUME NEW m \in Messages
      PROVE  ~Below(m, position) /\ ~Below(m, stored) /\ ~Below(m, committed)
  BY <1>1, MessageParts DEF Below
<1>3. LineLen(q) = 0
  BY <1>1 DEF Hand, InHand, LineLen, LenOf
<1>4. CoversLine(q)
  BY <1>3 DEF CoversLine
<1>5. ReadInLine(q) /\ CoveredIsOk
  BY <1>2 DEF ReadInLine, CoveredIsOk
<1>6. RunCovers
  BY <1>1 DEF RunCovers, Idle, Succeeding
<1> QED
  BY <1>1, <1>4, <1>5, <1>6
  DEF BatchLineInv, ContextsRead, ReportsTrue, DueInFlight, HandUndecided, BatchMainInv,
      MarkAborts, Verdict, NoOutsYet

LEMMA BatchLineStep ==
    ASSUME NEW q, SingleOutput(q), BatchTypes, BatchTypes', BatchLineInv(q),
           BatchMainInv(q), [BatchNext]_allVars
    PROVE  BatchLineInv(q)' /\ BatchMainInv(q)'
<1>1. BatchMainInv(q)'
  BY BatchVerdictStep, MarkAbortsStep DEF BatchMainInv
<1>2. CASE DieBatch
  BY <1>1, <1>2, DieKeepsLine DEF BatchLineInv
<1>3. CASE ~DieBatch
  <2>1. BatchesKept /\ SettledKept
    BY <1>3, BatchesKeep, SettledKeep DEF BatchLineInv
  <2>2. Ok \subseteq Ok'
    BY <1>3, <2>1, OkGrows
  <2>3. CoversLine(q)' /\ ReadInLine(q)'
    BY <1>3, <2>1, <2>2, LineKeeps
  <2>4. RunCovers'
    BY <1>3, <2>2, RunCoversStep
  <2>5. CoveredIsOk'
    BY <1>3, <2>2, CoveredStep DEF BatchLineInv
  <2>6. ContextsRead'
    BY <1>3, <2>1, ContextsReadStep DEF BatchLineInv
  <2>7. ReportsTrue(q)'
    BY <1>3, <2>1, ReportsTrueStep DEF BatchLineInv
  <2>8. DueInFlight(q)'
    BY <1>3, DueInFlightStep DEF BatchLineInv
  <2>9. HandUndecided'
    BY <1>3, HandUndecidedStep DEF BatchLineInv
  <2> QED
    BY <1>1, <2>3, <2>4, <2>5, <2>6, <2>7, <2>8, <2>9 DEF BatchLineInv
<1> QED
  BY <1>2, <1>3

\* The group commits past a message only if the output of its batch was delivered, or a
\* delivery callback reported its failure: for batches of any size over any number of
\* partitions, with stop_on_failure or without, under signals, crashes and restarts,
\* when each batch is answered with one output to one asynchronous producer, or fails.
THEOREM BatchWorkerAtLeastOnce ==
    ASSUME NEW q, SingleOutput(q)
    PROVE  BatchSpec => []BatchAtLeastOnce
<1>1. BatchInit => BatchTypes /\ BatchLineInv(q) /\ BatchMainInv(q)
  BY BatchTypesInit, BatchLineInit
<1>2. BatchTypes /\ BatchLineInv(q) /\ BatchMainInv(q) /\ [BatchNext]_allVars
        => BatchTypes' /\ BatchLineInv(q)' /\ BatchMainInv(q)'
  BY BatchTypesStep, BatchLineStep
<1>3. BatchLineInv(q) => BatchAtLeastOnce
  BY DEF BatchLineInv, CoveredIsOk, Ok, BatchAtLeastOnce, Removed, Below
<1> QED
  BY <1>1, <1>2, <1>3, PTL DEF BatchSpec
=============================================================================
