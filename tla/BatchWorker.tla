----------------------------- MODULE BatchWorker -----------------------------
(***************************************************************************)
(* A Volley process whose input is consumed in batches: the steps of       *)
(* KafkaWorker, with a BatchJsonConfluentConsumer.  The Engine handles a   *)
(* batch as one message.  Here that message is named after one of the      *)
(* batch, message_context gives the whole list, and what is due of the     *)
(* batch is due of its name.                                               *)
(***************************************************************************)
EXTENDS KafkaWorker, BatchConsumer

VARIABLES
    message_context,  \* per name of a batch, the list of its messages
    settledBefore,    \* messages that an earlier process settled
    mishandled        \* messages whose failure a delivery callback reported

batchVars == <<rest, message_context, settledBefore, mishandled>>

allVars == <<vars, batchVars>>

NamedAfter(batch, m) ==
    message_context' = [message_context EXCEPT ![m] = batch]

\* A batch is valid JSON of the model only if each of its messages is.
Name(batch) ==
    IF \E m \in Range(batch) : ~message_model_handler(m)
    THEN CHOOSE m \in Range(batch) : ~message_model_handler(m)
    ELSE Head(batch)

\* The batch that was named after some message is settled as a whole.
BatchSettled(m) ==
    \/ m \in settledBefore
    \/ \E n \in Messages : Settled(n) /\ m \in Range(message_context[n])

BatchTypeOK ==
    /\ EngineTypeOK
    /\ BatchConsumerTypeOK
    /\ ProducerTypeOK
    /\ message_context \in [Messages -> Seq(Messages)]
    /\ pc \in Holding => message_context[msg] # << >>

BatchInit ==
    /\ Init
    /\ rest = [t \in Threads |-> << >>]
    /\ message_context = [m \in Messages |-> << >>]
    /\ settledBefore = {}
    /\ mishandled = {}

-----------------------------------------------------------------------------
(* The steps that differ from those of KafkaWorker *)

PollBatch(batch) ==
    /\ Consume(Name(batch))
    /\ ConsumeBatch(batch)
    /\ NamedAfter(batch, Name(batch))
    /\ due' = [due EXCEPT ![Name(batch)] = {Decision}]
    /\ UNCHANGED <<producerVars, failed, restarts, settledBefore, mishandled>>

\* A message without a value among them cannot be joined: TypeError, which
\* nothing catches.
JoinRaises(batch) ==
    /\ pc = "poll"
    /\ Abort
    /\ ConsumeBatch(batch)
    /\ UNCHANGED <<producerVars, ghostVars, message_context, settledBefore,
                   mishandled>>

FailBatch(t, m) ==
    /\ on_fail_batch(t, message_context[m])
    /\ failed' = failed \union Range(message_context[m])
    /\ UNCHANGED <<due, restarts>>

DispatchBatch ==
    /\ \/ MarkSuccess /\ on_success_batch(Main, message_context[msg])
                      /\ UNCHANGED ghostVars
       \/ MarkFail /\ FailBatch(Main, msg)
       \/ LeaveToCallback /\ UNCHANGED <<consumerVars, rest, ghostVars>>
    /\ UNCHANGED <<producerVars, message_context, settledBefore, mishandled>>

CallbackBatch(t, q, m, ok) ==
    /\ Serves(t, q)
    /\ acked(q, m, ok)
    /\ IF ok
       THEN on_success_batch(t, message_context[m]) /\ UNCHANGED ghostVars
       ELSE FailBatch(t, m)
    /\ mishandled' = IF ok THEN mishandled
                     ELSE mishandled \union Range(message_context[m])
    /\ UNCHANGED <<engineVars, message_context, settledBefore>>

\* Nothing catches the exception of on_fail: neither run_component and the
\* flush of its shutdown nor handle_poll.
StepOnFail(t) ==
    /\ OnFailRaises(t)
    /\ IF t = Main
       THEN Abort /\ UNCHANGED producerVars
       ELSE PollThreadDies(t) /\ UNCHANGED engineVars
    /\ UNCHANGED <<ghostVars, message_context, settledBefore, mishandled>>

StepNextMessage(t) ==
    /\ NextMessage(t)
    /\ UNCHANGED <<engineVars, producerVars, ghostVars, message_context,
                   settledBefore, mishandled>>

\* What the group has not committed past is read again, and forgiven.
DieBatch ==
    /\ Die
    /\ rest' = [t \in Threads |-> << >>]
    /\ message_context' = [m \in Messages |-> << >>]
    /\ settledBefore' = {m \in Messages : BatchSettled(m)}
    /\ mishandled' = mishandled \intersect Removed

-----------------------------------------------------------------------------

BatchMainStep ==
    \/ LoopStep /\ rest[Main] = << >> /\ UNCHANGED batchVars
    \/ DispatchBatch
    \/ CloseProducer /\ (\A t \in {Main, Head(outs)} \intersect Threads :
                           rest[t] = << >>)
                     /\ UNCHANGED batchVars

\* store_offsets never raises here: BatchStopDrained says that no on_success is
\* running when the consumer is closed, by the shutdown alone.
BatchCallStep(t) ==
    \/ StepCall(t) /\ UNCHANGED batchVars
    \/ StepNextMessage(t)
    \/ StepOnFail(t)

ServeBatch(t, q) ==
    \E m \in Messages, ok \in BOOLEAN : CallbackBatch(t, q, m, ok)

Elsewhere ==
    \/ \E q \in AsyncQueues : Outcome(q)
    \/ Commit
    \/ Signal
    \/ Restart
    \/ Terminated

BatchNext ==
    \/ BatchMainStep
    \/ \E batch \in Batches : PollBatch(batch) \/ JoinRaises(batch)
    \/ \E t \in Threads, q \in AsyncQueues : ServeBatch(t, q)
    \/ \E t \in Threads : BatchCallStep(t)
    \/ Elsewhere /\ UNCHANGED batchVars
    \/ DieBatch

BatchSpec == BatchInit /\ [][BatchNext]_allVars

\* As in KafkaWorker.
BatchFairness ==
    /\ WF_allVars(BatchMainStep)
    /\ SF_allVars(\E batch \in Batches : PollBatch(batch))
    /\ \A q \in AsyncQueues : WF_allVars(Outcome(q) /\ UNCHANGED batchVars)
    /\ \A t \in Threads : WF_allVars(BatchCallStep(t))
    /\ \A q \in AsyncQueues :
          WF_allVars(ServeBatch(q, q)) /\ WF_allVars(ServeBatch(Main, q))
    /\ WF_allVars(Commit /\ UNCHANGED batchVars)

FairBatchSpec == BatchSpec /\ BatchFairness

-----------------------------------------------------------------------------
(* Properties *)

\* A message the group committed past belongs to a batch whose outputs were
\* all delivered, unless a delivery callback reported its failure (and on_fail
\* raised AttributeError there): then nothing stops the process, and the flush
\* of the shutdown acknowledges the batches after it.
BatchAtLeastOnce ==
    \A m \in Removed : BatchSettled(m) \/ m \in mishandled

\* run_component returns only when every delivery report has had its callback,
\* and each on_success has gone through the whole of its list.
BatchStopDrained ==
    pc = "stopped" =>
        /\ \A q \in AsyncQueues : outbox[q] = << >> /\ dr[q] = << >>
        /\ \A t \in Threads : Free(t)

\* Unless the process ends or a failure was mishandled, every message of every
\* partition is eventually committed, whatever batches they come in.
BatchProgress == <>[](pc \in Ended \/ mishandled # {} \/ AllCommitted)
=============================================================================
