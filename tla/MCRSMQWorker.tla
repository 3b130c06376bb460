----------------------------- MODULE MCRSMQWorker -----------------------------
(***************************************************************************)
(* Small instances of RSMQWorker.  s1 is an RSMQ queue, q1 a Kafka topic;  *)
(* dlq is the dead letter queue, an RSMQ queue.                            *)
(***************************************************************************)
EXTENDS RSMQWorker

CONSTANTS s1, q1, dlq

SyncOutputs == <<s1, dlq>>
SyncLists == {<<s1, s1>>}

\* Each message goes to both.
MixedOutputs == <<s1, q1>>
MixedLists == {<<s1, q1>>}

AsyncOutputs == <<q1>>
AsyncLists == {<<q1>>}

NoMessages == {}
LastMessages == {m \in Messages : offset(m) = MaxOffset}
=============================================================================
