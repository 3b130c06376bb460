---------------------------- MODULE MCKafkaWorker ----------------------------
(***************************************************************************)
(* Small instances of KafkaWorker.  s1 answers in produce(); q1 and q2 are *)
(* asynchronous; dlq is the dead letter queue.                             *)
(***************************************************************************)
EXTENDS KafkaWorker

CONSTANTS s1, q1, q2, dlq

\* Applications without asynchronous producers.
SyncOutputs == <<s1, dlq>>
SyncLists == {<< >>, <<s1>>, <<s1, s1>>}

\* One asynchronous producer.
OneOutput == <<q1>>
OneList == {<<q1>>}

\* Two asynchronous producers, a message going to one of them.
TwoOutputs == <<q1, q2>>
EitherList == {<<q1>>, <<q2>>}

NoMessages == {}
LastMessages == {m \in Messages : offset(m) = MaxOffset}
=============================================================================
