----------------------------- MODULE MCZMQWorker ------------------------------
(***************************************************************************)
(* A small instance of ZMQWorker: z1 answers the client, s1 is a queue of  *)
(* another connector.  The dead letter queue is z1: an invalid request is  *)
(* returned as it came.                                                    *)
(***************************************************************************)
EXTENDS ZMQWorker

CONSTANTS z1, s1

OneReply == <<z1, s1>>

\* The list <<z1, z1>> replies twice.
ReplyLists == {<<z1>>, <<s1, z1>>, <<z1, z1>>}

SecondRequests == {m \in Messages : offset(m) = MaxOffset}
=============================================================================
