----------------------------- MODULE RSMQConsumer -----------------------------
(***************************************************************************)
(* volley/connectors/rsmq.py: RSMQConsumer over a Redis queue.  A message  *)
(* is in the queue until it is deleted, and hidden from every worker while *)
(* the visibility timeout of its last receive runs.  on_success deletes it *)
(* in a loop of retries; each attempt is a step of the calling thread.     *)
(*                                                                         *)
(* A message id is written <<queue, number>>, a member of Messages.        *)
(***************************************************************************)
EXTENDS Topology

CONSTANT DeleteAttempts  \* stop_after_attempt(10)

ASSUME DeleteAttemptsAssumption == DeleteAttempts \in Nat \ {0}

VARIABLES
    queue,    \* messages in Redis
    hidden,   \* those whose visibility timeout runs
    deleting  \* per thread, the running delete_message

consumerVars == <<queue, hidden, deleting>>

NotDeleting == [msg |-> NoMessage, left |-> 0]

Deletes == [msg : Messages, left : 1..DeleteAttempts]

ConsumerTypeOK ==
    /\ queue \subseteq Messages
    /\ hidden \subseteq queue
    /\ deleting \in [Threads -> Deletes \union {NotDeleting}]

ConsumerInit ==
    /\ queue = Messages
    /\ hidden = {}
    /\ deleting = [t \in Threads |-> NotDeleting]

\* The consumer of a new process finds the queue as it is.
Reopen ==
    /\ deleting' = [t \in Threads |-> NotDeleting]
    /\ UNCHANGED <<queue, hidden>>

-----------------------------------------------------------------------------

\* receiveMessage(vt=...)
Receive(m) ==
    /\ m \in queue \ hidden
    /\ hidden' = hidden \union {m}
    /\ UNCHANGED <<queue, deleting>>

\* Mutant of VtExpires: the message is hidden for good.
VtNever(m) == FALSE /\ UNCHANGED consumerVars

\* The timeout given to receiveMessage: it does not ask whether the message is
\* still being handled.
VtExpires(m) ==
    /\ m \in hidden
    /\ hidden' = hidden \ {m}
    /\ UNCHANGED <<queue, deleting>>

on_success(t, m) ==
    /\ deleting[t] = NotDeleting
    /\ deleting' = [deleting EXCEPT ![t] = [msg |-> m, left |-> DeleteAttempts]]
    /\ UNCHANGED <<queue, hidden>>

\* Mutant of on_fail: it deletes, like on_success.
on_fail_deletes(t, m) == on_success(t, m)

\* "message will become visible once visibility timeout expires"
on_fail(t, m) == UNCHANGED consumerVars

-----------------------------------------------------------------------------
(* The attempts of delete_message *)

DeleteMessage(m) ==
    /\ queue' = queue \ {m}
    /\ hidden' = hidden \ {m}

Return(t) == deleting' = [deleting EXCEPT ![t] = NotDeleting]

\* Redis answers.  It may not find the message, if another worker or an attempt
\* that was not answered deleted it: this is logged, and no failure.
DeleteReturns(t) ==
    /\ deleting[t] # NotDeleting
    /\ DeleteMessage(deleting[t].msg)
    /\ Return(t)

\* An attempt raises: Redis may have executed it nevertheless.
Unanswered(t) ==
    /\ deleting[t] # NotDeleting
    /\ DeleteMessage(deleting[t].msg) \/ UNCHANGED <<queue, hidden>>

DeleteRetries(t) ==
    /\ Unanswered(t)
    /\ deleting[t].left > 1
    /\ deleting' = [deleting EXCEPT ![t].left = @ - 1]

\* The last attempt's exception goes to the caller of on_success.
DeleteRaises(t) ==
    /\ Unanswered(t)
    /\ deleting[t].left = 1
    /\ Return(t)
=============================================================================
