------------------------------ MODULE ZMQWorker ------------------------------
(***************************************************************************)
(* A Volley process that answers requests: volley/connectors/zmq.py, whose *)
(* consumer and producers share one REP socket, under the Engine.  The     *)
(* socket alternates between receiving a request and sending its reply.    *)
(*                                                                         *)
(* A request <<client, n>> is a member of Messages: each client sends the  *)
(* next one only when it stopped waiting for the one before (REQ).         *)
(***************************************************************************)
EXTENDS Engine

CONSTANTS
    ZMQQueues,   \* output queues whose producer is a ZMQProducer
    MaxRestarts  \* bound: how many times a dead process is replaced

ASSUME ZMQWorkerAssumption ==
    /\ ZMQQueues \subseteq Queues \ AsyncQueues
    /\ MaxRestarts \in Nat

VARIABLES
    socket,   \* _socket: what it may do next
    peer,     \* the request whose reply it may send
    arrived,  \* requests sent and not received, on either side of the wire
    sent,     \* per client, how many requests it sent
    waiting,  \* clients that wait for a reply
    owing,    \* requests this process received and did not answer
    restarts  \* processes started after the first

socketVars == <<socket, peer, arrived>>

clientVars == <<sent, waiting>>

ghostVars == <<owing, restarts>>

vars == <<engineVars, socketVars, clientVars, ghostVars>>

TypeOK ==
    /\ EngineTypeOK
    /\ socket \in {"recv", "send", "closed"}
    /\ peer \in Messages \union {NoMessage}
    /\ socket = "send" <=> peer # NoMessage
    /\ arrived \subseteq Messages
    /\ sent \in [Partitions -> 0..(MaxOffset + 1)]
    /\ waiting \subseteq Partitions
    /\ owing \subseteq Messages
    /\ restarts \in 0..MaxRestarts

Init ==
    /\ EngineInit
    /\ socket = "recv"
    /\ peer = NoMessage
    /\ arrived = {}
    /\ sent = [c \in Partitions |-> 0]
    /\ waiting = {}
    /\ owing = {}
    /\ restarts = 0

-----------------------------------------------------------------------------
(* The socket *)

\* Requests of several clients are received in any order.
recv(m) ==
    /\ socket = "recv"
    /\ m \in arrived
    /\ socket' = "send"
    /\ peer' = m
    /\ arrived' = arrived \ {m}

\* Mutant of send: the socket's state is not kept.
send_again ==
    /\ socket = "send"
    /\ socket' = "recv"
    /\ UNCHANGED <<peer, arrived>>

send ==
    /\ socket = "send"
    /\ socket' = "recv"
    /\ peer' = NoMessage
    /\ UNCHANGED arrived

\* close() and term(), called by each producer and by the consumer: the second
\* call does nothing.  Requests on this side of the wire are lost.
close ==
    /\ socket' = "closed"
    /\ peer' = NoMessage
    /\ IF socket = "closed" THEN UNCHANGED arrived
                            ELSE \E kept \in SUBSET arrived : arrived' = kept

-----------------------------------------------------------------------------
(* The main thread *)

CheckKillNow ==
    /\ LoopAgain \/ LoopExit
    /\ UNCHANGED <<socketVars, clientVars, ghostVars>>

\* recv() blocks until there is a request: no iteration is without one.
Receive(m) ==
    /\ Consume(m)
    /\ recv(m)
    /\ owing' = owing \union {m}
    /\ UNCHANGED <<clientVars, restarts>>

\* Mutant of ReceiveRaises: the error is caught, and no message returned.
ReceiveNothing ==
    /\ socket = "send"
    /\ ConsumeNone
    /\ UNCHANGED <<socketVars, clientVars, ghostVars>>

\* recv() while a reply is due: "Operation cannot be accomplished".
ReceiveRaises ==
    /\ pc = "poll"
    /\ socket = "send"
    /\ Abort
    /\ UNCHANGED <<socketVars, clientVars, ghostVars>>

Handle ==
    /\ HandleValid \/ HandleInvalid \/ DLQNotConfigured
    /\ UNCHANGED <<socketVars, clientVars, ghostVars>>

Work ==
    /\ \/ \E b \in AppBools : WorkBool(b)
       \/ \E l \in AppLists : WorkList(l)
       \/ WorkRaises
    /\ UNCHANGED <<socketVars, clientVars, ghostVars>>

\* The client may have stopped waiting: its reply is dropped.
Reply ==
    /\ Produce(TRUE)
    /\ Head(outs) \in ZMQQueues
    /\ send
    /\ owing' = owing \ {peer}
    /\ waiting' = IF offset(peer) = sent[partition(peer)] - 1
                  THEN waiting \ {partition(peer)} ELSE waiting
    /\ UNCHANGED <<sent, restarts>>

\* The reply could not be serialized, or send() raises because there is no
\* request to reply to: produce_handler reports a failure.
ReplyFails ==
    /\ AppRaises \/ socket # "send"
    /\ Produce(FALSE)
    /\ Head(outs) \in ZMQQueues
    /\ UNCHANGED <<socketVars, clientVars, ghostVars>>

\* An output to another connector.  Its delivery callback does nothing here:
\* on_success and on_fail of ZMQConsumer are empty.
ProduceOther(status) ==
    /\ Produce(status)
    /\ Head(outs) \notin ZMQQueues
    /\ UNCHANGED <<socketVars, clientVars, ghostVars>>

Crash ==
    /\ ProduceRaises
    /\ UNCHANGED <<socketVars, clientVars, ghostVars>>

Dispatch ==
    /\ MarkSuccess \/ MarkFail \/ LeaveToCallback
    /\ UNCHANGED <<socketVars, clientVars, ghostVars>>

EndIteration ==
    /\ Marked
    /\ UNCHANGED <<socketVars, clientVars, ghostVars>>

CloseProducer ==
    /\ ShutdownProducer
    /\ IF Head(outs) \in ZMQQueues THEN close ELSE UNCHANGED socketVars
    /\ UNCHANGED <<clientVars, ghostVars>>

CloseConsumer ==
    /\ ShutdownConsumer
    /\ close
    /\ UNCHANGED <<clientVars, ghostVars>>

-----------------------------------------------------------------------------
(* The clients, and the process *)

Send(c) ==
    /\ c \notin waiting
    /\ sent[c] <= MaxOffset
    /\ sent' = [sent EXCEPT ![c] = @ + 1]
    /\ waiting' = waiting \union {c}
    /\ arrived' = arrived \union {<<c, sent[c]>>}
    /\ UNCHANGED <<engineVars, socket, peer, ghostVars>>

\* The client closes its socket and opens another; its request stays.
GiveUp(c) ==
    /\ c \in waiting
    /\ waiting' = waiting \ {c}
    /\ UNCHANGED <<engineVars, socketVars, sent, ghostVars>>

Signal ==
    /\ pc \in Running
    /\ ~killNow
    /\ exit_gracefully
    /\ UNCHANGED <<socketVars, clientVars, ghostVars>>

Die ==
    /\ Vanish
    /\ close
    /\ owing' = {}
    /\ UNCHANGED <<clientVars, restarts>>

\* init_zmq binds a socket for the consumer; the producers find it there.
Restart ==
    /\ Start
    /\ restarts < MaxRestarts
    /\ restarts' = restarts + 1
    /\ socket' = "recv"
    /\ UNCHANGED <<peer, arrived, clientVars, owing>>

\* The bound is reached and no process is left.
Terminated ==
    /\ pc = "down"
    /\ restarts = MaxRestarts
    /\ UNCHANGED vars

-----------------------------------------------------------------------------

MainStep ==
    \/ CheckKillNow
    \/ \E m \in Messages : Receive(m)
    \/ ReceiveRaises
    \/ Handle
    \/ Work
    \/ Reply
    \/ ReplyFails
    \/ \E status \in BOOLEAN : ProduceOther(status)
    \/ Crash
    \/ Dispatch
    \/ EndIteration
    \/ CloseProducer
    \/ CloseConsumer

Next ==
    \/ MainStep
    \/ \E c \in Partitions : Send(c) \/ GiveUp(c)
    \/ Signal
    \/ Die
    \/ Restart
    \/ Terminated

Spec == Init /\ [][Next]_vars

\* Only the main thread is fair: clients may send nothing more.
FairSpec == Spec /\ WF_vars(MainStep)

-----------------------------------------------------------------------------
(* Properties *)

\* When every list of outputs names a ZMQ queue, a message that is marked as a
\* success has been replied to, although on_success of ZMQConsumer does nothing.
SuccessIsAnswered ==
    pc = "mark" /\ delivery_success(reports).status => msg \notin owing

\* A client that was received is answered or the process ends: it never goes on
\* to wait for requests while it owes a reply, whatever the worker returned.
AnsweredOrEnds ==
    \A m \in Messages : m \in owing ~> (m \notin owing \/ pc \in Ended)

\* A signal ends the process, unless it finds it in recv() with no request: recv()
\* has no timeout, and the loop sees kill_now only after the next request.
KillEnds == (killNow /\ (pc # "poll" \/ arrived # {})) ~> pc \in Ended
=============================================================================
