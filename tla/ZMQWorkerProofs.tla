--------------------------- MODULE ZMQWorkerProofs ---------------------------
(***************************************************************************)
(* A worker that answers requests: its state is of its types for every     *)
(* choice of constants, and where every answer goes to the client, what    *)
(* counts as a success has been replied to.                                *)
(***************************************************************************)
EXTENDS ZMQWorker, EngineProofs

-----------------------------------------------------------------------------
(* Types *)

SocketTypeOK ==
    /\ socket \in {"recv", "send", "closed"}
    /\ peer \in Messages \union {NoMessage}
    /\ socket = "send" <=> peer # NoMessage
    /\ arrived \subseteq Messages

ClientTypeOK ==
    /\ sent \in [Partitions -> 0..(MaxOffset + 1)]
    /\ waiting \subseteq Partitions
    /\ owing \subseteq Messages
    /\ restarts \in 0..MaxRestarts

SocketStep ==
    \/ \E m \in Messages : recv(m)
    \/ send
    \/ close
    \/ socket # "send" /\ socket' = "recv" /\ UNCHANGED <<peer, arrived>>
    \/ UNCHANGED socketVars

\* Whatever the socket does, it knows its peer exactly while it may reply.
LEMMA SocketTypes ==
    ASSUME SocketTypeOK, SocketStep
    PROVE  SocketTypeOK'
<1>1. \A m \in Messages : m # NoMessage
  BY DEF Messages, NoMessage
<1> QED
  BY <1>1 DEF SocketTypeOK, SocketStep, recv, send, close, socketVars

\* A process that is gone has closed its socket; without this, the one that replaces
\* it could find a peer.
DownIsClosed == pc = "down" => socket = "closed"

\* Each step of the worker is one step, or none, of the Engine and of the socket.
LEMMA Composition ==
    ASSUME TypeOK, DownIsClosed, [Next]_vars
    PROVE  EngineStep /\ (SocketStep \/ \E c \in Partitions : Send(c))
<1>1. CASE CheckKillNow \/ ReceiveRaises \/ Handle \/ Work \/ ReplyFails
           \/ Crash \/ Dispatch \/ EndIteration \/ Signal
  BY <1>1 DEF CheckKillNow, ReceiveRaises, Handle, Work, ReplyFails, Crash, Dispatch,
              EndIteration, Signal, EngineStep, SocketStep
<1>2. ASSUME NEW m \in Messages, Receive(m) PROVE EngineStep /\ SocketStep
  BY <1>2 DEF Receive, EngineStep, SocketStep
<1>3. CASE Reply
  BY <1>3 DEF Reply, EngineStep, SocketStep
<1>4. ASSUME NEW status \in BOOLEAN, ProduceOther(status) PROVE EngineStep /\ SocketStep
  BY <1>4 DEF ProduceOther, EngineStep, SocketStep
<1>5. CASE CloseProducer \/ CloseConsumer \/ Die
  BY <1>5 DEF CloseProducer, CloseConsumer, Die, EngineStep, SocketStep
<1>6. ASSUME NEW c \in Partitions, Send(c) PROVE EngineStep
  BY <1>6 DEF Send, EngineStep
<1>7. ASSUME NEW c \in Partitions, GiveUp(c) PROVE EngineStep /\ SocketStep
  BY <1>7 DEF GiveUp, EngineStep, SocketStep
<1>8. CASE Restart
  <2>1. Start /\ EngineStep
    BY <1>8 DEF Restart, EngineStep
  <2>2. socket = "closed"
    BY <2>1 DEF Start, DownIsClosed
  <2> QED
    BY <1>8, <2>1, <2>2 DEF Restart, SocketStep
<1>9. CASE Terminated \/ UNCHANGED vars
  BY <1>9 DEF Terminated, vars, EngineStep, SocketStep
<1> QED
  BY <1>1, <1>2, <1>3, <1>4, <1>5, <1>6, <1>7, <1>8, <1>9 DEF Next, MainStep

LEMMA DownStep ==
    ASSUME DownIsClosed, [Next]_vars
    PROVE  DownIsClosed'
<1>1. CASE CheckKillNow \/ ReceiveRaises \/ Handle \/ Work \/ Dispatch \/ EndIteration
  BY <1>1 DEF DownIsClosed, CheckKillNow, LoopAgain, LoopExit, ReceiveRaises, Abort,
              Handle, HandleValid, HandleInvalid, DLQNotConfigured, Work, WorkBool,
              WorkList, WorkRaises, Dispatch, MarkSuccess, MarkFail, LeaveToCallback,
              EndIteration, Marked, NextIteration
<1>2. ASSUME NEW m \in Messages, Receive(m) PROVE DownIsClosed'
  BY <1>2 DEF DownIsClosed, Receive, Consume
<1>3. CASE Reply \/ ReplyFails \/ \E status \in BOOLEAN : ProduceOther(status)
  <2>1. pc = "produce" /\ pc' = pc
    BY <1>3 DEF Reply, ReplyFails, ProduceOther, Produce
  <2> QED
    BY <2>1 DEF DownIsClosed
<1>4. CASE Crash
  BY <1>4 DEF DownIsClosed, Crash, ProduceRaises
<1>5. CASE CloseProducer \/ CloseConsumer
  BY <1>5 DEF DownIsClosed, CloseProducer, CloseConsumer, ShutdownProducer,
              ShutdownConsumer
<1>6. CASE \E c \in Partitions : Send(c) \/ GiveUp(c)
  BY <1>6 DEF DownIsClosed, Send, GiveUp, engineVars, socketVars
<1>7. CASE Signal \/ Terminated \/ UNCHANGED vars
  BY <1>7 DEF DownIsClosed, Signal, exit_gracefully, Terminated, vars, engineVars,
              socketVars
<1>8. CASE Die \/ Restart
  BY <1>8 DEF DownIsClosed, Die, close, Restart, Start
<1> QED
  BY <1>1, <1>2, <1>3, <1>4, <1>5, <1>6, <1>7, <1>8 DEF Next, MainStep

LEMMA ClientTypes ==
    ASSUME TypeOK, [Next]_vars
    PROVE  ClientTypeOK'
<1> USE DEF TypeOK, ClientTypeOK
<1>1. CASE UNCHANGED <<sent, waiting, owing, restarts>>
  BY <1>1
<1>2. ASSUME NEW m \in Messages, Receive(m) PROVE ClientTypeOK'
  BY <1>2 DEF Receive, clientVars
<1>3. CASE Reply
  BY <1>3 DEF Reply
<1>4. ASSUME NEW c \in Partitions, Send(c) \/ GiveUp(c) PROVE ClientTypeOK'
  <2>1. CASE Send(c)
    <3>1. sent[c] + 1 \in 0..(MaxOffset + 1)
      BY <2>1, TopologyAssumption DEF Send
    <3> QED
      BY <2>1, <3>1 DEF Send, ghostVars
  <2> QED
    BY <1>4, <2>1 DEF GiveUp, ghostVars
<1>5. CASE Die
  BY <1>5 DEF Die, clientVars
<1>6. CASE Restart
  BY <1>6, ZMQWorkerAssumption DEF Restart, clientVars
<1> QED
  BY <1>1, <1>2, <1>3, <1>4, <1>5, <1>6
  DEF Next, MainStep, CheckKillNow, ReceiveRaises, Handle, Work, ReplyFails,
      ProduceOther, Crash, Dispatch, EndIteration, CloseProducer, CloseConsumer,
      Signal, Terminated, vars, clientVars, ghostVars

LEMMA TypeStep ==
    ASSUME TypeOK, DownIsClosed, [Next]_vars
    PROVE  TypeOK' /\ DownIsClosed'
<1>1. EngineTypeOK'
  BY Composition, EngineTypes DEF TypeOK
<1>2. ClientTypeOK' /\ DownIsClosed'
  BY ClientTypes, DownStep
<1>3. SocketTypeOK'
  <2>1. SocketTypeOK
    BY DEF TypeOK, SocketTypeOK
  <2>2. CASE SocketStep
    BY <2>1, <2>2, SocketTypes
  <2>3. ASSUME NEW c \in Partitions, Send(c) PROVE SocketTypeOK'
    <3>1. sent[c] \in Offsets
      BY <2>3, TopologyAssumption DEF Send, TypeOK, Offsets
    <3>2. <<c, sent[c]>> \in Messages
      BY <3>1 DEF Messages
    <3> QED
      BY <2>1, <2>3, <3>2 DEF Send, SocketTypeOK
  <2> QED
    BY <2>2, <2>3, Composition
<1> QED
  BY <1>1, <1>2, <1>3 DEF TypeOK, SocketTypeOK, ClientTypeOK

LEMMA TypeInit == Init => TypeOK /\ DownIsClosed
<1>1. EngineInit => EngineTypeOK
  BY EmptySeq DEF EngineInit, EngineTypeOK, Running, Holding
<1> QED
  BY <1>1, TopologyAssumption, ZMQWorkerAssumption
  DEF Init, TypeOK, DownIsClosed, EngineInit

\* The state of a worker that answers requests is of its types; in particular the
\* socket has a peer exactly when it may send.
THEOREM TypeCorrect == Spec => []TypeOK
<1>1. TypeOK /\ DownIsClosed /\ [Next]_vars => TypeOK' /\ DownIsClosed'
  BY TypeStep
<1> QED
  BY <1>1, TypeInit, PTL DEF Spec

-----------------------------------------------------------------------------
(* Answers *)

\* Applications all of whose answers name a queue that replies, the dead letter
\* queue among them, and that never claim success without an output.
AlwaysReplies ==
    /\ \A l \in AppLists : Range(l) \intersect ZMQQueues # {}
    /\ DeadLetterQueue \in ZMQQueues \union {NoDLQ}
    /\ TRUE \notin AppBools

\* The socket's peer, if it has one, is the client of the message in hand.
PeerIsHeld == pc \in Holding /\ socket = "send" => peer = msg

FailureKnown == \E r \in reports : ~r.asynchronous /\ ~r.status

\* What is not answered will be, or its failure is known.
AnswerDue ==
    pc = "produce" /\ msg \in owing =>
        Range(outs) \intersect ZMQQueues # {} \/ FailureKnown

AnswerInv == PeerIsHeld /\ AnswerDue /\ SuccessIsAnswered

LEMMA AnswerStep ==
    ASSUME AlwaysReplies, TypeOK, AnswerInv, [Next]_vars
    PROVE  AnswerInv'
<1> USE DEF AnswerInv
<1>1. CASE CheckKillNow \/ ReceiveRaises \/ EndIteration \/ Crash
  <2>1. pc' \notin Holding
    BY <1>1 DEF CheckKillNow, LoopAgain, LoopExit, ReceiveRaises, Abort, EndIteration,
                Marked, NextIteration, Crash, ProduceRaises, Holding
  <2> QED
    BY <2>1 DEF PeerIsHeld, AnswerDue, SuccessIsAnswered, Holding
<1>2. ASSUME NEW m \in Messages, Receive(m) PROVE AnswerInv'
  BY <1>2 DEF Receive, Consume, recv, PeerIsHeld, AnswerDue, SuccessIsAnswered
<1>3. CASE Handle
  <2>1. /\ pc = "handle" /\ msg' = msg
        /\ UNCHANGED <<socket, peer, owing>>
        /\ \/ pc' \in {"work", "crashed"}
           \/ pc' = "produce" /\ DeadLetterQueue # NoDLQ /\ outs' = <<DeadLetterQueue>>
    BY <1>3 DEF Handle, HandleValid, HandleInvalid, DLQNotConfigured, socketVars, ghostVars
  <2>2. DeadLetterQueue # NoDLQ => Range(<<DeadLetterQueue>>) \intersect ZMQQueues # {}
    BY DEF AlwaysReplies, Range
  <2> QED
    BY <2>1, <2>2 DEF PeerIsHeld, AnswerDue, SuccessIsAnswered, Holding
<1>4. CASE Work
  <2>1. pc = "work" /\ msg' = msg /\ UNCHANGED <<socket, peer, owing>>
    BY <1>4 DEF Work, WorkBool, WorkList, WorkRaises, socketVars, ghostVars
  <2>2. PeerIsHeld'
    BY <2>1 DEF PeerIsHeld, Holding
  <2>3. ASSUME NEW b \in AppBools, WorkBool(b) PROVE AnswerDue' /\ SuccessIsAnswered'
    <3>1. b = FALSE
      BY EngineAssumption DEF AlwaysReplies
    <3>2. reports' = {[asynchronous |-> FALSE, status |-> FALSE]} /\ pc' = "produce"
      BY <2>3, <3>1 DEF WorkBool
    <3>3. FailureKnown'
      BY <3>2 DEF FailureKnown
    <3> QED
      BY <3>2, <3>3 DEF AnswerDue, SuccessIsAnswered
  <2>4. ASSUME NEW l \in AppLists, WorkList(l) PROVE AnswerDue' /\ SuccessIsAnswered'
    BY <2>4 DEF WorkList, AlwaysReplies, AnswerDue, SuccessIsAnswered
  <2>5. CASE WorkRaises
    BY <2>2, <2>5 DEF WorkRaises, AnswerDue, SuccessIsAnswered
  <2> QED
    BY <1>4, <2>2, <2>3, <2>4, <2>5 DEF Work
<1>5. CASE Reply \/ ReplyFails \/ \E status \in BOOLEAN : ProduceOther(status)
  <2>1. PICK status \in BOOLEAN : Produce(status)
    BY <1>5 DEF Reply, ReplyFails, ProduceOther
  <2>2. /\ pc = "produce" /\ pc' = "produce" /\ msg' = msg
        /\ outs # << >> /\ outs' = Tail(outs) /\ outs \in Seq(Queues)
        /\ reports \subseteq reports'
    BY <2>1 DEF Produce, TypeOK, EngineTypeOK
  <2>3. Head(outs) \in Range(outs) /\ Range(outs) = {Head(outs)} \union Range(Tail(outs))
    BY <2>2, TailRange
  <2>4. SuccessIsAnswered'
    BY <2>2 DEF SuccessIsAnswered
  <2>5. FailureKnown => FailureKnown'
    BY <2>2 DEF FailureKnown
  <2>6. CASE Reply
    <3>1. socket = "send" /\ socket' = "recv" /\ owing' = owing \ {peer}
      BY <2>6 DEF Reply, send
    <3>2. peer = msg
      BY <2>2, <3>1 DEF PeerIsHeld, Holding
    <3> QED
      BY <2>2, <2>4, <3>1, <3>2 DEF PeerIsHeld, AnswerDue
  <2>7. CASE ReplyFails
    <3>1. /\ Head(outs) \notin AsyncQueues
          /\ UNCHANGED <<socket, peer, owing>>
          /\ reports' = reports \union
                {[asynchronous |-> Head(outs) \in AsyncQueues, status |-> FALSE]}
      BY <2>7, ZMQWorkerAssumption DEF ReplyFails, Produce, socketVars, ghostVars
    <3> DEFINE r == [asynchronous |-> Head(outs) \in AsyncQueues, status |-> FALSE]
    <3>2. r \in reports' /\ ~r.asynchronous /\ ~r.status
      BY <3>1
    <3>3. FailureKnown'
      BY <3>2 DEF FailureKnown
    <3> QED
      BY <2>2, <2>4, <3>1, <3>3 DEF PeerIsHeld, AnswerDue
  <2>8. CASE \E s \in BOOLEAN : ProduceOther(s)
    <3>1. Head(outs) \notin ZMQQueues /\ UNCHANGED <<socket, peer, owing>>
      BY <2>8 DEF ProduceOther, socketVars, ghostVars
    <3>2. Range(outs) \intersect ZMQQueues # {} => Range(outs') \intersect ZMQQueues # {}
      BY <2>2, <2>3, <3>1
    <3> QED
      BY <2>2, <2>4, <2>5, <3>1, <3>2 DEF PeerIsHeld, AnswerDue
  <2> QED
    BY <1>5, <2>6, <2>7, <2>8
<1>6. CASE Dispatch
  <2>1. Produced /\ UNCHANGED <<socket, peer, owing>>
    BY <1>6 DEF Dispatch, MarkSuccess, MarkFail, LeaveToCallback, socketVars, ghostVars
  <2>2. CASE MarkSuccess
    <3>1. /\ pc = "produce" /\ outs = << >> /\ pc' = "mark"
          /\ UNCHANGED <<msg, reports>>
          /\ delivery_success(reports) = [asynchronous |-> FALSE, status |-> TRUE]
      BY <2>2 DEF MarkSuccess, Produced
    <3>2. \A r \in reports : r.status /\ ~r.asynchronous
      BY <3>1, SuccessMeansDelivered DEF TypeOK, EngineTypeOK
    <3>3. Range(outs) = {}
      BY <3>1 DEF Range
    <3>4. msg \notin owing
      BY <3>1, <3>2, <3>3 DEF AnswerDue, FailureKnown
    <3> QED
      BY <2>1, <3>1, <3>4 DEF PeerIsHeld, AnswerDue, SuccessIsAnswered, Holding
  <2>3. CASE MarkFail
    <3>1. /\ pc = "produce" /\ pc' = "mark" /\ msg' = msg
          /\ delivery_success(reports') = [asynchronous |-> FALSE, status |-> FALSE]
      BY <2>3 DEF MarkFail, Produced
    <3>2. delivery_success(reports').status = FALSE
      BY <3>1
    <3>3. SuccessIsAnswered'
      BY <3>2 DEF SuccessIsAnswered
    <3> QED
      BY <2>1, <3>1, <3>3 DEF PeerIsHeld, AnswerDue, Holding
  <2>4. CASE LeaveToCallback
    BY <2>4 DEF LeaveToCallback, NextIteration, PeerIsHeld, AnswerDue,
                SuccessIsAnswered, Holding
  <2> QED
    BY <1>6, <2>2, <2>3, <2>4 DEF Dispatch
<1>7. CASE CloseProducer \/ CloseConsumer \/ Die
  <2>1. pc' \notin Holding
    BY <1>7 DEF CloseProducer, CloseConsumer, Die, ShutdownProducer, ShutdownConsumer,
                Vanish, Holding
  <2> QED
    BY <2>1 DEF PeerIsHeld, AnswerDue, SuccessIsAnswered, Holding
<1>8. CASE Restart
  BY <1>8 DEF Restart, Start, PeerIsHeld, AnswerDue, SuccessIsAnswered, Holding
<1>9. CASE UNCHANGED <<pc, msg, outs, reports, socket, peer, owing>>
  BY <1>9 DEF PeerIsHeld, AnswerDue, FailureKnown, SuccessIsAnswered
<1> QED
  BY <1>1, <1>2, <1>3, <1>4, <1>5, <1>6, <1>7, <1>8, <1>9
  DEF Next, MainStep, Send, GiveUp, Signal, exit_gracefully, Terminated, vars,
      engineVars, socketVars, clientVars, ghostVars

\* Where every answer names a queue that replies, a message that counts as a success
\* has been replied to: not to any client, but to the one that sent it.
THEOREM SuccessesAreAnswered ==
    ASSUME AlwaysReplies
    PROVE  Spec => []SuccessIsAnswered
<1>1. Init => AnswerInv
  BY DEF Init, EngineInit, AnswerInv, PeerIsHeld, AnswerDue, SuccessIsAnswered, Holding
<1>2. TypeOK /\ DownIsClosed /\ AnswerInv /\ [Next]_vars
        => TypeOK' /\ DownIsClosed' /\ AnswerInv'
  BY TypeStep, AnswerStep
<1>3. AnswerInv => SuccessIsAnswered
  BY DEF AnswerInv
<1> QED
  BY <1>1, <1>2, <1>3, TypeInit, PTL DEF Spec
=============================================================================
