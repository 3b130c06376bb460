------------------------------- MODULE Engine -------------------------------
(***************************************************************************)
(* volley/engine.py: the loop of run_component and the graceful shutdown,  *)
(* as the main thread of the process executes them.  An action is one step *)
(* of the loop; what a step asks of the consumer and of the producers is   *)
(* conjoined by the modules that compose them.                             *)
(***************************************************************************)
EXTENDS Topology, Transport, Functions

CONSTANTS
    OutputQueues,     \* output_queues, the dead letter queue included
    DeadLetterQueue,  \* dead_letter_queue, or NoDLQ
    NoDLQ,
    Invalid,          \* messages that message_model_handler cannot model
    AppBools,         \* the booleans the worker function may return
    AppLists,         \* the lists of output queues it may return
    AppRaises         \* whether it may raise, or return what cannot be produced

ASSUME EngineAssumption ==
    /\ OutputQueues \in Seq(Queues)
    /\ NoDLQ \notin Queues
    /\ DeadLetterQueue \in Range(OutputQueues) \union {NoDLQ}
    /\ Invalid \subseteq Messages
    /\ AppBools \subseteq BOOLEAN
    /\ AppLists \subseteq Seq(Range(OutputQueues))
    /\ AppRaises \in BOOLEAN

VARIABLES
    pc,       \* where the main thread is
    msg,      \* in_message, the message in hand
    outs,     \* outputs still to be produced; in shutdown, producers to shut
    reports,  \* all_delivery_reports of the message in hand
    killNow   \* killer.kill_now

engineVars == <<pc, msg, outs, reports, killNow>>

\* "loop" evaluates the while condition, "poll" is inside consume(), "mark" is
\* inside the consumer's on_success or on_fail.  "stopped" is the return of
\* run_component; "crashed" an exception of the message or of the worker;
\* "aborted" an exception of a connector; "down" a process that is gone.
Running == {"loop", "poll", "handle", "work", "produce", "mark", "shutdown"}

Ended == {"stopped", "crashed", "aborted", "down"}

Holding == {"handle", "work", "produce", "mark"}

EngineTypeOK ==
    /\ pc \in Running \union Ended
    /\ msg \in Messages \union {NoMessage}
    /\ pc \in Holding => msg # NoMessage
    /\ outs \in Seq(Queues)
    /\ reports \subseteq DeliveryReport
    /\ killNow \in BOOLEAN

EngineInit ==
    /\ pc = "loop"
    /\ msg = NoMessage
    /\ outs = << >>
    /\ reports = {}
    /\ killNow = FALSE

-----------------------------------------------------------------------------
(* One iteration of the loop *)

\* The iteration is over: its locals are dead.
NextIteration ==
    /\ pc' = "loop"
    /\ msg' = NoMessage
    /\ outs' = << >>
    /\ reports' = {}

\* Mutant of LoopAgain: kill_now is not looked at.
LoopForever ==
    /\ pc = "loop"
    /\ pc' = "poll"
    /\ UNCHANGED <<msg, outs, reports, killNow>>

LoopAgain ==
    /\ pc = "loop"
    /\ ~killNow
    /\ pc' = "poll"
    /\ UNCHANGED <<msg, outs, reports, killNow>>

LoopExit ==
    /\ pc = "loop"
    /\ killNow
    /\ pc' = "shutdown"
    /\ outs' = OutputQueues
    /\ UNCHANGED <<msg, reports, killNow>>

\* Mutant of ConsumeNone: the continue after the sleep is missing.
ConsumeNoneGoesOn ==
    /\ pc = "poll"
    /\ pc' = "handle"
    /\ UNCHANGED <<msg, outs, reports, killNow>>

ConsumeNone ==
    /\ pc = "poll"
    /\ NextIteration
    /\ UNCHANGED killNow

Consume(m) ==
    /\ pc = "poll"
    /\ pc' = "handle"
    /\ msg' = m
    /\ UNCHANGED <<outs, reports, killNow>>

\* The status it returns: no exception of the serializer or of the model
\* handler leaves it.
message_model_handler(m) == m \notin Invalid

HandleValid ==
    /\ pc = "handle"
    /\ message_model_handler(msg)
    /\ pc' = "work"
    /\ UNCHANGED <<msg, outs, reports, killNow>>

\* The worker is skipped: the message itself goes to the dead letter queue.
HandleInvalid ==
    /\ pc = "handle"
    /\ ~message_model_handler(msg)
    /\ DeadLetterQueue # NoDLQ
    /\ pc' = "produce"
    /\ outs' = <<DeadLetterQueue>>
    /\ UNCHANGED <<msg, reports, killNow>>

DLQNotConfigured ==
    /\ pc = "handle"
    /\ ~message_model_handler(msg)
    /\ DeadLetterQueue = NoDLQ
    /\ pc' = "crashed"
    /\ UNCHANGED <<msg, outs, reports, killNow>>

\* A boolean needs no producer: it is the one synchronous report.
WorkBool(b) ==
    /\ pc = "work"
    /\ pc' = "produce"
    /\ reports' = {[asynchronous |-> FALSE, status |-> b]}
    /\ UNCHANGED <<msg, outs, killNow>>

WorkList(l) ==
    /\ pc = "work"
    /\ pc' = "produce"
    /\ outs' = l
    /\ UNCHANGED <<msg, reports, killNow>>

WorkRaises ==
    /\ pc = "work"
    /\ AppRaises
    /\ pc' = "crashed"
    /\ UNCHANGED <<msg, outs, reports, killNow>>

\* One turn of produce_handler's loop; status is what produce() returned, or
\* FALSE when serializing or producing raised.
Produce(status) ==
    /\ pc = "produce"
    /\ outs # << >>
    /\ outs' = Tail(outs)
    /\ reports' = reports \union
         {[asynchronous |-> Head(outs) \in AsyncQueues, status |-> status]}
    /\ UNCHANGED <<pc, msg, killNow>>

\* An unknown queue name, or an object that is not of the queue's data model
\* (a raw message, if the dead letter queue has one): raised after the outputs
\* before it in the list have been produced.
ProduceRaises ==
    /\ pc = "produce"
    /\ outs # << >>
    /\ AppRaises
    /\ pc' = "crashed"
    /\ UNCHANGED <<msg, outs, reports, killNow>>

Produced == pc = "produce" /\ outs = << >>

MarkSuccess ==
    /\ Produced
    /\ delivery_success(reports) = [asynchronous |-> FALSE, status |-> TRUE]
    /\ pc' = "mark"
    /\ UNCHANGED <<msg, outs, reports, killNow>>

MarkFail ==
    /\ Produced
    /\ delivery_success(reports) = [asynchronous |-> FALSE, status |-> FALSE]
    /\ pc' = "mark"
    /\ UNCHANGED <<msg, outs, reports, killNow>>

\* Left to the producer's delivery callback.
LeaveToCallback ==
    /\ Produced
    /\ delivery_success(reports).asynchronous
    /\ NextIteration
    /\ UNCHANGED killNow

Marked ==
    /\ pc = "mark"
    /\ NextIteration
    /\ UNCHANGED killNow

-----------------------------------------------------------------------------
(* Shutdown: every output producer, then the input consumer *)

ShutdownProducer ==
    /\ pc = "shutdown"
    /\ outs # << >>
    /\ outs' = Tail(outs)
    /\ UNCHANGED <<pc, msg, reports, killNow>>

ShutdownConsumer ==
    /\ pc = "shutdown"
    /\ outs = << >>
    /\ pc' = "stopped"
    /\ UNCHANGED <<msg, outs, reports, killNow>>

\* A connector raised into the main thread: nothing in run_component catches.
Abort ==
    /\ pc' = "aborted"
    /\ UNCHANGED <<msg, outs, reports, killNow>>

\* GracefulKiller's handler of SIGINT and SIGTERM.
exit_gracefully ==
    /\ killNow' = TRUE
    /\ UNCHANGED <<pc, msg, outs, reports>>

-----------------------------------------------------------------------------
(* The process *)

Vanish ==
    /\ pc # "down"
    /\ pc' = "down"
    /\ msg' = NoMessage
    /\ outs' = << >>
    /\ reports' = {}
    /\ killNow' = FALSE

Start ==
    /\ pc = "down"
    /\ pc' = "loop"
    /\ UNCHANGED <<msg, outs, reports, killNow>>
=============================================================================
