------------------------------- MODULE Pipeline -------------------------------
(***************************************************************************)
(* One message on its way through the Engines of an application: from a    *)
(* queue, through message_model_handler, a worker function and             *)
(* produce_handler, to the queue of the next Engine, or to the dead letter *)
(* queue.  Each Engine has a configuration of its own for every queue it   *)
(* knows; nothing checks that the two ends of a queue agree.  What may     *)
(* fail of the connectors is left to the workers' modules.                 *)
(***************************************************************************)
EXTENDS Handlers

CONSTANTS
    Engines,
    Queues,
    InputQueue,       \* input_queue of each Engine
    OutputQueue,      \* the queue its function answers to, or Nowhere
    DeadLetterQueue,  \* one for all
    Nowhere,
    Profiles,         \* serializer, model_handler, data_model, batch
    Arrivals,         \* what others put into the first queue
    FirstQueue,
    Answers           \* what a function may return, next to what it was given

ASSUME PipelineAssumption ==
    /\ InputQueue \in [Engines -> Queues]
    /\ OutputQueue \in [Engines -> Queues \union {Nowhere}]
    /\ {DeadLetterQueue, FirstQueue} \subseteq Queues
    /\ Nowhere \notin Queues \union Engines
    /\ \A p \in Profiles : /\ p.serializer \in {"none", "json", "msgpack"}
                           /\ p.model_handler \in {"none", "pydantic", "parser", "list"}
                           /\ p.data_model \in BOOLEAN  \* is there one?
                           /\ p.batch \in BOOLEAN  \* BatchJsonConfluentConsumer?
    /\ Arrivals \subseteq {v \in Values : v.form \in Bytes}
    /\ Answers \subseteq Values

VARIABLES
    profile,  \* per Engine, the Profile it has for each queue
    at,       \* where the message is
    engine,   \* the Engine that has, or last had it
    queue,    \* the queue it is in, or on its way to
    value,    \* what it is there
    taken,    \* in_message.message of that Engine
    sent      \* the last answer of a function: its value, whose, and to where

vars == <<profile, at, engine, queue, value, taken, sent>>

Unsent == [value |-> Raised, engine |-> Nowhere, queue |-> Nowhere]

Init ==
    /\ profile \in [Engines -> [Queues -> Profiles]]
    /\ at = "queue"
    /\ engine = Nowhere
    /\ queue = FirstQueue
    /\ value \in Arrivals
    /\ taken = value
    /\ sent = Unsent

\* The batch consumer puts brackets around what it read, here one message.
consume(p, message) ==
    CASE ~p.batch -> message
      [] p.batch /\ message.form # "json" -> Value("noise", "other", "opaque")
      [] p.batch /\ message.form = "json" ->
            [message EXCEPT !.shape = IF @ = "object" THEN "list" ELSE "other"]

Handle(e) ==
    LET p == profile[e][queue]
        handled == message_model_handler(p, taken')
    IN  /\ at = "queue"
        /\ queue = InputQueue[e]
        /\ engine' = e
        /\ taken' = consume(p, value)
        /\ value' = handled.value
        /\ IF handled.status
           THEN at' = "work" /\ UNCHANGED queue
           ELSE at' = "produce" /\ queue' = DeadLetterQueue
        /\ UNCHANGED <<profile, sent>>

Work(answer) ==
    /\ at = "work"
    /\ OutputQueue[engine] # Nowhere
    /\ at' = "produce"
    /\ queue' = OutputQueue[engine]
    /\ value' = answer
    /\ sent' = [value |-> answer, engine |-> engine, queue |-> queue']
    /\ UNCHANGED <<profile, engine, taken>>

Finish ==
    /\ at = "work"
    /\ OutputQueue[engine] = Nowhere
    /\ at' = "done"
    /\ UNCHANGED <<profile, engine, queue, value, taken, sent>>

-----------------------------------------------------------------------------
(* produce_handler *)

IsInstance(p) == p.data_model => value.form = "model" /\ value.shape = "object"

\* TypeError: not an object of the queue's data model.  Nothing catches it.
ObjectRefused ==
    /\ at = "produce"
    /\ ~IsInstance(profile[engine][queue])
    /\ at' = "crashed"
    /\ UNCHANGED <<profile, engine, queue, value, taken, sent>>

\* It cannot be dumped or serialized, or is no bytes that produce() would take:
\* a report that failed.
OutputFails ==
    LET p == profile[engine][queue]
    IN  /\ at = "produce"
        /\ IsInstance(p)
        /\ model_message_handler(p, value).form \notin Bytes
        /\ at' = "failed"
        /\ UNCHANGED <<profile, engine, queue, value, taken, sent>>

Output ==
    LET p == profile[engine][queue]
    IN  /\ at = "produce"
        /\ IsInstance(p)
        /\ model_message_handler(p, value).form \in Bytes
        /\ at' = "queue"
        /\ value' = model_message_handler(p, value)
        /\ UNCHANGED <<profile, engine, queue, taken, sent>>

Next ==
    \/ \E e \in Engines : Handle(e)
    \/ \E answer \in Answers \union {value} : Work(answer)
    \/ Finish
    \/ ObjectRefused
    \/ OutputFails
    \/ Output

Spec == Init /\ [][Next]_vars

-----------------------------------------------------------------------------
(* Properties *)

\* How a queue's messages are written under p.
encoding(p) == IF p.model_handler = "parser" THEN "json" ELSE p.serializer

\* The two ends of a queue agree: on the encoding, and on whether it is models
\* that are exchanged.  A reader of batches is one that takes lists, of JSON; and
\* the parser is a serializer of its own, next to which there is no other.
Agree(p, r) ==
    /\ encoding(p) = encoding(r)
    /\ p.data_model = r.data_model
    /\ r.batch <=> r.model_handler = "list"
    /\ r.batch => encoding(r) = "json"
    /\ \A end \in {p, r} :
           /\ end.data_model <=> end.model_handler # "none"
           /\ end.model_handler = "parser" => end.serializer = "none"

\* The answer, as the function of the next Engine should be given it.
Expected(r) == IF r.batch THEN [AsText(sent.value) EXCEPT !.shape = "list"]
                          ELSE AsText(sent.value)

\* What one worker function returns is what the function of the next Engine is
\* given, or a list of it, but for dates that became text: if the two ends of the
\* queue agree, that Engine neither refuses the message nor mistakes it.  The
\* exception is a queue without models: its serializer writes the string of
\* whatever is no plain value, and nobody notices.
RoundTrip ==
    LET writer == profile[sent.engine][sent.queue]
        reader == profile[engine][sent.queue]
    IN  (/\ sent # Unsent
         /\ engine # sent.engine
         /\ sent.queue = InputQueue[engine]
         /\ Agree(writer, reader)
         /\ writer.model_handler = "none" /\ writer.serializer # "none"
                => sent.value.form = "python")
            => at \in {"work", "done"} /\ value = Expected(reader)

\* A message that message_model_handler refuses reaches the dead letter queue as
\* it was taken from the input queue, byte for byte, if that queue has neither a
\* serializer nor models.  A data model there ends the process instead, and a
\* model handler alone fails the message.
DeadLetterKept ==
    LET p == profile[engine][DeadLetterQueue]
    IN  queue = DeadLetterQueue =>
            /\ at = "queue" /\ p.serializer = "none" => value = taken
            /\ at \in {"crashed", "failed"} => p.data_model \/ p.model_handler # "none"
=============================================================================
