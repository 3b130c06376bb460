---------------------------- MODULE Configuration ----------------------------
(***************************************************************************)
(* How Engines are set up: Engine.__post_init__, construct_profiles with   *)
(* Profile's validators, construct_queue_map and Queue.connect.            *)
(*                                                                         *)
(* One program may construct several Engines.  They may be given the same  *)
(* dictionary of queue configurations, which __post_init__ tags in place,  *)
(* and the same list of output queues, which it appends to.                *)
(***************************************************************************)
EXTENDS Integers, Sequences, Functions

CONSTANTS
    QueueNames,
    Apps,                \* the Engines of the program
    Lists,               \* the list objects it passes as output_queues
    InputQueue,          \* input_queue of each Engine
    DeadLetterQueue,     \* dead_letter_queue of each Engine, or NoDLQ
    NoDLQ,
    supported_profiles,  \* global.yml
    Configs,             \* what the program may configure of a queue
    OutputQueues         \* what a list may hold at first

\* A key may be absent, None, one of the strings that disable it ("None",
\* "disabled"), or a path or class.
Setting == {"absent", "null", "disabled", "path"}

Fields == {"consumer", "producer", "model_handler", "data_model"}

Settings == [Fields -> Setting]

Missing == [profile |-> "missing"]

ASSUME ConfigurationAssumption ==
    /\ \A p \in DOMAIN supported_profiles : supported_profiles[p] \in Settings
    /\ InputQueue \in [Apps -> QueueNames]
    /\ NoDLQ \notin QueueNames
    /\ DeadLetterQueue \in [Apps -> QueueNames \union {NoDLQ}]
    /\ OutputQueues \subseteq Seq(QueueNames)
    /\ \A c \in Configs : /\ c.set \in Settings
                          /\ c.value \in BOOLEAN
    /\ Missing \notin Configs

VARIABLES
    cfg,       \* per queue, its configuration, or Missing
    tag,       \* connection_type in the dictionary, per queue
    listOf,    \* the list object each Engine was given
    lists,     \* their contents
    pc,        \* per Engine, how far it is
    queueMap,  \* per Engine, the profiles of its queues
    connected  \* per Engine, the queues it connected producers for, in order

vars == <<cfg, tag, listOf, lists, pc, queueMap, connected>>

-----------------------------------------------------------------------------
(* Profiles *)

given(v) == v \notin {"absent", "null"}

\* Profile fields of a queue: the named profile, overridden by what is configured.
this_profile(c) ==
    IF c.profile = "absent"
    THEN c.set
    ELSE [f \in Fields |-> IF c.set[f] = "absent"
                           THEN supported_profiles[c.profile][f] ELSE c.set[f]]

validate_connectors(p, type) ==
    /\ type = "PRODUCER" => given(p["producer"])
    /\ type = "CONSUMER" => given(p["consumer"])

\* Mutant of validate_handler: a handler without a data model is accepted.
validate_model(p) == given(p["data_model"]) => given(p["model_handler"])

validate_handler(p) == given(p["data_model"]) <=> given(p["model_handler"])

\* None, or a string that says so: it runs after the validators above, which
\* look at the values as they were given.
validate_nullable(v) == v = "path"

Profile(p) ==
    [ consumer      |-> given(p["consumer"]),
      producer      |-> given(p["producer"]),
      model_handler |-> validate_nullable(p["model_handler"]),
      data_model    |-> validate_nullable(p["data_model"]) ]

\* Profile.model_validate accepts it, and construct_queue_map finds its value.
IsProfile(c, type) ==
    /\ c.profile = "absent" \/ c.profile \in DOMAIN supported_profiles
    /\ validate_handler(this_profile(c))
    /\ validate_connectors(this_profile(c), type)
    /\ c.value

-----------------------------------------------------------------------------
(* Engine.__post_init__ *)

\* Mutant of outputs: the dead letter queue is appended again.
outputs_repeated(a) ==
    IF DeadLetterQueue[a] = NoDLQ
    THEN lists[listOf[a]]
    ELSE lists[listOf[a]] \o <<DeadLetterQueue[a], DeadLetterQueue[a]>>

\* output_queues, once the dead letter queue is appended to it.
outputs(a) ==
    IF DeadLetterQueue[a] = NoDLQ
    THEN lists[listOf[a]]
    ELSE Append(lists[listOf[a]], DeadLetterQueue[a])

names(a) == {InputQueue[a]} \union Range(outputs(a))

\* A queue that is both is an output.
connection_type(a, q) == IF q \in Range(outputs(a)) THEN "PRODUCER" ELSE "CONSUMER"

Profiles == [consumer : BOOLEAN, producer : BOOLEAN,
             model_handler : BOOLEAN, data_model : BOOLEAN]

QueueMaps == UNION {[Q -> Profiles] : Q \in SUBSET QueueNames}

TypeOK ==
    /\ cfg \in [QueueNames -> Configs \union {Missing}]
    /\ tag \in [QueueNames -> {"none", "PRODUCER", "CONSUMER"}]
    /\ listOf \in [Apps -> Lists]
    /\ lists \in [Lists -> Seq(QueueNames)]
    /\ pc \in [Apps -> {"new", "raised", "built", "running", "unconnectable"}]
    /\ queueMap \in [Apps -> QueueMaps]
    /\ connected \in [Apps -> Seq(QueueNames)]

Init ==
    /\ cfg \in [QueueNames -> Configs \union {Missing}]
    /\ tag = [q \in QueueNames |-> "none"]
    /\ listOf \in [Apps -> Lists]
    /\ lists \in [Lists -> OutputQueues]
    /\ pc = [a \in Apps |-> "new"]
    /\ queueMap = [a \in Apps |-> << >>]
    /\ connected = [a \in Apps |-> << >>]

\* stream_app's function does not return while the application runs.
Begin(a) ==
    /\ pc[a] = "new"
    /\ \A b \in Apps : pc[b] # "running"

Raise(a) ==
    /\ pc' = [pc EXCEPT ![a] = "raised"]
    /\ UNCHANGED queueMap

AppendDLQ(a) == lists' = [lists EXCEPT ![listOf[a]] = outputs(a)]

\* Mutant of TagQueues: a tag that is there is left.
TagUntagged(a) ==
    tag' = [q \in QueueNames |-> IF q \in names(a) /\ tag[q] = "none"
                                 THEN connection_type(a, q) ELSE tag[q]]

\* Mutant of TagQueues: the filtered dictionary replaces the caller's.
TagFiltered(a) == tag' = [q \in names(a) |-> connection_type(a, q)]

\* The tags stay in the caller's dictionary, for the next Engine to overwrite.
TagQueues(a) ==
    tag' = [q \in QueueNames |-> IF q \in names(a) THEN connection_type(a, q)
                                                   ELSE tag[q]]

DLQNotPresent(a) ==
    /\ Begin(a)
    /\ DeadLetterQueue[a] # NoDLQ /\ cfg[DeadLetterQueue[a]] = Missing
    /\ Raise(a)
    /\ UNCHANGED <<cfg, tag, listOf, lists, connected>>

QueueNotFound(a) ==
    /\ Begin(a)
    /\ DeadLetterQueue[a] # NoDLQ => cfg[DeadLetterQueue[a]] # Missing
    /\ \E q \in names(a) : cfg[q] = Missing
    /\ AppendDLQ(a)
    /\ Raise(a)
    /\ UNCHANGED <<cfg, tag, listOf, connected>>

QueueRefused(a) ==
    /\ Begin(a)
    /\ \A q \in names(a) : cfg[q] # Missing
    /\ AppendDLQ(a)
    /\ TagQueues(a)
    /\ \E q \in names(a) : ~IsProfile(cfg[q], tag'[q])
    /\ Raise(a)
    /\ UNCHANGED <<cfg, listOf, connected>>

Build(a) ==
    /\ Begin(a)
    /\ \A q \in names(a) : cfg[q] # Missing
    /\ AppendDLQ(a)
    /\ TagQueues(a)
    /\ \A q \in names(a) : IsProfile(cfg[q], tag'[q])
    /\ pc' = [pc EXCEPT ![a] = "built"]
    /\ queueMap' =
         [queueMap EXCEPT ![a] = [q \in names(a) |-> Profile(this_profile(cfg[q]))]]
    /\ UNCHANGED <<cfg, listOf, connected>>

-----------------------------------------------------------------------------
(* The start of run_component: the list is read as it is now *)

Connectable(a) ==
    /\ queueMap[a][InputQueue[a]].consumer
    /\ \A q \in Range(lists[listOf[a]]) :
           q \in DOMAIN queueMap[a] /\ queueMap[a][q].producer

Connect(a) ==
    /\ pc[a] = "built"
    /\ \A b \in Apps : pc[b] # "running"
    /\ IF Connectable(a)
       THEN /\ pc' = [pc EXCEPT ![a] = "running"]
            /\ connected' = [connected EXCEPT ![a] = lists[listOf[a]]]
       ELSE /\ pc' = [pc EXCEPT ![a] = "unconnectable"]
            /\ UNCHANGED connected
    /\ UNCHANGED <<cfg, tag, listOf, lists, queueMap>>

\* A connector's constructor raises, at a queue before one that has none.
ConnectorRaises(a) ==
    /\ pc[a] = "built"
    /\ \A b \in Apps : pc[b] # "running"
    /\ Raise(a)
    /\ UNCHANGED <<cfg, tag, listOf, lists, connected>>

PostInit(a) ==
    DLQNotPresent(a) \/ QueueNotFound(a) \/ QueueRefused(a) \/ Build(a)

Next == \E a \in Apps : PostInit(a) \/ Connect(a) \/ ConnectorRaises(a)

Spec == Init /\ [][Next]_vars

-----------------------------------------------------------------------------
(* Properties *)

Shared(a) == \E b \in Apps \ {a} : listOf[b] = listOf[a]

\* What __post_init__ accepted can be connected, whatever other Engines were made
\* of the same dictionary since: unless they share the list, or the input queue is
\* also an output and was only validated as one.
BuiltConnects ==
    \A a \in Apps :
        pc[a] = "unconnectable" => Shared(a) \/ InputQueue[a] \in Range(lists[listOf[a]])

\* A queue is connected twice, its first producer never shut down, only if the
\* caller named it twice, the dead letter queue included, or shares the list.
ConnectedOnce ==
    \A a \in Apps :
        pc[a] = "running" =>
            \/ IsInjective(connected[a])
            \/ Shared(a)
            \/ \E l \in OutputQueues : /\ DeadLetterQueue[a] \in Range(l)
                                      /\ connected[a] = Append(l, DeadLetterQueue[a])

\* "Volley cannot construct data into a data model without a model handler": a queue
\* has both or none, unless one of them was disabled by a string, which
\* validate_handler takes for a value.
HandlerAndModel ==
    \A a \in Apps : \A q \in DOMAIN queueMap[a] :
        \/ queueMap[a][q].model_handler = queueMap[a][q].data_model
        \/ \E f \in {"model_handler", "data_model"} :
               this_profile(cfg[q])[f] = "disabled"
=============================================================================
