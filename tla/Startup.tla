------------------------------- MODULE Startup -------------------------------
(***************************************************************************)
(* The start of run_component in detail: Queue.connect, queue by queue, of *)
(* Engines that Configuration says are set up.  Each connector is given a  *)
(* copy of the queue's `config`, but the copy is shallow: the `options` in *)
(* it are the caller's own object.                                         *)
(***************************************************************************)
EXTENDS Configuration, Connectors

CONSTANT
    Wirings  \* a queue's connector classes, and what its `config` may hold

ASSUME WiringsAssumption ==
    \A w \in Wirings : /\ w.consumer \in Consumers
                       /\ w.producer \in Producers
                       /\ w.none \in BOOLEAN

VARIABLES
    wiring,      \* per queue, its classes, and what the program configured
    passed,      \* pass_through_config: the same dictionary, as it is now
    connectors   \* per Engine, what it connected so far, in order

startupVars == <<environ, wiring, passed, connectors>>

StartupInit ==
    /\ Init
    /\ environ \in SUBSET EnvVars
    /\ wiring \in [QueueNames -> Wirings]
    /\ passed = [q \in QueueNames |-> [k \in wiring[q].config |-> "caller"]]
    /\ connectors = [a \in Apps |-> << >>]

\* run_component does not yield between the connections of an Engine.
Undivided(a) == \A b \in Apps \ {a} : pc[b] = "built" => connectors[b] = << >>

-----------------------------------------------------------------------------
(* Queue.connect *)

\* Whose turn it is: the input queue first, then the list, as it is now.
turn(a) == IF connectors[a] = << >>
           THEN InputQueue[a]
           ELSE lists[listOf[a]][Len(connectors[a])]

class(a) == IF connectors[a] = << >> THEN wiring[turn(a)].consumer
                                     ELSE wiring[turn(a)].producer

HasConnector(a) ==
    IF connectors[a] = << >>
    THEN queueMap[a][turn(a)].consumer
    ELSE turn(a) \in DOMAIN queueMap[a] /\ queueMap[a][turn(a)].producer

\* Mutant of Pass: Queue.connect passes the dictionary itself.
PassItself(a) ==
    passed' = [passed EXCEPT ![turn(a)] = connector(class(a), @)]

\* Through the shallow copy, RSMQConsumer sets decode_responses for the caller.
Pass(a) ==
    passed' = [passed EXCEPT ![turn(a)] =
                 IF class(a) = "RSMQConsumer" /\ "options" \in DOMAIN @
                 THEN Default(@, "options.decode_responses") ELSE @]

ConnectQueue(a) ==
    /\ pc[a] = "built"
    /\ Undivided(a)
    /\ HasConnector(a)
    /\ ~wiring[turn(a)].none
    /\ Accepts(class(a), passed[turn(a)])
    /\ Pass(a)
    /\ connectors' =
         [connectors EXCEPT ![a] = Append(@,
             [queue |-> turn(a), class |-> class(a),
              config |-> connector(class(a), passed[turn(a)])])]
    /\ IF Len(connectors[a]) = Len(lists[listOf[a]])
       THEN Connect(a)
       ELSE /\ \A b \in Apps : pc[b] # "running"
            /\ UNCHANGED vars
    /\ UNCHANGED <<environ, wiring>>

\* ValueError, or KeyError of the queue map.
ConnectorMissing(a) ==
    /\ Undivided(a)
    /\ pc[a] = "built"
    /\ ~HasConnector(a)
    /\ Connect(a)
    /\ UNCHANGED startupVars

\* A constructor raises, or `config` is None and has no copy(): run_component
\* ends, and what is connected already stays as it is.
ConnectorRefuses(a) ==
    /\ Undivided(a)
    /\ pc[a] = "built"
    /\ HasConnector(a)
    /\ wiring[turn(a)].none \/ ~Accepts(class(a), passed[turn(a)])
    /\ ConnectorRaises(a)
    /\ UNCHANGED startupVars

StartupNext ==
    \E a \in Apps : \/ Undivided(a) /\ PostInit(a) /\ UNCHANGED startupVars
                    \/ ConnectQueue(a)
                    \/ ConnectorMissing(a)
                    \/ ConnectorRefuses(a)

StartupSpec == StartupInit /\ [][StartupNext]_<<vars, startupVars>>

-----------------------------------------------------------------------------
(* Properties *)

Connected == UNION {Range(connectors[a]) : a \in Apps}

\* What the caller configured is what the connector works with: "environment
\* variables will only be used when previous config values do not exist".  Two
\* exceptions: offsets are never stored automatically, and without a user name
\* the credentials of the environment replace the rest of the configured ones.
ConfiguredWins ==
    \A x \in Connected :
        \A k \in wiring[x.queue].config \intersect DOMAIN x.config :
            \/ x.config[k] = "caller"
            \/ k = "enable.auto.offset.store"
            \/ /\ k \in {"sasl.password", "security.protocol", "sasl.mechanism"}
               /\ "sasl.username" \notin wiring[x.queue].config

\* Engines that share a dictionary do not show in each other's connectors: each
\* is configured as the first would be, from what the program wrote, whichever
\* roles the queue had before.  The one trace a connector leaves in the caller's
\* objects is decode_responses.
ConnectedAlike ==
    \A x \in Connected :
        LET alone == connector(x.class, [k \in wiring[x.queue].config |-> "caller"])
            trace == {"options.decode_responses"}
        IN  Without(x.config, trace) = Without(alone, trace)
=============================================================================
