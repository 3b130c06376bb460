---------------------------- MODULE StartupProofs ----------------------------
(***************************************************************************)
(* What Engine.__post_init__ accepted, and what run_component connects of  *)
(* it: for any number of Engines, queues, profiles and lists.              *)
(*                                                                         *)
(* The first part is about Configuration, which connects the queues of an  *)
(* Engine in one step.  Startup, which connects them one by one, with      *)
(* constructors that may raise half way, implements it; so all that is     *)
(* proved of Configuration holds of Startup.  The last part is about what  *)
(* the constructors are given.                                             *)
(***************************************************************************)
EXTENDS Startup, SequenceTheorems, TLAPS

-----------------------------------------------------------------------------
(* Types *)

\* The list of an Engine after the dead letter queue is appended is a list of
\* queue names, and its queues are queues.
LEMMA OutputsType ==
    ASSUME TypeOK, NEW a \in Apps
    PROVE  /\ outputs(a) \in Seq(QueueNames)
           /\ Range(outputs(a)) \subseteq QueueNames
           /\ names(a) \subseteq QueueNames
  <1>1. lists[listOf[a]] \in Seq(QueueNames)
    BY DEF TypeOK
  <1>2. outputs(a) \in Seq(QueueNames)
    BY <1>1, ConfigurationAssumption DEF outputs
  <1>3. Range(outputs(a)) \subseteq QueueNames
    BY <1>2 DEF Range
  <1> QED
    BY <1>2, <1>3, ConfigurationAssumption DEF names

\* A profile is a record of what is there.
LEMMA ProfileType ==
    ASSUME NEW p
    PROVE  Profile(p) \in Profiles
  BY DEF Profile, Profiles, given, validate_nullable

\* The tags that __post_init__ leaves are connection types.
LEMMA TagsType ==
    ASSUME TypeOK, NEW a \in Apps, TagQueues(a)
    PROVE  /\ tag' \in [QueueNames -> {"none", "PRODUCER", "CONSUMER"}]
           /\ \A q \in names(a) : tag'[q] = connection_type(a, q)
  <1>1. \A q \in QueueNames :
            connection_type(a, q) \in {"none", "PRODUCER", "CONSUMER"}
    BY DEF connection_type
  <1> QED
    BY <1>1, OutputsType DEF TagQueues, TypeOK

\* The appended list is again a list of queue names, and it is the list of this
\* Engine; other list objects are as they were.
LEMMA ListsType ==
    ASSUME TypeOK, NEW a \in Apps, AppendDLQ(a)
    PROVE  /\ lists' \in [Lists -> Seq(QueueNames)]
           /\ lists'[listOf[a]] = outputs(a)
           /\ \A l \in Lists \ {listOf[a]} : lists'[l] = lists[l]
  BY OutputsType DEF AppendDLQ, TypeOK

\* Setting up Engines keeps every variable in its type.
LEMMA TypeStep == TypeOK /\ [Next]_vars => TypeOK'
  <1> SUFFICES ASSUME TypeOK, [Next]_vars PROVE TypeOK'
    OBVIOUS
  <1>1. CASE UNCHANGED vars
    BY <1>1 DEF vars, TypeOK
  <1>2. ASSUME NEW a \in Apps, DLQNotPresent(a) PROVE TypeOK'
    BY <1>2 DEF DLQNotPresent, Raise, TypeOK
  <1>3. ASSUME NEW a \in Apps, QueueNotFound(a) PROVE TypeOK'
    BY <1>3, ListsType DEF QueueNotFound, Raise, TypeOK
  <1>4. ASSUME NEW a \in Apps, QueueRefused(a) PROVE TypeOK'
    BY <1>4, ListsType, TagsType DEF QueueRefused, Raise, TypeOK
  <1>5. ASSUME NEW a \in Apps, Build(a) PROVE TypeOK'
    <2>1. [q \in names(a) |-> Profile(this_profile(cfg[q]))] \in QueueMaps
      BY OutputsType, ProfileType DEF QueueMaps
    <2>2. queueMap' \in [Apps -> QueueMaps]
      BY <1>5, <2>1 DEF Build, TypeOK
    <2> QED
      BY <1>5, <2>2, ListsType, TagsType DEF Build, TypeOK
  <1>6. ASSUME NEW a \in Apps, Connect(a) PROVE TypeOK'
    <2>1. lists[listOf[a]] \in Seq(QueueNames)
      BY DEF TypeOK
    <2> QED
      BY <1>6, <2>1 DEF Connect, TypeOK
  <1>7. ASSUME NEW a \in Apps, ConnectorRaises(a) PROVE TypeOK'
    BY <1>7 DEF ConnectorRaises, Raise, TypeOK
  <1> QED
    BY <1>1, <1>2, <1>3, <1>4, <1>5, <1>6, <1>7 DEF Next, PostInit

LEMMA TypeInit == Init => TypeOK
  <1>1. ASSUME Init PROVE TypeOK
    <2>1. lists \in [Lists -> Seq(QueueNames)]
      BY <1>1, ConfigurationAssumption DEF Init
    <2>2. << >> \in QueueMaps
      <3>1. << >> \in [{} -> Profiles]
        OBVIOUS
      <3> QED
        BY <3>1 DEF QueueMaps
    <2>3. << >> \in Seq(QueueNames)
      OBVIOUS
    <2> QED
      BY <1>1, <2>1, <2>2, <2>3 DEF Init, TypeOK
  <1> QED
    BY <1>1

\* The set-up of the Engines is type correct.
THEOREM TypeCorrect == Spec => []TypeOK
  BY TypeInit, TypeStep, PTL DEF Spec

-----------------------------------------------------------------------------
(* What is accepted can be connected *)

\* What Build established of an Engine that has its list to itself: its queue map
\* knows its queues, each with the connector of its role.
Connects(a) ==
    /\ InputQueue[a] \in Range(lists[listOf[a]]) \/ queueMap[a][InputQueue[a]].consumer
    /\ \A q \in Range(lists[listOf[a]]) :
           q \in DOMAIN queueMap[a] /\ queueMap[a][q].producer

ConnectInv ==
    \A a \in Apps :
        ~Shared(a) =>
            /\ pc[a] = "built" => Connects(a)
            /\ pc[a] = "unconnectable" => InputQueue[a] \in Range(lists[listOf[a]])

\* A step of one Engine leaves what ConnectInv says of another.
LEMMA OthersKeep ==
    ASSUME TypeOK, ConnectInv, NEW a \in Apps, NEW b \in Apps, a # b, ~Shared(b),
           UNCHANGED listOf,
           UNCHANGED lists \/ AppendDLQ(a),
           pc'[b] = pc[b],
           queueMap'[b] = queueMap[b]
    PROVE  /\ pc'[b] = "built" => Connects(b)'
           /\ pc'[b] = "unconnectable" => InputQueue[b] \in Range(lists[listOf[b]])'
  <1>1. listOf[b] # listOf[a] /\ listOf[b] \in Lists
    BY DEF Shared, TypeOK
  <1>2. lists'[listOf'[b]] = lists[listOf[b]]
    BY <1>1, ListsType
  <1> QED
    BY <1>2 DEF ConnectInv, Connects

\* What Build accepts, it can connect: the tag it validated by is the role.
LEMMA BuildConnects ==
    ASSUME TypeOK, NEW a \in Apps, Build(a)
    PROVE  Connects(a)'
  <1>1. lists'[listOf'[a]] = outputs(a)
    BY ListsType DEF Build
  <1>2. queueMap'[a] = [q \in names(a) |-> Profile(this_profile(cfg[q]))]
    BY DEF Build, TypeOK
  <1>3. ASSUME NEW q \in names(a)
        PROVE  validate_connectors(this_profile(cfg[q]), connection_type(a, q))
    BY TagsType DEF Build, IsProfile
  <1>4. ASSUME NEW q \in Range(outputs(a))
        PROVE  q \in DOMAIN queueMap'[a] /\ queueMap'[a][q].producer
    <2>1. q \in names(a)
      BY DEF names
    <2>2. given(this_profile(cfg[q])["producer"])
      BY <1>3, <2>1 DEF validate_connectors, connection_type
    <2> QED
      BY <1>2, <2>1, <2>2 DEF Profile
  <1>5. ASSUME InputQueue[a] \notin Range(outputs(a))
        PROVE  queueMap'[a][InputQueue[a]].consumer
    <2>1. InputQueue[a] \in names(a)
      BY DEF names
    <2>2. given(this_profile(cfg[InputQueue[a]])["consumer"])
      BY <1>3, <1>5, <2>1 DEF validate_connectors, connection_type
    <2> QED
      BY <1>2, <2>1, <2>2 DEF Profile
  <1> QED
    BY <1>1, <1>4, <1>5 DEF Connects

LEMMA ConnectStep == TypeOK /\ ConnectInv /\ [Next]_vars => ConnectInv'
  <1> SUFFICES ASSUME TypeOK, ConnectInv, [Next]_vars PROVE ConnectInv'
    OBVIOUS
  <1>1. CASE UNCHANGED vars
    BY <1>1 DEF vars, ConnectInv, Connects, Shared
  <1>2. ASSUME NEW a \in Apps,
               \/ DLQNotPresent(a) \/ QueueNotFound(a) \/ QueueRefused(a)
               \/ ConnectorRaises(a)
        PROVE  ConnectInv'
    <2> SUFFICES ASSUME NEW b \in Apps, ~Shared(b)'
                 PROVE  /\ pc'[b] = "built" => Connects(b)'
                        /\ pc'[b] = "unconnectable" =>
                               InputQueue[b] \in Range(lists[listOf[b]])'
      BY DEF ConnectInv
    <2>1. UNCHANGED listOf /\ ~Shared(b)
      BY <1>2 DEF DLQNotPresent, QueueNotFound, QueueRefused, ConnectorRaises, Shared
    <2>2. pc'[a] = "raised"
      BY <1>2
      DEF DLQNotPresent, QueueNotFound, QueueRefused, ConnectorRaises, Raise,
          TypeOK
    <2>3. a # b => pc'[b] = pc[b] /\ queueMap'[b] = queueMap[b]
      BY <1>2
      DEF DLQNotPresent, QueueNotFound, QueueRefused, ConnectorRaises, Raise,
          TypeOK
    <2>4. UNCHANGED lists \/ AppendDLQ(a)
      BY <1>2 DEF DLQNotPresent, QueueNotFound, QueueRefused, ConnectorRaises
    <2>5. CASE a = b
      BY <2>2, <2>5
    <2>6. CASE a # b
      BY <2>1, <2>3, <2>4, <2>6, OthersKeep
    <2> QED
      BY <2>5, <2>6
  <1>3. ASSUME NEW a \in Apps, Build(a) PROVE ConnectInv'
    <2> SUFFICES ASSUME NEW b \in Apps, ~Shared(b)'
                 PROVE  /\ pc'[b] = "built" => Connects(b)'
                        /\ pc'[b] = "unconnectable" =>
                               InputQueue[b] \in Range(lists[listOf[b]])'
      BY DEF ConnectInv
    <2>1. UNCHANGED listOf /\ ~Shared(b)
      BY <1>3 DEF Build, Shared
    <2>2. pc'[a] = "built"
      BY <1>3 DEF Build, TypeOK
    <2>3. a # b => pc'[b] = pc[b] /\ queueMap'[b] = queueMap[b]
      BY <1>3 DEF Build, TypeOK
    <2>4. AppendDLQ(a)
      BY <1>3 DEF Build
    <2>5. CASE a = b
      BY <1>3, <2>2, <2>5, BuildConnects
    <2>6. CASE a # b
      BY <2>1, <2>3, <2>4, <2>6, OthersKeep
    <2> QED
      BY <2>5, <2>6
  <1>4. ASSUME NEW a \in Apps, Connect(a) PROVE ConnectInv'
    <2> SUFFICES ASSUME NEW b \in Apps, ~Shared(b)'
                 PROVE  /\ pc'[b] = "built" => Connects(b)'
                        /\ pc'[b] = "unconnectable" =>
                               InputQueue[b] \in Range(lists[listOf[b]])'
      BY DEF ConnectInv
    <2>1. UNCHANGED <<listOf, lists, queueMap>> /\ ~Shared(b)
      BY <1>4 DEF Connect, Shared
    <2>2. a # b => pc'[b] = pc[b]
      BY <1>4 DEF Connect, TypeOK
    <2>3. CASE a = b
      <3>1. Connects(a)
        BY <1>4, <2>1, <2>3 DEF ConnectInv, Connect
      <3>2. \/ pc'[a] = "running"
            \/ pc'[a] = "unconnectable" /\ ~Connectable(a)
        BY <1>4 DEF Connect, TypeOK
      <3> QED
        BY <2>1, <2>3, <3>1, <3>2 DEF Connects, Connectable
    <2>4. CASE a # b
      BY <2>1, <2>2, <2>4, OthersKeep
    <2> QED
      BY <2>3, <2>4
  <1> QED
    BY <1>1, <1>2, <1>3, <1>4 DEF Next, PostInit

\* An Engine that __post_init__ accepted connects, whatever other Engines were made
\* of the same dictionary, unless it shares its list of output queues or its input
\* queue is also an output.
THEOREM AcceptedConnects == Spec => []BuiltConnects
  <1>1. Init => ConnectInv
    BY DEF Init, ConnectInv
  <1>2. ConnectInv => BuiltConnects
    BY DEF ConnectInv, BuiltConnects
  <1> QED
    BY <1>1, <1>2, TypeInit, TypeStep, ConnectStep, PTL DEF Spec

-----------------------------------------------------------------------------
(* The list of output queues *)

Extended(a, l) ==
    IF DeadLetterQueue[a] = NoDLQ THEN l ELSE Append(l, DeadLetterQueue[a])

\* An Engine with a list of its own has it as the caller wrote it, and from then
\* on with its dead letter queue, once.
ListInv ==
    \A a \in Apps :
        ~Shared(a) =>
            /\ pc[a] = "new" => lists[listOf[a]] \in OutputQueues
            /\ pc[a] = "built" =>
                  \E l \in OutputQueues : lists[listOf[a]] = Extended(a, l)
            /\ pc[a] = "running" =>
                  \E l \in OutputQueues : connected[a] = Extended(a, l)

LEMMA ListStep ==
    ASSUME TypeOK, ListInv, [Next]_vars
    PROVE  ListInv'
<1> SUFFICES ASSUME NEW b \in Apps, ~Shared(b)'
             PROVE  /\ pc'[b] = "new" => lists'[listOf'[b]] \in OutputQueues
                    /\ pc'[b] = "built" =>
                          \E l \in OutputQueues :
                              lists'[listOf'[b]] = Extended(b, l)
                    /\ pc'[b] = "running" =>
                          \E l \in OutputQueues : connected'[b] = Extended(b, l)
  BY DEF ListInv
<1>1. listOf' = listOf /\ listOf \in [Apps -> Lists]
  BY DEF Next, PostInit, DLQNotPresent, QueueNotFound, QueueRefused, Build,
         Connect, ConnectorRaises, vars, TypeOK
<1>2. ~Shared(b)
  BY <1>1 DEF Shared
<1>3. CASE UNCHANGED vars
  BY <1>2, <1>3 DEF vars, ListInv
<1>4. ASSUME NEW a \in Apps, a # b, PostInit(a) \/ Connect(a) \/ ConnectorRaises(a)
      PROVE  UNCHANGED <<pc[b], connected[b], lists[listOf[b]]>>
  <2>1. pc'[b] = pc[b] /\ connected'[b] = connected[b]
    BY <1>4 DEF PostInit, DLQNotPresent, QueueNotFound, QueueRefused, Build, Raise,
                Connect, ConnectorRaises, TypeOK
  <2>2. listOf[b] # listOf[a] /\ listOf[b] \in Lists
    BY <1>1, <1>2, <1>4 DEF Shared
  <2>3. lists' = lists \/ AppendDLQ(a)
    BY <1>4 DEF PostInit, DLQNotPresent, QueueNotFound, QueueRefused, Build,
                Connect, ConnectorRaises
  <2> QED
    BY <1>1, <2>1, <2>2, <2>3, ListsType
<1>5. CASE PostInit(b) \/ ConnectorRaises(b)
  <2>1. pc'[b] \in {"raised", "built"}
    BY <1>5 DEF PostInit, DLQNotPresent, QueueNotFound, QueueRefused, Build, Raise,
                ConnectorRaises, TypeOK
  <2>2. CASE pc'[b] = "raised"
    BY <2>2
  <2>3. CASE Build(b)
    <3>1. lists[listOf[b]] \in OutputQueues
      BY <1>2, <2>3 DEF Build, Begin, ListInv
    <3>2. lists'[listOf'[b]] = Extended(b, lists[listOf[b]])
      BY <1>1, <2>3, ListsType DEF Build, outputs, Extended
    <3> QED
      BY <2>3, <3>1, <3>2 DEF Build, TypeOK
  <2> QED
    BY <1>5, <2>1, <2>2, <2>3
    DEF PostInit, DLQNotPresent, QueueNotFound, QueueRefused, ConnectorRaises,
        Raise, TypeOK
<1>6. CASE Connect(b)
  <2>1. \E l \in OutputQueues : lists[listOf[b]] = Extended(b, l)
    BY <1>2, <1>6 DEF Connect, ListInv
  <2>2. \/ pc'[b] = "running" /\ connected'[b] = lists[listOf[b]]
        \/ pc'[b] = "unconnectable"
    BY <1>6 DEF Connect, TypeOK
  <2> QED
    BY <2>1, <2>2
<1> QED
  BY <1>1, <1>2, <1>3, <1>4, <1>5, <1>6 DEF Next, ListInv

\* What is appended to a list that does not have it leaves no repetition.
LEMMA AppendOnce ==
    ASSUME NEW S, NEW s \in Seq(S), NEW e \in S, IsInjective(s), e \notin Range(s)
    PROVE  IsInjective(Append(s, e))
<1>1. Len(s) \in Nat /\ DOMAIN s = 1..Len(s)
  OBVIOUS
<1>2. /\ DOMAIN Append(s, e) = 1..(Len(s) + 1)
      /\ \A i \in 1..Len(s) : Append(s, e)[i] = s[i]
      /\ Append(s, e)[Len(s) + 1] = e
  BY AppendProperties
<1>3. \A i \in 1..Len(s) : s[i] # e
  BY <1>1 DEF Range
<1>4. \A i, j \in 1..Len(s) : s[i] = s[j] => i = j
  BY <1>1 DEF IsInjective
<1>5. \A i, j \in 1..(Len(s) + 1) : Append(s, e)[i] = Append(s, e)[j] => i = j
  BY <1>1, <1>2, <1>3, <1>4
<1> QED
  BY <1>2, <1>5 DEF IsInjective

\* An Engine connects a queue twice only if the caller named it twice: in lists
\* that name no queue twice, the dead letter queue is the only one that can be, and
\* __post_init__ appends it once.
THEOREM QueuesConnectOnce ==
    ASSUME \A l \in OutputQueues : IsInjective(l)
    PROVE  Spec => []ConnectedOnce
<1>1. Init => ListInv
  BY DEF Init, ListInv
<1>2. TypeOK /\ ListInv /\ [Next]_vars => ListInv'
  BY ListStep
<1>3. ListInv => ConnectedOnce
  <2> SUFFICES ASSUME ListInv, NEW a \in Apps, pc[a] = "running", ~Shared(a)
               PROVE  \/ IsInjective(connected[a])
                      \/ \E l \in OutputQueues :
                            /\ DeadLetterQueue[a] \in Range(l)
                            /\ connected[a] = Append(l, DeadLetterQueue[a])
    BY DEF ConnectedOnce
  <2>1. PICK l \in OutputQueues : connected[a] = Extended(a, l)
    BY DEF ListInv
  <2>2. l \in Seq(QueueNames) /\ IsInjective(l)
    BY ConfigurationAssumption
  <2>3. CASE DeadLetterQueue[a] = NoDLQ
    BY <2>1, <2>2, <2>3 DEF Extended
  <2>4. CASE DeadLetterQueue[a] # NoDLQ /\ DeadLetterQueue[a] \notin Range(l)
    <3>1. DeadLetterQueue[a] \in QueueNames
      BY <2>4, ConfigurationAssumption
    <3> QED
      BY <2>1, <2>2, <2>4, <3>1, AppendOnce DEF Extended
  <2>5. CASE DeadLetterQueue[a] # NoDLQ /\ DeadLetterQueue[a] \in Range(l)
    BY <2>1, <2>5 DEF Extended
  <2> QED
    BY <2>3, <2>4, <2>5
<1> QED
  BY <1>1, <1>2, <1>3, TypeInit, TypeStep, PTL DEF Spec

-----------------------------------------------------------------------------
(* The validators *)

\* A queue map holds the profiles of queues that validate_handler accepted.
ProfileInv ==
    \A a \in Apps : \A q \in DOMAIN queueMap[a] :
        /\ this_profile(cfg[q]) \in Settings
        /\ validate_handler(this_profile(cfg[q]))
        /\ queueMap[a][q] = Profile(this_profile(cfg[q]))

LEMMA ProfileStep ==
    ASSUME TypeOK, ProfileInv, [Next]_vars
    PROVE  ProfileInv'
<1>1. cfg' = cfg
  BY DEF Next, PostInit, DLQNotPresent, QueueNotFound, QueueRefused, Build,
         Connect, ConnectorRaises, vars
<1>2. CASE queueMap' = queueMap
  BY <1>1, <1>2 DEF ProfileInv
<1>3. ASSUME NEW a \in Apps, Build(a) PROVE ProfileInv'
  <2>1. queueMap' = [queueMap EXCEPT ![a] =
                        [q \in names(a) |-> Profile(this_profile(cfg[q]))]]
    BY <1>3 DEF Build
  <2>2. ASSUME NEW q \in names(a)
        PROVE  /\ this_profile(cfg[q]) \in Settings
               /\ validate_handler(this_profile(cfg[q]))
    <3>1. q \in QueueNames /\ cfg[q] \in Configs
      BY <1>3, OutputsType DEF Build, TypeOK
    <3>2. IsProfile(cfg[q], tag'[q])
      BY <1>3 DEF Build
    <3>3. cfg[q].set \in Settings
      BY <3>1, ConfigurationAssumption
    <3>4. this_profile(cfg[q]) \in Settings
      <4>1. CASE cfg[q].profile = "absent"
        BY <3>3, <4>1 DEF this_profile
      <4>2. CASE cfg[q].profile # "absent"
        <5>1. supported_profiles[cfg[q].profile] \in Settings
          BY <3>2, <4>2, ConfigurationAssumption DEF IsProfile
        <5> QED
          BY <3>3, <4>2, <5>1 DEF this_profile, Settings
      <4> QED
        BY <4>1, <4>2
    <3> QED
      BY <3>2, <3>4 DEF IsProfile
  <2> SUFFICES ASSUME NEW b \in Apps, NEW q \in DOMAIN queueMap'[b]
               PROVE  /\ this_profile(cfg[q]) \in Settings
                      /\ validate_handler(this_profile(cfg[q]))
                      /\ queueMap'[b][q] = Profile(this_profile(cfg[q]))
    BY <1>1 DEF ProfileInv
  <2>3. CASE b = a
    BY <2>1, <2>2, <2>3 DEF TypeOK
  <2>4. CASE b # a
    <3>1. queueMap'[b] = queueMap[b]
      BY <2>1, <2>4 DEF TypeOK
    <3> QED
      BY <3>1 DEF ProfileInv
  <2> QED
    BY <2>3, <2>4
<1> QED
  BY <1>2, <1>3
  DEF Next, PostInit, DLQNotPresent, QueueNotFound, QueueRefused, Connect,
      ConnectorRaises, Raise, vars

\* Of what validate_handler accepts, only a string that disables one of the two can
\* take it away.
LEMMA BothOrDisabled ==
    ASSUME NEW p \in Settings, validate_handler(p)
    PROVE  \/ Profile(p).model_handler = Profile(p).data_model
           \/ \E f \in {"model_handler", "data_model"} : p[f] = "disabled"
<1>1. p["model_handler"] \in Setting /\ p["data_model"] \in Setting
  BY DEF Settings, Fields
<1>2. /\ Profile(p).model_handler = (p["model_handler"] = "path")
      /\ Profile(p).data_model = (p["data_model"] = "path")
  BY DEF Profile, validate_nullable
<1> QED
  BY <1>1, <1>2 DEF validate_handler, given, Setting

\* A queue of an Engine that __post_init__ accepted has a model handler and a data
\* model or neither, unless one was disabled by a string.
THEOREM HandlersHaveModels == Spec => []HandlerAndModel
<1>1. Init => ProfileInv
  BY DEF Init, ProfileInv
<1>2. TypeOK /\ ProfileInv /\ [Next]_vars => ProfileInv'
  BY ProfileStep
<1>3. ProfileInv => HandlerAndModel
  BY BothOrDisabled DEF ProfileInv, HandlerAndModel
<1> QED
  BY <1>1, <1>2, <1>3, TypeInit, TypeStep, PTL DEF Spec

-----------------------------------------------------------------------------
(* Queue.connect, queue by queue *)

\* Every step of Queue.connect is a step of Configuration, or changes only what
\* Configuration does not see.
LEMMA StartupStep == StartupNext => [Next]_vars
<1>1. ASSUME NEW a \in Apps, PostInit(a)
      PROVE  Next
  BY <1>1 DEF Next
<1>2. ASSUME NEW a \in Apps, ConnectQueue(a)
      PROVE  [Next]_vars
  <2>1. CASE Len(connectors[a]) = Len(lists[listOf[a]])
    BY <1>2, <2>1 DEF ConnectQueue, Next
  <2>2. CASE Len(connectors[a]) # Len(lists[listOf[a]])
    BY <1>2, <2>2 DEF ConnectQueue
  <2> QED
    BY <2>1, <2>2
<1>3. ASSUME NEW a \in Apps, ConnectorMissing(a)
      PROVE  Next
  BY <1>3 DEF ConnectorMissing, Next
<1>4. ASSUME NEW a \in Apps, ConnectorRefuses(a)
      PROVE  Next
  BY <1>4 DEF ConnectorRefuses, Next
<1> QED
  BY <1>1, <1>2, <1>3, <1>4 DEF StartupNext

\* The start of an application as Queue.connect performs it implements the one
\* that Configuration abstracts.
THEOREM StartupImplementsConfiguration == StartupSpec => Spec
<1>1. StartupInit => Init
  BY DEF StartupInit
<1>2. [StartupNext]_<<vars, startupVars>> => [Next]_vars
  BY StartupStep DEF vars
<1> QED
  BY <1>1, <1>2, PTL DEF StartupSpec, Spec

\* An Engine that __post_init__ accepted does not fail for want of a connector,
\* whatever the connectors are and wherever their configuration comes from.
THEOREM StartupConnects == StartupSpec => []BuiltConnects
BY StartupImplementsConfiguration, AcceptedConnects, PTL

-----------------------------------------------------------------------------
(* What the constructors make of a configuration *)

Trace == "options.decode_responses"

Credentials == {"sasl.password", "security.protocol", "sasl.mechanism"}

\* Where d may say something else than c of a key: the credentials of a
\* configuration without a user name.
Licensed(c, k) == k \in Credentials /\ "sasl.username" \notin DOMAIN c

\* d says what c says, and something of the keys in K.
Keeps(c, d, K) ==
    /\ DOMAIN c \subseteq DOMAIN d
    /\ DOMAIN d \subseteq DOMAIN c \union K
    /\ \A k \in DOMAIN c : d[k] = c[k] \/ Licensed(c, k)

\* d says what c says, leaves it out, or has a licence to replace it.
Wins(c, d) ==
    \A k \in DOMAIN c \intersect DOMAIN d :
        d[k] = c[k] \/ k = "enable.auto.offset.store" \/ Licensed(c, k)

LEMMA PutKeeps ==
    ASSUME NEW c, NEW key, NEW v, key \notin DOMAIN c \/ Licensed(c, key)
    PROVE  Keeps(c, Put(c, key, v), {key})
<1> DEFINE d == Put(c, key, v)
<1>1. /\ DOMAIN d = DOMAIN c \union {key}
      /\ \A k \in DOMAIN c \ {key} : d[k] = c[k]
  BY DEF Put
<1> HIDE DEF d
<1>2. \A k \in DOMAIN c : k \in DOMAIN c \ {key} \/ Licensed(c, k)
  OBVIOUS
<1>3. \A k \in DOMAIN c : d[k] = c[k] \/ Licensed(c, k)
  BY <1>1, <1>2
<1>4. Keeps(c, d, {key})
  BY <1>1, <1>3 DEF Keeps
<1> QED
  BY <1>4 DEF d

LEMMA KeepsItself ==
    ASSUME NEW c, NEW K
    PROVE  Keeps(c, c, K)
BY DEF Keeps

LEMMA KeepsMore ==
    ASSUME NEW c, NEW d, NEW e, NEW K, NEW L, Keeps(c, d, K), Keeps(d, e, L)
    PROVE  Keeps(c, e, K \union L)
<1>1. /\ DOMAIN c \subseteq DOMAIN e
      /\ DOMAIN e \subseteq DOMAIN c \union (K \union L)
  BY DEF Keeps
<1>2. ASSUME NEW k \in DOMAIN c
      PROVE  e[k] = c[k] \/ Licensed(c, k)
  <2>1. d[k] = c[k] \/ Licensed(c, k)
    BY DEF Keeps
  <2>2. k \in DOMAIN d /\ (e[k] = d[k] \/ Licensed(d, k))
    BY DEF Keeps
  <2>3. Licensed(d, k) => Licensed(c, k)
    BY DEF Keeps, Licensed
  <2> QED
    BY <2>1, <2>2, <2>3
<1> QED
  BY <1>1, <1>2 DEF Keeps

LEMMA AbsentKeeps ==
    ASSUME NEW c, NEW key, NEW v
    PROVE  Keeps(c, PutIfAbsent(c, key, v), {key})
<1>1. CASE key \in DOMAIN c
  <2>1. PutIfAbsent(c, key, v) = c
    BY <1>1 DEF PutIfAbsent
  <2> QED
    BY <2>1, KeepsItself
<1>2. CASE key \notin DOMAIN c
  <2>1. PutIfAbsent(c, key, v) = Put(c, key, v)
    BY <1>2 DEF PutIfAbsent
  <2> QED
    BY <1>2, <2>1, PutKeeps
<1> QED
  BY <1>1, <1>2

LEMMA DefaultKeeps ==
    ASSUME NEW c, NEW key
    PROVE  Keeps(c, Default(c, key), {key})
BY AbsentKeeps DEF Default

LEMMA FromEnvKeeps ==
    ASSUME NEW c, NEW key, NEW var
    PROVE  Keeps(c, FromEnv(c, key, var), {key})
<1>1. CASE var \in environ
  <2>1. FromEnv(c, key, var) = PutIfAbsent(c, key, var)
    BY <1>1 DEF FromEnv
  <2> QED
    BY <2>1, AbsentKeeps
<1>2. CASE var \notin environ
  <2>1. FromEnv(c, key, var) = c
    BY <1>2 DEF FromEnv
  <2> QED
    BY <2>1, KeepsItself
<1> QED
  BY <1>1, <1>2

CredentialKeys == {"sasl.username"} \union Credentials

LEMMA CredentialsKeep ==
    ASSUME NEW c
    PROVE  Keeps(c, credentials(c), CredentialKeys)
<1>1. CASE credentials(c) = c
  BY <1>1, KeepsItself
<1>2. CASE credentials(c) # c
  <2> DEFINE u == Put(c, "sasl.username", "KAFKA_KEY")
             p == Put(u, "sasl.password", "KAFKA_SECRET")
             s == Put(p, "security.protocol", "default")
             m == Put(s, "sasl.mechanism", "default")
  <2>1. "sasl.username" \notin DOMAIN c
    BY <1>2 DEF credentials
  <2>2. credentials(c) = m
    BY <1>2 DEF credentials
  <2>3. /\ DOMAIN u = DOMAIN c \union {"sasl.username"}
        /\ \A k \in DOMAIN c \ {"sasl.username"} : u[k] = c[k]
    BY DEF Put
  <2>4. /\ DOMAIN p = DOMAIN u \union {"sasl.password"}
        /\ \A k \in DOMAIN u \ {"sasl.password"} : p[k] = u[k]
    <3> HIDE DEF u
    <3> QED  BY DEF Put
  <2>5. /\ DOMAIN s = DOMAIN p \union {"security.protocol"}
        /\ \A k \in DOMAIN p \ {"security.protocol"} : s[k] = p[k]
    <3> HIDE DEF p
    <3> QED  BY DEF Put
  <2>6. /\ DOMAIN m = DOMAIN s \union {"sasl.mechanism"}
        /\ \A k \in DOMAIN s \ {"sasl.mechanism"} : m[k] = s[k]
    <3> HIDE DEF s
    <3> QED  BY DEF Put
  <2> HIDE DEF u, p, s, m
  <2>7. \A k \in DOMAIN c : k \in Credentials \/ m[k] = c[k]
    BY <2>1, <2>3, <2>4, <2>5, <2>6 DEF Credentials
  <2>8. DOMAIN m = DOMAIN c \union CredentialKeys
    BY <2>3, <2>4, <2>5, <2>6 DEF Credentials, CredentialKeys
  <2>9. Keeps(c, m, CredentialKeys)
    BY <2>1, <2>7, <2>8 DEF Keeps, Licensed
  <2> QED
    BY <2>2, <2>9
<1> QED
  BY <1>1, <1>2

CredsKeys == ({"bootstrap.servers"} \union {"bootstrap.servers"}) \union CredentialKeys

LEMMA CredsKeep ==
    ASSUME NEW c, NEW b
    PROVE  Keeps(c, handle_creds(c, b), CredsKeys)
<1> DEFINE own == IF b THEN "KAFKA_CONSUMER_BROKERS" ELSE "KAFKA_PRODUCER_BROKERS"
           d == FromEnv(c, "bootstrap.servers", own)
           e == FromEnv(d, "bootstrap.servers", "KAFKA_BROKERS")
<1>1. handle_creds(c, b) = credentials(e)
  BY DEF handle_creds, brokers
<1> HIDE DEF own
<1>2. Keeps(c, d, {"bootstrap.servers"})
  BY FromEnvKeeps
<1> HIDE DEF d
<1>3. Keeps(d, e, {"bootstrap.servers"})
  BY FromEnvKeeps
<1> HIDE DEF e
<1>4. Keeps(c, e, {"bootstrap.servers"} \union {"bootstrap.servers"})
  BY <1>2, <1>3, KeepsMore
<1>5. Keeps(e, credentials(e), CredentialKeys)
  BY CredentialsKeep
<1>6. Keeps(c, credentials(e), CredsKeys)
  BY <1>4, <1>5, KeepsMore DEF CredsKeys
<1> QED
  BY <1>1, <1>6

LEMMA KeepsWins ==
    ASSUME NEW c, NEW d, NEW K, Keeps(c, d, K)
    PROVE  Wins(c, d)
BY DEF Keeps, Wins

ConsumerKeys == CredsKeys \union
    {"auto.offset.reset", "auto.commit.interval.ms", "group.id",
     "enable.auto.offset.store"}

LEMMA KafkaConsumerWins ==
    ASSUME NEW c
    PROVE  /\ Wins(c, KafkaConsumerConfig(c))
           /\ DOMAIN KafkaConsumerConfig(c) \subseteq DOMAIN c \union ConsumerKeys
<1> DEFINE h == handle_creds(c, TRUE)
           r == Default(h, "auto.offset.reset")
           i == Default(r, "auto.commit.interval.ms")
           g == FromEnv(i, "group.id", "KAFKA_CONSUMER_GROUP")
           w == Without(g, {"poll_interval"})
           e == Put(w, "enable.auto.offset.store", "default")
<1>1. KafkaConsumerConfig(c) = e
  BY DEF KafkaConsumerConfig
<1>2. Keeps(c, h, CredsKeys)
  BY CredsKeep
<1> HIDE DEF h
<1>3. Keeps(h, r, {"auto.offset.reset"})
  BY DefaultKeeps
<1> HIDE DEF r
<1>4. Keeps(r, i, {"auto.commit.interval.ms"})
  BY DefaultKeeps
<1> HIDE DEF i
<1>5. Keeps(i, g, {"group.id"})
  BY FromEnvKeeps
<1> HIDE DEF g
<1>6. /\ DOMAIN w = DOMAIN g \ {"poll_interval"}
      /\ \A k \in DOMAIN g \ {"poll_interval"} : w[k] = g[k]
  BY DEF Without, Restrict
<1> HIDE DEF w
<1>7. /\ DOMAIN e = DOMAIN w \union {"enable.auto.offset.store"}
      /\ \A k \in DOMAIN w \ {"enable.auto.offset.store"} : e[k] = w[k]
  BY DEF Put
<1> HIDE DEF e
<1>8. Keeps(c, r, CredsKeys \union {"auto.offset.reset"})
  BY <1>2, <1>3, KeepsMore
<1>9. Keeps(c, i, (CredsKeys \union {"auto.offset.reset"})
                      \union {"auto.commit.interval.ms"})
  BY <1>4, <1>8, KeepsMore
<1>10. Keeps(c, g, ((CredsKeys \union {"auto.offset.reset"})
                      \union {"auto.commit.interval.ms"}) \union {"group.id"})
  BY <1>5, <1>9, KeepsMore
<1>11. /\ DOMAIN c \subseteq DOMAIN g
       /\ DOMAIN g \subseteq DOMAIN c \union ConsumerKeys
       /\ \A k \in DOMAIN c : g[k] = c[k] \/ Licensed(c, k)
  BY <1>10 DEF Keeps, ConsumerKeys
<1>12. DOMAIN e \subseteq DOMAIN c \union ConsumerKeys
  BY <1>6, <1>7, <1>11 DEF ConsumerKeys
<1>13. \A k \in DOMAIN c \intersect DOMAIN e :
           k = "enable.auto.offset.store" \/ e[k] = g[k]
  BY <1>6, <1>7
<1>14. Wins(c, e)
  BY <1>11, <1>13 DEF Wins
<1> QED
  BY <1>1, <1>12, <1>14

LEMMA BatchConsumerWins ==
    ASSUME NEW c
    PROVE  Wins(c, BatchConsumerConfig(c))
<1> DEFINE own == {"batch_size", "batch_time_seconds"}
           w == Without(c, own)
           e == KafkaConsumerConfig(w)
<1>1. BatchConsumerConfig(c) = e
  BY DEF BatchConsumerConfig
<1>2. /\ DOMAIN w = DOMAIN c \ own
      /\ \A k \in DOMAIN c \ own : w[k] = c[k]
  BY DEF Without, Restrict
<1> HIDE DEF w
<1>3. Wins(w, e) /\ DOMAIN e \subseteq DOMAIN w \union ConsumerKeys
  BY KafkaConsumerWins
<1> HIDE DEF e
<1>4. own \intersect ConsumerKeys = {}
  BY DEF ConsumerKeys, CredsKeys, CredentialKeys, Credentials
<1>5. DOMAIN c \intersect DOMAIN e = DOMAIN w \intersect DOMAIN e
  BY <1>2, <1>3, <1>4
<1>6. \A k : Licensed(w, k) => Licensed(c, k)
  BY <1>2 DEF Licensed
<1>7. \A k \in DOMAIN w : w[k] = c[k]
  BY <1>2
<1> HIDE DEF own
<1>8. Wins(c, e)
  BY <1>3, <1>5, <1>6, <1>7 DEF Wins
<1> QED
  BY <1>1, <1>8

LEMMA KafkaProducerWins ==
    ASSUME NEW c
    PROVE  Wins(c, KafkaProducerConfig(c))
<1> DEFINE h == handle_creds(c, FALSE)
           e == Default(h, "compression.type")
<1>1. KafkaProducerConfig(c) = e
  BY DEF KafkaProducerConfig
<1>2. Keeps(c, h, CredsKeys)
  BY CredsKeep
<1> HIDE DEF h
<1>3. Keeps(h, e, {"compression.type"})
  BY DefaultKeeps
<1> HIDE DEF e
<1>4. Keeps(c, e, CredsKeys \union {"compression.type"})
  BY <1>2, <1>3, KeepsMore
<1> QED
  BY <1>1, <1>4, KeepsWins

LEMMA RSMQConsumerWins ==
    ASSUME NEW c
    PROVE  Wins(c, RSMQConsumerConfig(c))
<1> DEFINE h == FromEnv(c, "host", "REDIS_HOST")
           o == Default(h, "options")
           d == Default(o, "options.decode_responses")
           e == Default(d, "vt")
<1>1. RSMQConsumerConfig(c) = e
  BY DEF RSMQConsumerConfig
<1>2. Keeps(c, h, {"host"})
  BY FromEnvKeeps
<1> HIDE DEF h
<1>3. Keeps(h, o, {"options"})
  BY DefaultKeeps
<1> HIDE DEF o
<1>4. Keeps(o, d, {"options.decode_responses"})
  BY DefaultKeeps
<1> HIDE DEF d
<1>5. Keeps(d, e, {"vt"})
  BY DefaultKeeps
<1> HIDE DEF e
<1>6. Keeps(c, o, {"host"} \union {"options"})
  BY <1>2, <1>3, KeepsMore
<1>7. Keeps(c, d, ({"host"} \union {"options"}) \union {"options.decode_responses"})
  BY <1>4, <1>6, KeepsMore
<1>8. Keeps(c, e, (({"host"} \union {"options"})
                       \union {"options.decode_responses"}) \union {"vt"})
  BY <1>5, <1>7, KeepsMore
<1> QED
  BY <1>1, <1>8, KeepsWins

LEMMA RSMQProducerWins ==
    ASSUME NEW c
    PROVE  Wins(c, RSMQProducerConfig(c))
<1> DEFINE h == FromEnv(c, "host", "REDIS_HOST")
           e == Default(h, "delay")
<1>1. RSMQProducerConfig(c) = e
  BY DEF RSMQProducerConfig
<1>2. Keeps(c, h, {"host"})
  BY FromEnvKeeps
<1> HIDE DEF h
<1>3. Keeps(h, e, {"delay"})
  BY DefaultKeeps
<1> HIDE DEF e
<1>4. Keeps(c, e, {"host"} \union {"delay"})
  BY <1>2, <1>3, KeepsMore
<1> QED
  BY <1>1, <1>4, KeepsWins

LEMMA ZMQWins ==
    ASSUME NEW c
    PROVE  Wins(c, ZMQConfig(c))
<1> DEFINE h == FromEnv(c, "host", "ZMQ_HOST")
           e == FromEnv(h, "port", "ZMQ_PORT")
<1>1. ZMQConfig(c) = e
  BY DEF ZMQConfig
<1>2. Keeps(c, h, {"host"})
  BY FromEnvKeeps
<1> HIDE DEF h
<1>3. Keeps(h, e, {"port"})
  BY FromEnvKeeps
<1> HIDE DEF e
<1>4. Keeps(c, e, {"host"} \union {"port"})
  BY <1>2, <1>3, KeepsMore
<1> QED
  BY <1>1, <1>4, KeepsWins

\* No constructor says otherwise than its caller, but where it is licensed to.
LEMMA ConnectorWins ==
    ASSUME NEW c, NEW t \in Consumers \union Producers
    PROVE  Wins(c, connector(t, c))
<1>1. CASE t = "ConfluentKafkaConsumer"
  <2>1. connector(t, c) = KafkaConsumerConfig(c)
    BY <1>1 DEF connector
  <2> QED
    BY <2>1, KafkaConsumerWins
<1>2. CASE t = "BatchJsonConfluentConsumer"
  <2>1. connector(t, c) = BatchConsumerConfig(c)
    BY <1>2 DEF connector
  <2> QED
    BY <2>1, BatchConsumerWins
<1>3. CASE t = "ConfluentKafkaProducer"
  <2>1. connector(t, c) = KafkaProducerConfig(c)
    BY <1>3 DEF connector
  <2> QED
    BY <2>1, KafkaProducerWins
<1>4. CASE t = "RSMQConsumer"
  <2>1. connector(t, c) = RSMQConsumerConfig(c)
    BY <1>4 DEF connector
  <2> QED
    BY <2>1, RSMQConsumerWins
<1>5. CASE t = "RSMQProducer"
  <2>1. connector(t, c) = RSMQProducerConfig(c)
    BY <1>5 DEF connector
  <2> QED
    BY <2>1, RSMQProducerWins
<1>6. CASE t \in {"ZMQConsumer", "ZMQProducer"}
  <2>1. connector(t, c) = ZMQConfig(c)
    BY <1>6 DEF connector
  <2> QED
    BY <2>1, ZMQWins
<1> QED
  BY <1>1, <1>2, <1>3, <1>4, <1>5, <1>6 DEF Consumers, Producers

-----------------------------------------------------------------------------
(* The trace a connector leaves in the caller's objects shows in that key only *)

\* c and d are the same, but for the trace.
Alike(c, d) ==
    /\ DOMAIN c \ {Trace} = DOMAIN d \ {Trace}
    /\ \A k \in DOMAIN c \ {Trace} : c[k] = d[k]

LEMMA PutAlike ==
    ASSUME NEW c, NEW d, NEW key, NEW v, Alike(c, d)
    PROVE  Alike(Put(c, key, v), Put(d, key, v))
<1> DEFINE e == Put(c, key, v)
           f == Put(d, key, v)
<1>1. /\ DOMAIN e = DOMAIN c \union {key}
      /\ \A k \in DOMAIN c \union {key} : e[k] = IF k = key THEN v ELSE c[k]
  BY DEF Put
<1>2. /\ DOMAIN f = DOMAIN d \union {key}
      /\ \A k \in DOMAIN d \union {key} : f[k] = IF k = key THEN v ELSE d[k]
  BY DEF Put
<1> HIDE DEF e, f
<1>3. DOMAIN e \ {Trace} = DOMAIN f \ {Trace}
  BY <1>1, <1>2 DEF Alike
<1>4. \A k \in DOMAIN e \ {Trace} : e[k] = f[k]
  BY <1>1, <1>2 DEF Alike
<1>5. Alike(e, f)
  BY <1>3, <1>4 DEF Alike
<1> QED
  BY <1>5 DEF e, f

\* A trace more or less is none.
LEMMA TraceAlike ==
    ASSUME NEW c, NEW v
    PROVE  Alike(c, PutIfAbsent(c, Trace, v)) /\ Alike(PutIfAbsent(c, Trace, v), c)
<1> DEFINE e == PutIfAbsent(c, Trace, v)
<1>1. CASE Trace \in DOMAIN c
  BY <1>1 DEF PutIfAbsent, Alike
<1>2. CASE Trace \notin DOMAIN c
  <2>1. /\ DOMAIN e = DOMAIN c \union {Trace}
        /\ \A k \in DOMAIN c : k # Trace => e[k] = c[k]
    BY <1>2 DEF PutIfAbsent, Put
  <2> HIDE DEF e
  <2>2. Alike(c, e) /\ Alike(e, c)
    BY <2>1 DEF Alike
  <2> QED
    BY <2>2 DEF e
<1> QED
  BY <1>1, <1>2

LEMMA AlikeAlike ==
    ASSUME NEW c, NEW d, NEW e, Alike(c, d), Alike(d, e)
    PROVE  Alike(c, e)
BY DEF Alike

LEMMA AbsentAlike ==
    ASSUME NEW c, NEW d, NEW key, NEW v, Alike(c, d)
    PROVE  Alike(PutIfAbsent(c, key, v), PutIfAbsent(d, key, v))
<1>1. CASE key = Trace
  <2>1. /\ Alike(PutIfAbsent(c, key, v), c)
        /\ Alike(d, PutIfAbsent(d, key, v))
    BY <1>1, TraceAlike
  <2> QED
    BY <2>1, AlikeAlike
<1>2. CASE key # Trace
  <2>1. key \in DOMAIN c <=> key \in DOMAIN d
    BY <1>2 DEF Alike
  <2>2. CASE key \in DOMAIN c
    <3>1. PutIfAbsent(c, key, v) = c /\ PutIfAbsent(d, key, v) = d
      BY <2>1, <2>2 DEF PutIfAbsent
    <3> QED
      BY <3>1
  <2>3. CASE key \notin DOMAIN c
    <3>1. /\ PutIfAbsent(c, key, v) = Put(c, key, v)
          /\ PutIfAbsent(d, key, v) = Put(d, key, v)
      BY <2>1, <2>3 DEF PutIfAbsent
    <3> QED
      BY <3>1, PutAlike
  <2> QED
    BY <2>2, <2>3
<1> QED
  BY <1>1, <1>2

LEMMA DefaultAlike ==
    ASSUME NEW c, NEW d, NEW key, Alike(c, d)
    PROVE  Alike(Default(c, key), Default(d, key))
BY AbsentAlike DEF Default

LEMMA FromEnvAlike ==
    ASSUME NEW c, NEW d, NEW key, NEW var, Alike(c, d)
    PROVE  Alike(FromEnv(c, key, var), FromEnv(d, key, var))
<1>1. CASE var \in environ
  <2>1. /\ FromEnv(c, key, var) = PutIfAbsent(c, key, var)
        /\ FromEnv(d, key, var) = PutIfAbsent(d, key, var)
    BY <1>1 DEF FromEnv
  <2> QED
    BY <2>1, AbsentAlike
<1>2. CASE var \notin environ
  <2>1. FromEnv(c, key, var) = c /\ FromEnv(d, key, var) = d
    BY <1>2 DEF FromEnv
  <2> QED
    BY <2>1
<1> QED
  BY <1>1, <1>2

LEMMA WithoutAlike ==
    ASSUME NEW c, NEW d, NEW K, Alike(c, d)
    PROVE  Alike(Without(c, K), Without(d, K))
<1> DEFINE e == Without(c, K)
           f == Without(d, K)
<1>1. /\ DOMAIN e = DOMAIN c \ K
      /\ \A k \in DOMAIN c \ K : e[k] = c[k]
  BY DEF Without, Restrict
<1>2. /\ DOMAIN f = DOMAIN d \ K
      /\ \A k \in DOMAIN d \ K : f[k] = d[k]
  BY DEF Without, Restrict
<1> HIDE DEF e, f
<1>3. Alike(e, f)
  BY <1>1, <1>2 DEF Alike
<1> QED
  BY <1>3 DEF e, f

LEMMA AlikeWithout ==
    ASSUME NEW c, NEW d, Alike(c, d)
    PROVE  Without(c, {Trace}) = Without(d, {Trace})
BY DEF Alike, Without, Restrict

LEMMA CredentialsAlike ==
    ASSUME NEW c, NEW d, Alike(c, d)
    PROVE  Alike(credentials(c), credentials(d))
<1>1. "sasl.username" \in DOMAIN c <=> "sasl.username" \in DOMAIN d
  BY DEF Alike, Trace
<1>2. CASE /\ "sasl.username" \notin DOMAIN c
           /\ {"KAFKA_KEY", "KAFKA_SECRET"} \subseteq environ
  <2> DEFINE cu == Put(c, "sasl.username", "KAFKA_KEY")
             cp == Put(cu, "sasl.password", "KAFKA_SECRET")
             cs == Put(cp, "security.protocol", "default")
             du == Put(d, "sasl.username", "KAFKA_KEY")
             dp == Put(du, "sasl.password", "KAFKA_SECRET")
             ds == Put(dp, "security.protocol", "default")
  <2>1. /\ credentials(c) = Put(cs, "sasl.mechanism", "default")
        /\ credentials(d) = Put(ds, "sasl.mechanism", "default")
    BY <1>1, <1>2 DEF credentials
  <2>2. Alike(cu, du)
    BY PutAlike
  <2> HIDE DEF cu, du
  <2>3. Alike(cp, dp)
    BY <2>2, PutAlike
  <2> HIDE DEF cp, dp
  <2>4. Alike(cs, ds)
    BY <2>3, PutAlike
  <2> HIDE DEF cs, ds
  <2> QED
    BY <2>1, <2>4, PutAlike
<1>3. CASE ~ (/\ "sasl.username" \notin DOMAIN c
              /\ {"KAFKA_KEY", "KAFKA_SECRET"} \subseteq environ)
  <2>1. credentials(c) = c /\ credentials(d) = d
    BY <1>1, <1>3 DEF credentials
  <2> QED
    BY <2>1
<1> QED
  BY <1>2, <1>3

LEMMA CredsAlike ==
    ASSUME NEW c, NEW d, NEW b, Alike(c, d)
    PROVE  Alike(handle_creds(c, b), handle_creds(d, b))
<1> DEFINE own == IF b THEN "KAFKA_CONSUMER_BROKERS" ELSE "KAFKA_PRODUCER_BROKERS"
           c1 == FromEnv(c, "bootstrap.servers", own)
           d1 == FromEnv(d, "bootstrap.servers", own)
           c2 == FromEnv(c1, "bootstrap.servers", "KAFKA_BROKERS")
           d2 == FromEnv(d1, "bootstrap.servers", "KAFKA_BROKERS")
<1>1. handle_creds(c, b) = credentials(c2) /\ handle_creds(d, b) = credentials(d2)
  BY DEF handle_creds, brokers
<1> HIDE DEF own
<1>2. Alike(c1, d1)
  BY FromEnvAlike
<1> HIDE DEF c1, d1
<1>3. Alike(c2, d2)
  BY <1>2, FromEnvAlike
<1> HIDE DEF c2, d2
<1> QED
  BY <1>1, <1>3, CredentialsAlike

LEMMA KafkaConsumerAlike ==
    ASSUME NEW c, NEW d, Alike(c, d)
    PROVE  Alike(KafkaConsumerConfig(c), KafkaConsumerConfig(d))
<1> DEFINE ch == handle_creds(c, TRUE)
           dh == handle_creds(d, TRUE)
           cr == Default(ch, "auto.offset.reset")
           dr == Default(dh, "auto.offset.reset")
           ci == Default(cr, "auto.commit.interval.ms")
           di == Default(dr, "auto.commit.interval.ms")
           cg == FromEnv(ci, "group.id", "KAFKA_CONSUMER_GROUP")
           dg == FromEnv(di, "group.id", "KAFKA_CONSUMER_GROUP")
           cw == Without(cg, {"poll_interval"})
           dw == Without(dg, {"poll_interval"})
<1>1. /\ KafkaConsumerConfig(c) = Put(cw, "enable.auto.offset.store", "default")
      /\ KafkaConsumerConfig(d) = Put(dw, "enable.auto.offset.store", "default")
  BY DEF KafkaConsumerConfig
<1>2. Alike(ch, dh)
  BY CredsAlike
<1> HIDE DEF ch, dh
<1>3. Alike(cr, dr)
  BY <1>2, DefaultAlike
<1> HIDE DEF cr, dr
<1>4. Alike(ci, di)
  BY <1>3, DefaultAlike
<1> HIDE DEF ci, di
<1>5. Alike(cg, dg)
  BY <1>4, FromEnvAlike
<1> HIDE DEF cg, dg
<1>6. Alike(cw, dw)
  BY <1>5, WithoutAlike
<1> HIDE DEF cw, dw
<1> QED
  BY <1>1, <1>6, PutAlike

LEMMA BatchConsumerAlike ==
    ASSUME NEW c, NEW d, Alike(c, d)
    PROVE  Alike(BatchConsumerConfig(c), BatchConsumerConfig(d))
<1> DEFINE own == {"batch_size", "batch_time_seconds"}
<1>1. Alike(Without(c, own), Without(d, own))
  BY WithoutAlike
<1> QED
  BY <1>1, KafkaConsumerAlike DEF BatchConsumerConfig

LEMMA KafkaProducerAlike ==
    ASSUME NEW c, NEW d, Alike(c, d)
    PROVE  Alike(KafkaProducerConfig(c), KafkaProducerConfig(d))
<1>1. Alike(handle_creds(c, FALSE), handle_creds(d, FALSE))
  BY CredsAlike
<1> QED
  BY <1>1, DefaultAlike DEF KafkaProducerConfig

LEMMA RSMQConsumerAlike ==
    ASSUME NEW c, NEW d, Alike(c, d)
    PROVE  Alike(RSMQConsumerConfig(c), RSMQConsumerConfig(d))
<1> DEFINE ch == FromEnv(c, "host", "REDIS_HOST")
           dh == FromEnv(d, "host", "REDIS_HOST")
           co == Default(ch, "options")
           do == Default(dh, "options")
           ct == Default(co, "options.decode_responses")
           dt == Default(do, "options.decode_responses")
<1>1. /\ RSMQConsumerConfig(c) = Default(ct, "vt")
      /\ RSMQConsumerConfig(d) = Default(dt, "vt")
  BY DEF RSMQConsumerConfig
<1>2. Alike(ch, dh)
  BY FromEnvAlike
<1> HIDE DEF ch, dh
<1>3. Alike(co, do)
  BY <1>2, DefaultAlike
<1> HIDE DEF co, do
<1>4. Alike(ct, dt)
  BY <1>3, DefaultAlike
<1> HIDE DEF ct, dt
<1> QED
  BY <1>1, <1>4, DefaultAlike

LEMMA RSMQProducerAlike ==
    ASSUME NEW c, NEW d, Alike(c, d)
    PROVE  Alike(RSMQProducerConfig(c), RSMQProducerConfig(d))
<1>1. Alike(FromEnv(c, "host", "REDIS_HOST"), FromEnv(d, "host", "REDIS_HOST"))
  BY FromEnvAlike
<1> QED
  BY <1>1, DefaultAlike DEF RSMQProducerConfig

LEMMA ZMQAlike ==
    ASSUME NEW c, NEW d, Alike(c, d)
    PROVE  Alike(ZMQConfig(c), ZMQConfig(d))
<1>1. Alike(FromEnv(c, "host", "ZMQ_HOST"), FromEnv(d, "host", "ZMQ_HOST"))
  BY FromEnvAlike
<1> QED
  BY <1>1, FromEnvAlike DEF ZMQConfig

LEMMA ConnectorAlike ==
    ASSUME NEW c, NEW d, NEW t \in Consumers \union Producers, Alike(c, d)
    PROVE  Alike(connector(t, c), connector(t, d))
<1>1. CASE t = "ConfluentKafkaConsumer"
  BY <1>1, KafkaConsumerAlike DEF connector
<1>2. CASE t = "BatchJsonConfluentConsumer"
  BY <1>2, BatchConsumerAlike DEF connector
<1>3. CASE t = "ConfluentKafkaProducer"
  BY <1>3, KafkaProducerAlike DEF connector
<1>4. CASE t = "RSMQConsumer"
  BY <1>4, RSMQConsumerAlike DEF connector
<1>5. CASE t = "RSMQProducer"
  BY <1>5, RSMQProducerAlike DEF connector
<1>6. CASE t \in {"ZMQConsumer", "ZMQProducer"}
  BY <1>6, ZMQAlike DEF connector
<1> QED
  BY <1>1, <1>2, <1>3, <1>4, <1>5, <1>6 DEF Consumers, Producers

-----------------------------------------------------------------------------
(* What Queue.connect hands to them *)

\* The configuration of a queue, as the program wrote it.
Written(q) == [k \in wiring[q].config |-> "caller"]

\* The dictionary of a queue is as the program wrote it, but for the trace, and every
\* connector was made of one of the two.
ConnectorsInv ==
    /\ wiring \in [QueueNames -> Wirings]
    /\ DOMAIN passed = QueueNames
    /\ \A q \in QueueNames : passed[q] \in {Written(q), Default(Written(q), Trace)}
    /\ DOMAIN connectors = Apps
    /\ \A a \in Apps :
           /\ connectors[a] \in Seq(Range(connectors[a]))
           /\ \A x \in Range(connectors[a]) :
                  /\ x.queue \in QueueNames
                  /\ x.class \in Consumers \union Producers
                  /\ \E p \in {Written(x.queue), Default(Written(x.queue), Trace)} :
                         x.config = connector(x.class, p)

\* The environment is read, never written.
LEMMA EnvironmentFixed ==
    ASSUME environ' = environ, NEW t, NEW c
    PROVE  connector(t, c)' = connector(t, c)
BY DEF connector, KafkaConsumerConfig, BatchConsumerConfig, KafkaProducerConfig,
       RSMQConsumerConfig, RSMQProducerConfig, ZMQConfig, handle_creds, brokers,
       credentials, FromEnv

LEMMA DefaultTwice ==
    ASSUME NEW c
    PROVE  Default(Default(c, Trace), Trace) = Default(c, Trace)
<1> DEFINE d == Default(c, Trace)
<1>1. Trace \in DOMAIN d
  BY DEF Default, PutIfAbsent, Put
<1> HIDE DEF d
<1>2. Default(d, Trace) = d
  BY <1>1 DEF Default, PutIfAbsent
<1> QED
  BY <1>2 DEF d

LEMMA TurnType ==
    ASSUME TypeOK, NEW a \in Apps, HasConnector(a)
    PROVE  turn(a) \in QueueNames
<1>1. CASE connectors[a] = << >>
  BY <1>1, ConfigurationAssumption DEF turn
<1>2. CASE connectors[a] # << >>
  <2>1. turn(a) \in DOMAIN queueMap[a]
    BY <1>2 DEF HasConnector
  <2>2. queueMap[a] \in QueueMaps
    BY DEF TypeOK
  <2> QED
    BY <2>1, <2>2 DEF QueueMaps
<1> QED
  BY <1>1, <1>2

LEMMA ConnectorsStep ==
    ASSUME TypeOK, ConnectorsInv, [StartupNext]_<<vars, startupVars>>
    PROVE  ConnectorsInv' /\ environ' = environ
<1>1. CASE UNCHANGED startupVars
  <2>1. environ' = environ /\ wiring' = wiring /\ passed' = passed
            /\ connectors' = connectors
    BY <1>1 DEF startupVars
  <2>2. \A q : Written(q)' = Written(q)
    BY <2>1 DEF Written
  <2>3. \A t, c : connector(t, c)' = connector(t, c)
    BY <2>1, EnvironmentFixed
  <2>4. \A c : Default(c, Trace)' = Default(c, Trace)
    BY DEF Default, PutIfAbsent, Put
  <2> QED
    BY <2>1, <2>2, <2>3, <2>4 DEF ConnectorsInv
<1>2. ASSUME NEW a \in Apps, ConnectQueue(a)
      PROVE  ConnectorsInv' /\ environ' = environ
  <2> DEFINE t == turn(a)
             c == class(a)
             p == passed[t]
             x == [queue |-> t, class |-> c, config |-> connector(c, p)]
  <2>1. /\ environ' = environ /\ wiring' = wiring
        /\ connectors' = [connectors EXCEPT ![a] = Append(@, x)]
    BY <1>2 DEF ConnectQueue
  <2>2. t \in QueueNames
    BY <1>2, TurnType DEF ConnectQueue
  <2>3. c \in Consumers \union Producers
    <3>1. wiring[t] \in Wirings
      BY <2>2 DEF ConnectorsInv
    <3> QED
      BY <3>1, WiringsAssumption DEF class
  <2>4. p \in {Written(t), Default(Written(t), Trace)}
    BY <2>2 DEF ConnectorsInv
  <2>5. \/ passed' = [passed EXCEPT ![t] = Default(p, Trace)]
        \/ passed' = [passed EXCEPT ![t] = p]
    BY <1>2 DEF ConnectQueue, Pass, Trace
  <2>6. \A q : Written(q)' = Written(q)
    BY <2>1 DEF Written
  <2>7. \A s, d : connector(s, d)' = connector(s, d)
    BY <2>1, EnvironmentFixed
  <2>8. x.queue = t /\ x.class = c /\ x.config = connector(c, p)
    OBVIOUS
  <2> HIDE DEF t, c, p, x
  <2>9. DOMAIN passed' = QueueNames
    BY <2>5 DEF ConnectorsInv
  <2>10. ASSUME NEW q \in QueueNames
         PROVE  passed'[q] \in {Written(q), Default(Written(q), Trace)}
    <3>1. CASE q = t
      <4>1. passed'[q] = Default(p, Trace) \/ passed'[q] = p
        BY <2>5, <3>1 DEF ConnectorsInv
      <4> QED
        BY <2>4, <3>1, <4>1, DefaultTwice
    <3>2. CASE q # t
      <4>1. passed'[q] = passed[q]
        BY <2>5, <3>2 DEF ConnectorsInv
      <4> QED
        BY <4>1 DEF ConnectorsInv
    <3> QED
      BY <3>1, <3>2
  <2>11. DOMAIN connectors' = Apps
    BY <2>1 DEF ConnectorsInv
  <2>12. ASSUME NEW b \in Apps
         PROVE  /\ connectors'[b] \in Seq(Range(connectors'[b]))
                /\ \A y \in Range(connectors'[b]) : y \in Range(connectors[b]) \/ y = x
    <3>1. CASE b = a
      <4>1. connectors'[a] = Append(connectors[a], x)
        BY <2>1 DEF ConnectorsInv
      <4>2. connectors[a] \in Seq(Range(connectors[a]))
        BY DEF ConnectorsInv
      <4> DEFINE s == connectors[a]
                 T == Range(s) \union {x}
      <4>3. s \in Seq(T)
        BY <4>2
      <4>4. /\ DOMAIN Append(s, x) = 1..(Len(s) + 1)
            /\ \A i \in 1..Len(s) : Append(s, x)[i] = s[i]
            /\ Append(s, x)[Len(s) + 1] = x
            /\ Append(s, x) \in Seq(T)
            /\ Len(s) \in Nat /\ DOMAIN s = 1..Len(s)
        BY <4>3, AppendProperties
      <4>5. Range(Append(s, x)) = T
        BY <4>4 DEF Range
      <4> HIDE DEF T, s
      <4>6. connectors'[b] = Append(s, x) /\ s = connectors[b]
        BY <3>1, <4>1 DEF s
      <4> QED
        BY <4>4, <4>5, <4>6 DEF T
    <3>2. CASE b # a
      <4>1. connectors'[b] = connectors[b]
        BY <2>1, <3>2 DEF ConnectorsInv
      <4> QED
        BY <4>1 DEF ConnectorsInv
    <3> QED
      BY <3>1, <3>2
  <2>13. ASSUME NEW b \in Apps, NEW y \in Range(connectors'[b])
         PROVE  /\ y.queue \in QueueNames
                /\ y.class \in Consumers \union Producers
                /\ \E d \in {Written(y.queue), Default(Written(y.queue), Trace)} :
                       y.config = connector(y.class, d)
    <3>1. CASE y = x
      BY <2>2, <2>3, <2>4, <2>8, <3>1
    <3>2. CASE y \in Range(connectors[b])
      BY <3>2 DEF ConnectorsInv
    <3> QED
      BY <2>12, <3>1, <3>2
  <2>14. \A d : Default(d, Trace)' = Default(d, Trace)
    BY DEF Default, PutIfAbsent, Put
  <2> QED
    BY <2>1, <2>6, <2>7, <2>9, <2>10, <2>11, <2>12, <2>13, <2>14 DEF ConnectorsInv
<1>3. UNCHANGED startupVars \/ \E a \in Apps : ConnectQueue(a)
  BY DEF StartupNext, ConnectorMissing, ConnectorRefuses
<1> QED
  BY <1>1, <1>2, <1>3 DEF startupVars

LEMMA ConnectorsInit == StartupInit => ConnectorsInv
<1> SUFFICES ASSUME StartupInit PROVE ConnectorsInv
  OBVIOUS
<1>1. \A a \in Apps : connectors[a] = << >> /\ Range(connectors[a]) = {}
  BY DEF StartupInit, Range
<1>2. \A q \in QueueNames : passed[q] = Written(q)
  BY DEF StartupInit, Written
<1> QED
  BY <1>1, <1>2 DEF StartupInit, ConnectorsInv

LEMMA ConnectorsAlways == StartupSpec => []ConnectorsInv
<1>1. StartupSpec => []TypeOK
  BY StartupImplementsConfiguration, TypeCorrect, PTL
<1>2. TypeOK /\ ConnectorsInv /\ [StartupNext]_<<vars, startupVars>> => ConnectorsInv'
  BY ConnectorsStep
<1> QED
  BY <1>1, <1>2, ConnectorsInit, PTL DEF StartupSpec

\* What the program configured is what its connectors work with, but for the storing
\* of offsets and the credentials of a configuration without a user name: for any
\* environment, and however many Engines share the dictionary.
THEOREM CallersWin == StartupSpec => []ConfiguredWins
<1>1. ConnectorsInv => ConfiguredWins
  <2> SUFFICES ASSUME ConnectorsInv, NEW a \in Apps, NEW x \in Range(connectors[a]),
                      NEW k \in wiring[x.queue].config \intersect DOMAIN x.config
               PROVE  \/ x.config[k] = "caller"
                      \/ k = "enable.auto.offset.store"
                      \/ k \in Credentials /\ "sasl.username" \notin wiring[x.queue].config
    BY DEF ConfiguredWins, Connected, Credentials
  <2> DEFINE w == Written(x.queue)
  <2>1. DOMAIN w = wiring[x.queue].config /\ \A i \in DOMAIN w : w[i] = "caller"
    BY DEF Written
  <2>2. PICK p \in {w, Default(w, Trace)} : x.config = connector(x.class, p)
    BY DEF ConnectorsInv
  <2>3. x.class \in Consumers \union Producers
    BY DEF ConnectorsInv
  <2> HIDE DEF w
  <2>4. DOMAIN w \subseteq DOMAIN p /\ \A i \in DOMAIN w : p[i] = w[i]
    BY DEF Default, PutIfAbsent, Put
  <2>5. Wins(p, x.config)
    BY <2>2, <2>3, ConnectorWins
  <2>6. k \in DOMAIN p \intersect DOMAIN x.config /\ p[k] = "caller"
    BY <2>1, <2>4
  <2>7. x.config[k] = p[k] \/ k = "enable.auto.offset.store" \/ Licensed(p, k)
    BY <2>5, <2>6 DEF Wins
  <2> QED
    BY <2>1, <2>4, <2>6, <2>7 DEF Licensed
<1> QED
  BY <1>1, ConnectorsAlways, PTL

\* Engines that share a dictionary do not show in each other's connectors, but for
\* the trace: whatever the order in which they connect.
THEOREM EnginesDoNotShow == StartupSpec => []ConnectedAlike
<1>1. ConnectorsInv => ConnectedAlike
  <2> SUFFICES ASSUME ConnectorsInv, NEW a \in Apps, NEW x \in Range(connectors[a])
               PROVE  Without(x.config, {Trace})
                          = Without(connector(x.class, Written(x.queue)), {Trace})
    BY DEF ConnectedAlike, Connected, Trace, Written
  <2> DEFINE w == Written(x.queue)
  <2>1. PICK p \in {w, Default(w, Trace)} : x.config = connector(x.class, p)
    BY DEF ConnectorsInv
  <2>2. x.class \in Consumers \union Producers
    BY DEF ConnectorsInv
  <2> HIDE DEF w
  <2>3. Alike(w, w)
    BY DEF Alike
  <2>4. Alike(p, w)
    BY <2>1, <2>3, TraceAlike DEF Default
  <2>5. Alike(x.config, connector(x.class, w))
    BY <2>1, <2>2, <2>4, ConnectorAlike
  <2>6. Without(x.config, {Trace}) = Without(connector(x.class, w), {Trace})
    BY <2>5, AlikeWithout
  <2> QED
    BY <2>6 DEF w
<1> QED
  BY <1>1, ConnectorsAlways, PTL
=============================================================================
