-------------------------- MODULE OffsetStoreProofs --------------------------
(***************************************************************************)
(* Proofs about OffsetStore.  Types, and that no message is skipped, hold  *)
(* for any number of threads.  The high-water mark is proved for calls     *)
(* that come from the main thread alone: with a poll thread among the      *)
(* callers it is false.                                                    *)
(***************************************************************************)
EXTENDS OffsetStore, ConfluentConsumerProofs

MainOnly == AsyncQueues = {}

-----------------------------------------------------------------------------
(* Types *)

\* The steps of the group, and the one the consumer raises because of them.
GroupStep ==
    \/ \E p \in Partitions : Revoke(p) \/ Lose(p) \/ Assign(p)
    \/ \E p \in Partitions, n \in 1..(MaxOffset + 1) : RivalCommits(p, n)

RaiseStep ==
    \E t \in Threads : StoreUnassigned(t) /\ UNCHANGED <<groupVars, done>>

\* The steps that touch only the consumer and what is noted of its calls.
OwnStep ==
    \/ \E m \in Messages : Poll(m)
    \/ \E t \in Threads, m \in Messages : Succeed(t, m) \/ Fail(t, m)
    \/ \E t \in Threads : Step(t)
    \/ \E t \in Threads : /\ StoreRaises(t) \/ CloseOnFail(t) \/ KillOnFail(t)
                          /\ UNCHANGED <<groupVars, done>>
    \/ Commit
    \/ Shutdown
    \/ UNCHANGED vars

LEMMA Cases ==
    ASSUME [Next]_vars
    PROVE  GroupStep \/ RaiseStep \/ OwnStep
BY DEF Next, GroupStep, RaiseStep, OwnStep, OtherStep

\* A thread that is not idle runs a call about a message.
LEMMA RunningCall ==
    ASSUME ConsumerTypeOK, NEW t \in Threads, call[t] # Idle
    PROVE  call[t] \in Frames /\ call[t].msg \in Messages
BY DEF ConsumerTypeOK, Frames

LEMMA GroupTypes ==
    ASSUME TypeOK, GroupStep
    PROVE  TypeOK'
<1>1. ASSUME NEW p \in Partitions, EndTenure(p),
             committed' \in [Partitions -> 0..(MaxOffset + 1)]
      PROVE  TypeOK'
  <2>1. InCall(p) \subseteq Messages
    BY RunningCall DEF InCall, TypeOK
  <2>2. done' \subseteq Messages /\ before' \subseteq Messages
    BY <1>1, <2>1 DEF EndTenure, TypeOK
  <2>3. stored' \in [Partitions -> 0..(MaxOffset + 1)]
    BY <1>1, TopologyAssumption DEF EndTenure, TypeOK, ConsumerTypeOK
  <2>4. rebalances' \in 0..MaxRebalances
    BY <1>1, MaxRebalancesAssumption DEF EndTenure, TypeOK
  <2> QED
    BY <1>1, <2>2, <2>3, <2>4 DEF EndTenure, TypeOK, ConsumerTypeOK
<1>2. ASSUME NEW p \in Partitions, Revoke(p) \/ Lose(p) PROVE TypeOK'
  <2>1. committed' \in [Partitions -> 0..(MaxOffset + 1)]
    BY <1>2 DEF Revoke, Lose, Final, TypeOK, ConsumerTypeOK
  <2> QED
    BY <1>1, <1>2, <2>1 DEF Revoke, Lose
<1>3. ASSUME NEW p \in Partitions, Assign(p) PROVE TypeOK'
  BY <1>3 DEF Assign, TypeOK, ConsumerTypeOK
<1>4. ASSUME NEW p \in Partitions, NEW n \in 1..(MaxOffset + 1),
             RivalCommits(p, n)
      PROVE  TypeOK'
  BY <1>4, TopologyAssumption DEF RivalCommits, TypeOK, ConsumerTypeOK
<1> QED
  BY <1>2, <1>3, <1>4 DEF GroupStep

LEMMA OwnTypes ==
    ASSUME TypeOK, OwnStep
    PROVE  TypeOK'
<1>1. ConsumerTypeOK'
  <2>1. ConsumerStep
    BY DEF OwnStep, Poll, Succeed, Fail, Step, Commit, Shutdown, vars,
           ConsumerStep
  <2> QED
    BY <2>1, ConsumerTypes DEF TypeOK
<1>2. ASSUME NEW t \in Threads, Step(t) PROVE TypeOK'
  <2>1. call[t].msg \in Messages
    BY <1>2, BusyFrame DEF Step, Lookup, Record, StoreOffsets, Storing, TypeOK
  <2> QED
    BY <1>1, <1>2, <2>1 DEF Step, groupVars, TypeOK
<1> QED
  BY <1>1, <1>2
  DEF OwnStep, Poll, Succeed, Fail, Commit, Shutdown, groupVars, vars, TypeOK

LEMMA TypeStep ==
    ASSUME TypeOK, [Next]_vars
    PROVE  TypeOK'
<1>1. CASE RaiseStep
  BY <1>1, ReturnFrame
  DEF RaiseStep, StoreUnassigned, groupVars, TypeOK, ConsumerTypeOK
<1> QED
  BY <1>1, Cases, GroupTypes, OwnTypes

\* OffsetStore is type correct, for any partitions, offsets and threads.
THEOREM TypeCorrect == Spec => []TypeOK
<1>1. Init => TypeOK
  BY TopologyAssumption, MaxRebalancesAssumption
  DEF Init, ConsumerInit, TypeOK, ConsumerTypeOK, NoOffset
<1> QED
  BY <1>1, TypeStep, PTL DEF Spec

-----------------------------------------------------------------------------
(* No message is skipped, for any number of threads *)

\* Some worker was handed m, as far as it shows here.
Handed(m) == m \in polled \/ offset(m) < rival[partition(m)]

\* What lies before an offset that is polled, stored or committed next, or
\* before a message this consumer was handed.
Behind(m) ==
    LET p == partition(m)
    IN  \/ offset(m) < position[p]
        \/ offset(m) < stored[p]
        \/ offset(m) < committed[p]
        \/ \E k \in polled : partition(k) = p /\ offset(m) <= offset(k)

NoGap ==
    /\ \A m \in Messages : Behind(m) => Handed(m)
    /\ \A t \in Threads : call[t] # Idle => call[t].msg \in polled

\* Calls are made for messages that were polled, and polled only grows.
LEMMA CallsPolled ==
    ASSUME TypeOK, NoGap, [Next]_vars
    PROVE  /\ \A t \in Threads : call'[t] # Idle => call'[t].msg \in polled'
           /\ polled \subseteq polled'
<1>1. ASSUME NEW t \in Threads, call'[t] # Idle PROVE call'[t].msg \in polled'
  <2>1. CASE call' = call
    BY <1>1, <2>1
    DEF Next, NoGap, Poll, Succeed, Fail, Step, OtherStep, Commit, Shutdown,
        groupVars, vars, Revoke, Lose, EndTenure, Assign, RivalCommits
  <2>2. ASSUME NEW u \in Threads, NEW m \in Messages, Succeed(u, m) \/ Fail(u, m)
        PROVE  call'[t].msg \in polled'
    BY <1>1, <2>2
    DEF Succeed, Fail, on_success, on_fail, groupVars, NoGap, TypeOK,
        ConsumerTypeOK
  <2>3. ASSUME NEW u \in Threads, Step(u) \/ OtherStep(u)
        PROVE  call'[t].msg \in polled'
    <3>1. polled' = polled
      BY <2>3 DEF Step, OtherStep, groupVars
    <3>2. call[u] # Idle /\ (Return(u) \/ \E site \in Sites : Goto(u, site))
      BY <2>3
      DEF Step, OtherStep, Lookup, Record, StoreOffsets, StoreUnassigned,
          StoreRaises, Storing, CloseOnFail, KillOnFail, Idle, Sites
    <3>3. CASE Return(u)
      BY <1>1, <3>1, <3>3, ReturnFrame DEF NoGap, TypeOK
    <3>4. ASSUME NEW site \in Sites, Goto(u, site)
          PROVE  call'[t].msg \in polled'
      <4>1. call[u].at # "idle"
        BY <3>2, RunningCall DEF TypeOK, Frames, Sites
      <4>2. call'[u] = [at |-> site, msg |-> call[u].msg]
        BY <3>4, <4>1, MoveFrame DEF TypeOK
      <4>3. \A v \in Threads \ {u} : call'[v] = call[v]
        BY <3>4, <4>1, MoveFrame DEF TypeOK
      <4>4. call'[u].msg = call[u].msg
        BY <4>2
      <4> QED
        BY <1>1, <3>1, <3>2, <4>3, <4>4 DEF NoGap
    <3> QED
      BY <3>2, <3>3, <3>4
  <2> QED
    BY <2>1, <2>2, <2>3
    DEF Next, Poll, PollMessage, Commit, AutoCommit, Shutdown, Revoke, Lose,
        EndTenure, Assign, RivalCommits, vars, consumerVars
<1>2. polled \subseteq polled'
  BY DEF Next, Poll, Succeed, Fail, Step, OtherStep, Commit, Shutdown, groupVars,
         vars, Revoke, Lose, EndTenure, Assign, RivalCommits
<1> QED
  BY <1>1, <1>2

\* No step puts an unhanded message behind what is polled, stored or committed.
LEMMA HandedStep ==
    ASSUME TypeOK, NoGap, [Next]_vars, NEW m \in Messages, Behind(m)'
    PROVE  Handed(m)'
<1> DEFINE p == partition(m)
<1>0. /\ p \in Partitions /\ offset(m) \in Nat /\ m = <<p, offset(m)>>
      /\ \A k \in Messages : offset(k) \in Nat
      /\ \A k \in Messages : k = <<partition(k), offset(k)>>
  BY MessageParts
<1>1. /\ position \in [Partitions -> Nat] /\ stored \in [Partitions -> Nat]
      /\ committed \in [Partitions -> Nat] /\ rival \in [Partitions -> Nat]
      /\ polled \subseteq Messages
  BY TopologyAssumption DEF TypeOK, ConsumerTypeOK
<1>2. rival'[p] >= rival[p]
  <2>1. ASSUME NEW q \in Partitions, NEW n \in 1..(MaxOffset + 1),
               RivalCommits(q, n)
        PROVE  rival'[p] >= rival[p]
    BY <1>0, <1>1, <2>1, TopologyAssumption DEF RivalCommits
  <2>2. CASE rival' = rival
    BY <1>0, <1>1, <2>2
  <2> QED
    BY <2>1, <2>2
    DEF Next, Poll, Succeed, Fail, Step, OtherStep, Commit, Shutdown, groupVars,
        vars, Revoke, Lose, EndTenure, Assign
<1>3. Handed(m) => Handed(m)'
  BY <1>0, <1>1, <1>2, CallsPolled, TypeStep DEF Handed, TypeOK
<1>4. CASE Behind(m)
  BY <1>3, <1>4 DEF NoGap
<1>5. ASSUME NEW k \in Messages, Poll(k), ~Behind(m) PROVE Handed(m)'
  <2>1. /\ position' = [position EXCEPT ![partition(k)] = offset(k) + 1]
        /\ offset(k) = position[partition(k)]
        /\ polled' = polled \union {k}
        /\ UNCHANGED <<stored, committed, rival>>
    BY <1>5 DEF Poll, PollMessage
  <2>2. p = partition(k) /\ offset(m) <= offset(k)
    BY <1>0, <1>1, <1>5, <2>1 DEF Behind
  <2>3. offset(m) = offset(k)
    BY <1>0, <1>1, <1>5, <2>1, <2>2 DEF Behind
  <2> QED
    BY <1>0, <2>1, <2>2, <2>3 DEF Handed
<1>6. ASSUME NEW t \in Threads, Step(t), ~Behind(m) PROVE Handed(m)'
  <2>1. UNCHANGED <<position, committed, polled, rival>>
    BY <1>6 DEF Step, Lookup, Record, StoreOffsets, groupVars
  <2>2. stored'[p] # stored[p]
    BY <1>6, <2>1 DEF Behind
  <2>3. StoreOffsets(t) /\ call[t].at # "idle"
    BY <1>6, <2>2 DEF Step, Lookup, Record, StoreOffsets, Storing
  <2>4. call[t].msg \in polled
    BY <2>3 DEF NoGap, Idle
  <2>5. /\ partition(call[t].msg) = p
        /\ stored'[p] = offset(call[t].msg) + 1
    BY <1>0, <1>1, <2>2, <2>3, <2>4 DEF StoreOffsets
  <2>6. offset(m) < stored'[p]
    BY <1>6, <2>1 DEF Behind
  <2> QED
    BY <1>0, <1>1, <1>6, <2>4, <2>5, <2>6 DEF Behind
<1>7. ASSUME NEW q \in Partitions, NEW n \in 1..(MaxOffset + 1),
             RivalCommits(q, n), ~Behind(m)
      PROVE  Handed(m)'
  <2>1. UNCHANGED <<position, stored, polled>>
    BY <1>7 DEF RivalCommits
  <2>2. q = p /\ offset(m) < n
    BY <1>0, <1>1, <1>7, <2>1 DEF RivalCommits, Behind
  <2>3. rival'[p] >= n
    BY <1>0, <1>1, <1>7, <2>2 DEF RivalCommits
  <2> QED
    BY <1>0, <1>1, <2>2, <2>3, TypeStep DEF Handed, TypeOK
<1>8. ASSUME NEW q \in Partitions, Revoke(q) \/ Lose(q) \/ Assign(q), ~Behind(m)
      PROVE  Handed(m)'
  BY <1>0, <1>1, <1>8
  DEF Revoke, Lose, EndTenure, Assign, Final, Behind
<1>9. ASSUME Commit \/ Shutdown, ~Behind(m) PROVE Handed(m)'
  BY <1>0, <1>1, <1>9
  DEF Commit, AutoCommit, Shutdown, Close, Final, groupVars, Behind
<1>10. ASSUME NEW t \in Threads, OtherStep(t), ~Behind(m) PROVE Handed(m)'
  BY <1>0, <1>1, <1>10
  DEF OtherStep, StoreUnassigned, StoreRaises, CloseOnFail, KillOnFail, Close,
      Final, groupVars, Behind
<1>11. ASSUME NEW t \in Threads, NEW k \in Messages,
              Succeed(t, k) \/ Fail(t, k) \/ UNCHANGED vars, ~Behind(m)
       PROVE  Handed(m)'
  BY <1>11
  DEF Succeed, on_success, Fail, on_fail, groupVars, vars, consumerVars, Behind
<1>12. ASSUME UNCHANGED vars PROVE Handed(m)'
  BY <1>4, <1>12 DEF vars, groupVars, consumerVars, Behind
<1> QED
  BY <1>4, <1>5, <1>6, <1>7, <1>8, <1>9, <1>10, <1>11, <1>12 DEF Next

\* However partitions come and go, and whatever is acknowledged late, the group
\* never moves past a message that no worker was handed; with any number of
\* threads calling on_success.
THEOREM NothingIsSkipped == Spec => []NothingSkipped
<1>1. Init => TypeOK /\ NoGap
  BY TopologyAssumption, MaxRebalancesAssumption, MessageParts
  DEF Init, ConsumerInit, TypeOK, ConsumerTypeOK, NoOffset, NoGap, Behind,
      Handed
<1>2. TypeOK /\ NoGap /\ [Next]_vars => (TypeOK /\ NoGap)'
  BY TypeStep, CallsPolled, HandedStep DEF NoGap
<1>3. NoGap => NothingSkipped
  BY DEF NoGap, Behind, Handed, NothingSkipped
<1> QED
  BY <1>1, <1>2, <1>3, PTL DEF Spec

-----------------------------------------------------------------------------
(* The high-water mark, for one thread *)

\* The main thread's call is at site, for a message of partition p.
MainAt(site, p) == call[Main].at = site /\ partition(call[Main].msg) = p

\* last_offset of p was set by an acknowledgement of an earlier tenure.
Inherited(p) ==
    \E x \in before : partition(x) = p /\ offset(x) = lastOffset[p]

\* What last_offset says of partition p is what librdkafka stored, except
\* between the two writes of on_success and until something new is stored in a
\* tenure; and both are the highest offset done.
Coherent(p) ==
    /\ MainAt("seed", p) => lastOffset[p] = NoOffset
    /\ MainAt("seeded", p) => /\ lastOffset[p] = offset(call[Main].msg)
                              /\ stored[p] = 0
    /\ MainAt("store", p) => lastOffset[p] < offset(call[Main].msg)
    /\ MainAt("record", p)
           => /\ lastOffset[p] < offset(call[Main].msg)
              /\ \/ stored[p] = offset(call[Main].msg) + 1
                 \/ stored[p] = 0 /\ call[Main].msg \in before
    /\ ~MainAt("seeded", p) /\ ~MainAt("record", p)
           => \/ stored[p] = lastOffset[p] + 1
              \/ stored[p] = 0 /\ Inherited(p)
    /\ ~assigned[p] /\ (\E site \in {"lookup", "seed", "seeded"} : MainAt(site, p))
           => call[Main].msg \in before
    /\ \A m \in done : partition(m) = p => offset(m) <= lastOffset[p]
    /\ stored[p] # 0 /\ ~MainAt("record", p) => <<p, stored[p] - 1>> \in done

IInv == open => \A p \in Partitions : Coherent(p)

\* Inside a call the frame is one of the main thread, about a real message.
LEMMA MainFrame ==
    ASSUME MainOnly, TypeOK, NEW t \in Threads, call[t].at # "idle"
    PROVE  t = Main /\ call[t] \in Frames /\ call[t].msg \in Messages
BY DEF MainOnly, Threads, TypeOK, ConsumerTypeOK, Idle, Frames

\* When a tenure ends, what was stored in it becomes what is inherited.
LEMMA EndTenureCoherent ==
    ASSUME MainOnly, TypeOK, IInv, NEW q \in Partitions, EndTenure(q),
           NEW p \in Partitions
    PROVE  Coherent(p)'
<1>0. /\ Coherent(p) /\ UNCHANGED <<lastOffset, call>> /\ before \subseteq before'
      /\ \A m \in done' : m \in done
  BY DEF EndTenure, IInv
<1>1. CASE p # q
  <2>1. stored'[p] = stored[p] /\ assigned'[p] = assigned[p]
    BY <1>1 DEF EndTenure, TypeOK, ConsumerTypeOK
  <2>2. \A m \in done : partition(m) = p => m \in done'
    BY <1>1 DEF EndTenure, InPartition
  <2>3. partition(<<p, stored[p] - 1>>) = p
    BY DEF partition
  <2> QED
    BY <1>0, <2>1, <2>2, <2>3 DEF Coherent, MainAt, Inherited
<1>2. CASE p = q
  <2>1. stored'[p] = 0 /\ ~assigned'[p]
    BY <1>2 DEF EndTenure, TypeOK, ConsumerTypeOK
  <2>2. \A m \in done' : partition(m) # p
    BY <1>2 DEF EndTenure, InPartition, TypeOK
  <2>3. ASSUME call[Main].at # "idle", partition(call[Main].msg) = p
        PROVE  call[Main].msg \in before'
    BY <1>2, <2>3 DEF EndTenure, InCall, Threads, Idle
  <2>4. ASSUME ~MainAt("seeded", p), ~MainAt("record", p)
        PROVE  stored'[p] = lastOffset[p] + 1 \/ Inherited(p)'
    <3>1. CASE stored[p] = 0
      BY <1>0, <2>1, <2>4, <3>1 DEF Coherent, Inherited
    <3>2. CASE stored[p] # 0 /\ stored[p] = lastOffset[p] + 1
      <4>1. <<p, stored[p] - 1>> \in done
        BY <1>0, <2>4, <3>2 DEF Coherent
      <4>2. lastOffset[p] \in Int
        BY DEF TypeOK, ConsumerTypeOK, Offsets, NoOffset
      <4>3. <<p, lastOffset[p]>> \in done
        BY <3>2, <4>1, <4>2
      <4>4. <<p, lastOffset[p]>> \in before'
        BY <1>2, <4>3 DEF EndTenure, InPartition, partition, TypeOK
      <4> QED
        BY <1>0, <4>4 DEF Inherited, partition, offset
    <3> QED
      BY <1>0, <2>4, <3>1, <3>2 DEF Coherent
  <2> QED
    BY <1>0, <2>1, <2>2, <2>3, <2>4 DEF Coherent, MainAt
<1> QED
  BY <1>1, <1>2

\* One case per action that the coherence of last_offset and stored depends on.
LEMMA CoherentStep ==
    ASSUME MainOnly, TypeOK, IInv, [Next]_vars
    PROVE  IInv'
<1> SUFFICES ASSUME open', NEW p \in Partitions PROVE Coherent(p)'
  BY DEF IInv
<1> USE DEF Inherited
<1>0. Main \in Threads /\ \A t \in Threads : t = Main
  BY DEF MainOnly, Threads
<1>1. ASSUME NEW m \in Messages, Poll(m) PROVE Coherent(p)'
  BY <1>1 DEF Poll, PollMessage, IInv, Coherent, MainAt
<1>2. ASSUME NEW m \in Messages, Succeed(Main, m) PROVE Coherent(p)'
  <2>1. call[Main].at = "idle" /\ call'[Main] = [at |-> "lookup", msg |-> m]
    BY <1>0, <1>2 DEF Succeed, on_success, Idle, TypeOK, ConsumerTypeOK
  <2>2. /\ call'[Main].at = "lookup" /\ call'[Main].msg = m
        /\ UNCHANGED <<open, assigned, stored, lastOffset, done>>
    <3>1. call'[Main].at = "lookup" /\ call'[Main].msg = m
      BY <2>1
    <3> QED
      BY <1>2, <3>1 DEF Succeed, on_success
  <2>3. before \subseteq before' /\ (~assigned[partition(m)] => m \in before')
    BY <1>2 DEF Succeed, Assigned
  <2>4. Coherent(p)
    BY <2>2 DEF IInv
  <2> QED
    BY <2>1, <2>2, <2>3, <2>4 DEF Coherent, MainAt
<1>3. ASSUME NEW m \in Messages, Fail(Main, m) PROVE Coherent(p)'
  <2>1. call[Main].at = "idle" /\ call'[Main].at \in {"close", "idle"}
    BY <1>0, <1>3 DEF Fail, on_fail, Idle, TypeOK, ConsumerTypeOK
  <2> QED
    BY <1>3, <2>1 DEF Fail, on_fail, groupVars, IInv, Coherent, MainAt
<1>4. ASSUME Step(Main) PROVE Coherent(p)'
  <2>1. call[Main] \in Frames /\ call[Main].msg \in Messages
    BY <1>0, <1>4, MainFrame DEF Step, Lookup, Record, StoreOffsets, Storing
  <2>2. open /\ Coherent(p) /\ UNCHANGED <<assigned, before>>
    BY <1>4 DEF Step, Lookup, Record, StoreOffsets, groupVars, IInv
  <2> DEFINE m == call[Main].msg
  <2>3. /\ partition(m) \in Partitions /\ offset(m) \in Nat
        /\ m = <<partition(m), offset(m)>>
        /\ \A d \in done : offset(d) \in Nat
    BY <2>1, MessageParts DEF Messages, partition, offset, TypeOK
  <2>4. lastOffset \in [Partitions -> Int] /\ stored \in [Partitions -> Int]
    BY TopologyAssumption DEF TypeOK, ConsumerTypeOK, Offsets, NoOffset
  <2>5. CASE Lookup(Main)
    <3>1. UNCHANGED <<lastOffset, stored>> /\ call[Main].at = "lookup"
      BY <2>5 DEF Lookup
    <3>2. CASE offset(m) <= lastOffset[partition(m)] /\ Return(Main)
      <4>1. call'[Main].at = "idle" /\ done' = done \union {m}
        BY <1>0, <1>4, <2>1, <3>2
        DEF Step, Return, Idle, TypeOK, ConsumerTypeOK
      <4> QED
        BY <2>2, <3>1, <3>2, <4>1 DEF Coherent, MainAt
    <3>3. CASE lastOffset[partition(m)] = NoOffset /\ Goto(Main, "seed")
      <4>1. call'[Main] = [call[Main] EXCEPT !.at = "seed"]
        BY <1>0, <3>3 DEF Goto, TypeOK, ConsumerTypeOK
      <4>2. call'[Main].at = "seed" /\ call'[Main].msg = m
        BY <2>1, <4>1 DEF Frames
      <4>3. done' = done
        BY <1>4, <2>1, <4>2 DEF Step, Idle
      <4> QED
        BY <2>2, <3>1, <3>3, <4>2, <4>3 DEF Coherent, MainAt
    <3>4. CASE offset(m) > lastOffset[partition(m)] /\ Goto(Main, "store")
      <4>1. call'[Main] = [call[Main] EXCEPT !.at = "store"]
        BY <1>0, <3>4 DEF Goto, TypeOK, ConsumerTypeOK
      <4>2. call'[Main].at = "store" /\ call'[Main].msg = m
        BY <2>1, <4>1 DEF Frames
      <4>3. done' = done
        BY <1>4, <2>1, <4>2 DEF Step, Idle
      <4> QED
        BY <2>2, <2>3, <2>4, <3>1, <3>4, <4>2, <4>3 DEF Coherent, MainAt
    <3> QED
      BY <2>5, <3>2, <3>3, <3>4 DEF Lookup
  <2>6. CASE Record(Main)
    <3>1. /\ stored' = stored
          /\ lastOffset' = [lastOffset EXCEPT ![partition(m)] = offset(m)]
      BY <2>6 DEF Record
    <3>2. CASE call[Main].at = "seed" /\ Goto(Main, "seeded")
      <4>1. call'[Main] = [call[Main] EXCEPT !.at = "seeded"]
        BY <1>0, <3>2 DEF Goto, TypeOK, ConsumerTypeOK
      <4>2. call'[Main].at = "seeded" /\ call'[Main].msg = m
        BY <2>1, <4>1 DEF Frames
      <4>3. done' = done
        BY <1>4, <2>1, <4>2 DEF Step, Idle
      <4> QED
        BY <2>2, <2>3, <2>4, <3>1, <3>2, <4>2, <4>3
        DEF Coherent, MainAt, NoOffset
    <3>3. CASE call[Main].at = "record" /\ Return(Main)
      <4>1. call'[Main].at = "idle" /\ done' = done \union {m}
        BY <1>0, <1>4, <2>1, <3>3
        DEF Step, Return, Idle, TypeOK, ConsumerTypeOK
      <4> QED
        BY <2>2, <2>3, <2>4, <3>1, <3>3, <4>1 DEF Coherent, MainAt
    <3> QED
      BY <2>6, <3>2, <3>3 DEF Record
  <2>7. CASE StoreOffsets(Main)
    <3>1. /\ lastOffset' = lastOffset
          /\ stored' = [stored EXCEPT ![partition(m)] = offset(m) + 1]
      BY <2>7 DEF StoreOffsets
    <3>2. CASE call[Main].at = "store" /\ Goto(Main, "record")
      <4>1. call'[Main] = [call[Main] EXCEPT !.at = "record"]
        BY <1>0, <3>2 DEF Goto, TypeOK, ConsumerTypeOK
      <4>2. call'[Main].at = "record" /\ call'[Main].msg = m
        BY <2>1, <4>1 DEF Frames
      <4>3. done' = done
        BY <1>4, <2>1, <4>2 DEF Step, Idle
      <4> QED
        BY <2>2, <2>3, <2>4, <3>1, <3>2, <4>2, <4>3 DEF Coherent, MainAt
    <3>3. CASE call[Main].at = "seeded" /\ Return(Main)
      <4>1. call'[Main].at = "idle" /\ done' = done \union {m}
        BY <1>0, <1>4, <2>1, <3>3
        DEF Step, Return, Idle, TypeOK, ConsumerTypeOK
      <4> QED
        BY <2>2, <2>3, <2>4, <3>1, <3>3, <4>1 DEF Coherent, MainAt
    <3> QED
      BY <2>7, <3>2, <3>3 DEF StoreOffsets, Storing
  <2> QED
    BY <1>4, <2>5, <2>6, <2>7 DEF Step
<1>5. ASSUME StoreUnassigned(Main), UNCHANGED <<groupVars, done>>
      PROVE  Coherent(p)'
  <2>1. /\ call'[Main].at = "idle" /\ call[Main].at \in {"seeded", "store"}
        /\ partition(call[Main].msg) = p => ~assigned[p]
    BY <1>0, <1>5
    DEF StoreUnassigned, Assigned, Storing, Return, Idle, TypeOK, ConsumerTypeOK
  <2>2. Coherent(p)
    BY <1>5 DEF StoreUnassigned, IInv
  <2> QED
    BY <1>5, <2>1, <2>2 DEF StoreUnassigned, groupVars, Coherent, MainAt
<1>6. ASSUME StoreRaises(Main) \/ CloseOnFail(Main) \/ KillOnFail(Main),
             UNCHANGED <<groupVars, done>>
      PROVE  Coherent(p)'
  <2>1. KillOnFail(Main)
    BY <1>6 DEF StoreRaises, CloseOnFail, Close
  <2>2. call[Main].at = "kill" /\ call'[Main].at = "idle"
    BY <1>0, <2>1 DEF KillOnFail, Return, Idle, TypeOK, ConsumerTypeOK
  <2> QED
    BY <1>6, <2>1, <2>2 DEF groupVars, KillOnFail, IInv, Coherent, MainAt
<1>7. CASE Commit
  BY <1>7 DEF Commit, AutoCommit, groupVars, IInv, Coherent, MainAt
<1>8. CASE Shutdown
  BY <1>8 DEF Shutdown, Close
<1>9. ASSUME NEW q \in Partitions, EndTenure(q) PROVE Coherent(p)'
  BY <1>9, EndTenureCoherent
<1>10. ASSUME NEW q \in Partitions, Assign(q) PROVE Coherent(p)'
  BY <1>10 DEF Assign, TypeOK, IInv, Coherent, MainAt
<1>11. ASSUME NEW q \in Partitions, NEW n \in 1..(MaxOffset + 1),
              RivalCommits(q, n)
       PROVE  Coherent(p)'
  BY <1>11 DEF RivalCommits, IInv, Coherent, MainAt
<1>12. CASE UNCHANGED vars
  BY <1>12 DEF vars, groupVars, consumerVars, IInv, Coherent, MainAt
<1> QED
  BY <1>0, <1>1, <1>2, <1>3, <1>4, <1>5, <1>6, <1>7, <1>8, <1>9, <1>10, <1>11,
     <1>12, Cases
  DEF OwnStep, GroupStep, RaiseStep, Revoke, Lose

\* The invariant holds of every state the main thread alone can bring about.
LEMMA CoherentAlways ==
    ASSUME MainOnly
    PROVE  Spec => [](TypeOK /\ IInv)
<1>1. Init => TypeOK /\ IInv
  <2>1. Init => TypeOK
    BY TopologyAssumption, MaxRebalancesAssumption
    DEF Init, ConsumerInit, TypeOK, ConsumerTypeOK, NoOffset
  <2>2. Init => IInv
    BY DEF Init, ConsumerInit, NoOffset, IInv, Coherent, MainAt, Threads, Idle
  <2> QED
    BY <2>1, <2>2
<1>2. TypeOK /\ IInv /\ [Next]_vars => (TypeOK /\ IInv)'
  BY TypeStep, CoherentStep
<1> QED
  BY <1>1, <1>2, PTL DEF Spec

\* With the main thread as the only caller, the stored offset of a partition
\* is the offset after the highest message acknowledged in this tenure, in
\* whatever order on_success is called, unless an earlier tenure went as far.
THEOREM HighestDoneIsStored ==
    ASSUME MainOnly
    PROVE  Spec => []HighWaterMark
<1>1. TypeOK /\ IInv => HighWaterMark
  <2> SUFFICES ASSUME TypeOK, IInv, open, \A t \in Threads : call[t] = Idle,
                      NEW p \in Partitions
               PROVE  /\ \A m \in done \intersect InPartition(p) :
                            offset(m) < stored[p] \/ Overshadowed(m)
                      /\ stored[p] # 0 => <<p, stored[p] - 1>> \in done
    BY DEF HighWaterMark
  <2>1. call[Main].at = "idle"
    BY DEF Threads, Idle
  <2>2. /\ \/ stored[p] = lastOffset[p] + 1
           \/ stored[p] = 0 /\ Inherited(p)
        /\ \A m \in done : partition(m) = p => offset(m) <= lastOffset[p]
        /\ stored[p] # 0 => <<p, stored[p] - 1>> \in done
    <3>1. Coherent(p) /\ ~MainAt("seeded", p) /\ ~MainAt("record", p)
      BY <2>1 DEF IInv, MainAt
    <3> QED
      BY <3>1 DEF Coherent
  <2>3. lastOffset[p] \in Int /\ \A m \in done : offset(m) \in Int
    BY MessageParts, TopologyAssumption
    DEF TypeOK, ConsumerTypeOK, Offsets, NoOffset
  <2>4. ASSUME NEW m \in done, partition(m) = p
        PROVE  offset(m) < stored[p] \/ Overshadowed(m)
    BY <2>2, <2>3, <2>4 DEF Inherited, Overshadowed
  <2> QED
    BY <2>2, <2>4 DEF InPartition
<1> QED
  BY <1>1, CoherentAlways, PTL

\* With the main thread as the only caller, no acknowledgement moves the
\* stored offset of a partition backwards; only the end of its tenure does.
THEOREM StoredIsMonotonic ==
    ASSUME MainOnly
    PROVE  Spec => StoredNeverRegresses
<1>1. TypeOK /\ IInv /\ [Next]_vars
        => [\A p \in Partitions : assigned'[p] => stored'[p] >= stored[p]]_vars
  <2> SUFFICES ASSUME TypeOK, IInv, [Next]_vars, NEW p \in Partitions,
                      assigned'[p]
               PROVE  stored'[p] >= stored[p]
    OBVIOUS
  <2>1. stored \in [Partitions -> Int]
    BY DEF TypeOK, ConsumerTypeOK
  <2>2. CASE stored' = stored
    BY <2>1, <2>2
  <2>3. ASSUME NEW t \in Threads, StoreOffsets(t)
        PROVE  stored'[p] >= stored[p]
    <3>1. t = Main /\ call[Main].msg \in Messages
      BY <2>3, MainFrame DEF StoreOffsets, Storing
    <3>2. Coherent(p) /\ call[Main].at \in {"seeded", "store"}
      BY <2>3, <3>1 DEF StoreOffsets, Storing, IInv
    <3>3. offset(call[Main].msg) \in Nat /\ lastOffset[p] \in Int
      BY <3>1, MessageParts, TopologyAssumption
      DEF TypeOK, ConsumerTypeOK, Offsets, NoOffset
    <3>4. stored' = [stored EXCEPT ![partition(call[Main].msg)]
                       = offset(call[Main].msg) + 1]
      BY <2>3, <3>1 DEF StoreOffsets
    <3> QED
      BY <2>1, <3>2, <3>3, <3>4 DEF Coherent, MainAt
  <2>4. ASSUME NEW q \in Partitions, EndTenure(q)
        PROVE  stored'[p] >= stored[p]
    BY <2>1, <2>4 DEF EndTenure, TypeOK
  <2> QED
    BY <2>2, <2>3, <2>4
    DEF Next, Poll, PollMessage, Succeed, on_success, Fail, on_fail, Step,
        Lookup, Record, OtherStep, StoreUnassigned, StoreRaises, CloseOnFail,
        KillOnFail, Close, Commit, AutoCommit, Shutdown, Revoke, Lose, Assign,
        RivalCommits, vars, consumerVars
<1> QED
  BY <1>1, CoherentAlways, PTL DEF Spec, StoredNeverRegresses
=============================================================================
