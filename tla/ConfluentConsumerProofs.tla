----------------------- MODULE ConfluentConsumerProofs -----------------------
(***************************************************************************)
(* Facts about the consumer alone, for the proofs of the modules that use  *)
(* it: what its messages and frames are, and that its steps keep types.    *)
(***************************************************************************)
EXTENDS ConfluentConsumer, TLAPS

\* The parts of a message: its partition and its offset.
LEMMA MessageParts ==
    ASSUME NEW m \in Messages
    PROVE  /\ m = <<partition(m), offset(m)>>
           /\ partition(m) \in Partitions
           /\ offset(m) \in Offsets
           /\ offset(m) \in Nat
           /\ offset(m) + 1 \in 0..(MaxOffset + 1)
BY TopologyAssumption DEF Messages, partition, offset, Offsets

\* A thread that is not idle runs a call about a message.
LEMMA BusyFrame ==
    ASSUME ConsumerTypeOK, NEW t \in Threads, call[t].at # "idle"
    PROVE  call[t] \in Frames /\ call[t].msg \in Messages
BY DEF ConsumerTypeOK, Idle, Frames

\* Moving a busy thread on, or returning from its call, as functions of call.
LEMMA MoveFrame ==
    ASSUME ConsumerTypeOK, NEW t \in Threads, call[t].at # "idle",
           NEW site \in Sites, Goto(t, site)
    PROVE  /\ call' \in [Threads -> Frames \union {Idle}]
           /\ call'[t] = [at |-> site, msg |-> call[t].msg]
           /\ \A u \in Threads \ {t} : call'[u] = call[u]
<1>1. call[t] \in Frames
  BY BusyFrame
<1>2. call'[t] = [call[t] EXCEPT !.at = site]
  BY DEF Goto, ConsumerTypeOK
<1>3. call'[t] = [at |-> site, msg |-> call[t].msg]
  BY <1>1, <1>2 DEF Frames
<1>4. call'[t] \in Frames
  BY <1>1, <1>3 DEF Frames
<1>5. DOMAIN call' = Threads /\ \A u \in Threads \ {t} : call'[u] = call[u]
  BY DEF Goto, ConsumerTypeOK
<1> QED
  BY <1>3, <1>4, <1>5 DEF Goto, ConsumerTypeOK

LEMMA ReturnFrame ==
    ASSUME ConsumerTypeOK, NEW t \in Threads, Return(t)
    PROVE  /\ call' \in [Threads -> Frames \union {Idle}]
           /\ call'[t] = Idle
           /\ \A u \in Threads \ {t} : call'[u] = call[u]
BY DEF Return, ConsumerTypeOK

ConsumerStep ==
    \/ \E m \in Messages : PollMessage(m)
    \/ \E t \in Threads, m \in Messages : on_success(t, m) \/ on_fail(t, m)
    \/ \E t \in Threads : \/ Lookup(t) \/ Record(t) \/ StoreOffsets(t)
                          \/ StoreRaises(t) \/ CloseOnFail(t) \/ KillOnFail(t)
    \/ AutoCommit
    \/ Close /\ UNCHANGED call
    \/ Resubscribe
    \/ UNCHANGED consumerVars

\* Every operation of the consumer, and every step of a call, keeps the types.
LEMMA ConsumerTypes ==
    ASSUME ConsumerTypeOK, ConsumerStep
    PROVE  ConsumerTypeOK'
<1> USE DEF ConsumerTypeOK
<1>1. ASSUME NEW m \in Messages, PollMessage(m) PROVE ConsumerTypeOK'
  <2>1. position[partition(m)] + 1 \in 0..(MaxOffset + 1)
    BY <1>1, MessageParts DEF PollMessage
  <2> QED
    BY <1>1, <2>1, MessageParts DEF PollMessage
<1>2. ASSUME NEW t \in Threads, NEW m \in Messages, on_success(t, m)
      PROVE  ConsumerTypeOK'
  BY <1>2 DEF on_success, Frames, Sites
<1>3. ASSUME NEW t \in Threads, NEW m \in Messages, on_fail(t, m)
      PROVE  ConsumerTypeOK'
  BY <1>3 DEF on_fail, Frames, Sites
<1>4. ASSUME NEW t \in Threads, Lookup(t) PROVE ConsumerTypeOK'
  <2>1. call' \in [Threads -> Frames \union {Idle}]
    BY <1>4, MoveFrame, ReturnFrame DEF Lookup, Sites
  <2> QED
    BY <1>4, <2>1 DEF Lookup
<1>5. ASSUME NEW t \in Threads, Record(t) PROVE ConsumerTypeOK'
  <2>1. call' \in [Threads -> Frames \union {Idle}]
    BY <1>5, MoveFrame, ReturnFrame DEF Record, Sites
  <2>2. call[t].msg \in Messages
    BY <1>5, BusyFrame DEF Record
  <2> QED
    BY <1>5, <2>1, <2>2, MessageParts DEF Record
<1>6. ASSUME NEW t \in Threads, StoreOffsets(t) PROVE ConsumerTypeOK'
  <2>1. call' \in [Threads -> Frames \union {Idle}]
    BY <1>6, MoveFrame, ReturnFrame DEF StoreOffsets, Storing, Sites
  <2>2. call[t].msg \in Messages
    BY <1>6, BusyFrame DEF StoreOffsets, Storing
  <2> QED
    BY <1>6, <2>1, <2>2, MessageParts DEF StoreOffsets
<1>7. ASSUME NEW t \in Threads, StoreRaises(t) \/ KillOnFail(t)
      PROVE  ConsumerTypeOK'
  <2>1. call' \in [Threads -> Frames \union {Idle}]
    BY <1>7, ReturnFrame DEF StoreRaises, KillOnFail
  <2> QED
    BY <1>7, <2>1 DEF StoreRaises, KillOnFail
<1>8. ASSUME NEW t \in Threads, CloseOnFail(t) PROVE ConsumerTypeOK'
  <2>1. call' \in [Threads -> Frames \union {Idle}]
    BY <1>8, MoveFrame DEF CloseOnFail, Sites
  <2> QED
    BY <1>8, <2>1 DEF CloseOnFail, Close, Final
<1>9. CASE AutoCommit
  BY <1>9 DEF AutoCommit
<1>10. CASE Close /\ UNCHANGED call
  BY <1>10 DEF Close, Final
<1>11. CASE Resubscribe
  BY <1>11, TopologyAssumption DEF Resubscribe, NoOffset
<1>12. CASE UNCHANGED consumerVars
  BY <1>12 DEF consumerVars
<1> QED
  BY <1>1, <1>2, <1>3, <1>4, <1>5, <1>6, <1>7, <1>8, <1>9, <1>10, <1>11, <1>12
  DEF ConsumerStep
=============================================================================
