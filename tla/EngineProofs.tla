---------------------------- MODULE EngineProofs ----------------------------
(***************************************************************************)
(* Facts about the Engine's main thread and about the asynchronous         *)
(* producers, each alone, for the proofs of the workers that compose them: *)
(* that their steps keep types.                                            *)
(***************************************************************************)
EXTENDS Engine, ConfluentProducer, SequenceTheorems, TLAPS

-----------------------------------------------------------------------------
(* What a step of a queue does to the elements of it *)

LEMMA TailRange ==
    ASSUME NEW S, NEW s \in Seq(S), s # << >>
    PROVE  /\ Head(s) \in Range(s)
           /\ Range(s) = {Head(s)} \union Range(Tail(s))
<1>1. Tail(s) \in Seq(S) /\ Len(s) \in Nat \ {0}
  BY EmptySeq, HeadTailProperties
<1>2. Len(Tail(s)) = Len(s) - 1 /\ \A i \in 1..Len(Tail(s)) : Tail(s)[i] = s[i + 1]
  BY HeadTailProperties
<1>3. DOMAIN s = 1..Len(s) /\ DOMAIN Tail(s) = 1..(Len(s) - 1)
  BY <1>1, <1>2
<1>4. Head(s) = s[1] /\ 1 \in DOMAIN s
  BY <1>1, <1>3
<1>5. ASSUME NEW i \in DOMAIN s, i # 1 PROVE s[i] \in Range(Tail(s))
  <2>1. i - 1 \in DOMAIN Tail(s) /\ Tail(s)[i - 1] = s[i]
    BY <1>1, <1>2, <1>3, <1>5
  <2> QED
    BY <2>1 DEF Range
<1>6. ASSUME NEW i \in DOMAIN Tail(s) PROVE Tail(s)[i] \in Range(s)
  <2>1. i + 1 \in DOMAIN s /\ Tail(s)[i] = s[i + 1]
    BY <1>1, <1>2, <1>3
  <2> QED
    BY <2>1 DEF Range
<1> QED
  BY <1>4, <1>5, <1>6 DEF Range

LEMMA TailEmpty ==
    ASSUME NEW S, NEW s \in Seq(S), s # << >>
    PROVE  Tail(s) = << >> <=> Len(s) = 1
<1>1. Tail(s) \in Seq(S) /\ Len(Tail(s)) = Len(s) - 1 /\ Len(s) \in Nat
  BY HeadTailProperties, EmptySeq
<1>2. CASE Len(s) = 1
  <2>1. Tail(s) \in Seq(S) /\ Len(Tail(s)) = 0
    BY <1>1, <1>2
  <2> QED
    BY <1>2, <2>1, EmptySeq
<1>3. CASE Tail(s) = << >>
  <2>1. Len(Tail(s)) = 0
    BY <1>3, EmptySeq
  <2> QED
    BY <1>1, <1>3, <2>1
<1> QED
  BY <1>2, <1>3

LEMMA AppendRange ==
    ASSUME NEW S, NEW s \in Seq(S), NEW e \in S
    PROVE  Range(Append(s, e)) = Range(s) \union {e}
<1>1. Len(s) \in Nat /\ DOMAIN s = 1..Len(s)
  OBVIOUS
<1>2. /\ DOMAIN Append(s, e) = 1..(Len(s) + 1)
      /\ \A i \in 1..Len(s) : Append(s, e)[i] = s[i]
      /\ Append(s, e)[Len(s) + 1] = e
  BY AppendProperties
<1>3. \A i \in DOMAIN Append(s, e) : i \in DOMAIN s \/ i = Len(s) + 1
  BY <1>1, <1>2
<1>4. DOMAIN s \subseteq DOMAIN Append(s, e) /\ Len(s) + 1 \in DOMAIN Append(s, e)
  BY <1>1, <1>2
<1> QED
  BY <1>1, <1>2, <1>3, <1>4 DEF Range

\* The elements before and behind the i-th.
LEMMA RemoveParts ==
    ASSUME NEW S, NEW s \in Seq(S), NEW i \in DOMAIN s
    PROVE  /\ RemoveAt(s, i) \in Seq(S)
           /\ DOMAIN s = 1..Len(s) /\ Len(s) \in Nat /\ i \in Nat
           /\ DOMAIN RemoveAt(s, i) = 1..(Len(s) - 1)
           /\ \A j \in 1..(Len(s) - 1) :
                 RemoveAt(s, i)[j] = IF j < i THEN s[j] ELSE s[j + 1]
<1>1. DOMAIN s = 1..Len(s) /\ Len(s) \in Nat /\ i \in Nat /\ i \in 1..Len(s)
  OBVIOUS
<1> DEFINE before == SubSeq(s, 1, i - 1)
           behind == SubSeq(s, i + 1, Len(s))
<1>2. /\ before \in Seq(S) /\ Len(before) = i - 1
      /\ \A j \in 1..(i - 1) : before[j] = s[j]
  <2>1. \A j \in 1..(i - 1) : s[j] \in S
    BY <1>1
  <2> QED
    BY <1>1, <2>1, SubSeqProperties
<1>3. /\ behind \in Seq(S) /\ Len(behind) = Len(s) - i
      /\ \A j \in 1..(Len(s) - i) : behind[j] = s[i + j]
  <2>1. \A j \in (i + 1)..Len(s) : s[j] \in S
    BY <1>1
  <2>2. /\ behind \in Seq(S)
        /\ Len(behind) = IF i + 1 <= Len(s) THEN Len(s) - (i + 1) + 1 ELSE 0
        /\ \A j \in 1..(Len(s) - (i + 1) + 1) : behind[j] = s[(i + 1) + j - 1]
    BY <1>1, <2>1, SubSeqProperties
  <2>3. Len(s) - (i + 1) + 1 = Len(s) - i
    BY <1>1
  <2>4. \A j \in 1..(Len(s) - i) : (i + 1) + j - 1 = i + j
    BY <1>1
  <2>5. Len(behind) = Len(s) - i
    BY <1>1, <2>2
  <2> HIDE DEF behind
  <2> QED
    BY <2>2, <2>3, <2>4, <2>5
<1> HIDE DEF before, behind
<1> DEFINE r == before \o behind
<1>4. RemoveAt(s, i) = r
  BY DEF RemoveAt, before, behind
<1>5. /\ r \in Seq(S)
      /\ Len(r) = Len(s) - 1
      /\ \A j \in 1..(Len(s) - 1) :
            r[j] = IF j <= i - 1 THEN before[j] ELSE behind[j - (i - 1)]
  <2>1. /\ r \in Seq(S)
        /\ Len(r) = Len(before) + Len(behind)
        /\ \A j \in 1..(Len(before) + Len(behind)) :
              r[j] = IF j <= Len(before) THEN before[j]
                                         ELSE behind[j - Len(before)]
    BY <1>2, <1>3, ConcatProperties
  <2>2. Len(before) + Len(behind) = Len(s) - 1
    BY <1>1, <1>2, <1>3
  <2> QED
    BY <1>2, <2>1, <2>2
<1>6. DOMAIN r = 1..(Len(s) - 1)
  BY <1>5
<1> HIDE DEF r
<1>7. ASSUME NEW j \in 1..(Len(s) - 1)
      PROVE  r[j] = IF j < i THEN s[j] ELSE s[j + 1]
  <2>1. CASE j < i
    <3>1. j \in 1..(i - 1) /\ j <= i - 1
      BY <1>1, <2>1
    <3> QED
      BY <1>2, <1>5, <2>1, <3>1
  <2>2. CASE ~(j < i)
    <3>1. /\ j - (i - 1) \in 1..(Len(s) - i) /\ i + (j - (i - 1)) = j + 1
          /\ ~(j <= i - 1)
      BY <1>1, <2>2
    <3>2. r[j] = behind[j - (i - 1)]
      BY <1>5, <3>1
    <3>3. behind[j - (i - 1)] = s[i + (j - (i - 1))]
      BY <1>3, <3>1
    <3> QED
      BY <2>2, <3>1, <3>2, <3>3
  <2> QED
    BY <2>1, <2>2
<1> QED
  BY <1>1, <1>4, <1>5, <1>6, <1>7

LEMMA RemoveRange ==
    ASSUME NEW S, NEW s \in Seq(S), NEW i \in DOMAIN s
    PROVE  /\ RemoveAt(s, i) \in Seq(S)
           /\ Range(s) = {s[i]} \union Range(RemoveAt(s, i))
<1> DEFINE r == RemoveAt(s, i)
           n == Len(s)
<1>1. /\ r \in Seq(S) /\ DOMAIN s = 1..n /\ n \in Nat /\ i \in 1..n
      /\ DOMAIN r = 1..(n - 1)
      /\ \A j \in 1..(n - 1) : r[j] = IF j < i THEN s[j] ELSE s[j + 1]
  BY RemoveParts
<1> HIDE DEF r, n
<1>2. ASSUME NEW j \in 1..n, j # i PROVE \E k \in 1..(n - 1) : r[k] = s[j]
  <2>1. CASE j < i
    <3>1. j \in 1..(n - 1) /\ r[j] = s[j]
      BY <1>1, <2>1
    <3> QED
      BY <3>1
  <2>2. CASE i < j
    <3>1. j - 1 \in 1..(n - 1) /\ r[j - 1] = s[j]
      BY <1>1, <2>2
    <3> QED
      BY <3>1
  <2> QED
    BY <1>1, <1>2, <2>1, <2>2
<1>3. ASSUME NEW k \in 1..(n - 1) PROVE \E j \in 1..n : r[k] = s[j]
  <2>1. k \in 1..n /\ k + 1 \in 1..n /\ r[k] \in {s[k], s[k + 1]}
    BY <1>1
  <2> QED
    BY <2>1
<1>4. ASSUME NEW x PROVE x \in Range(s) <=> x = s[i] \/ x \in Range(r)
  <2>1. x \in Range(s) <=> \E j \in 1..n : x = s[j]
    BY <1>1 DEF Range
  <2>2. x \in Range(r) <=> \E k \in 1..(n - 1) : x = r[k]
    BY <1>1 DEF Range
  <2> QED
    BY <1>1, <1>2, <1>3, <2>1, <2>2
<1> QED
  BY <1>1, <1>4 DEF r

LEMMA AppendFresh ==
    ASSUME NEW S, NEW s \in Seq(S), NEW e \in S, IsInjective(s), e \notin Range(s)
    PROVE  IsInjective(Append(s, e))
<1>1. Len(s) \in Nat /\ DOMAIN s = 1..Len(s)
  OBVIOUS
<1>2. /\ DOMAIN Append(s, e) = 1..(Len(s) + 1)
      /\ \A i \in 1..Len(s) : Append(s, e)[i] = s[i]
      /\ Append(s, e)[Len(s) + 1] = e
  BY AppendProperties
<1>3. \A i \in 1..Len(s) : s[i] # e
  BY <1>1 DEF Range
<1>4. \A i, j \in 1..Len(s) : s[i] = s[j] => i = j
  BY <1>1 DEF IsInjective
<1>5. \A i, j \in 1..(Len(s) + 1) : Append(s, e)[i] = Append(s, e)[j] => i = j
  BY <1>1, <1>2, <1>3, <1>4
<1> QED
  BY <1>2, <1>5 DEF IsInjective

LEMMA RemoveFresh ==
    ASSUME NEW S, NEW s \in Seq(S), NEW i \in DOMAIN s, IsInjective(s)
    PROVE  IsInjective(RemoveAt(s, i)) /\ s[i] \notin Range(RemoveAt(s, i))
<1> DEFINE r == RemoveAt(s, i)
           n == Len(s)
<1>1. /\ DOMAIN s = 1..n /\ n \in Nat /\ i \in 1..n
      /\ DOMAIN r = 1..(n - 1)
      /\ \A j \in 1..(n - 1) : r[j] = IF j < i THEN s[j] ELSE s[j + 1]
  BY RemoveParts
<1>2. \A j, k \in 1..n : s[j] = s[k] => j = k
  BY <1>1 DEF IsInjective
<1> HIDE DEF r, n
<1>3. \A j, k \in 1..(n - 1) : r[j] = r[k] => j = k
  <2> SUFFICES ASSUME NEW j \in 1..(n - 1), NEW k \in 1..(n - 1), r[j] = r[k]
               PROVE  j = k
    OBVIOUS
  <2>1. j \in 1..n /\ j + 1 \in 1..n /\ k \in 1..n /\ k + 1 \in 1..n
    BY <1>1
  <2> QED
    BY <1>1, <1>2, <2>1
<1>4. \A j \in 1..(n - 1) : r[j] # s[i]
  <2> SUFFICES ASSUME NEW j \in 1..(n - 1) PROVE r[j] # s[i]
    OBVIOUS
  <2>1. j \in 1..n /\ j + 1 \in 1..n
    BY <1>1
  <2> QED
    BY <1>1, <1>2, <2>1
<1> QED
  BY <1>1, <1>3, <1>4 DEF IsInjective, Range, r

-----------------------------------------------------------------------------
(* The Engine *)

EngineStep ==
    \/ LoopAgain \/ LoopExit \/ ConsumeNone
    \/ \E m \in Messages : Consume(m)
    \/ HandleValid \/ HandleInvalid \/ DLQNotConfigured
    \/ \E b \in AppBools : WorkBool(b)
    \/ \E l \in AppLists : WorkList(l)
    \/ WorkRaises \/ ProduceRaises
    \/ \E status \in BOOLEAN : Produce(status)
    \/ MarkSuccess \/ MarkFail \/ LeaveToCallback \/ Marked
    \/ ShutdownProducer \/ ShutdownConsumer \/ Abort \/ exit_gracefully
    \/ Vanish \/ Start
    \/ UNCHANGED engineVars

\* The queues of the constants are queues.
LEMMA QueueFacts ==
    /\ OutputQueues \in Seq(Queues)
    /\ DeadLetterQueue # NoDLQ => DeadLetterQueue \in Queues
    /\ AppLists \subseteq Seq(Queues)
<1> USE EngineAssumption
<1>1. \A i \in DOMAIN OutputQueues : OutputQueues[i] \in Queues
  OBVIOUS
<1>2. Range(OutputQueues) \subseteq Queues
  BY <1>1 DEF Range
<1>3. DeadLetterQueue # NoDLQ => DeadLetterQueue \in Range(OutputQueues)
  BY DEF Range
<1> QED
  BY <1>2, <1>3

\* The main thread's steps keep the types of its variables.
LEMMA EngineTypes ==
    ASSUME EngineTypeOK, EngineStep
    PROVE  EngineTypeOK'
<1> USE DEF EngineTypeOK, Running, Ended, Holding
<1>1. CASE LoopAgain
  BY <1>1 DEF LoopAgain
<1>2. CASE LoopExit
  BY <1>2, QueueFacts DEF LoopExit
<1>3. CASE ConsumeNone \/ LeaveToCallback \/ Marked
  <2>1. NextIteration /\ UNCHANGED killNow
    BY <1>3 DEF ConsumeNone, LeaveToCallback, Marked
  <2> QED
    BY <2>1 DEF NextIteration
<1>4. ASSUME NEW m \in Messages, Consume(m) PROVE EngineTypeOK'
  <2>1. m # NoMessage
    BY DEF Messages, NoMessage
  <2> QED
    BY <1>4, <2>1 DEF Consume
<1>5. CASE HandleValid \/ DLQNotConfigured
  BY <1>5 DEF HandleValid, DLQNotConfigured
<1>6. CASE HandleInvalid
  BY <1>6, QueueFacts DEF HandleInvalid
<1>7. ASSUME NEW b \in AppBools, WorkBool(b) PROVE EngineTypeOK'
  <2>1. b \in BOOLEAN
    BY EngineAssumption
  <2>2. [asynchronous |-> FALSE, status |-> b] \in DeliveryReport
    BY <2>1 DEF DeliveryReport
  <2> QED
    BY <1>7, <2>2 DEF WorkBool
<1>8. ASSUME NEW l \in AppLists, WorkList(l) PROVE EngineTypeOK'
  BY <1>8, QueueFacts DEF WorkList
<1>9. CASE WorkRaises \/ ProduceRaises \/ MarkSuccess \/ MarkFail
  BY <1>9 DEF WorkRaises, ProduceRaises, MarkSuccess, MarkFail, Produced
<1>10. ASSUME NEW status \in BOOLEAN, Produce(status) PROVE EngineTypeOK'
  <2>1. [asynchronous |-> Head(outs) \in AsyncQueues, status |-> status]
          \in DeliveryReport
    BY DEF DeliveryReport
  <2>2. Tail(outs) \in Seq(Queues)
    BY <1>10, HeadTailProperties DEF Produce
  <2> QED
    BY <1>10, <2>1, <2>2 DEF Produce
<1>11. CASE ShutdownProducer
  BY <1>11, HeadTailProperties DEF ShutdownProducer
<1>12. CASE ShutdownConsumer \/ Abort \/ exit_gracefully
  BY <1>12 DEF ShutdownConsumer, Abort, exit_gracefully
<1>13. CASE Vanish \/ Start
  <2>1. CASE Vanish
    <3>1. killNow' \in BOOLEAN
      BY <2>1 DEF Vanish
    <3> QED
      BY <2>1, <3>1 DEF Vanish
  <2>2. CASE Start
    BY <2>2 DEF Start
  <2> QED
    BY <1>13, <2>1, <2>2
<1>14. CASE UNCHANGED engineVars
  BY <1>14 DEF engineVars
<1> QED
  BY <1>1, <1>2, <1>3, <1>4, <1>5, <1>6, <1>7, <1>8, <1>9, <1>10, <1>11,
     <1>12, <1>13, <1>14 DEF EngineStep

\* Only output queues are produced to, and shut down.
OutsAreOutputs == \A i \in DOMAIN outs : outs[i] \in Range(OutputQueues)

LEMMA OutsStep ==
    ASSUME EngineTypeOK, OutsAreOutputs, EngineStep
    PROVE  OutsAreOutputs'
<1> USE DEF OutsAreOutputs
<1>1. CASE outs' = outs \/ outs' = << >>
  BY <1>1
<1>2. CASE outs # << >> /\ outs' = Tail(outs)
  BY <1>2, HeadTailProperties DEF EngineTypeOK
<1>3. CASE LoopExit
  BY <1>3, EngineAssumption DEF LoopExit, Range
<1>4. CASE HandleInvalid
  BY <1>4, EngineAssumption DEF HandleInvalid, Range
<1>5. ASSUME NEW l \in AppLists, WorkList(l) PROVE OutsAreOutputs'
  <2>1. l \in Seq(Range(OutputQueues))
    BY EngineAssumption
  <2> QED
    BY <1>5, <2>1 DEF WorkList
<1> QED
  BY <1>1, <1>2, <1>3, <1>4, <1>5
  DEF EngineStep, LoopAgain, ConsumeNone, Consume, NextIteration, HandleValid,
      DLQNotConfigured, WorkBool, WorkRaises, ProduceRaises, Produce,
      MarkSuccess, MarkFail, LeaveToCallback, Marked, ShutdownProducer,
      ShutdownConsumer, Abort, exit_gracefully, Vanish, Start, engineVars

\* Applications that answer each message with one output or with synchronous ones
\* only.
Unmixed ==
    \A l \in AppLists :
        \/ Len(l) <= 1
        \/ \A i \in DOMAIN l : l[i] \notin AsyncQueues

\* The message in hand has outputs to come.
Hand == pc \in {"handle", "work"} \/ (pc = "produce" /\ outs # << >>)

NoOutsYet == pc \in {"loop", "poll", "handle", "work", "down"} => outs = << >>

LEMMA NoOutsStep ==
    ASSUME EngineStep, NoOutsYet
    PROVE  NoOutsYet'
BY DEF NoOutsYet, EngineStep, LoopAgain, LoopExit, ConsumeNone, Consume,
       NextIteration, HandleValid, HandleInvalid, DLQNotConfigured, WorkBool,
       WorkList, WorkRaises, ProduceRaises, Produce, MarkSuccess, MarkFail,
       LeaveToCallback, Marked, ShutdownProducer, ShutdownConsumer, Abort,
       exit_gracefully, Vanish, Start, engineVars

\* The verdict that calls on_success: no output failed, and none is asynchronous.
LEMMA SuccessMeansDelivered ==
    ASSUME NEW reps \in SUBSET DeliveryReport,
           delivery_success(reps) = [asynchronous |-> FALSE, status |-> TRUE]
    PROVE  \A r \in reps : r.status /\ ~r.asynchronous
<1>1. sync_failures(reps) = {}
  BY DEF delivery_success
<1>2. waiting_async(reps) = {}
  BY <1>1 DEF delivery_success
<1> QED
  BY <1>1, <1>2 DEF sync_failures, waiting_async

-----------------------------------------------------------------------------
(* The producers *)

ProducerStep ==
    \/ \E q \in AsyncQueues, output \in Outputs : Enqueue(q, output)
    \/ \E q \in AsyncQueues, i \in Nat, ok \in BOOLEAN : Report(q, i, ok)
    \/ \E q \in AsyncQueues, m \in Messages, ok \in BOOLEAN : acked(q, m, ok)
    \/ \E q \in AsyncQueues : PollThreadDies(q) \/ Flushed(q)
    \/ Reconnect
    \/ UNCHANGED producerVars

\* The producers' steps keep the types of their variables.
LEMMA ProducerTypes ==
    ASSUME ProducerTypeOK, ProducerStep
    PROVE  ProducerTypeOK'
<1> USE DEF ProducerTypeOK
<1>1. ASSUME NEW q \in AsyncQueues, NEW output \in Outputs, Enqueue(q, output)
      PROVE  ProducerTypeOK'
  BY <1>1, AppendProperties DEF Enqueue
<1>2. ASSUME NEW q \in AsyncQueues, NEW i \in Nat, NEW ok \in BOOLEAN,
             Report(q, i, ok)
      PROVE  ProducerTypeOK'
  <2>1. i \in 1..Len(outbox[q])
    BY <1>2 DEF Report
  <2>2. /\ SubSeq(outbox[q], 1, i - 1) \in Seq(Outputs)
        /\ SubSeq(outbox[q], i + 1, Len(outbox[q])) \in Seq(Outputs)
    BY <2>1, SubSeqProperties
  <2>3. RemoveAt(outbox[q], i) \in Seq(Outputs)
    BY <2>2, ConcatProperties DEF RemoveAt
  <2>4. <<outbox[q][i][1], ok>> \in Messages \X BOOLEAN
    BY <2>1 DEF Outputs
  <2>5. Append(dr[q], <<outbox[q][i][1], ok>>) \in Seq(Messages \X BOOLEAN)
    BY <2>4, AppendProperties
  <2> QED
    BY <1>2, <2>3, <2>5 DEF Report
<1>3. ASSUME NEW q \in AsyncQueues, NEW m \in Messages, NEW ok \in BOOLEAN,
             acked(q, m, ok)
      PROVE  ProducerTypeOK'
  BY <1>3, HeadTailProperties DEF acked
<1>4. ASSUME NEW q \in AsyncQueues, PollThreadDies(q) \/ Flushed(q)
      PROVE  ProducerTypeOK'
  BY <1>4 DEF PollThreadDies, Flushed
<1>5. CASE Reconnect
  BY <1>5 DEF Reconnect
<1>6. CASE UNCHANGED producerVars
  BY <1>6 DEF producerVars
<1> QED
  BY <1>1, <1>2, <1>3, <1>4, <1>5, <1>6 DEF ProducerStep
=============================================================================
