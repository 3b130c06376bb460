------------------------------ MODULE Delivery ------------------------------
(***************************************************************************)
(* What a Volley application promises of its input queue, whatever the     *)
(* connectors: a message leaves the queue for good only when it is         *)
(* settled.  A message that has not left may be processed again, and be    *)
(* unsettled meanwhile (at-least-once, with duplicates).                   *)
(***************************************************************************)
CONSTANT Messages

VARIABLES
    settled,  \* messages with nothing left to do
    removed   \* messages that no process will read again

vars == <<settled, removed>>

Init ==
    /\ settled = {}
    /\ removed = {}

Settle(m) ==
    /\ settled' = settled \union {m}
    /\ UNCHANGED removed

Reopen(m) ==
    /\ m \notin removed
    /\ settled' = settled \ {m}
    /\ UNCHANGED removed

Remove(S) ==
    /\ S \subseteq settled
    /\ removed' = removed \union S
    /\ UNCHANGED settled

Next ==
    \/ \E m \in Messages : Settle(m) \/ Reopen(m)
    \/ \E S \in SUBSET Messages : Remove(S)

Spec == Init /\ [][Next]_vars
=============================================================================
