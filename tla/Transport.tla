----------------------------- MODULE Transport ------------------------------
(***************************************************************************)
(* volley/transport.py: how the delivery reports of one consumed message   *)
(* are folded into the verdict the Engine acts on.  delivery_success only  *)
(* asks whether there is a report of some kind, so the reports of one      *)
(* message are a set.                                                      *)
(***************************************************************************)

DeliveryReport == [asynchronous : BOOLEAN, status : BOOLEAN]

waiting_async(reports) == {r \in reports : r.asynchronous}

sync_failures(reports) == {r \in reports : ~r.asynchronous /\ ~r.status}

\* Mutant of delivery_success: one output that succeeded is enough.
any_success(reports) ==
    [ asynchronous |-> waiting_async(reports) # {} /\ sync_failures(reports) = {},
      status       |-> reports = {} \/ \E r \in reports : r.status ]

\* Mutant of delivery_success: an output that was enqueued is delivered.
never_waits(reports) ==
    [ asynchronous |-> FALSE,
      status       |-> \A r \in reports : r.status ]

\* The status an asynchronous producer returned from produce() is not read.
delivery_success(reports) ==
    [ asynchronous |-> waiting_async(reports) # {} /\ sync_failures(reports) = {},
      status       |-> sync_failures(reports) = {} ]
=============================================================================
