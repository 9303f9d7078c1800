---------------------------- MODULE ExportPromise ----------------------------
(***************************************************************************)
(* What modules/exports/service.py promises about one export, whatever     *)
(* process does the work: each request for it opens an attempt, an export  *)
(* is pending only while an attempt is open, and only an attempt ends it.  *)
(* Delivery is at least once, so an attempt may end more than once.        *)
(***************************************************************************)
CONSTANT Attempt

VARIABLES
    status,     \* what the requester sees
    open,       \* attempts that have not ended
    settled     \* attempts that have ended at least once

vars == <<status, open, settled>>

Init == status = "none" /\ open = {} /\ settled = {}

\* A request or a retry.  A retry that races with the end of an earlier attempt
\* may leave that attempt's result in place.
Ask(a) ==
    /\ a \notin open \cup settled
    /\ \/ status' = "pending"
       \/ status # "none" /\ status' = status
    /\ open' = open \cup {a}
    /\ UNCHANGED settled

Settle(a) ==
    /\ a \in open \cup settled
    /\ status' \in {"completed", "failed"}
    /\ open' = open \ {a}
    /\ settled' = settled \cup {a}

Next == \E a \in Attempt : Ask(a) \/ Settle(a)

Spec == Init /\ [][Next]_vars
=============================================================================
