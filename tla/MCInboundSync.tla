----------------------------- MODULE MCInboundSync -----------------------------
(* The instances of InboundSync that TLC checks. *)
EXTENDS InboundSync, TLC

CONSTANTS v1, v2, v3, v4, r1, r2, r3

\* Rows are added and go; a row that is added above moves the others, which gives
\* them other refs; and nothing in the sheet can be read.
Rows == [v \in Version |-> CASE v = v1 -> {r1, r2} [] v = v2 -> {r2, r3} [] v = v3 -> {r3}
                             [] OTHER -> {}]

Symmetry == Permutations(Attempt)
===============================================================================
