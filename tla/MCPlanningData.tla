----------------------------- MODULE MCPlanningData -----------------------------
(* Two threads of the API and a worker; three uploads of sales over two keys   *)
(* and one of stock.                                                          *)
EXTENDS PlanningData, TLC

CONSTANTS a1, a2, w1

MCProcessOf == [r \in Request |-> IF r = w1 THEN "workers" ELSE "api"]
Symmetry == Permutations({a1, a2})

R(k, q) == [key |-> k, qty |-> q]
MCFiles == [b \in Batch |-> CASE b = "b1" -> {<<R(1, 1), R(2, 1)>>, <<R(2, 1)>>}
                               [] b = "b2" -> {<<R(2, 1), R(1, 2)>>}
                               [] OTHER -> {<<R(1, 2), R(1, 1)>>, <<R(2, 2), R(1, 9)>>}]
MCRefused == {9}
===============================================================================
