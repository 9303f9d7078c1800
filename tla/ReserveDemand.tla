---------------------------- MODULE ReserveDemand ----------------------------
(***************************************************************************)
(* How much of a SKU a DIY client should have in reserve: the arithmetic   *)
(* of modules/reserve/engine.py and strategies.py, from six months of      *)
(* sales to the target quantity.                                           *)
(*                                                                         *)
(* Every quantity is an integer number of tenths, the precision to which   *)
(* the code rounds; safety factors are in percent.                         *)
(***************************************************************************)
EXTENDS Integers, Sequences, FiniteSets

Level == {"client_sku", "client_category", "global_sku", "category_baseline"}
NoHistory == "insufficient_history"

Strategy == {"weighted_recent_average", "strict_recent_average", "conservative_fallback"}

\* demand_basis, the older name of the strategy; a request without one gets
\* weighted_recent_average.
Basis == Strategy \cup {"sales_3m", "sales_6m", "blended"}

\* Sales by month; month 1 is the current one.  Returns make them negative.
Month == 1..6
History == [Month -> Int]

(***************************************************************************)
(* Policies.  `given` are the keys that an override has; a request has 0   *)
(* for what it does not ask for.  No number is refused for its sign.       *)
(***************************************************************************)
Override == [given: SUBSET {"months", "factor", "priority"},
             months: Int, factor: Int, priority: Int]
Policy == [active: BOOLEAN, months: Int, factor: Int, priority: Int,
           chain: Seq(Level \cup {NoHistory}), depth: Int,
           category: Override, sku: Override]
Request == [asked: Strategy, basis: Basis, months: Int, factor: Int, inbound: BOOLEAN]
Effective == [active: BOOLEAN, months: Int, factor: Int, priority: Int,
              chain: Seq(Level \cup {NoHistory}), depth: Int]

DefaultChain ==
    <<"client_sku", "client_category", "global_sku", "category_baseline", NoHistory>>

\* effective_demand_strategy: the basis goes before the strategy that was asked for.
EffectiveStrategy(request) ==
    IF request.basis \in Strategy THEN request.basis
    ELSE IF request.basis = "sales_3m" THEN "strict_recent_average"
    ELSE IF request.basis = "sales_6m" THEN "conservative_fallback"
    ELSE request.asked

Given(override, key, default) == IF key \in override.given THEN override[key] ELSE default
Or(value, default) == IF value # 0 THEN value ELSE default

\* A client whose policy is not active is treated as one without a policy.
DefaultPolicy(request) ==
    [active |-> TRUE, months |-> Or(request.months, 3),
     factor |-> Or(request.factor, 110), priority |-> 999,
     chain |-> DefaultChain, depth |-> 4]

\* The SKU's values go before the category's, they before the policy's, and the request's
\* before them all.
Overridden(stored, key) == Given(stored.sku, key, Given(stored.category, key, stored[key]))

StoredPolicy(stored, request) ==
    [active |-> stored.active,
     months |-> Or(request.months, Overridden(stored, "months")),
     factor |-> Or(request.factor, Overridden(stored, "factor")),
     priority |-> Overridden(stored, "priority"),
     chain |-> stored.chain,
     depth |-> Or(stored.depth, Len(stored.chain))]

\* load_reserve_dataset keeps only active policies, then _resolve_policy.
EffectivePolicy(stored, request) ==
    IF stored.active THEN StoredPolicy(stored, request) ELSE DefaultPolicy(request)

(***************************************************************************)
(* Demand.                                                                 *)
(***************************************************************************)
\* The integers nearest to n / d: two on a tie, where round() goes one way or the
\* other with the binary value of the quotient.
Nearest(n, d) ==
    {q \in {n \div d, n \div d + 1} : 2 * (n - q * d) \in (-d)..d}

Sales3(h) == h[1] + h[2] + h[3]
Sales6(h) == Sales3(h) + h[4] + h[5] + h[6]
ActiveMonths(h) == Cardinality({m \in Month : h[m] > 0})

Larger(a, b) == IF a > b THEN a ELSE b
Smaller(a, b) == IF a < b THEN a ELSE b

\* compute() of the three strategies, from the averages of 3 and 6 months.
Weighted(a3, a6) ==
    IF a3 > 0 /\ a6 > 0 THEN Nearest(65 * a3 + 35 * a6, 100)
    ELSE IF a3 > 0 THEN {a3} ELSE {a6}

StrictRecent(a3, a6, months) ==
    IF a3 > 0 /\ months >= 2 THEN {a3} ELSE {Larger(a6, 0)}

\* Mutant: the lower of the two averages.
Lowest(a3, a6) == {Smaller(a3, a6)}

Conservative(a3, a6) == {Larger(a3, a6)}

\* The demand per month, from the metrics of a level.
Compute(strategy, m) ==
    CASE strategy = "weighted_recent_average" -> Weighted(m.avg3, m.avg6)
      [] strategy = "strict_recent_average" -> StrictRecent(m.avg3, m.avg6, m.months)
      [] strategy = "conservative_fallback" -> Conservative(m.avg3, m.avg6)

\* Mutant: months with sales are enough, whatever was returned since.
SufficientMonths(level, h) ==
    ActiveMonths(h) >= IF level = "client_sku" THEN 2 ELSE 1

\* history_sufficient: direct history needs two months with sales, the others one.
Sufficient(level, h) ==
    /\ ActiveMonths(h) >= IF level = "client_sku" THEN 2 ELSE 1
    /\ Sales6(h) > 0

\* The part of the fallback chain that the policy allows.
AllowedChain(policy) ==
    LET chain == IF policy.chain = <<>> THEN DefaultChain ELSE policy.chain
    IN SubSeq(chain, 1, Smaller(Len(chain), Larger(policy.depth, 1)))

\* _choose_demand_decision takes the first allowed level with enough history and
\* stops at insufficient_history.
Usable(chain, histories, i) ==
    /\ \A j \in 1..i : chain[j] # NoHistory
    /\ Sufficient(chain[i], histories[chain[i]])

FirstUsable(chain, histories, i) ==
    Usable(chain, histories, i) /\ \A j \in 1..(i - 1) : ~Usable(chain, histories, j)

ChosenLevel(policy, histories) ==
    LET chain == AllowedChain(policy) IN
    IF \E i \in 1..Len(chain) : FirstUsable(chain, histories, i)
    THEN chain[CHOOSE i \in 1..Len(chain) : FirstUsable(chain, histories, i)]
    ELSE NoHistory

\* DemandMetrics of a level; without history they are only zeroes.
Metrics == [avg3: Int, avg6: Int, months: Nat]
MetricsAt(level, histories) ==
    IF level = NoHistory THEN {[avg3 |-> 0, avg6 |-> 0, months |-> 0]}
    ELSE LET h == histories[level] IN
         [avg3: Nearest(Sales3(h), 3), avg6: Nearest(Sales6(h), 6), months: {ActiveMonths(h)}]

\* target_reserve_qty.
Targets(demand, policy) == Nearest(demand * policy.months * policy.factor, 100)
=============================================================================
