---------------------------- MODULE ReserveEngine ----------------------------
(***************************************************************************)
(* calculate_reserve_preview for one SKU: every DIY client gets a demand   *)
(* and a target, then the SKU's stock and inbound are dealt out client by  *)
(* client, by priority.  The code does the same for each SKU of the scope, *)
(* each with a pool of its own.                                            *)
(***************************************************************************)
EXTENDS ReserveDemand, Functions

CONSTANTS
    Client,     \* the active DIY clients of the scope
    NameRank,   \* the alphabetical order of their names
    Dataset     \* what load_reserve_dataset may find, and the request

ASSUME ClientAssumption == IsFiniteSet(Client)
ASSUME NameRankAssumption == NameRank \in [Client -> Nat]

\* The policies, the sales of each fallback level as each client sees them, the free
\* stock and the confirmed inbound within the horizon.  An import only warns of a negative
\* stock, and of a negative delivery not even that.
ASSUME DatasetAssumption ==
    Dataset \subseteq [policies: [Client -> Policy], sales: [Client -> [Level -> History]],
                       request: Request, free: Int, inbound: Int]

ReserveStatus ==
    {"healthy", "warning", "critical", "no_history", "inactive", "overstocked"}

Decision == [policy: Effective, level: Level \cup {NoHistory}, metrics: Metrics,
             demand: Nat, target: Int]
Supply == [free: Int, inbound: Int]
Row == [free: Int, inbound: Int, shortage: Nat, status: ReserveStatus]

VARIABLES
    stored,     \* the policy of each client
    history,    \* sales by client and fallback level
    request,
    pool,       \* the supply of the SKU
    planned,    \* whether pre_allocation has been computed
    decision,   \* pre_allocation, by client
    remaining,  \* what is left of the pool
    rows        \* computed_rows, for the clients served so far

vars == <<stored, history, request, pool, planned, decision, remaining, rows>>
inputs == <<stored, history, request, pool>>

TypeOK ==
    /\ stored \in [Client -> Policy]
    /\ history \in [Client -> [Level -> History]]
    /\ request \in Request
    /\ pool \in Supply
    /\ planned \in BOOLEAN
    /\ planned => decision \in [Client -> Decision]
    /\ remaining \in Supply
    /\ DOMAIN rows \subseteq Client
    /\ rows \in [DOMAIN rows -> Row]

\* _build_supply_pool: inbound counts only if the request asks for it.
SupplyPool(free, inbound, req) ==
    [free |-> free, inbound |-> IF req.inbound THEN inbound ELSE 0]

Init ==
    /\ \E d \in Dataset :
         /\ stored = d.policies
         /\ history = d.sales
         /\ request = d.request
         /\ pool = SupplyPool(d.free, d.inbound, d.request)
    /\ planned = FALSE
    /\ decision = [c \in {} |-> {}]
    /\ remaining = pool
    /\ rows = [c \in {} |-> {}]

-----------------------------------------------------------------------------
Decisions(c) ==
    LET policy == EffectivePolicy(stored[c], request)
        level == ChosenLevel(policy, history[c])
    IN UNION {UNION {{[policy |-> policy, level |-> level, metrics |-> m,
                       demand |-> d, target |-> t] :
                        t \in Targets(d, policy)} :
                     d \in Compute(EffectiveStrategy(request), m)} :
              m \in MetricsAt(level, history[c])}

\* The first loop of calculate_reserve_preview.
Plan ==
    /\ ~planned /\ planned' = TRUE
    /\ \E chosen \in [Client -> UNION {Decisions(c) : c \in Client}] :
         /\ \A c \in Client : chosen[c] \in Decisions(c)
         /\ decision' = chosen
    /\ UNCHANGED <<inputs, remaining, rows>>

\* Mutant: the clients are served in the order of their names only.
ServedByName(a, b) == NameRank[a] < NameRank[b]

\* The sort key of ordered_rows.
ServedBefore(a, b) ==
    LET x == decision[a]
        y == decision[b]
    IN \/ x.policy.priority < y.policy.priority
       \/ /\ x.policy.priority = y.policy.priority
          /\ \/ x.target > y.target
             \/ x.target = y.target /\ NameRank[a] < NameRank[b]

Shortage(target, free, inbound) == Larger(target - (free + inbound), 0)

\* Mutant: inbound is for those who got no stock at all.
InboundWithoutStock(target, free, left) == IF free > 0 THEN 0 ELSE Smaller(left, target)

\* allocated_inbound_qty: what stock leaves open.
AllocatedInbound(target, free, left) == Smaller(left, Larger(target - free, 0))

\* coverage_months, in tenths of a month.
Coverages(available, demand) ==
    IF demand > 0 THEN Nearest(10 * available, demand) ELSE {0}

\* shortage_ratio >= critical_shortage_ratio; the ratio to a target of 0 counts as 1.
HalfIsShort(d, shortage) == d.target >= 0 /\ 2 * shortage >= d.target

\* Mutant: the rounded coverage decides whether the target is reached.
ShortStatusesByCoverage(d, shortage, coverage) ==
    LET bound == d.policy.months * d.policy.factor IN
    IF 10 * coverage >= bound THEN {"healthy"}
    ELSE IF HalfIsShort(d, shortage) THEN {"critical"}
    ELSE {"warning"}

\* The two answers of coverage < target_coverage * critical_coverage_ratio differ on
\* a tie with the rounding of the product.
ShortStatuses(d, shortage, coverage) ==
    LET bound == d.policy.months * d.policy.factor IN
    IF HalfIsShort(d, shortage) \/ 25 * coverage < bound THEN {"critical"}
    ELSE IF 25 * coverage = bound THEN {"critical", "warning"}
    ELSE {"warning"}

CoveredStatuses(d, coverage) ==
    LET bound == 2 * d.policy.months * d.policy.factor IN
    IF 10 * coverage > bound THEN {"overstocked"}
    ELSE IF 10 * coverage = bound THEN {"overstocked", "healthy"}
    ELSE {"healthy"}

\* _classify_status.
Statuses(d, shortage, coverage) ==
    IF ~d.policy.active THEN {"inactive"}
    ELSE IF d.demand <= 0
         THEN IF d.level = NoHistory THEN {"no_history"} ELSE {"healthy"}
    ELSE IF shortage <= 0 THEN CoveredStatuses(d, coverage)
    ELSE ShortStatuses(d, shortage, coverage)

\* Mutant: given inbound stays in the pool.
LeftWithInbound(left, free, inbound) ==
    [free |-> left.free - free, inbound |-> left.inbound]

LeftInPool(left, free, inbound) ==
    [free |-> left.free - free, inbound |-> left.inbound - inbound]

\* The second loop: the next client in the order is served from what is left.
Serve(c) ==
    LET d == decision[c]
        free == Smaller(remaining.free, d.target)
        inbound == AllocatedInbound(d.target, free, remaining.inbound)
        shortage == Shortage(d.target, free, inbound)
    IN
    /\ planned /\ c \notin DOMAIN rows
    /\ \A b \in Client \ DOMAIN rows : ~ServedBefore(b, c)
    /\ remaining' = LeftInPool(remaining, free, inbound)
    /\ \E coverage \in Coverages(free + inbound, d.demand) :
         \E status \in Statuses(d, shortage, coverage) :
           rows' = [a \in DOMAIN rows \cup {c} |->
                      IF a = c THEN [free |-> free, inbound |-> inbound,
                                     shortage |-> shortage, status |-> status]
                      ELSE rows[a]]
    /\ UNCHANGED <<inputs, planned, decision>>

Next == Plan \/ \E c \in Client : Serve(c)

Spec == Init /\ [][Next]_vars

-----------------------------------------------------------------------------
Served == DOMAIN rows

\* No client has a target below nothing, as months or a safety factor below nothing make
\* it: such a client adds to the pool.
NoNegativeTarget == \A c \in DOMAIN decision : decision[c].target >= 0

\* A client lacks something that the pool might give: more than what a negative delivery,
\* dealt out like another, takes from the first client served.
Lacks(c) == rows[c].shortage > Larger(-rows[c].inbound, 0)

\* A scarce SKU goes to the client of higher priority first (docs/diy-policies.md):
\* nobody gets anything if a client of higher priority lacks something.
NoPriorityInversion ==
    NoNegativeTarget =>
        \A a, b \in Served :
            decision[a].policy.priority < decision[b].policy.priority /\ Lacks(a)
                => rows[b].free <= 0 /\ rows[b].inbound = 0

\* Inbound is touched only when the free stock has been given out.
InboundAfterStock ==
    NoNegativeTarget => \A c \in Served : rows[c].inbound > 0 => remaining.free <= 0

\* Nobody lacks something while something is left in the pool.
NothingIsHeldBack ==
    NoNegativeTarget /\ (\E c \in Served : Lacks(c)) =>
        remaining.free <= 0 /\ remaining.inbound = 0

\* The same physical stock is never promised twice (docs/reserve-engine.md): what
\* the rows show and what is left add up to the pool.
StockIsSharedOnce ==
    /\ SumFunction([c \in Served |-> rows[c].free]) + remaining.free = pool.free
    /\ SumFunction([c \in Served |-> rows[c].inbound]) + remaining.inbound = pool.inbound

\* A demand is shown wherever there is enough history of whole units: rounding the
\* averages and blending them never makes a selling SKU look dead.
HistoryMeansDemand ==
    planned => \A c \in Client : decision[c].level # NoHistory => decision[c].demand > 0

\* The conservative strategy asks for no less than the one that was used, of the same
\* averages.
ConservativeIsHighest ==
    planned => \A c \in Client :
        \A d \in Compute("conservative_fallback", decision[c].metrics) : d >= decision[c].demand

\* The status agrees with the quantities of the row: a client at risk is short, one
\* that is short by half or more of its target is critical, and a healthy client's
\* target is covered (docs/reserve-engine.md), even when negative stock takes
\* something away from a client who needs nothing.  A target below nothing has no half.
StatusTellsShortage ==
    \A c \in Served :
        /\ rows[c].status \in {"warning", "critical"} => rows[c].shortage > 0
        /\ rows[c].shortage > 0 /\ rows[c].status = "warning" /\ decision[c].target >= 0
             => 2 * rows[c].shortage < decision[c].target
        /\ rows[c].status = "healthy" => rows[c].shortage = 0

(***************************************************************************)
(* What docs/reserve-engine.md says, and a run refutes.                    *)
(***************************************************************************)
\* The strategy of the request, which the calculator's page lets one choose, is the
\* one that computes the demand.
AskedStrategyIsUsed ==
    planned => \A c \in Client :
        decision[c].demand \in Compute(request.asked, decision[c].metrics)
=============================================================================
