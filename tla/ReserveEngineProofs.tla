------------------------- MODULE ReserveEngineProofs -------------------------
(***************************************************************************)
(* What ReserveEngine guarantees for any clients, policies and histories.  *)
(***************************************************************************)
EXTENDS ReserveEngine, FiniteSetTheorems, TLAPS

-----------------------------------------------------------------------------
(***************************************************************************)
(* Sums over the clients, whatever the order in which SumFunctionOnSet of  *)
(* the community modules takes them.                                       *)
(***************************************************************************)
First(s) == CHOOSE x \in s : TRUE
Plus(a, b) == a + b
Sums == INSTANCE FoldTheorems WITH Op <- Plus, Base <- 0, Choose <- First
Rest(s) == s \ {First(s)}

LEMMA FirstOfSome == ASSUME NEW s, s # {} PROVE First(s) \in s
BY DEF First

LEMMA SmallestSet ==
  ASSUME NEW S, IsFiniteSet(S), NEW B, B \subseteq SUBSET S, B # {}
  PROVE  \E T \in B : \A U \in B : U \subseteq T => U = T
<1>1. Sums!IsFiniteSet(S)
  BY Zenon DEF IsFiniteSet, Sums!IsFiniteSet
<1> QED
  BY <1>1, Sums!SmallestSet

\* The sum obeys the recursion.
LEMMA SumAt ==
  ASSUME NEW f, NEW S, IsFiniteSet(S)
  PROVE  SumFunctionOnSet(f, S) = IF S = {} THEN 0 ELSE f[First(S)] + SumFunctionOnSet(f, Rest(S))
<1>1. Sums!IsFiniteSet(S) /\ Sums!Chooses(S)
  <2>1. Sums!IsFiniteSet(S)
    BY Zenon DEF IsFiniteSet, Sums!IsFiniteSet
  <2> QED
    BY <2>1, FirstOfSome DEF Sums!Chooses
<1>2. \A T : SumFunctionOnSet(f, T) = Sums!Folded(f, T)
  BY Zenon DEF SumFunctionOnSet, FoldFunctionOnSet, MapThenFoldSet,
               Sums!Folded, Sums!IsFold, Sums!Rest, First, Plus
<1>3. Sums!Folded(f, S) = IF S = {} THEN 0 ELSE f[First(S)] + Sums!Folded(f, Rest(S))
  BY <1>1, Sums!FoldedAt DEF Plus, Rest, Sums!Rest
<1> QED
  BY <1>2, <1>3

\* It is an integer if the values are.
LEMMA SumIsInteger ==
  ASSUME NEW S, IsFiniteSet(S), NEW f, \A x \in S : f[x] \in Int
  PROVE  SumFunctionOnSet(f, S) \in Int
<1> DEFINE B == {T \in SUBSET S : SumFunctionOnSet(f, T) \notin Int}
<1>1. SUFFICES ASSUME B # {} PROVE FALSE
  OBVIOUS
<1>2. PICK T \in B : \A U \in B : U \subseteq T => U = T
  <2> HIDE DEF B
  <2>1. B \subseteq SUBSET S
    BY DEF B
  <2> QED
    BY <1>1, <2>1, SmallestSet
<1>3. IsFiniteSet(T)
  BY FS_Subset
<1>4. T # {}
  BY <1>3, SumAt
<1>5. First(T) \in S /\ Rest(T) \in SUBSET S /\ Rest(T) \subseteq T /\ Rest(T) # T
  BY <1>4, FirstOfSome DEF Rest
<1>6. SumFunctionOnSet(f, Rest(T)) \in Int
  BY <1>2, <1>5
<1>7. SumFunctionOnSet(f, T) = f[First(T)] + SumFunctionOnSet(f, Rest(T))
  BY <1>3, <1>4, SumAt
<1> QED
  BY <1>5, <1>6, <1>7

\* Another element adds its value, whatever the order in which they are taken.
LEMMA SumGrows ==
  ASSUME NEW S, IsFiniteSet(S), NEW f, \A x \in S : f[x] \in Int,
         NEW T \in SUBSET S, NEW c \in S \ T
  PROVE  SumFunctionOnSet(f, T \cup {c}) = SumFunctionOnSet(f, T) + f[c]
<1> DEFINE Sum(U) == SumFunctionOnSet(f, U)
           B == {U \in SUBSET S : \E d \in S \ U : Sum(U \cup {d}) # Sum(U) + f[d]}
<1>1. SUFFICES ASSUME B # {} PROVE FALSE
  OBVIOUS
<1>2. PICK U \in B : \A V \in B : V \subseteq U => V = U
  <2> HIDE DEF B
  <2>1. B \subseteq SUBSET S
    BY DEF B
  <2> QED
    BY <1>1, <2>1, SmallestSet
<1>3. PICK d \in S \ U : Sum(U \cup {d}) # Sum(U) + f[d]
  OBVIOUS
<1> DEFINE W == U \cup {d}
           x == First(W)
<1>4. \A V \in SUBSET S : IsFiniteSet(V) /\ Sum(V) \in Int
  BY FS_Subset, SumIsInteger
<1>5. W \in SUBSET S /\ W # {} /\ U \in SUBSET S /\ Sum(W) # Sum(U) + f[d]
  BY <1>3
<1>6. x \in W /\ Sum(W) = f[x] + Sum(W \ {x})
  BY <1>4, <1>5, FirstOfSome, SumAt DEF Rest
<1>7. \A V \in SUBSET S, e \in S : V \subseteq U /\ V # U /\ e \notin V => Sum(V \cup {e}) = Sum(V) + f[e]
  BY <1>2
<1>a. W = U \cup {d}
  OBVIOUS
<1> HIDE DEF Sum, B, x, W
<1>8. CASE x = d
  <2>1. W \ {x} = U
    BY <1>8, <1>a
  <2>2. f[d] \in Int /\ Sum(U) \in Int
    BY <1>4, <1>5
  <2>3. Sum(W) = f[d] + Sum(U)
    BY <1>6, <1>8, <2>1, Zenon
  <2>4. f[d] + Sum(U) = Sum(U) + f[d]
    BY <2>2
  <2> QED
    BY <1>5, <2>3, <2>4, Zenon
<1>9. CASE x # d
  <2> DEFINE V == U \ {x}
  <2>1. x \in U /\ V \in SUBSET S /\ V \subseteq U /\ V # U /\ x \notin V /\ d \notin V /\ x \in S
    BY <1>5, <1>6, <1>9, <1>a
  <2>2. W \ {x} = V \cup {d} /\ U = V \cup {x}
    BY <1>9, <1>a, <2>1
  <2> HIDE DEF V
  <2>3. Sum(V \cup {d}) = Sum(V) + f[d] /\ Sum(V \cup {x}) = Sum(V) + f[x]
    BY <1>7, <2>1
  <2>4. f[x] \in Int /\ f[d] \in Int /\ Sum(V) \in Int
    BY <1>4, <2>1
  <2>5. Sum(W) = f[x] + (Sum(V) + f[d])
    BY <1>6, <2>2, <2>3, Zenon
  <2>6. Sum(U) = Sum(V) + f[x]
    BY <2>2, <2>3, Zenon
  <2>7. f[x] + (Sum(V) + f[d]) = (Sum(V) + f[x]) + f[d]
    BY <2>4
  <2> QED
    BY <1>5, <2>5, <2>6, <2>7, Zenon
<1> QED
  BY <1>8, <1>9

\* Functions that agree on a set have one sum over it.
LEMMA SumOfEqual ==
  ASSUME NEW S, IsFiniteSet(S), NEW f, NEW h, \A x \in S : f[x] = h[x]
  PROVE  SumFunctionOnSet(f, S) = SumFunctionOnSet(h, S)
<1> DEFINE B == {T \in SUBSET S : SumFunctionOnSet(f, T) # SumFunctionOnSet(h, T)}
<1>1. SUFFICES ASSUME B # {} PROVE FALSE
  OBVIOUS
<1>2. PICK T \in B : \A U \in B : U \subseteq T => U = T
  <2> HIDE DEF B
  <2>1. B \subseteq SUBSET S
    BY DEF B
  <2> QED
    BY <1>1, <2>1, SmallestSet
<1>3. IsFiniteSet(T)
  BY FS_Subset
<1>4. T # {}
  BY <1>3, SumAt
<1>5. First(T) \in S /\ Rest(T) \in SUBSET S /\ Rest(T) \subseteq T /\ Rest(T) # T
  BY <1>4, FirstOfSome DEF Rest
<1>6. SumFunctionOnSet(f, Rest(T)) = SumFunctionOnSet(h, Rest(T))
  BY <1>2, <1>5
<1> QED
  BY <1>3, <1>4, <1>5, <1>6, SumAt

-----------------------------------------------------------------------------
(***************************************************************************)
(* The arithmetic of ReserveDemand.                                        *)
(***************************************************************************)
\* Rounding a quotient gives an integer.
LEMMA NearestIsInteger ==
    ASSUME NEW n \in Int, NEW d \in Nat \ {0}
    PROVE  Nearest(n, d) \subseteq Int /\ (n >= 0 => Nearest(n, d) \subseteq Nat)
BY DEF Nearest

\* So are the sums of sales.
LEMMA SalesAreIntegers ==
    ASSUME NEW h \in History
    PROVE  Sales3(h) \in Int /\ Sales6(h) \in Int
<1>1. \A m \in Month : h[m] \in Int
  BY DEF History
<1>2. h[1] \in Int /\ h[2] \in Int /\ h[3] \in Int /\ h[4] \in Int /\ h[5] \in Int
      /\ h[6] \in Int
  BY <1>1 DEF Month
<1> QED
  BY <1>2 DEF Sales3, Sales6

\* Averages of three and six months are integers; the latter is not negative if
\* more was sold than returned.
LEMMA AveragesAreIntegers ==
    ASSUME NEW h \in History
    PROVE  /\ Nearest(Sales3(h), 3) \subseteq Int /\ Nearest(Sales6(h), 6) \subseteq Int
           /\ Sales6(h) > 0 => Nearest(Sales6(h), 6) \subseteq Nat
BY SalesAreIntegers, NearestIsInteger

\* The blend of two averages is rounded to nothing above the larger one.
LEMMA BlendIsBetween ==
    ASSUME NEW a \in Int, NEW b \in Int, NEW q \in Nearest(65 * a + 35 * b, 100)
    PROVE  q \in Int /\ q <= Larger(a, b) /\ (a > 0 /\ b > 0 => q >= 0)
BY DEF Nearest, Larger

\* Of a level with enough history more was sold than returned, and its metrics say so.
LEMMA MetricsType ==
    ASSUME NEW h \in [Level -> History], NEW l \in Level \cup {NoHistory},
           l # NoHistory => Sales6(h[l]) > 0, NEW m \in MetricsAt(l, h)
    PROVE  m \in Metrics /\ m.avg6 >= 0
<1>1. CASE l = NoHistory
  BY <1>1 DEF MetricsAt, Metrics
<1>2. CASE l # NoHistory
  <2>1. l \in Level /\ h[l] \in History /\ Sales6(h[l]) > 0
    BY <1>2
  <2>2. /\ m \in [avg3: Nearest(Sales3(h[l]), 3), avg6: Nearest(Sales6(h[l]), 6),
                  months: {ActiveMonths(h[l])}]
    BY <1>2 DEF MetricsAt
  <2>3. ActiveMonths(h[l]) \in Nat
    <3>1. IsFiniteSet(Month)
      <4>1. \A a, b \in Int : IsFiniteSet(a..b)
        BY FS_Interval
      <4>2. 1 \in Int /\ 6 \in Int
        OBVIOUS
      <4> QED
        BY <4>1, <4>2, Zenon DEF Month
    <3>2. IsFiniteSet({k \in Month : h[l][k] > 0})
      BY <3>1, FS_Subset
    <3> QED
      BY <3>2, FS_CardinalityType DEF ActiveMonths
  <2>4. Nearest(Sales3(h[l]), 3) \subseteq Int /\ Nearest(Sales6(h[l]), 6) \subseteq Nat
    BY <2>1, AveragesAreIntegers
  <2> QED
    BY <2>2, <2>3, <2>4 DEF Metrics
<1> QED
  BY <1>1, <1>2

\* Each strategy answers with a demand that is not negative, if the average of six months
\* is not.
LEMMA AnswersAreNatural ==
    ASSUME NEW a3 \in Int, NEW a6 \in Nat, NEW months
    PROVE  /\ Weighted(a3, a6) \subseteq Nat
           /\ StrictRecent(a3, a6, months) \subseteq Nat
           /\ Conservative(a3, a6) \subseteq Nat
<1>1. Weighted(a3, a6) \subseteq Nat
  <2>1. CASE a3 > 0 /\ a6 > 0
    <3>1. ASSUME NEW q \in Nearest(65 * a3 + 35 * a6, 100) PROVE q \in Nat
      <4>1. a3 \in Int /\ a6 \in Int /\ a3 > 0 /\ a6 > 0
        BY <2>1
      <4>2. q \in Int /\ q >= 0
        BY <4>1, BlendIsBetween
      <4> QED
        BY <4>2
    <3> QED
      BY <2>1, <3>1 DEF Weighted
  <2>2. CASE ~(a3 > 0 /\ a6 > 0)
    BY <2>2 DEF Weighted
  <2> QED
    BY <2>1, <2>2
<1>2. StrictRecent(a3, a6, months) \subseteq Nat
  BY DEF StrictRecent, Larger
<1>3. Conservative(a3, a6) \subseteq Nat
  BY DEF Conservative, Larger
<1> QED
  BY <1>1, <1>2, <1>3

LEMMA DemandsAreNatural ==
    ASSUME NEW m \in Metrics, m.avg6 >= 0, NEW s \in Strategy
    PROVE  Compute(s, m) \subseteq Nat
<1>1. m.avg3 \in Int /\ m.avg6 \in Nat
  BY DEF Metrics
<1> QED
  BY <1>1, AnswersAreNatural DEF Compute, Strategy

\* No strategy asks for more than the conservative one, of the same averages.
LEMMA ConservativeDemandIsHighest ==
    ASSUME NEW m \in Metrics, m.avg6 >= 0, NEW s \in Strategy,
           NEW q \in Compute(s, m), NEW d \in Compute("conservative_fallback", m)
    PROVE  d >= q
<1> DEFINE a3 == m.avg3
           a6 == m.avg6
<1>1. q \in Weighted(a3, a6) \/ q \in StrictRecent(a3, a6, m.months) \/ q \in Conservative(a3, a6)
  BY DEF Compute, Strategy
<1>2. d = Larger(a3, a6)
  BY DEF Compute, Conservative
<1>3. a3 \in Int /\ a6 \in Nat
  BY DEF Metrics
<1> HIDE DEF a3, a6
<1>4. CASE q \in Weighted(a3, a6)
  <2>1. CASE a3 > 0 /\ a6 > 0
    <3>1. q \in Int /\ q <= Larger(a3, a6)
      BY <1>3, <1>4, <2>1, BlendIsBetween DEF Weighted
    <3> QED
      BY <1>2, <1>3, <3>1 DEF Larger
  <2>2. CASE ~(a3 > 0 /\ a6 > 0)
    BY <1>2, <1>3, <1>4, <2>2 DEF Weighted, Larger
  <2> QED
    BY <2>1, <2>2
<1>5. CASE q \in StrictRecent(a3, a6, m.months)
  BY <1>2, <1>3, <1>5 DEF StrictRecent, Larger
<1>6. CASE q \in Conservative(a3, a6)
  BY <1>2, <1>3, <1>6 DEF Conservative, Larger
<1> QED
  BY <1>1, <1>4, <1>5, <1>6

\* The default chain is a chain.
LEMMA DefaultChainType == DefaultChain \in Seq(Level \cup {NoHistory})
<1> DEFINE S == Level \cup {NoHistory}
<1>1. /\ "client_sku" \in S /\ "client_category" \in S /\ "global_sku" \in S
      /\ "category_baseline" \in S /\ NoHistory \in S
  BY DEF Level
<1> HIDE DEF S
<1>2. \A a, b, c, d, e \in S : <<a, b, c, d, e>> \in Seq(S)
  OBVIOUS
<1>3. DefaultChain \in Seq(S)
  BY <1>1, <1>2 DEF DefaultChain
<1> QED
  BY <1>3 DEF S

\* The policy that takes effect is a policy.
LEMMA EffectivePolicyType ==
    ASSUME NEW p \in Policy, NEW r \in Request
    PROVE  EffectivePolicy(p, r) \in Effective
<1>1. DefaultPolicy(r) \in Effective
  BY DefaultChainType DEF DefaultPolicy, Effective, Request, Or
<1>2. Len(p.chain) \in Nat
  BY DEF Policy
<1>4. /\ p.months \in Int /\ p.factor \in Int /\ p.priority \in Int
      /\ p.category \in Override /\ p.sku \in Override
  BY DEF Policy
<1>5. \A o \in Override, d \in Int :
        Given(o, "months", d) \in Int /\ Given(o, "factor", d) \in Int /\ Given(o, "priority", d) \in Int
  BY DEF Given, Override
<1>3. StoredPolicy(p, r) \in Effective
  <2>1. /\ Overridden(p, "months") \in Int /\ Overridden(p, "factor") \in Int
        /\ Overridden(p, "priority") \in Int
    BY <1>4, <1>5 DEF Overridden
  <2> QED
    BY <1>2, <2>1 DEF StoredPolicy, Effective, Policy, Request, Or
<1> QED
  BY <1>1, <1>3 DEF EffectivePolicy

\* The chosen level is one of the chain's, and one with enough history.
LEMMA ChosenLevelType ==
    ASSUME NEW p \in Effective, NEW h \in [Level -> History]
    PROVE  /\ ChosenLevel(p, h) \in Level \cup {NoHistory}
           /\ ChosenLevel(p, h) # NoHistory => Sales6(h[ChosenLevel(p, h)]) > 0
<1> DEFINE chain == AllowedChain(p)
           whole == IF p.chain = <<>> THEN DefaultChain ELSE p.chain
           last == Smaller(Len(whole), Larger(p.depth, 1))
<1>1. whole \in Seq(Level \cup {NoHistory})
  BY DefaultChainType DEF Effective
<1>2. last \in 0..Len(whole)
  <2>1. Len(whole) \in Nat
    BY <1>1
  <2>2. p.depth \in Int
    BY DEF Effective
  <2> QED
    BY <2>1, <2>2 DEF Smaller, Larger
<1>3. chain = SubSeq(whole, 1, last)
  BY DEF AllowedChain
<1>4. chain \in Seq(Level \cup {NoHistory})
  BY <1>1, <1>2, <1>3
<1>5. \A i \in 1..Len(chain) : chain[i] \in Level \cup {NoHistory}
  BY <1>4
<1> HIDE DEF chain
<1>6. ChosenLevel(p, h) = IF \E i \in 1..Len(chain) : FirstUsable(chain, h, i)
                          THEN chain[CHOOSE i \in 1..Len(chain) : FirstUsable(chain, h, i)]
                          ELSE NoHistory
  BY DEF ChosenLevel, chain
<1>7. CASE \E i \in 1..Len(chain) : FirstUsable(chain, h, i)
  <2> DEFINE i == CHOOSE i \in 1..Len(chain) : FirstUsable(chain, h, i)
  <2>1. i \in 1..Len(chain) /\ FirstUsable(chain, h, i)
    BY <1>7
  <2>2. ChosenLevel(p, h) = chain[i]
    BY <1>6, <1>7
  <2> HIDE DEF i
  <2>3. Sales6(h[chain[i]]) > 0
    BY <2>1 DEF FirstUsable, Usable, Sufficient
  <2> QED
    BY <1>5, <2>1, <2>2, <2>3
<1> QED
  BY <1>6, <1>7

\* What is decided for a client is a Decision: demand and target are not negative.
LEMMA DecisionType ==
    ASSUME TypeOK, NEW c \in Client
    PROVE  Decisions(c) \subseteq Decision
<1> DEFINE policy == EffectivePolicy(stored[c], request)
           level == ChosenLevel(policy, history[c])
<1>1. stored[c] \in Policy /\ request \in Request /\ history[c] \in [Level -> History]
  BY DEF TypeOK
<1>2. policy \in Effective
  BY <1>1, EffectivePolicyType
<1> HIDE DEF policy
<1>3. /\ level \in Level \cup {NoHistory}
      /\ level # NoHistory => Sales6(history[c][level]) > 0
  BY <1>1, <1>2, ChosenLevelType
<1> HIDE DEF level
<1>4. ASSUME NEW m \in MetricsAt(level, history[c]), NEW d \in Compute(EffectiveStrategy(request), m),
             NEW t \in Targets(d, policy)
      PROVE  m \in Metrics /\ d \in Nat /\ t \in Int
  <2>1. EffectiveStrategy(request) \in Strategy
    BY <1>1 DEF Request, EffectiveStrategy, Strategy
  <2>2. m \in Metrics /\ d \in Nat
    BY <1>1, <1>3, <2>1, MetricsType, DemandsAreNatural
  <2>3. policy.months \in Int /\ policy.factor \in Int
    BY <1>2 DEF Effective
  <2>4. d * policy.months * policy.factor \in Int
    BY <2>2, <2>3
  <2> QED
    BY <2>2, <2>4, NearestIsInteger DEF Targets
<1>5. Decisions(c) = UNION {UNION {{[policy |-> policy, level |-> level, metrics |-> m,
                                     demand |-> d, target |-> t] :
                                      t \in Targets(d, policy)} :
                                   d \in Compute(EffectiveStrategy(request), m)} :
                            m \in MetricsAt(level, history[c])}
  BY Zenon DEF Decisions, policy, level
<1> QED
  BY <1>2, <1>3, <1>4, <1>5 DEF Decision

\* A decision of a client is of its policy, its level, and the metrics of that level.
LEMMA DecisionParts ==
    ASSUME NEW c \in Client, NEW x \in Decisions(c)
    PROVE  /\ x.level = ChosenLevel(EffectivePolicy(stored[c], request), history[c])
           /\ x.metrics \in MetricsAt(x.level, history[c])
           /\ x.demand \in Compute(EffectiveStrategy(request), x.metrics)
BY DEF Decisions

-----------------------------------------------------------------------------
(***************************************************************************)
(* The deal.  Clients are served in the order of ServedBefore, and once    *)
(* somebody is short the pool is empty: the two facts together say that    *)
(* whoever comes later gets nothing.                                       *)
(***************************************************************************)
\* Whoever has been served comes before whoever has not.
ServedInOrder ==
    \A b \in Served, c \in Client \ Served : ~ServedBefore(c, b)

\* NoPriorityInversion, for the whole order.
NothingAfterShortage ==
    NoNegativeTarget =>
        \A a, b \in Served :
            ServedBefore(a, b) /\ Lacks(a) => rows[b].free <= 0 /\ rows[b].inbound = 0

OnlyPlannedAreServed == ~planned => Served = {}

\* The decisions are those the inputs lead to.
DecisionsStand == planned => \A c \in Client : decision[c] \in Decisions(c)

\* The status of a row is one that _classify_status gives for its quantities.
StatusesFollow ==
    \A c \in Served : \E coverage \in Int :
        rows[c].status \in Statuses(decision[c], rows[c].shortage, coverage)

IInv ==
    /\ TypeOK
    /\ OnlyPlannedAreServed
    /\ DecisionsStand
    /\ ServedInOrder
    /\ NothingIsHeldBack
    /\ InboundAfterStock
    /\ NothingAfterShortage
    /\ StockIsSharedOnce
    /\ StatusesFollow

\* What the rows add up to while nobody has been served, and when one more client is.
LEMMA SumOfNone == ASSUME NEW f, DOMAIN f = {} PROVE SumFunction(f) = 0
BY SumAt, FS_EmptySet DEF SumFunction

LEMMA SumWithOneMore ==
    ASSUME NEW f, IsFiniteSet(DOMAIN f), NEW c, c \notin DOMAIN f, NEW h, DOMAIN h = DOMAIN f \cup {c},
           \A x \in DOMAIN f : h[x] = f[x] /\ f[x] \in Int, h[c] \in Int
    PROVE  SumFunction(h) = SumFunction(f) + h[c] /\ SumFunction(f) \in Int
<1> DEFINE S == DOMAIN f \cup {c}
<1>1. IsFiniteSet(S)
  BY FS_AddElement
<1>2. \A x \in S : h[x] \in Int
  OBVIOUS
<1>3. SumFunctionOnSet(h, S) = SumFunctionOnSet(h, DOMAIN f) + h[c]
  BY <1>1, <1>2, SumGrows
<1>4. SumFunctionOnSet(f, DOMAIN f) = SumFunctionOnSet(h, DOMAIN f)
  BY SumOfEqual
<1>5. SumFunctionOnSet(f, DOMAIN f) \in Int
  BY SumIsInteger
<1> QED
  BY <1>3, <1>4, <1>5 DEF SumFunction

\* The invariant holds before anything is computed.
LEMMA InitInvariant == Init => IInv
<1> SUFFICES ASSUME Init PROVE IInv
  OBVIOUS
<1>1. Served = {}
  BY DEF Init, Served
<1>2. PICK d \in Dataset : /\ stored = d.policies
                          /\ history = d.sales
                          /\ request = d.request
                          /\ pool = SupplyPool(d.free, d.inbound, d.request)
  BY DEF Init
<1>3. /\ d.policies \in [Client -> Policy] /\ d.sales \in [Client -> [Level -> History]]
      /\ d.request \in Request /\ d.free \in Int /\ d.inbound \in Int
  BY DatasetAssumption
<1>5. pool \in Supply
  BY <1>2, <1>3 DEF SupplyPool, Supply
<1>4. TypeOK
  BY <1>1, <1>2, <1>3, <1>5 DEF Init, TypeOK, Served
<1>6. StockIsSharedOnce
  <2>1. SumFunction([c \in Served |-> rows[c].free]) = 0 /\ SumFunction([c \in Served |-> rows[c].inbound]) = 0
    BY <1>1, SumOfNone
  <2>2. remaining = pool /\ pool.free \in Int /\ pool.inbound \in Int
    BY <1>5 DEF Init, Supply
  <2> QED
    BY <2>1, <2>2 DEF StockIsSharedOnce
<1> QED
  BY <1>1, <1>4, <1>6 DEF Init, IInv, OnlyPlannedAreServed, DecisionsStand, ServedInOrder, NothingIsHeldBack,
     InboundAfterStock, NothingAfterShortage, StatusesFollow

\* Planning preserves it: nobody has been served yet.
LEMMA PlanPreserves == ASSUME IInv, Plan PROVE IInv'
<1>1. Served = {} /\ Served' = {}
  BY DEF IInv, OnlyPlannedAreServed, Plan, Served
<1>2. decision' \in [Client -> Decision]
  BY DecisionType DEF Plan, IInv
<1>3. TypeOK'
  BY <1>2 DEF IInv, TypeOK, Plan, inputs
<1>4. DecisionsStand'
  <2>1. \A c \in Client : Decisions(c)' = Decisions(c)
    BY DEF Plan, inputs, Decisions
  <2> QED
    BY <2>1 DEF Plan, DecisionsStand
<1>5. StockIsSharedOnce'
  BY DEF IInv, StockIsSharedOnce, Plan, inputs, Served
<1> QED
  BY <1>1, <1>3, <1>4, <1>5 DEF IInv, Plan, OnlyPlannedAreServed, ServedInOrder, NothingIsHeldBack,
     InboundAfterStock, NothingAfterShortage, StatusesFollow

\* What serving one client does to their row and to the pool.
LEMMA ServeEffect ==
    ASSUME IInv, NEW c \in Client, Serve(c)
    PROVE  /\ c \notin Served /\ Served' = Served \cup {c}
           /\ \A a \in Served : rows'[a] = rows[a]
           /\ rows'[c] \in Row
           /\ rows'[c].free = Smaller(remaining.free, decision[c].target)
           /\ rows'[c].inbound = AllocatedInbound(decision[c].target, rows'[c].free,
                                                  remaining.inbound)
           /\ rows'[c].shortage = Shortage(decision[c].target, rows'[c].free,
                                           rows'[c].inbound)
           /\ remaining' = LeftInPool(remaining, rows'[c].free, rows'[c].inbound)
           /\ remaining' \in Supply
           /\ rows' \in [DOMAIN rows' -> Row]
           /\ \E coverage \in Int : rows'[c].status \in Statuses(decision[c], rows'[c].shortage, coverage)
<1> DEFINE d == decision[c]
           free == Smaller(remaining.free, d.target)
           inbound == AllocatedInbound(d.target, free, remaining.inbound)
           shortage == Shortage(d.target, free, inbound)
<1>a. PICK coverage \in Coverages(free + inbound, d.demand) :
        \E status \in Statuses(d, shortage, coverage) :
          rows' = [a \in DOMAIN rows \cup {c} |->
                     IF a = c THEN [free |-> free, inbound |-> inbound,
                                    shortage |-> shortage, status |-> status]
                     ELSE rows[a]]
  BY DEF Serve
<1>0. PICK status \in Statuses(d, shortage, coverage) :
        rows' = [a \in DOMAIN rows \cup {c} |->
                   IF a = c THEN [free |-> free, inbound |-> inbound,
                                  shortage |-> shortage, status |-> status]
                   ELSE rows[a]]
  BY <1>a
<1>1. /\ status \in ReserveStatus
      /\ rows' = [a \in DOMAIN rows \cup {c} |->
                   IF a = c THEN [free |-> free, inbound |-> inbound,
                                  shortage |-> shortage, status |-> status]
                   ELSE rows[a]]
  BY <1>0 DEF Statuses, CoveredStatuses, ShortStatuses, ReserveStatus
<1>2. c \notin Served
  BY DEF Serve, Served
<1>3. d.target \in Int /\ d.demand \in Nat /\ remaining.free \in Int /\ remaining.inbound \in Int
  BY DEF Serve, IInv, TypeOK, Decision, Supply
<1>4. free \in Int /\ inbound \in Int /\ shortage \in Nat
  BY <1>3 DEF Smaller, Larger, AllocatedInbound, Shortage
<1>5. remaining' = LeftInPool(remaining, free, inbound)
  BY DEF Serve
<1>6. remaining' \in Supply
  BY <1>3, <1>4, <1>5 DEF LeftInPool, Supply
<1>11. coverage \in Int
  <2>1. 10 * (free + inbound) \in Int
    BY <1>4
  <2> QED
    BY <1>a, <1>3, <2>1, NearestIsInteger DEF Coverages
<1> HIDE DEF d, free, inbound, shortage
<1>7. rows'[c] = [free |-> free, inbound |-> inbound, shortage |-> shortage, status |-> status]
  BY <1>1
<1>8. rows'[c] \in Row
  BY <1>1, <1>4, <1>7 DEF Row
<1>9. Served' = Served \cup {c} /\ \A a \in Served : rows'[a] = rows[a]
  BY <1>1, <1>2 DEF Served
<1>10. rows' \in [DOMAIN rows' -> Row]
  BY <1>1, <1>4, <1>8 DEF IInv, TypeOK, Row
<1> QED
  BY <1>0, <1>2, <1>5, <1>6, <1>7, <1>8, <1>9, <1>10, <1>11 DEF d, free, inbound, shortage

\* Serving a client preserves it.
LEMMA ServePreserves == ASSUME IInv, NEW c \in Client, Serve(c) PROVE IInv'
<1>1. /\ c \notin Served /\ Served' = Served \cup {c}
      /\ \A a \in Served : rows'[a] = rows[a]
  BY ServeEffect
<1>2. UNCHANGED <<stored, history, request, pool, planned, decision>> /\ planned
  BY DEF Serve, inputs
<1>3. decision[c] \in Decision /\ remaining \in Supply /\ Served \subseteq Client
  BY <1>2 DEF IInv, TypeOK, Served
<1>4. decision[c].target \in Int /\ remaining.free \in Int /\ remaining.inbound \in Int
  BY <1>3 DEF Decision, Supply
<1>5. TypeOK'
  <2>1. remaining' \in Supply /\ rows' \in [DOMAIN rows' -> Row]
    BY ServeEffect
  <2>2. DOMAIN rows' \subseteq Client
    BY <1>1, <1>3 DEF Served
  <2> QED
    BY <1>2, <2>1, <2>2 DEF IInv, TypeOK
<1>6. OnlyPlannedAreServed'
  BY <1>2 DEF OnlyPlannedAreServed
<1>6a. DecisionsStand'
  BY <1>2 DEF IInv, DecisionsStand, Decisions
<1>7. \A a, b : ServedBefore(a, b)' <=> ServedBefore(a, b)
  BY <1>2 DEF ServedBefore
<1>8. ServedInOrder'
  <2>1. \A b \in Client \ Served : ~ServedBefore(b, c)
    BY DEF Serve, Served
  <2> QED
    BY <1>1, <1>7, <2>1 DEF IInv, ServedInOrder
<1>a. NoNegativeTarget' => NoNegativeTarget /\ decision[c].target >= 0
  BY <1>2 DEF IInv, TypeOK, NoNegativeTarget
<1>9. ASSUME decision[c].target >= 0
      PROVE  /\ remaining.free <= 0 => rows'[c].free <= 0
             /\ remaining.inbound = 0 => rows'[c].inbound = 0
             /\ remaining.free <= 0 => remaining'.free <= 0
             /\ remaining.inbound = 0 => remaining'.inbound = 0
             /\ Lacks(c)' => remaining'.free <= 0 /\ remaining'.inbound = 0
             /\ rows'[c].inbound > 0 => remaining'.free <= 0
  <2> DEFINE free == rows'[c].free
             inbound == rows'[c].inbound
  <2>1. free = Smaller(remaining.free, decision[c].target)
    BY ServeEffect
  <2>2. inbound = AllocatedInbound(decision[c].target, free, remaining.inbound)
    BY ServeEffect
  <2>3. rows'[c].shortage = Shortage(decision[c].target, free, inbound)
    BY ServeEffect
  <2>4. remaining'.free = remaining.free - free /\ remaining'.inbound = remaining.inbound - inbound
    BY ServeEffect DEF LeftInPool
  <2>6. Lacks(c)' <=> rows'[c].shortage > Larger(-inbound, 0)
    BY DEF Lacks
  <2> HIDE DEF free, inbound
  <2>5. QED
    BY <1>4, <1>9, <2>1, <2>2, <2>3, <2>4, <2>6
       DEF Smaller, Larger, AllocatedInbound, Shortage, free, inbound
<1>b. \A a \in Served : Lacks(a)' <=> Lacks(a)
  BY <1>1 DEF Lacks
<1>10. NothingIsHeldBack'
  <2> SUFFICES ASSUME NoNegativeTarget', NEW a \in Served', Lacks(a)'
               PROVE  remaining'.free <= 0 /\ remaining'.inbound = 0
    BY DEF NothingIsHeldBack
  <2>1. NoNegativeTarget /\ decision[c].target >= 0
    BY <1>a
  <2>2. CASE a = c
    BY <1>9, <2>1, <2>2
  <2>3. CASE a \in Served
    BY <1>9, <1>b, <2>1, <2>3 DEF IInv, NothingIsHeldBack
  <2> QED
    BY <1>1, <2>2, <2>3
<1>11. InboundAfterStock'
  BY <1>1, <1>9, <1>a DEF IInv, InboundAfterStock
<1>12. NothingAfterShortage'
  <2> SUFFICES ASSUME NoNegativeTarget', NEW a \in Served', NEW b \in Served', ServedBefore(a, b), Lacks(a)'
               PROVE  rows'[b].free <= 0 /\ rows'[b].inbound = 0
    BY <1>1, <1>7 DEF NothingAfterShortage
  <2>0. NoNegativeTarget /\ decision[c].target >= 0
    BY <1>a
  <2>1. CASE a \in Served /\ b \in Served
    BY <1>1, <1>b, <2>0, <2>1 DEF IInv, NothingAfterShortage
  <2>2. CASE a \in Served /\ b = c
    BY <1>1, <1>9, <1>b, <2>0, <2>2 DEF IInv, NothingIsHeldBack
  <2>3. CASE a = c /\ b \in Served
    BY <1>1, <2>3 DEF IInv, ServedInOrder
  <2>4. CASE a = c /\ b = c
    <3>1. ~ServedBefore(c, c)
      BY <1>1 DEF Serve, Served
    <3> QED
      BY <2>4, <3>1
  <2> QED
    BY <1>1, <2>1, <2>2, <2>3, <2>4
<1>13. StockIsSharedOnce'
  <2>0. /\ IsFiniteSet(Served) /\ rows'[c] \in Row /\ \A a \in Served : rows[a] \in Row
        /\ remaining' = LeftInPool(remaining, rows'[c].free, rows'[c].inbound)
    BY <1>3, ClientAssumption, FS_Subset, ServeEffect DEF IInv, TypeOK, Served
  <2>1. /\ SumFunction([a \in Served' |-> rows'[a].free]) = SumFunction([a \in Served |-> rows[a].free]) + rows'[c].free
        /\ SumFunction([a \in Served |-> rows[a].free]) \in Int
    <3> DEFINE f == [a \in Served |-> rows[a].free]
               h == [a \in Served' |-> rows'[a].free]
    <3>1. DOMAIN f = Served /\ DOMAIN h = Served \cup {c}
      BY <1>1
    <3>2. /\ \A x \in Served : h[x] = f[x] /\ f[x] \in Int
          /\ h[c] = rows'[c].free /\ h[c] \in Int
      BY <1>1, <2>0 DEF Row
    <3> HIDE DEF f, h
    <3>3. SumFunction(h) = SumFunction(f) + h[c] /\ SumFunction(f) \in Int
      BY <1>1, <2>0, <3>1, <3>2, SumWithOneMore
    <3> QED
      BY <3>2, <3>3 DEF f, h
  <2>2. /\ SumFunction([a \in Served' |-> rows'[a].inbound]) = SumFunction([a \in Served |-> rows[a].inbound]) + rows'[c].inbound
        /\ SumFunction([a \in Served |-> rows[a].inbound]) \in Int
    <3> DEFINE f == [a \in Served |-> rows[a].inbound]
               h == [a \in Served' |-> rows'[a].inbound]
    <3>1. DOMAIN f = Served /\ DOMAIN h = Served \cup {c}
      BY <1>1
    <3>2. /\ \A x \in Served : h[x] = f[x] /\ f[x] \in Int
          /\ h[c] = rows'[c].inbound /\ h[c] \in Int
      BY <1>1, <2>0 DEF Row
    <3> HIDE DEF f, h
    <3>3. SumFunction(h) = SumFunction(f) + h[c] /\ SumFunction(f) \in Int
      BY <1>1, <2>0, <3>1, <3>2, SumWithOneMore
    <3> QED
      BY <3>2, <3>3 DEF f, h
  <2>3. /\ rows'[c].free \in Int /\ rows'[c].inbound \in Int /\ pool' = pool
        /\ remaining'.free = remaining.free - rows'[c].free
        /\ remaining'.inbound = remaining.inbound - rows'[c].inbound
    BY <1>2, <2>0 DEF Row, LeftInPool
  <2> DEFINE sf == SumFunction([a \in Served |-> rows[a].free])
             si == SumFunction([a \in Served |-> rows[a].inbound])
  <2>4. sf + remaining.free = pool.free /\ si + remaining.inbound = pool.inbound
    BY DEF IInv, StockIsSharedOnce
  <2>5. sf \in Int /\ si \in Int
    BY <2>1, <2>2
  <2> HIDE DEF sf, si
  <2>6. (sf + rows'[c].free) + remaining'.free = pool.free /\ (si + rows'[c].inbound) + remaining'.inbound = pool.inbound
    BY <1>4, <2>3, <2>4, <2>5
  <2> QED
    BY <2>1, <2>2, <2>3, <2>6 DEF StockIsSharedOnce, sf, si
<1>14. StatusesFollow'
  <2>1. \A a, x, y : Statuses(a, x, y)' = Statuses(a, x, y)
    BY DEF Statuses, CoveredStatuses, ShortStatuses, HalfIsShort
  <2>2. \A a \in Served : decision'[a] = decision[a] /\ rows'[a] = rows[a]
    BY <1>1, <1>2
  <2>3. \E coverage \in Int : rows'[c].status \in Statuses(decision'[c], rows'[c].shortage, coverage)
    BY <1>2, ServeEffect
  <2> QED
    BY <1>1, <2>2, <2>3 DEF IInv, StatusesFollow
<1> QED
  BY <1>5, <1>6, <1>8, <1>10, <1>11, <1>12, <1>6a, <1>13, <1>14 DEF IInv

\* Every step preserves the invariant.
LEMMA StepPreserves == IInv /\ [Next]_vars => IInv'
<1> SUFFICES ASSUME IInv, [Next]_vars PROVE IInv'
  OBVIOUS
<1>1. CASE Plan
  BY <1>1, PlanPreserves
<1>2. ASSUME NEW c \in Client, Serve(c) PROVE IInv'
  BY <1>2, ServePreserves
<1>3. CASE UNCHANGED vars
  <2>1. UNCHANGED <<stored, history, request, pool, planned, decision, remaining, rows>>
    BY <1>3 DEF vars
  <2>2. TypeOK'
    BY <2>1 DEF IInv, TypeOK
  <2>3. \A a, b : ServedBefore(a, b)' <=> ServedBefore(a, b)
    BY <2>1 DEF ServedBefore
  <2>4. DecisionsStand'
    BY <2>1 DEF IInv, DecisionsStand, Decisions
  <2>5. StockIsSharedOnce' /\ StatusesFollow'
    BY <2>1 DEF IInv, StockIsSharedOnce, StatusesFollow, Served
  <2>6. NoNegativeTarget' = NoNegativeTarget /\ \A a : Lacks(a)' = Lacks(a)
    BY <2>1 DEF NoNegativeTarget, Lacks
  <2> QED
    BY <2>1, <2>2, <2>3, <2>4, <2>5, <2>6 DEF IInv, OnlyPlannedAreServed, ServedInOrder, NothingIsHeldBack,
       InboundAfterStock, NothingAfterShortage, Served
<1> QED
  BY <1>1, <1>2, <1>3 DEF Next

\* The invariant of the deal holds in every state.
THEOREM Safety == Spec => []IInv
BY InitInvariant, StepPreserves, PTL DEF Spec

\* The metrics and the demand of a decision, in a state of the invariant.
LEMMA DecisionMetrics ==
    ASSUME IInv, planned, NEW c \in Client
    PROVE  /\ decision[c].metrics \in Metrics /\ decision[c].metrics.avg6 >= 0
           /\ decision[c].metrics \in MetricsAt(decision[c].level, history[c])
           /\ decision[c].demand \in Compute(EffectiveStrategy(request), decision[c].metrics)
           /\ decision[c].level \in Level \cup {NoHistory}
           /\ decision[c].level # NoHistory => Sales6(history[c][decision[c].level]) > 0
<1> DEFINE policy == EffectivePolicy(stored[c], request)
<1>1. /\ decision[c].level = ChosenLevel(policy, history[c])
      /\ decision[c].metrics \in MetricsAt(decision[c].level, history[c])
      /\ decision[c].demand \in Compute(EffectiveStrategy(request), decision[c].metrics)
  BY DecisionParts DEF IInv, DecisionsStand
<1>2. policy \in Effective /\ history[c] \in [Level -> History]
  BY EffectivePolicyType DEF IInv, TypeOK
<1> HIDE DEF policy
<1>3. /\ decision[c].level \in Level \cup {NoHistory}
      /\ decision[c].level # NoHistory => Sales6(history[c][decision[c].level]) > 0
  BY <1>1, <1>2, ChosenLevelType
<1> QED
  BY <1>1, <1>2, <1>3, MetricsType

\* Policies, decisions, pool and rows keep their types, whatever the histories.
THEOREM TypeCorrect == Spec => []TypeOK
<1>1. IInv => TypeOK
  BY DEF IInv
<1> QED
  BY <1>1, Safety, PTL

\* A client of lower priority never gets anything of a SKU of which one of higher priority
\* lacks something (docs/diy-policies.md), for any number of clients and any supply: unless a
\* target is negative, a shortage is then no more than a negative delivery took away.
THEOREM PriorityIsKept == Spec => []NoPriorityInversion
<1>1. ASSUME IInv PROVE NoPriorityInversion
  <2>1. \A a, b \in Served :
          decision[a].policy.priority < decision[b].policy.priority => ServedBefore(a, b)
    BY DEF ServedBefore
  <2> QED
    BY <1>1, <2>1 DEF IInv, NothingAfterShortage, NoPriorityInversion
<1> QED
  BY <1>1, Safety, PTL

\* Nobody lacks something while the pool still has something to give, unless a target is
\* negative.
THEOREM PoolIsUsed == Spec => []NothingIsHeldBack
<1>1. IInv => NothingIsHeldBack
  BY DEF IInv
<1> QED
  BY <1>1, Safety, PTL

\* Inbound is promised only when the free stock has been given out, unless a target is
\* negative.
THEOREM StockComesFirst == Spec => []InboundAfterStock
<1>1. IInv => InboundAfterStock
  BY DEF IInv
<1> QED
  BY <1>1, Safety, PTL

\* Whatever strategy a run uses, the conservative one would not have asked for less of the
\* same averages.
THEOREM ConservativeIsSafest == Spec => []ConservativeIsHighest
<1>1. ASSUME IInv PROVE ConservativeIsHighest
  <2> SUFFICES ASSUME planned, NEW c \in Client,
                      NEW d \in Compute("conservative_fallback", decision[c].metrics)
               PROVE  d >= decision[c].demand
    BY DEF ConservativeIsHighest
  <2>1. /\ decision[c].metrics \in Metrics /\ decision[c].metrics.avg6 >= 0
        /\ decision[c].demand \in Compute(EffectiveStrategy(request), decision[c].metrics)
    BY <1>1, DecisionMetrics
  <2>2. EffectiveStrategy(request) \in Strategy
    BY <1>1 DEF IInv, TypeOK, Request, EffectiveStrategy, Strategy
  <2> QED
    BY <2>1, <2>2, ConservativeDemandIsHighest
<1> QED
  BY <1>1, Safety, PTL

\* The same stock, and the same inbound, is promised to one client only: what the rows
\* show and what is left always add up to the pool, for any number of clients.
THEOREM NothingIsPromisedTwice == Spec => []StockIsSharedOnce
<1>1. IInv => StockIsSharedOnce
  BY DEF IInv
<1> QED
  BY <1>1, Safety, PTL

-----------------------------------------------------------------------------
(* What a client sees who buys.                                              *)

\* Where more was sold than returned, it was more than a third of a unit in six months.
MoreThanTraces ==
    \A c \in Client, level \in Level : Sales6(history[c][level]) > 0 => Sales6(history[c][level]) > 3
SoldInUnits ==
    \A c \in Client, level \in Level, m \in Month : history[c][level][m] % 10 = 0

\* Sales of whole units are more than traces.
LEMMA UnitsAreMoreThanTraces == TypeOK /\ SoldInUnits => MoreThanTraces
<1> SUFFICES ASSUME TypeOK, SoldInUnits, NEW c \in Client, NEW level \in Level, Sales6(history[c][level]) > 0
             PROVE  Sales6(history[c][level]) > 3
  BY DEF MoreThanTraces
<1> DEFINE h == history[c][level]
<1>1. \A m \in Month : h[m] \in Int /\ h[m] % 10 = 0
  BY DEF TypeOK, SoldInUnits, History
<1> HIDE DEF h
<1>2. \A m \in 1..6 : \E n \in Int : h[m] = 10 * n
  BY <1>1 DEF Month
<1>3. PICK a \in Int, b \in Int, d \in Int, e \in Int, f \in Int, g \in Int :
        h[1] = 10 * a /\ h[2] = 10 * b /\ h[3] = 10 * d /\ h[4] = 10 * e /\ h[5] = 10 * f /\ h[6] = 10 * g
  BY <1>2
<1>4. Sales6(h) = 10 * a + 10 * b + 10 * d + 10 * e + 10 * f + 10 * g
  BY <1>3 DEF Sales6, Sales3
<1> QED
  BY <1>3, <1>4 DEF h

\* Then the average is not nothing, and no strategy makes nothing of it.
LEMMA DemandIsPositive ==
    ASSUME NEW h \in History, Sales6(h) > 3, NEW s \in Strategy,
           NEW a3 \in Nearest(Sales3(h), 3), NEW a6 \in Nearest(Sales6(h), 6),
           NEW m, m.avg3 = a3, m.avg6 = a6, NEW d \in Compute(s, m)
    PROVE  d > 0
<1>1. \/ d \in Weighted(a3, a6)
      \/ d \in StrictRecent(a3, a6, m.months)
      \/ d \in Conservative(a3, a6)
  BY DEF Compute, Strategy
<1>2. a3 \in Int /\ a6 \in Int /\ Sales6(h) \in Int
  BY AveragesAreIntegers, SalesAreIntegers
<1>3. a6 > 0
  BY <1>2 DEF Nearest
<1>4. CASE d \in Weighted(a3, a6)
  <2>1. CASE a3 > 0
    <3>1. d \in Nearest(65 * a3 + 35 * a6, 100)
      BY <1>3, <1>4, <2>1 DEF Weighted
    <3> QED
      BY <1>2, <1>3, <2>1, <3>1 DEF Nearest
  <2> QED
    BY <1>2, <1>3, <1>4, <2>1 DEF Weighted
<1> QED
  BY <1>1, <1>2, <1>3, <1>4 DEF StrictRecent, Conservative, Larger

\* A client with history enough at a level of its chain has a demand, whatever the
\* strategy and the roundings, unless it bought traces only.
THEOREM BuyersHaveDemand == Spec => [](MoreThanTraces => HistoryMeansDemand)
<1>1. ASSUME IInv, MoreThanTraces PROVE HistoryMeansDemand
  <2> SUFFICES ASSUME planned, NEW c \in Client, decision[c].level # NoHistory
               PROVE  decision[c].demand > 0
    BY DEF HistoryMeansDemand
  <2> DEFINE m == decision[c].metrics
             level == decision[c].level
  <2>1. /\ m \in MetricsAt(level, history[c]) /\ level \in Level /\ Sales6(history[c][level]) > 0
        /\ decision[c].demand \in Compute(EffectiveStrategy(request), m)
    BY <1>1, DecisionMetrics
  <2>2. history[c][level] \in History /\ Sales6(history[c][level]) > 3
    BY <1>1, <2>1 DEF IInv, TypeOK, MoreThanTraces
  <2>3. EffectiveStrategy(request) \in Strategy
    BY <1>1 DEF IInv, TypeOK, Request, EffectiveStrategy, Strategy
  <2> HIDE DEF level, m
  <2>4. m.avg3 \in Nearest(Sales3(history[c][level]), 3) /\ m.avg6 \in Nearest(Sales6(history[c][level]), 6)
    BY <2>1 DEF MetricsAt, level
  <2> QED
    BY <2>1, <2>2, <2>3, <2>4, DemandIsPositive
<1> QED
  BY <1>1, Safety, PTL

\* A status agrees with the quantities of its row, however little is in the pool.
THEOREM StatusesAreTrue == Spec => [](MoreThanTraces => StatusTellsShortage)
<1>1. ASSUME IInv, HistoryMeansDemand PROVE StatusTellsShortage
  <2> SUFFICES ASSUME NEW c \in Served
               PROVE  /\ rows[c].status \in {"warning", "critical"} => rows[c].shortage > 0
                      /\ rows[c].shortage > 0 /\ rows[c].status = "warning" /\ decision[c].target >= 0
                           => 2 * rows[c].shortage < decision[c].target
                      /\ rows[c].status = "healthy" => rows[c].shortage = 0
    BY DEF StatusTellsShortage
  <2>1. PICK coverage \in Int : rows[c].status \in Statuses(decision[c], rows[c].shortage, coverage)
    BY <1>1 DEF IInv, StatusesFollow
  <2>2. rows[c].shortage \in Nat /\ decision[c].target \in Int /\ decision[c].demand \in Nat
    BY <1>1 DEF IInv, TypeOK, Row, Decision, Served, OnlyPlannedAreServed
  <2>3. decision[c].demand <= 0 => decision[c].level = NoHistory
    BY <1>1, <2>2 DEF HistoryMeansDemand, IInv, TypeOK, Served, OnlyPlannedAreServed
  <2>4. CASE ~decision[c].policy.active
    BY <2>1, <2>4 DEF Statuses
  <2>5. CASE decision[c].policy.active /\ decision[c].demand <= 0
    BY <2>1, <2>3, <2>5 DEF Statuses
  <2>6. CASE decision[c].policy.active /\ decision[c].demand > 0 /\ rows[c].shortage <= 0
    BY <2>1, <2>2, <2>6 DEF Statuses, CoveredStatuses
  <2>7. CASE decision[c].policy.active /\ decision[c].demand > 0 /\ rows[c].shortage > 0
    BY <2>1, <2>2, <2>7 DEF Statuses, ShortStatuses, HalfIsShort
  <2> QED
    BY <2>2, <2>4, <2>5, <2>6, <2>7
<1> QED
  BY <1>1, BuyersHaveDemand, Safety, PTL
=============================================================================
