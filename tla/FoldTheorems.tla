---------------------------- MODULE FoldTheorems ----------------------------
(***************************************************************************)
(* A fold over a finite set, as MapThenFoldSet of the community modules    *)
(* has it, obeys its recursion.  There is no induction over the recursive  *)
(* function here: each fact is proved by looking at a smallest set for     *)
(* which it would fail.  The module is instantiated with what is folded.   *)
(***************************************************************************)
EXTENDS Integers, FiniteSets, FiniteSetTheorems, TLAPS

CONSTANTS Op(_, _),     \* the value of an element and the result of the others
          Base,         \* the result of none
          Choose(_)     \* the element of a set that is taken first

\* A function that does what the recursion says, and the fold of f over S with it.
Rest(s) == s \ {Choose(s)}
IsFold(g, f, S) == g = [s \in SUBSET S |-> IF s = {} THEN Base ELSE Op(f[Choose(s)], g[Rest(s)])]
Folded(f, S) == (CHOOSE g : IsFold(g, f, S))[S]
Chooses(S) == \A s \in SUBSET S : s # {} => Choose(s) \in s

\* Among subsets of a finite set there is one with none of the others below it.
LEMMA SmallestSet ==
  ASSUME NEW S, IsFiniteSet(S), NEW B, B \subseteq SUBSET S, B # {}
  PROVE  \E T \in B : \A U \in B : U \subseteq T => U = T
<1> DEFINE R == StrictSubsetOrdering(S)
<1>1. IsWellFoundedOn(R, SUBSET S)
  BY FS_StrictSubsetOrderingWellFounded, FS_FiniteSubsetsOfFinite
<1> HIDE DEF R
<1>2. PICK T \in B : \A U \in B : ~ (<<U, T>> \in R)
  BY <1>1, WFMin
<1>3. ASSUME NEW U \in B, U \subseteq T PROVE U = T
  BY <1>2, <1>3 DEF R, StrictSubsetOrdering
<1> QED
  BY <1>3

LEMMA RestIsSmaller ==
  ASSUME NEW S, Chooses(S), NEW s \in SUBSET S, s # {}
  PROVE  Rest(s) \subseteq s /\ Rest(s) # s /\ Choose(s) \in s
BY DEF Chooses, Rest

LEMMA IsFoldAt ==
  ASSUME NEW f, NEW S, NEW g, IsFold(g, f, S), NEW s \in SUBSET S
  PROVE  g[s] = IF s = {} THEN Base ELSE Op(f[Choose(s)], g[Rest(s)])
BY DEF IsFold

\* Two functions that fold agree where both are defined.
LEMMA FoldsAgree ==
  ASSUME NEW f, NEW S, NEW T, IsFiniteSet(S), Chooses(S), NEW g, NEW h, IsFold(g, f, S), IsFold(h, f, T),
         NEW s \in SUBSET S, s \in SUBSET T
  PROVE  g[s] = h[s]
<1> DEFINE B == {t \in SUBSET S : t \in SUBSET T /\ g[t] # h[t]}
<1>1. SUFFICES ASSUME B # {} PROVE FALSE
  OBVIOUS
<1>3. PICK t \in B : \A u \in B : u \subseteq t => u = t
  <2> HIDE DEF B
  <2>1. B \subseteq SUBSET S
    BY DEF B
  <2> QED
    BY <1>1, <2>1, SmallestSet
<1>4. /\ g[t] = IF t = {} THEN Base ELSE Op(f[Choose(t)], g[Rest(t)])
      /\ h[t] = IF t = {} THEN Base ELSE Op(f[Choose(t)], h[Rest(t)])
  BY IsFoldAt
<1>5. CASE t = {}
  BY <1>4, <1>5
<1>6. CASE t # {}
  <2>1. Rest(t) \subseteq t /\ Rest(t) # t
    BY <1>6, RestIsSmaller
  <2>2. Rest(t) \notin B /\ Rest(t) \in SUBSET S /\ Rest(t) \in SUBSET T
    BY <1>3, <2>1
  <2> QED
    BY <1>4, <1>6, <2>2
<1> QED
  BY <1>5, <1>6

\* There is a function that folds.
LEMMA FoldsExist ==
  ASSUME NEW f, NEW S, IsFiniteSet(S), Chooses(S)
  PROVE  \E g : IsFold(g, f, S)
<1> DEFINE B == {T \in SUBSET S : ~ \E g : IsFold(g, f, T)}
<1>1. SUFFICES ASSUME B # {} PROVE FALSE
  OBVIOUS
<1>2. PICK T \in B : \A U \in B : U \subseteq T => U = T
  <2> HIDE DEF B
  <2>1. B \subseteq SUBSET S
    BY DEF B
  <2> QED
    BY <1>1, <2>1, SmallestSet
<1>3. \A U \in SUBSET T : IsFiniteSet(U) /\ Chooses(U)
  BY FS_Subset DEF Chooses
<1> DEFINE G(U) == CHOOSE g : IsFold(g, f, U)
<1>4. ASSUME NEW U \in SUBSET T, U # T PROVE IsFold(G(U), f, U)
  <2>1. U \notin B
    BY <1>2, <1>4
  <2>2. \E g : IsFold(g, f, U)
    BY <2>1
  <2> QED
    BY <2>2
<1> DEFINE g == [s \in SUBSET T |-> IF s = {} THEN Base ELSE Op(f[Choose(s)], G(Rest(s))[Rest(s)])]
<1> HIDE DEF G
<1>5. ASSUME NEW s \in SUBSET T, s # {} PROVE G(Rest(s))[Rest(s)] = g[Rest(s)]
  <2> DEFINE u == Rest(s)
  <2>1. u \in SUBSET T /\ u # T
    BY <1>3, <1>5, RestIsSmaller
  <2> HIDE DEF u
  <2>2. IsFold(G(u), f, u)
    BY <1>4, <2>1
  <2>3. G(u)[u] = IF u = {} THEN Base ELSE Op(f[Choose(u)], G(u)[Rest(u)])
    BY <2>2, IsFoldAt
  <2>4. CASE u = {}
    BY <2>1, <2>3, <2>4 DEF u
  <2>5. CASE u # {}
    <3> DEFINE v == Rest(u)
    <3>1. v \in SUBSET u /\ v \in SUBSET T /\ v # T
      BY <1>3, <2>1, <2>5, RestIsSmaller
    <3> HIDE DEF v
    <3>2. IsFold(G(v), f, v)
      BY <1>4, <3>1
    <3>3. IsFiniteSet(u) /\ Chooses(u)
      BY <1>3, <2>1
    <3>4. G(u)[v] = G(v)[v]
      BY <2>2, <3>1, <3>2, <3>3, FoldsAgree
    <3>5. g[u] = Op(f[Choose(u)], G(v)[v])
      BY <2>1, <2>5 DEF v
    <3> QED
      BY <2>3, <2>5, <3>4, <3>5 DEF u, v
  <2> QED
    BY <2>4, <2>5
<1>6. \A s \in SUBSET T : g[s] = IF s = {} THEN Base ELSE Op(f[Choose(s)], g[Rest(s)])
  BY <1>5
<1>7. g = [s \in SUBSET T |-> IF s = {} THEN Base ELSE Op(f[Choose(s)], g[Rest(s)])]
  <2>1. g = [s \in SUBSET T |-> g[s]]
    OBVIOUS
  <2> HIDE DEF g
  <2> QED
    BY <1>6, <2>1
<1> HIDE DEF g
<1>8. IsFold(g, f, T)
  BY <1>7 DEF IsFold
<1> QED
  BY <1>2, <1>8

\* The fold obeys the recursion.
THEOREM FoldedAt ==
  ASSUME NEW f, NEW S, IsFiniteSet(S), Chooses(S)
  PROVE  Folded(f, S) = IF S = {} THEN Base ELSE Op(f[Choose(S)], Folded(f, Rest(S)))
<1> DEFINE G(U) == CHOOSE g : IsFold(g, f, U)
<1>1. IsFiniteSet(Rest(S)) /\ Rest(S) \subseteq S /\ Chooses(Rest(S))
  BY FS_Subset DEF Rest, Chooses
<1>2. IsFold(G(S), f, S) /\ IsFold(G(Rest(S)), f, Rest(S))
  BY <1>1, FoldsExist
<1>3. Folded(f, S) = G(S)[S] /\ Folded(f, Rest(S)) = G(Rest(S))[Rest(S)]
  BY DEF Folded
<1> HIDE DEF G
<1>4. G(S)[Rest(S)] = G(Rest(S))[Rest(S)]
  BY <1>1, <1>2, FoldsAgree
<1> QED
  BY <1>2, <1>3, <1>4, IsFoldAt

=============================================================================
