--------------------------- MODULE InboundSyncProofs ---------------------------
(***************************************************************************)
(* What readers of the deliveries may rely on, for any number of syncs     *)
(* that overlap, any contents of the sheet and any failures.               *)
(***************************************************************************)
EXTENDS InboundSync, TLAPS

Holding == {"insert", "commit"}

\* Where the memory of an attempt holds something, and when an attempt has committed.
Memory ==
    \A a \in Attempt :
      /\ ~InTransaction(a) => seen[a] = {}
      /\ pc[a] \notin Holding => gone[a] = {}
      /\ a \in stored => pc[a] \in {"settle", "ended"}
      /\ pc[a] = "settle" => a \in stored
      /\ jobs[a] = "failed" => pc[a] = "ended"

\* Rows are of attempts that have committed.
Committed(S) == \A r \in S : r.by \in stored
Known ==
    /\ Committed(rows)
    /\ \A a \in Attempt : Committed(seen[a]) /\ Committed(gone[a])

\* With a row of a copy there are all others of the copy.
WholeIn(S) ==
    \A r \in S : /\ r.ref \in Content[version[r.by]]
                 /\ \A q \in Content[version[r.by]] : [ref |-> q, by |-> r.by] \in S
Whole == WholeIn(rows) /\ \A a \in Attempt : WholeIn(seen[a]) /\ WholeIn(gone[a])

\* A row is deleted by one transaction at a time, and committed until that commits.
RowLocks ==
    \A a \in Attempt :
      /\ gone[a] \subseteq rows
      /\ \A b \in Attempt \ {a} : gone[a] \cap gone[b] = {}

\* Who is not overtaken has seen, and then deleted, all that there is.
SeesAll ==
    \A a \in Attempt \ overtaken :
      /\ InTransaction(a) => rows \subseteq seen[a]
      /\ pc[a] \in Holding => rows \subseteq gone[a]

\* The unique index: what is inserted has no equal among the rows that stay or that
\* another transaction has inserted.
UniqueIndex ==
    \A a \in Attempt :
      pc[a] = "commit" =>
        \A r \in Content[version[a]] :
          /\ \A s \in rows : s.ref = r => s \in gone[a]
          /\ \A b \in Attempt \ {a} : pc[b] = "commit" => r \notin Content[version[b]]

IInv ==
    /\ TypeOK /\ Memory /\ Known /\ Whole /\ RowLocks /\ SeesAll /\ UniqueIndex
    /\ DeliveriesAreUnique /\ SheetsMixOnlyWhenOvertaken /\ JobTellsTruth

-----------------------------------------------------------------------------
LEMMA InitEstablishes == Init => IInv
<1> SUFFICES ASSUME Init PROVE IInv
  OBVIOUS
<1> USE DEF Init
<1>1. TypeOK
  BY MaxMessagesAssumption DEF TypeOK, Location, Kind, JobStatus
<1>2. Memory /\ SeesAll /\ UniqueIndex /\ JobTellsTruth
  BY DEF Memory, SeesAll, UniqueIndex, JobTellsTruth, InTransaction, Holding
<1>3. Known /\ Whole /\ RowLocks /\ DeliveriesAreUnique /\ SheetsMixOnlyWhenOvertaken
  BY DEF Known, Committed, Whole, WholeIn, RowLocks, DeliveriesAreUnique,
         SheetsMixOnlyWhenOvertaken
<1> QED
  BY <1>1, <1>2, <1>3 DEF IInv

LEMMA CopyIsRows ==
    ASSUME TypeOK, NEW a \in Attempt
    PROVE  /\ Copy(a) \subseteq Row
           /\ \A r \in Copy(a) : r.by = a /\ r.ref \in Content[version[a]]
           /\ \A q \in Content[version[a]] : [ref |-> q, by |-> a] \in Copy(a)
<1>1. Content[version[a]] \subseteq Ref
  BY ContentAssumption DEF TypeOK
<1> QED
  BY <1>1 DEF Copy, Row

\* Steps outside the transaction of the copy.
LEMMA OutsidePreserves ==
    ASSUME IInv,
           \/ EditSheet \/ Schedule
           \/ \E a \in Attempt : RequestSync(a) \/ StartJob(a) \/ SettleJob(a)
    PROVE  IInv'
<1> USE DEF IInv
<1>1. UNCHANGED <<rows, version, seen, gone, stored, overtaken>>
  BY DEF EditSheet, Schedule, RequestSync, StartJob, SettleJob
<1>2. TypeOK'
  BY MaxMessagesAssumption
  DEF TypeOK, EditSheet, Schedule, RequestSync, StartJob, SettleJob, Goto, Location, Kind,
      JobStatus
<1>3. \A b \in Attempt : /\ pc'[b] \in Holding <=> pc[b] \in Holding
                         /\ InTransaction(b)' <=> InTransaction(b)
                         /\ pc'[b] = "commit" <=> pc[b] = "commit"
  BY DEF TypeOK, EditSheet, Schedule, RequestSync, StartJob, SettleJob, Goto, Holding,
         InTransaction
<1>4. Memory'
  BY <1>1, <1>3
  DEF Memory, EditSheet, Schedule, RequestSync, StartJob, SettleJob, Goto, TypeOK,
      InTransaction
<1>5. Known' /\ Whole' /\ RowLocks' /\ DeliveriesAreUnique' /\ SheetsMixOnlyWhenOvertaken'
  BY <1>1 DEF Known, Committed, Whole, WholeIn, RowLocks, DeliveriesAreUnique,
              SheetsMixOnlyWhenOvertaken
<1>6. SeesAll' /\ UniqueIndex'
  BY <1>1, <1>3 DEF SeesAll, UniqueIndex
<1>7. JobTellsTruth'
  BY DEF JobTellsTruth, Memory, EditSheet, Schedule, RequestSync, StartJob, SettleJob, TypeOK
<1> QED
  BY <1>2, <1>4, <1>5, <1>6, <1>7

LEMMA AbandonPreserves ==
    ASSUME IInv, NEW a \in Attempt, DownloadFails(a) \/ FlushFails(a) \/ Die(a)
    PROVE  IInv'
<1> USE DEF IInv
<1>1. /\ UNCHANGED <<sheet, rows, kind, version, stored, overtaken>>
      /\ pc[a] \notin {"idle", "ended"}
      /\ pc' = [pc EXCEPT ![a] = "ended"]
      /\ seen' = [seen EXCEPT ![a] = {}] /\ gone' = [gone EXCEPT ![a] = {}]
  BY DEF DownloadFails, FlushFails, Die, Abandon, Goto
<1>2. /\ jobs' \in [Attempt -> JobStatus]
      /\ \A b \in Attempt \ {a} : jobs'[b] = jobs[b]
      /\ jobs'[a] = jobs[a] \/ (jobs'[a] = "failed" /\ pc[a] = "download")
  BY DEF DownloadFails, FlushFails, Die, TypeOK, JobStatus
<1>3. TypeOK'
  <2>1. queue' \in 0..MaxMessages
    BY MaxMessagesAssumption DEF DownloadFails, FlushFails, Die, Abandon, TypeOK
  <2> QED
    BY <1>1, <1>2, <2>1 DEF TypeOK, Location
<1>4. Memory'
  BY <1>1, <1>2 DEF Memory, InTransaction, TypeOK, Holding
<1>5. Known'
  BY <1>1 DEF Known, Committed, TypeOK
<1>6. Whole'
  BY <1>1 DEF Whole, WholeIn, TypeOK
<1>7. RowLocks'
  BY <1>1 DEF RowLocks, TypeOK
<1>8. SeesAll' /\ UniqueIndex'
  BY <1>1 DEF SeesAll, UniqueIndex, InTransaction, Holding, TypeOK
<1>9. DeliveriesAreUnique' /\ SheetsMixOnlyWhenOvertaken' /\ JobTellsTruth'
  BY <1>1, <1>2 DEF DeliveriesAreUnique, SheetsMixOnlyWhenOvertaken, JobTellsTruth, Memory
<1> QED
  BY <1>3, <1>4, <1>5, <1>6, <1>7, <1>8, <1>9

\* Until it has committed, an attempt may read what it likes.
LEMMA DownloadPreserves == ASSUME IInv, NEW a \in Attempt, Download(a) PROVE IInv'
<1> USE DEF IInv, Download, Goto
<1>1. TypeOK'
  BY DEF TypeOK, Location
<1>2. Memory' /\ Known' /\ RowLocks' /\ SeesAll' /\ DeliveriesAreUnique'
      /\ SheetsMixOnlyWhenOvertaken' /\ JobTellsTruth'
  BY DEF Memory, Known, Committed, RowLocks, SeesAll, DeliveriesAreUnique,
         SheetsMixOnlyWhenOvertaken, JobTellsTruth, InTransaction, Holding, TypeOK
<1>3. a \notin stored /\ \A b \in Attempt \ {a} : version'[b] = version[b]
  BY DEF Memory, TypeOK
<1>4. Whole'
  <2>1. \A S \in SUBSET Row : Committed(S) /\ WholeIn(S) => WholeIn(S)'
    BY <1>3 DEF Committed, WholeIn, Row
  <2>2. rows \in SUBSET Row /\ \A b \in Attempt : seen[b] \in SUBSET Row /\ gone[b] \in SUBSET Row
    BY DEF TypeOK
  <2>3. WholeIn(rows)'
    BY <1>3, <2>2 DEF Whole, WholeIn, Known, Committed, Row
  <2>4. ASSUME NEW b \in Attempt PROVE WholeIn(seen[b])' /\ WholeIn(gone[b])'
    BY <1>3, <2>2 DEF Whole, WholeIn, Known, Committed, Row
  <2> QED
    BY <2>3, <2>4 DEF Whole
<1>5. UniqueIndex'
  BY <1>3 DEF UniqueIndex, TypeOK
<1> QED
  BY <1>1, <1>2, <1>4, <1>5

LEMMA SeePreserves == ASSUME IInv, NEW a \in Attempt, See(a) PROVE IInv'
<1> USE DEF IInv, See, Goto
<1>1. TypeOK'
  BY DEF TypeOK, Location
<1>2. Memory'
  BY DEF Memory, InTransaction, Holding, TypeOK
<1>3. Known' /\ RowLocks' /\ UniqueIndex'
  BY DEF Known, Committed, RowLocks, UniqueIndex, TypeOK
<1>4. Whole'
  BY DEF Whole, WholeIn, TypeOK
<1>5. SeesAll'
  BY DEF SeesAll, InTransaction, Holding, TypeOK
<1>6. DeliveriesAreUnique' /\ SheetsMixOnlyWhenOvertaken' /\ JobTellsTruth'
  BY DEF DeliveriesAreUnique, SheetsMixOnlyWhenOvertaken, JobTellsTruth
<1> QED
  BY <1>1, <1>2, <1>3, <1>4, <1>5, <1>6

LEMMA DeletePreserves == ASSUME IInv, NEW a \in Attempt, Delete(a) PROVE IInv'
<1> USE DEF IInv, Delete, Goto
<1>1. TypeOK'
  BY DEF TypeOK, Location
<1>2. Memory'
  BY DEF Memory, InTransaction, Holding, TypeOK
<1>3. Known' /\ UniqueIndex'
  BY DEF Known, Committed, UniqueIndex, TypeOK
<1>4. Whole'
  BY DEF Whole, WholeIn, TypeOK
<1>5. RowLocks'
  BY DEF RowLocks, Locked, TypeOK
<1>6. SeesAll'
  BY DEF SeesAll, InTransaction, Holding, TypeOK
<1>7. DeliveriesAreUnique' /\ SheetsMixOnlyWhenOvertaken' /\ JobTellsTruth'
  BY DEF DeliveriesAreUnique, SheetsMixOnlyWhenOvertaken, JobTellsTruth
<1> QED
  BY <1>1, <1>2, <1>3, <1>4, <1>5, <1>6, <1>7

LEMMA InsertPreserves == ASSUME IInv, NEW a \in Attempt, Insert(a) PROVE IInv'
<1> USE DEF IInv, Insert, Goto
<1>1. TypeOK'
  BY DEF TypeOK, Location
<1>2. Memory' /\ Known' /\ Whole' /\ RowLocks'
  BY DEF Memory, Known, Committed, Whole, WholeIn, RowLocks, InTransaction, Holding, TypeOK
<1>3. SeesAll'
  BY DEF SeesAll, InTransaction, Holding, TypeOK
<1>4. UniqueIndex'
  <2>1. ASSUME NEW r \in Content[version[a]], NEW s \in rows, s.ref = r
        PROVE  s \in gone[a]
    <3>1. [ref |-> r, by |-> a] \in Copy(a)
      BY DEF Copy
    <3> QED
      BY <2>1, <3>1 DEF SameRef
  <2>2. ASSUME NEW r \in Content[version[a]], NEW b \in Attempt \ {a}, pc[b] = "commit"
        PROVE  r \notin Content[version[b]]
    <3> SUFFICES ASSUME r \in Content[version[b]] PROVE FALSE
      OBVIOUS
    <3>1. [ref |-> r, by |-> a] \in Copy(a) /\ [ref |-> r, by |-> b] \in Added(b)
      BY <2>2 DEF Copy, Added
    <3>2. [ref |-> r, by |-> b] \in gone[a]
      BY <3>1 DEF SameRef
    <3>3. b \in stored
      BY <3>2 DEF Known, Committed
    <3> QED
      BY <2>2, <3>3 DEF Memory
  <2> QED
    BY <2>1, <2>2 DEF UniqueIndex, TypeOK
<1>5. DeliveriesAreUnique' /\ SheetsMixOnlyWhenOvertaken' /\ JobTellsTruth'
  BY DEF DeliveriesAreUnique, SheetsMixOnlyWhenOvertaken, JobTellsTruth
<1> QED
  BY <1>1, <1>2, <1>3, <1>4, <1>5

LEMMA CommitPreserves == ASSUME IInv, NEW a \in Attempt, Commit(a) PROVE IInv'
<1> USE DEF IInv
<1>1. /\ pc[a] = "commit" /\ rows' = (rows \ gone[a]) \cup Copy(a)
      /\ gone' = [gone EXCEPT ![a] = {}] /\ seen' = [seen EXCEPT ![a] = {}]
      /\ stored' = stored \cup {a}
      /\ overtaken' = overtaken \cup {b \in Attempt \ {a} : InTransaction(b)}
      /\ \A b \in Attempt \ {a} : pc'[b] = pc[b]
      /\ pc'[a] \in {"settle", "ended"}
      /\ UNCHANGED <<sheet, queue, jobs, kind, version>>
  BY DEF Commit, Goto, TypeOK
<1>2. TypeOK'
  <2>1. rows' \in SUBSET Row
    BY <1>1, CopyIsRows DEF TypeOK
  <2>2. pc' \in [Attempt -> Location]
    BY DEF Commit, Goto, TypeOK, Location
  <2> QED
    BY <1>1, <2>1, <2>2 DEF TypeOK
<1>3. Memory'
  BY <1>1 DEF Memory, InTransaction, Holding, TypeOK
<1>4. Known'
  BY <1>1, CopyIsRows DEF Known, Committed, TypeOK
<1>5. Whole'
  <2>1. WholeIn(rows)'
    <3> SUFFICES ASSUME NEW r \in rows'
                 PROVE  /\ r.ref \in Content[version[r.by]]
                        /\ \A q \in Content[version[r.by]] : [ref |-> q, by |-> r.by] \in rows'
      BY <1>1 DEF WholeIn
    <3>1. CASE r \in Copy(a)
      BY <1>1, <3>1, CopyIsRows
    <3>2. CASE r \in rows \ gone[a]
      <4>1. r.ref \in Content[version[r.by]] /\ r = [ref |-> r.ref, by |-> r.by]
        BY <3>2 DEF Whole, WholeIn, TypeOK, Row
      <4>2. ASSUME NEW q \in Content[version[r.by]]
            PROVE  [ref |-> q, by |-> r.by] \in rows \ gone[a]
        <5>1. [ref |-> q, by |-> r.by] \in rows
          BY <3>2 DEF Whole, WholeIn
        <5>2. ASSUME [ref |-> q, by |-> r.by] \in gone[a] PROVE r \in gone[a]
          BY <4>1, <5>2 DEF Whole, WholeIn
        <5> QED
          BY <3>2, <5>1, <5>2
      <4> QED
        BY <1>1, <4>1, <4>2
    <3> QED
      BY <1>1, <3>1, <3>2
  <2>2. ASSUME NEW b \in Attempt PROVE WholeIn(seen[b])' /\ WholeIn(gone[b])'
    BY <1>1 DEF Whole, WholeIn, TypeOK
  <2> QED
    BY <2>1, <2>2 DEF Whole
<1>6. RowLocks'
  BY <1>1 DEF RowLocks, TypeOK
<1>7. SeesAll'
  BY <1>1 DEF SeesAll, InTransaction, Holding, TypeOK
<1>8. UniqueIndex'
  <2> SUFFICES ASSUME NEW b \in Attempt \ {a}, pc[b] = "commit", NEW r \in Content[version[b]]
               PROVE  /\ \A s \in rows' : s.ref = r => s \in gone[b]
                      /\ \A c \in Attempt \ {b} : pc'[c] = "commit" => r \notin Content[version[c]]
    BY <1>1 DEF UniqueIndex, TypeOK
  <2>1. ASSUME NEW s \in rows', s.ref = r PROVE s \in gone[b]
    <3>1. s \notin Copy(a)
      BY <1>1, <2>1, CopyIsRows DEF UniqueIndex
    <3> QED
      BY <1>1, <2>1, <3>1 DEF UniqueIndex
  <2> QED
    BY <1>1, <2>1 DEF UniqueIndex
<1>9. DeliveriesAreUnique'
  <2> SUFFICES ASSUME NEW r \in rows', NEW s \in rows', r.ref = s.ref PROVE r = s
    BY DEF DeliveriesAreUnique
  <2>1. CASE r \in Copy(a) /\ s \in Copy(a)
    BY <2>1 DEF Copy
  <2>2. CASE r \in rows \ gone[a] /\ s \in rows \ gone[a]
    BY <2>2 DEF DeliveriesAreUnique
  <2>3. ASSUME NEW x \in Copy(a), NEW y \in rows \ gone[a] PROVE x.ref # y.ref
    BY <1>1, CopyIsRows DEF UniqueIndex
  <2> QED
    BY <1>1, <2>1, <2>2, <2>3
<1>10. SheetsMixOnlyWhenOvertaken'
  <2> SUFFICES ASSUME NEW r \in rows', NEW s \in rows'
               PROVE  r.by = s.by \/ {r.by, s.by} \cap overtaken' # {}
    BY DEF SheetsMixOnlyWhenOvertaken
  <2>1. CASE a \in overtaken
    BY <1>1, <2>1, CopyIsRows DEF SheetsMixOnlyWhenOvertaken
  <2>2. CASE a \notin overtaken
    <3>1. rows' = Copy(a)
      BY <1>1, <2>2 DEF SeesAll, Holding
    <3> QED
      BY <3>1, CopyIsRows
  <2> QED
    BY <2>1, <2>2
<1>11. JobTellsTruth'
  BY <1>1 DEF JobTellsTruth, Memory
<1> QED
  BY <1>2, <1>3, <1>4, <1>5, <1>6, <1>7, <1>8, <1>9, <1>10, <1>11

LEMMA NextPreserves == IInv /\ [Next]_vars => IInv'
<1> SUFFICES ASSUME IInv, [Next]_vars PROVE IInv'
  OBVIOUS
<1>1. CASE EditSheet \/ Schedule
  BY <1>1, OutsidePreserves
<1>2. ASSUME NEW a \in Attempt, Step(a) PROVE IInv'
  BY <1>2, OutsidePreserves, AbandonPreserves, DownloadPreserves, SeePreserves,
     DeletePreserves, InsertPreserves, CommitPreserves DEF Step
<1>3. CASE UNCHANGED vars
  BY <1>3
  DEF vars, IInv, TypeOK, Memory, Known, Committed, Whole, WholeIn, RowLocks, SeesAll,
      UniqueIndex, DeliveriesAreUnique, SheetsMixOnlyWhenOvertaken, JobTellsTruth,
      InTransaction
<1> QED
  BY <1>1, <1>2, <1>3 DEF Next

-----------------------------------------------------------------------------
\* The inductive invariant holds of every reachable state.
THEOREM Safety == Spec => []IInv
<1> QED
  BY InitEstablishes, NextPreserves, PTL DEF Spec

\* Deliveries, JobRuns and the memory of the syncs keep their types.
THEOREM TypeCorrect == Spec => []TypeOK
<1>1. IInv => TypeOK
  BY DEF IInv
<1> QED
  BY <1>1, Safety, PTL

\* A sheet that a sync has copied is there as a whole or not at all, however many
\* syncs delete and insert at the same time.
THEOREM CopiesAreWhole == Spec => []SheetsAreWhole
<1>1. IInv => SheetsAreWhole
  <2> SUFFICES ASSUME IInv, NEW a \in Attempt, NEW x \in {r \in rows : r.by = a}
               PROVE  {r \in rows : r.by = a} = Copy(a)
    BY DEF SheetsAreWhole
  <2>1. ASSUME NEW r \in rows, r.by = a PROVE r \in Copy(a)
    BY <2>1 DEF IInv, Whole, WholeIn, TypeOK, Row, Copy
  <2>2. ASSUME NEW r \in Copy(a) PROVE r \in rows /\ r.by = a
    BY <2>2 DEF IInv, Whole, WholeIn, Copy
  <2> QED
    BY <2>1, <2>2
<1> QED
  BY <1>1, Safety, PTL

\* No two rows of the table have one external_ref, and so no delivery is counted twice.
THEOREM NoDeliveryTwice == Spec => []DeliveriesAreUnique
<1>1. IInv => DeliveriesAreUnique
  BY DEF IInv
<1> QED
  BY <1>1, Safety, PTL

\* Rows of two copies are there together only if one of the syncs was overtaken: a
\* sync that was not removes whatever mixture it found.
THEOREM SyncReplacesAll == Spec => []SheetsMixOnlyWhenOvertaken
<1>1. IInv => SheetsMixOnlyWhenOvertaken
  BY DEF IInv
<1> QED
  BY <1>1, Safety, PTL

\* A JobRun that says completed has stored its sheet, one that says failed has not.
THEOREM JobsTellTheTruth == Spec => []JobTellsTruth
<1>1. IInv => JobTellsTruth
  BY DEF IInv
<1> QED
  BY <1>1, Safety, PTL
===============================================================================
