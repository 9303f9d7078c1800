-------------------------- MODULE PlanningDataProofs --------------------------
(***************************************************************************)
(* What the lineage of the sales facts may be relied on for, for any       *)
(* number of uploads that are applied at the same time, of any files, in   *)
(* any processes that may die at any statement.                            *)
(***************************************************************************)
EXTENDS PlanningData, TLAPS, WellFoundedInduction

Written(w) == {k \in Key : w.wrote[k] # NoFact}
PlannedKeys(w) == {u.key : u \in w.updates} \cup Keys(w.inserts)

\* What a request that is no apply leaves alone, and what an apply holds.
OwnWork(w) ==
    /\ w.kind # "apply" => w.batch = "none" /\ w.gone = {} /\ w.wrote = NoFacts
    /\ w.kind = "apply" => w.batch \in Batch \cup StockBatch
    /\ \A k \in Key : w.wrote[k] # NoFact => w.wrote[k].batch = w.batch /\ k \in Keys(w.file)

\* What an apply has deleted was its own and stays so: the row is locked.
GoneIsOwn(r) == \A k \in work[r].gone : sales[k].batch = work[r].batch

\* How far the apply has come: once the DELETE is through nothing of the batch is left
\* but what the apply has written, and what it has not written it has planned.
Stage(r) ==
    LET w == work[r] IN
    /\ pc[r] = "rows" =>
         /\ w.kind = "apply" /\ w.batch \in Batch /\ w.next <= Len(w.file) /\ w.wrote = NoFacts
         /\ w.next = 1 \/ OwnKeys(r) = {}
         /\ \A i \in DOMAIN w.file : i < w.next => w.file[i].key \in PlannedKeys(w)
    /\ pc[r] = "flush" =>
         /\ w.kind = "apply" /\ w.batch \in Batch
         /\ OwnKeys(r) \subseteq Written(w)
         /\ Keys(w.file) \subseteq PlannedKeys(w) \cup Written(w)
    /\ PlannedKeys(w) \subseteq Keys(w.file)
    /\ pc[r] \in {"read stock", "store"} => w.kind # "apply"
    /\ pc[r] = "publish" => w.kind = "apply"
    /\ (pc[r] \in {"refresh", "files", "publish"} /\ w.kind = "apply") =>
         OwnKeys(r) \subseteq Written(w) /\ Keys(w.file) \subseteq Written(w)

Sound(r) == OwnWork(work[r]) /\ GoneIsOwn(r) /\ Stage(r)

\* No fact and no batch is in the hands of two requests.
HeldApart == \A r, s \in Request : r # s => Held(r) \cap Held(s) = {}
OneApplyPerBatch ==
    \A r, s \in Request : r # s /\ work[r].batch # "none" => work[s].batch # work[r].batch

IInv == TypeOK /\ (\A r \in Request : Sound(r)) /\ HeldApart /\ OneApplyPerBatch /\ FactsAreOfTheirFile

-----------------------------------------------------------------------------
(* Types                                                                     *)

LEMMA Bounds == Window \in Nat /\ MaxBegun \in Nat /\ MaxDay \in Nat
BY BoundsAssumption

LEMMA NoFactIsNoFact == NoFact \notin Fact /\ NoFacts \in SalesTable /\ NoView \in View /\ NoRun \in Run
<1>1. NoFact \notin Fact
  BY BatchAssumption DEF NoFact, Fact
<1>2. NoFacts \in SalesTable
  BY DEF NoFacts, SalesTable
<1> QED
  BY <1>1, <1>2 DEF NoView, View, StockTable, NoRun, Run

LEMMA NoWorkIsWork == NoWork \in Work /\ NoApply \in Apply
<1>1. <<>> \in Seq(Row)
  OBVIOUS
<1> QED
  BY <1>1, NoFactIsNoFact DEF NoWork, Work, NoApply, Apply

LEMMA SeenIsTable ==
  ASSUME TypeOK, NEW r \in Request
  PROVE  SeenSales(r) \in SalesTable /\ SeenStock(r) \in StockTable
<1>1. work[r] \in Work /\ sales \in SalesTable /\ stock \in StockTable
  BY DEF TypeOK
<1>2. work[r].wrote \in SalesTable /\ work[r].apply \in Nat
  BY <1>1 DEF Work
<1>3. SeenSales(r) \in SalesTable
  BY <1>1, <1>2 DEF SeenSales, SalesTable
<1>4. SeenStock(r) \in StockTable
  BY <1>1, <1>2 DEF SeenStock, StockTable
<1> QED
  BY <1>3, <1>4

LEMMA InitTypes == Init => TypeOK
<1> SUFFICES ASSUME Init PROVE TypeOK
  OBVIOUS
<1>1. <<>> \in Seq(Run)
  OBVIOUS
<1>2. stock \in StockTable /\ sales \in SalesTable /\ files \in View
  BY NoFactIsNoFact DEF Init, StockTable
<1>3. batches \in [Batch \cup StockBatch -> Apply]
  BY NoWorkIsWork DEF Init
<1>4. pc \in [Request -> Location] /\ work \in [Request -> Work]
  BY NoWorkIsWork DEF Init, Location
<1>5. day \in 0..MaxDay /\ begun \in 0..MaxBegun /\ commits \in Nat
  BY BoundsAssumption DEF Init
<1> QED
  BY <1>1, <1>2, <1>3, <1>4, <1>5 DEF Init, TypeOK

\* The types of pc and work.
LocalTypes ==
    /\ pc \in [Request -> Location] /\ work \in [Request -> Work]
    /\ \A r \in Request : pc[r] = "idle" => work[r] = NoWork
TableTypes ==
    /\ sales \in SalesTable /\ stock \in StockTable
    /\ batches \in [Batch \cup StockBatch -> Apply]
    /\ runs \in Seq(Run) /\ files \in View
    /\ day \in 0..MaxDay /\ begun \in 0..MaxBegun /\ commits \in Nat

LEMMA TypeParts == TypeOK <=> TableTypes /\ LocalTypes
BY DEF TypeOK, TableTypes, LocalTypes

LEMMA NoteTypes ==
  ASSUME LocalTypes, NEW r \in Request, NEW x \in Work, NEW l \in Location \ {"idle"},
         Note(r, x), Goto(r, l) \/ (pc[r] = l /\ pc' = pc)
  PROVE  LocalTypes'
BY DEF LocalTypes, Note, Goto

LEMMA EndTypes ==
  ASSUME LocalTypes, NEW r \in Request, End(r)
  PROVE  LocalTypes'
BY NoWorkIsWork DEF LocalTypes, End, Location

LEMMA BeginTypes ==
  ASSUME LocalTypes, NEW r \in Request, NEW x \in Work, NEW l \in Location \ {"idle"}, Begin(r, x, l)
  PROVE  LocalTypes'
<1>a. ASSUME NEW y \in Work, NEW c \in BOOLEAN
      PROVE  [y EXCEPT !.crossed = c] \in Work
  BY DEF Work
<1>b. (Busy # {}) \in BOOLEAN
  OBVIOUS
<1>1. [x EXCEPT !.crossed = (Busy # {})] \in Work
  BY <1>a, <1>b, Zenon
<1>2. \A s \in Request : work[s] \in Work /\ [work[s] EXCEPT !.crossed = TRUE] \in Work
  BY <1>a DEF LocalTypes
<1>3. \A s \in Request : s # r /\ pc'[s] = "idle" => work'[s] = NoWork
  BY DEF LocalTypes, Begin, Busy
<1> QED
  BY <1>1, <1>2, <1>3 DEF LocalTypes, Begin

LEMMA CommitTypes ==
  ASSUME TypeOK, NEW r \in Request, NEW a \in {"applied", "failed"},
         NEW j \in {"running", "completed"}, Commit(r, a, j), work[r].batch \in Batch \cup StockBatch,
         UNCHANGED <<runs, day, begun>>, files' \in View
  PROVE  TableTypes'
<1>1. work[r] \in Work
  BY DEF TypeOK
<1>2. [status |-> a, file |-> work[r].file, refresh |-> j, crossed |-> work[r].crossed] \in Apply
  BY <1>1 DEF Work, Apply
<1> QED
  BY <1>2, SeenIsTable DEF TypeOK, TableTypes, Commit

\* An apply has a batch, and what it plans is planned of its file.
LEMMA SoundApply ==
  ASSUME \A s \in Request : Sound(s), NEW r \in Request, pc[r] \in {"flush", "publish"} \/ work[r].kind = "apply"
  PROVE  work[r].kind = "apply" /\ work[r].batch \in Batch \cup StockBatch
BY DEF Sound, OwnWork, Stage

LEMMA PlannedIsWork ==
  ASSUME NEW w \in Work, NEW row \in Row, NEW fact \in Fact \cup {NoFact}
  PROVE  Planned(w, row, fact) \in Work
<1>1. CASE fact = NoFact
  <2>1. Append(w.inserts, row) \in Seq(Row)
    BY DEF Work
  <2> QED
    BY <1>1, <2>1 DEF Planned, Work
<1>2. CASE fact # NoFact
  <2> DEFINE same == {u \in w.updates : u.key = row.key /\ u.id = fact.id}
             loaded == IF same = {} THEN fact.qty ELSE (CHOOSE u \in same : TRUE).loaded
             new == [key |-> row.key, id |-> fact.id, loaded |-> loaded, qty |-> row.qty]
  <2>1. w.updates \in SUBSET Update
    BY DEF Work
  <2>2. fact \in Fact
    BY <1>2
  <2>3. loaded \in Nat
    BY <2>1, <2>2 DEF Fact, Update
  <2>4. new \in Update
    BY <2>2, <2>3 DEF Update, Row, Fact
  <2>5. (w.updates \ same) \cup {new} \in SUBSET Update
    BY <2>1, <2>4
  <2> HIDE DEF same, new
  <2>6. [w EXCEPT !.updates = (@ \ same) \cup {new}] \in Work
    BY <2>5 DEF Work
  <2> USE DEF same, new
  <2> QED
    BY <1>2, <2>6 DEF Planned
<1> QED
  BY <1>1, <1>2

TypesOfRequest == TypeOK /\ \A s \in Request : Sound(s)

LEMMA TypesBegin ==
  ASSUME TypesOfRequest, NEW r \in Request, BeginApply(r) \/ BeginCalculation(r)
  PROVE  TypeOK'
<1> USE TypeParts DEF TypesOfRequest
<1>0. TypeOK /\ TableTypes /\ LocalTypes
  OBVIOUS
<1>1. begun' \in 0..MaxBegun
  <2>1. begun < MaxBegun /\ begun' = begun + 1
    BY DEF BeginApply, BeginCalculation
  <2>2. begun \in 0..MaxBegun
    BY <1>0 DEF TableTypes
  <2> QED
    BY <2>1, <2>2, Bounds
<1>2. TableTypes'
  BY <1>1 DEF BeginApply, BeginCalculation, TableTypes
<1>3. CASE BeginApply(r)
  <2>a. PICK b \in Batch \cup StockBatch :
          \E f \in IF b \in Batch THEN Files[b] ELSE {<<>>} :
            Begin(r, [NoWork EXCEPT !.kind = "apply", !.batch = b, !.apply = begun + 1, !.file = f],
                  IF b \in Batch THEN "rows" ELSE "refresh")
    BY <1>3 DEF BeginApply
  <2>1. PICK f \in IF b \in Batch THEN Files[b] ELSE {<<>>} :
            Begin(r, [NoWork EXCEPT !.kind = "apply", !.batch = b, !.apply = begun + 1, !.file = f],
                  IF b \in Batch THEN "rows" ELSE "refresh")
    BY <2>a
  <2>2. f \in Seq(Row) /\ begun + 1 \in Nat
    <3>1. CASE b \in Batch
      BY <3>1, FilesAssumption, Bounds DEF TypeOK
    <3>2. CASE b \notin Batch
      BY <3>2, Bounds DEF TypeOK
    <3> QED
      BY <3>1, <3>2
  <2>l. (IF b \in Batch THEN "rows" ELSE "refresh") \in Location \ {"idle"}
    BY DEF Location
  <2>3. [NoWork EXCEPT !.kind = "apply", !.batch = b, !.apply = begun + 1, !.file = f] \in Work
    BY <2>2, NoWorkIsWork DEF Work
  <2>4. LocalTypes'
    BY <1>0, <2>1, <2>3, <2>l, BeginTypes
  <2> QED
    BY <1>2, <2>4 DEF TypeOK, TableTypes, LocalTypes
<1>4. CASE BeginCalculation(r)
  <2>1. PICK kind \in Calculation :
         Begin(r, [NoWork EXCEPT !.kind = kind, !.run = [kind |-> kind, day |-> 0, after |-> Len(runs),
                                                         began |-> commits, read |-> commits]],
               "read stock")
    BY <1>4 DEF BeginCalculation
  <2>2. [kind |-> kind, day |-> 0, after |-> Len(runs), began |-> commits, read |-> commits] \in Run
    BY BoundsAssumption DEF TypeOK, Run
  <2>3. [NoWork EXCEPT !.kind = kind, !.run = [kind |-> kind, day |-> 0, after |-> Len(runs),
                                                         began |-> commits, read |-> commits]] \in Work
    BY <2>2, NoWorkIsWork DEF Work
  <2>l. "read stock" \in Location \ {"idle"}
    BY DEF Location
  <2>4. LocalTypes'
    BY <1>0, <2>1, <2>3, <2>l, BeginTypes
  <2> QED
    BY <1>2, <2>4 DEF TypeOK, TableTypes, LocalTypes
<1> QED
  BY <1>3, <1>4

LEMMA TypesRows ==
  ASSUME TypesOfRequest, NEW r \in Request, DeleteRow(r) \/ LookRow(r)
  PROVE  TypeOK'
<1> USE TypeParts DEF TypesOfRequest
<1>1. TableTypes'
  BY DEF DeleteRow, LookRow, TypeOK, TableTypes
<1>2. work[r] \in Work /\ pc[r] \in Location
  BY DEF TypeOK
<1>3. CASE DeleteRow(r)
  <2>1. PICK k \in Key : Note(r, [work[r] EXCEPT !.gone = @ \cup {k}])
    BY <1>3 DEF DeleteRow, OwnKeys
  <2>2. [work[r] EXCEPT !.gone = @ \cup {k}] \in Work
    BY <1>2 DEF Work
  <2>3. pc[r] = "rows" /\ pc' = pc /\ "rows" \in Location \ {"idle"}
    BY <1>3 DEF DeleteRow, Location
  <2>4. LocalTypes'
    BY <2>1, <2>2, <2>3, NoteTypes
  <2> QED
    BY <1>1, <2>4 DEF TypeOK, TableTypes, LocalTypes
<1>4. CASE LookRow(r)
  <2> DEFINE w == work[r]
             row == w.file[w.next]
             p == Planned(w, row, SeenSales(r)[row.key])
             l == IF w.next = Len(w.file) THEN "flush" ELSE "rows"
  <2>1. Note(r, [p EXCEPT !.next = @ + 1]) /\ Goto(r, l) /\ pc[r] = "rows"
    BY <1>4 DEF LookRow
  <2>2. w.next \in DOMAIN w.file /\ w.file \in Seq(Row)
    <3>1. w.next <= Len(w.file)
      BY <2>1 DEF Sound, Stage
    <3>2. w.next \in Nat \ {0} /\ w.file \in Seq(Row)
      BY <1>2 DEF Work
    <3> QED
      BY <3>1, <3>2
  <2>3. row \in Row /\ row.key \in Key
    <3>1. row \in Row
      BY <2>2
    <3> QED
      BY <3>1 DEF Row
  <2>4. SeenSales(r)[row.key] \in Fact \cup {NoFact}
    BY <2>3, SeenIsTable DEF SalesTable
  <2>5. p \in Work
    BY <1>2, <2>3, <2>4, PlannedIsWork
  <2> HIDE DEF p
  <2>a. p.next + 1 \in Nat \ {0}
    BY <2>5 DEF Work
  <2>6. [p EXCEPT !.next = @ + 1] \in Work
    BY <2>5, <2>a DEF Work
  <2>7. l \in Location \ {"idle"}
    BY DEF Location
  <2> HIDE DEF l
  <2>8. LocalTypes'
    BY <2>1, <2>6, <2>7, NoteTypes
  <2> QED
    BY <1>1, <2>8 DEF TypeOK, TableTypes, LocalTypes
<1> QED
  BY <1>3, <1>4

LEMMA TypesFlush ==
  ASSUME TypesOfRequest, NEW r \in Request,
         WriteUpdate(r) \/ WriteInsert(r) \/ Conflict(r) \/ BreakDeadlock(r)
  PROVE  TypeOK'
<1>0. TypeOK /\ TableTypes /\ LocalTypes /\ work[r] \in Work
  BY TypeParts DEF TypesOfRequest, LocalTypes
<1>1. TableTypes'
  BY <1>0 DEF WriteUpdate, WriteInsert, Conflict, BreakDeadlock, TableTypes
<1>2. CASE WriteUpdate(r)
  <2>1. PICK u \in work[r].updates :
          Note(r, [work[r] EXCEPT !.updates = @ \ {u}, !.wrote[u.key] = Updated(work[r], u)])
    BY <1>2 DEF WriteUpdate, NextUpdates
  <2>2. u \in Update /\ work[r].updates \ {u} \in SUBSET Update /\ work[r].wrote \in SalesTable
    BY <1>0 DEF Work
  <2>3. work[r].batch \in Batch /\ pc[r] = "flush" /\ pc' = pc
    BY <1>2 DEF TypesOfRequest, Sound, Stage, WriteUpdate
  <2>4. Updated(work[r], u) \in Fact
    <3>1. sales[u.key] \in Fact \cup {NoFact} /\ sales[u.key].qty \in Nat
      BY <1>0, <2>2 DEF TableTypes, SalesTable, Update, Fact, NoFact
    <3> QED
      BY <2>2, <2>3, <3>1 DEF Updated, Update, Fact
  <2> DEFINE f == Updated(work[r], u)
  <2>5. [work[r].wrote EXCEPT ![u.key] = f] \in SalesTable
    BY <2>2, <2>4 DEF SalesTable
  <2> HIDE DEF f
  <2>6. [work[r] EXCEPT !.updates = @ \ {u}, !.wrote[u.key] = f] \in Work
    BY <1>0, <2>2, <2>5 DEF Work
  <2>l. "flush" \in Location \ {"idle"}
    BY DEF Location
  <2>7. LocalTypes'
    BY <1>0, <2>1, <2>3, <2>6, <2>l, NoteTypes DEF f
  <2> QED
    BY <1>1, <2>7 DEF TypeOK, TableTypes, LocalTypes
<1>3. CASE WriteInsert(r)
  <2>1. PICK row \in NextInserts(work[r]) :
          Note(r, [work[r] EXCEPT !.inserts = Tail(@), !.wrote[row.key] = Inserted(work[r], row)])
    BY <1>3 DEF WriteInsert
  <2>2. /\ row \in Row /\ row.key \in Key /\ row.qty \in Nat
        /\ Tail(work[r].inserts) \in Seq(Row) /\ work[r].wrote \in SalesTable
    <3>1. work[r].inserts \in Seq(Row) /\ work[r].wrote \in SalesTable
      BY <1>0 DEF Work
    <3>2. work[r].inserts # <<>> /\ row = Head(work[r].inserts)
      BY DEF NextInserts
    <3>3. row \in Row /\ Tail(work[r].inserts) \in Seq(Row)
      BY <3>1, <3>2
    <3> QED
      BY <3>1, <3>3 DEF Row
  <2>3. work[r].batch \in Batch /\ pc[r] = "flush" /\ pc' = pc
    BY <1>3 DEF TypesOfRequest, Sound, Stage, WriteInsert
  <2>4. Inserted(work[r], row) \in Fact
    BY <1>0, <2>2, <2>3 DEF Inserted, Fact, Work
  <2> DEFINE f == Inserted(work[r], row)
  <2>5. [work[r].wrote EXCEPT ![row.key] = f] \in SalesTable
    BY <2>2, <2>4 DEF SalesTable
  <2> HIDE DEF f
  <2>6. [work[r] EXCEPT !.inserts = Tail(@), !.wrote[row.key] = f] \in Work
    BY <1>0, <2>2, <2>5 DEF Work
  <2>l. "flush" \in Location \ {"idle"}
    BY DEF Location
  <2>7. LocalTypes'
    BY <1>0, <2>1, <2>3, <2>6, <2>l, NoteTypes DEF f
  <2> QED
    BY <1>1, <2>7 DEF TypeOK, TableTypes, LocalTypes
<1>4. CASE Conflict(r) \/ BreakDeadlock(r)
  <2>1. LocalTypes'
    BY <1>0, <1>4, EndTypes DEF Conflict, BreakDeadlock
  <2> QED
    BY <1>1, <2>1 DEF TypeOK, TableTypes, LocalTypes
<1> QED
  BY <1>2, <1>3, <1>4

LEMMA TypesCalculation ==
  ASSUME TypesOfRequest, NEW r \in Request, ReadStock(r) \/ StoreRun(r)
  PROVE  TypeOK'
<1>0. TypeOK /\ TableTypes /\ LocalTypes /\ work[r] \in Work
  BY TypeParts DEF TypesOfRequest, LocalTypes
<1>1. work[r].run \in Run /\ commits \in Nat
  BY <1>0 DEF Work, TableTypes
<1>2. [work[r].run EXCEPT !.read = commits] \in Run
  BY <1>1 DEF Run
<1>l. "store" \in Location \ {"idle"} /\ "refresh" \in Location \ {"idle"}
  BY DEF Location
<1>3. CASE ReadStock(r)
  <2>1. [work[r] EXCEPT !.run.read = commits] \in Work
    BY <1>0, <1>2 DEF Work
  <2>2. LocalTypes'
    BY <1>0, <1>3, <2>1, <1>l, NoteTypes DEF ReadStock
  <2>3. TableTypes'
    BY <1>0, <1>3 DEF ReadStock, TableTypes
  <2> QED
    BY <2>2, <2>3 DEF TypeOK, TableTypes, LocalTypes
<1>4. CASE StoreRun(r)
  <2>1. [work[r] EXCEPT !.run = NoRun] \in Work
    BY <1>0, NoFactIsNoFact DEF Work
  <2>2. LocalTypes'
    BY <1>0, <1>4, <2>1, <1>l, NoteTypes DEF StoreRun
  <2>5. [work[r].run EXCEPT !.day = day] \in Run
    <3>1. day \in Nat
      BY <1>0, Bounds DEF TableTypes
    <3> QED
      BY <1>1, <3>1 DEF Run
  <2>3. Append(runs, [work[r].run EXCEPT !.day = day]) \in Seq(Run)
    BY <1>0, <2>5 DEF TableTypes
  <2>4. TableTypes'
    BY <1>0, <1>4, <2>3 DEF StoreRun, TableTypes
  <2> QED
    BY <2>2, <2>4 DEF TypeOK, TableTypes, LocalTypes
<1> QED
  BY <1>3, <1>4

LEMMA TypesFiles ==
  ASSUME TypesOfRequest, NEW r \in Request,
         ReadTables(r) \/ WriteFiles(r) \/ RefreshFails(r) \/ Publish(r)
  PROVE  TypeOK'
<1>0. TypeOK /\ TableTypes /\ LocalTypes /\ work[r] \in Work
  BY TypeParts DEF TypesOfRequest, LocalTypes
<1>l. "files" \in Location \ {"idle"} /\ "publish" \in Location \ {"idle"}
  BY DEF Location
<1>1. CASE ReadTables(r)
  <2> DEFINE v == [sales |-> SeenSales(r), stock |-> SeenStock(r), at |-> commits, by |-> ProcessOf[r]]
  <2>1. v \in View
    BY <1>0, SeenIsTable, ProcessAssumption DEF View, TableTypes
  <2> HIDE DEF v
  <2>2. [work[r] EXCEPT !.view = v] \in Work
    BY <1>0, <2>1 DEF Work
  <2>3. LocalTypes'
    BY <1>0, <1>1, <1>l, <2>2, NoteTypes DEF ReadTables, v
  <2>4. TableTypes'
    BY <1>0, <1>1 DEF ReadTables, TableTypes
  <2> QED
    BY <2>3, <2>4 DEF TypeOK, TableTypes, LocalTypes
<1>2. CASE WriteFiles(r)
  <2>1. work[r].view \in View /\ [work[r] EXCEPT !.view = NoView] \in Work
    BY <1>0, NoFactIsNoFact DEF Work
  <2>2. TableTypes'
    BY <1>0, <1>2, <2>1 DEF WriteFiles, TableTypes
  <2>3. LocalTypes'
    BY <1>0, <1>2, <1>l, <2>1, NoteTypes, EndTypes DEF WriteFiles
  <2> QED
    BY <2>2, <2>3 DEF TypeOK, TableTypes, LocalTypes
<1>3. CASE RefreshFails(r) \/ Publish(r)
  <2>1. LocalTypes'
    BY <1>0, <1>3, EndTypes DEF RefreshFails, Publish
  <2>2. files \in View /\ files' \in View
    BY <1>0, <1>3 DEF RefreshFails, Publish, TableTypes, Work
  <2>3. CASE Publish(r) \/ work[r].kind = "apply"
    <3>1. work[r].batch \in Batch \cup StockBatch
      BY <2>3, SoundApply DEF TypesOfRequest, Publish
    <3>2. TableTypes'
      BY <1>0, <1>3, <2>2, <2>3, <3>1, CommitTypes DEF RefreshFails, Publish
    <3> QED
      BY <2>1, <3>2 DEF TypeOK, TableTypes, LocalTypes
  <2>4. CASE RefreshFails(r) /\ work[r].kind # "apply"
    <3>1. TableTypes'
      BY <1>0, <2>2, <2>4 DEF RefreshFails, TableTypes
    <3> QED
      BY <2>1, <3>1 DEF TypeOK, TableTypes, LocalTypes
  <2> QED
    BY <1>3, <2>3, <2>4
<1> QED
  BY <1>1, <1>2, <1>3

LEMMA TypesRest ==
  ASSUME TypesOfRequest, (\E p \in Process : Crash(p)) \/ NextDay \/ UNCHANGED vars
  PROVE  TypeOK'
<1>0. TypeOK
  BY DEF TypesOfRequest
<1>1. ASSUME NEW p \in Process, Crash(p) PROVE TypeOK'
  <2>1. files' \in View
    BY <1>0, <1>1 DEF Crash, Busy, TypeOK, Work
  <2> QED
    BY <1>0, <1>1, <2>1, NoWorkIsWork DEF Crash, TypeOK, Location
<1>2. CASE NextDay
  BY <1>0, <1>2, Bounds DEF NextDay, TypeOK
<1>3. CASE UNCHANGED vars
  BY <1>0, <1>3 DEF vars, TypeOK
<1> QED
  BY <1>1, <1>2, <1>3

LEMMA StepTypes == TypesOfRequest /\ [Next]_vars => TypeOK'
BY TypesBegin, TypesRows, TypesFlush, TypesCalculation, TypesFiles, TypesRest DEF Next, Step

-----------------------------------------------------------------------------
(* What each request holds                                                   *)

\* What the lineage depends on, of a request that another one's step leaves alone.
Same(s) ==
    /\ pc'[s] = pc[s]
    /\ work'[s].kind = work[s].kind /\ work'[s].batch = work[s].batch
    /\ work'[s].file = work[s].file /\ work'[s].next = work[s].next
    /\ work'[s].gone = work[s].gone /\ work'[s].wrote = work[s].wrote
    /\ work'[s].updates = work[s].updates /\ work'[s].inserts = work[s].inserts

\* Its facts stay, and it gets no new ones.
Undisturbed(s) ==
    /\ \A k \in work[s].gone : sales'[k] = sales[k]
    /\ \A k \in Key : work[s].kind = "apply" /\ sales'[k].batch = work[s].batch =>
          sales[k].batch = work[s].batch

LEMMA OwnKeysFrame ==
  ASSUME NEW s \in Request, Same(s), Undisturbed(s), work[s].kind = "apply", TypeOK
  PROVE  OwnKeys(s)' \subseteq OwnKeys(s)
<1> SUFFICES ASSUME NEW k \in Key, SeenSales(s)'[k].batch = work'[s].batch
             PROVE  SeenSales(s)[k].batch = work[s].batch
  BY DEF OwnKeys
<1>1. CASE work[s].wrote[k] # NoFact
  BY <1>1 DEF Same, SeenSales
<1>2. CASE work[s].wrote[k] = NoFact /\ k \in work[s].gone
  BY <1>2 DEF Same, SeenSales
<1>3. CASE work[s].wrote[k] = NoFact /\ k \notin work[s].gone
  BY <1>3 DEF Same, SeenSales, Undisturbed
<1> QED
  BY <1>1, <1>2, <1>3

LEMMA Frame ==
  ASSUME TypeOK, NEW s \in Request, Sound(s), Same(s), Undisturbed(s)
  PROVE  Sound(s)'
<1>1. OwnWork(work[s])'
  BY DEF Sound, Same, OwnWork, Keys
<1>2. GoneIsOwn(s)'
  BY DEF Sound, Same, GoneIsOwn, Undisturbed
<1>3. PlannedKeys(work[s])' = PlannedKeys(work[s]) /\ Written(work[s])' = Written(work[s])
      /\ Keys(work[s].file)' = Keys(work[s].file)
  BY DEF Same, PlannedKeys, Written, Keys
<1>4. work[s].kind = "apply" => OwnKeys(s)' \subseteq OwnKeys(s)
  BY OwnKeysFrame
<1>5. Stage(s)'
  BY <1>3, <1>4 DEF Sound, Stage, Same
<1> QED
  BY <1>1, <1>2, <1>5 DEF Sound

\* A step that leaves the facts alone disturbs nobody.
LEMMA QuietFrame ==
  ASSUME TypeOK, NEW s \in Request, Sound(s), Same(s), UNCHANGED sales
  PROVE  Sound(s)'
BY Frame DEF Undisturbed

LEMMA IdleIsSound ==
  ASSUME NEW s \in Request, work'[s] = NoWork, pc'[s] = "idle"
  PROVE  Sound(s)'
<1>1. Keys(<<>>) = {}
  BY DEF Keys
<1>2. PlannedKeys(NoWork) = {}
  BY <1>1 DEF PlannedKeys, NoWork
<1>3. \A k \in Key : NoWork.wrote[k] = NoFact
  BY DEF NoWork, NoFacts
<1>4. OwnWork(NoWork)
  BY <1>3 DEF OwnWork, NoWork
<1>5. GoneIsOwn(s)'
  BY DEF GoneIsOwn, NoWork
<1>6. Stage(s)'
  BY <1>2 DEF Stage
<1> QED
  BY <1>4, <1>5, <1>6 DEF Sound

\* A step that writes to one request, and to no fact, disturbs no other one.
LEMMA NoteFrame ==
  ASSUME TypesOfRequest, NEW r \in Request, NEW x, Note(r, x) \/ End(r),
         NEW s \in Request \ {r}, pc'[s] = pc[s], UNCHANGED sales
  PROVE  Sound(s)'
<1>1. Same(s)
  BY DEF Note, End, Same, TypesOfRequest, TypeOK
<1> QED
  BY <1>1, QuietFrame DEF TypesOfRequest

\* A request that begins marks the others as overlapped, no more.
LEMMA BeginFrame ==
  ASSUME TypeOK, NEW r \in Request, NEW x, NEW l, Begin(r, x, l), NEW s \in Request, s # r
  PROVE  Same(s)
<1>1. pc'[s] = pc[s] /\ work[s] \in Work
  BY DEF Begin, TypeOK
<1>2. work'[s] = [work[s] EXCEPT !.crossed = TRUE] \/ work'[s] = work[s]
  BY DEF Begin
<1>3. CASE work'[s] = [work[s] EXCEPT !.crossed = TRUE]
  BY <1>1, <1>3 DEF Same, Work
<1> QED
  BY <1>1, <1>2, <1>3 DEF Same

LEMMA SoundBeginApply ==
  ASSUME TypesOfRequest, NEW r \in Request, BeginApply(r)
  PROVE  \A s \in Request : Sound(s)'
<1>a. PICK b \in Batch \cup StockBatch :
          \E f \in IF b \in Batch THEN Files[b] ELSE {<<>>} :
            Begin(r, [NoWork EXCEPT !.kind = "apply", !.batch = b, !.apply = begun + 1, !.file = f],
                  IF b \in Batch THEN "rows" ELSE "refresh")
  BY DEF BeginApply
<1>b. PICK f \in IF b \in Batch THEN Files[b] ELSE {<<>>} :
            Begin(r, [NoWork EXCEPT !.kind = "apply", !.batch = b, !.apply = begun + 1, !.file = f],
                  IF b \in Batch THEN "rows" ELSE "refresh")
  BY <1>a
<1>1. /\ work'[r].kind = "apply" /\ work'[r].batch = b /\ work'[r].file = f /\ work'[r].next = 1
      /\ work'[r].gone = {} /\ work'[r].updates = {} /\ work'[r].inserts = <<>>
      /\ work'[r].wrote = NoFacts
  BY <1>b DEF Begin, NoWork
<1>2. pc \in [Request -> Location] /\ pc'[r] = IF b \in Batch THEN "rows" ELSE "refresh"
  BY <1>b DEF Begin, TypesOfRequest, TypeOK
<1>3. sales \in SalesTable /\ sales' = sales
  BY DEF BeginApply, TypesOfRequest, TypeOK
<1>4. \A k \in Key : work'[r].wrote[k] = NoFact
  BY <1>1 DEF NoFacts
<1>5. OwnWork(work[r])' /\ GoneIsOwn(r)'
  BY <1>1, <1>4 DEF OwnWork, GoneIsOwn
<1>6. PlannedKeys(work[r])' = {}
  BY <1>1 DEF PlannedKeys, Keys
<1>7. ASSUME b \in Batch PROVE Stage(r)'
  <2>1. f \in Seq(Row) /\ f # <<>>
    BY <1>7, FilesAssumption
  <2>2. 1 <= Len(f) /\ \A i \in DOMAIN f : ~(i < 1)
    BY <2>1
  <2>3. Stage(r)'
    BY <1>1, <1>2, <1>6, <1>7, <2>2 DEF Stage
  <2> QED
    BY <2>3
<1>8. ASSUME b \notin Batch PROVE Stage(r)'
  <2>1. f = <<>> /\ Keys(f) = {}
    BY <1>8 DEF Keys
  <2>2. OwnKeys(r)' = {}
    <3> SUFFICES ASSUME NEW k \in Key PROVE SeenSales(r)'[k].batch # b
      BY <1>1 DEF OwnKeys
    <3>1. SeenSales(r)'[k] = sales[k]
      BY <1>1, <1>3, <1>4 DEF SeenSales
    <3>2. sales[k] \in Fact \cup {NoFact}
      BY <1>3 DEF SalesTable
    <3> QED
      BY <1>8, <3>1, <3>2, BatchAssumption DEF Fact, NoFact
  <2>3. Stage(r)'
    BY <1>1, <1>2, <1>6, <1>8, <2>1, <2>2 DEF Stage
  <2> QED
    BY <2>3
<1>9. Sound(r)'
  BY <1>5, <1>7, <1>8 DEF Sound
<1>10. ASSUME NEW s \in Request, s # r PROVE Sound(s)'
  <2>1. Same(s)
    BY <1>b, <1>10, BeginFrame DEF TypesOfRequest
  <2> QED
    BY <1>3, <2>1, QuietFrame DEF TypesOfRequest
<1> QED
  BY <1>9, <1>10

LEMMA SoundBeginCalculation ==
  ASSUME TypesOfRequest, NEW r \in Request, BeginCalculation(r)
  PROVE  \A s \in Request : Sound(s)'
<1>a. PICK kind \in Calculation :
         Begin(r, [NoWork EXCEPT !.kind = kind, !.run = [kind |-> kind, day |-> 0, after |-> Len(runs),
                                                         began |-> commits, read |-> commits]],
               "read stock")
  BY DEF BeginCalculation
<1>1. /\ work'[r].kind # "apply" /\ work'[r].batch = "none" /\ work'[r].file = <<>>
      /\ work'[r].gone = {} /\ work'[r].updates = {} /\ work'[r].inserts = <<>>
      /\ work'[r].wrote = NoFacts
  BY <1>a DEF Begin, NoWork, Calculation
<1>2. pc'[r] = "read stock"
  BY <1>a DEF Begin, TypesOfRequest, TypeOK
<1>3. \A k \in Key : work'[r].wrote[k] = NoFact
  BY <1>1 DEF NoFacts
<1>4. PlannedKeys(work[r])' = {}
  BY <1>1 DEF PlannedKeys, Keys
<1>5. Sound(r)'
  BY <1>1, <1>2, <1>3, <1>4 DEF Sound, OwnWork, GoneIsOwn, Stage
<1>6. ASSUME NEW s \in Request, s # r PROVE Sound(s)'
  <2>1. Same(s) /\ UNCHANGED sales
    BY <1>a, <1>6, BeginFrame DEF TypesOfRequest, BeginCalculation
  <2> QED
    BY <2>1, QuietFrame DEF TypesOfRequest
<1> QED
  BY <1>5, <1>6

LEMMA SoundDeleteRow ==
  ASSUME TypesOfRequest, NEW r \in Request, DeleteRow(r)
  PROVE  \A s \in Request : Sound(s)'
<1>1. PICK k \in OwnKeys(r) : Note(r, [work[r] EXCEPT !.gone = @ \cup {k}])
  BY DEF DeleteRow
<1>2. work \in [Request -> Work] /\ work[r] \in Work /\ Sound(r) /\ pc[r] = "rows" /\ work[r].next = 1
      /\ pc' = pc /\ sales' = sales
  BY DEF DeleteRow, TypesOfRequest, TypeOK
<1>3. /\ work'[r].gone = work[r].gone \cup {k} /\ work'[r].wrote = work[r].wrote
      /\ work'[r].kind = work[r].kind /\ work'[r].batch = work[r].batch
      /\ work'[r].file = work[r].file /\ work'[r].next = work[r].next
      /\ work'[r].updates = work[r].updates /\ work'[r].inserts = work[r].inserts
  BY <1>1, <1>2 DEF Note, Work
<1>4. OwnWork(work[r])'
  BY <1>2, <1>3 DEF Sound, OwnWork, Keys, Stage
<1>5. k \in Key /\ sales[k].batch = work[r].batch
  <2>1. k \in Key /\ SeenSales(r)[k].batch = work[r].batch
    BY DEF OwnKeys
  <2>2. work[r].wrote[k] = NoFact /\ work[r].batch \in Batch
    BY <1>2, <2>1 DEF Sound, Stage, NoFacts
  <2> QED
    BY <2>1, <2>2, BatchAssumption DEF SeenSales, NoFact
<1>6. GoneIsOwn(r)'
  BY <1>2, <1>3, <1>5 DEF Sound, GoneIsOwn
<1>7. PlannedKeys(work[r])' = PlannedKeys(work[r]) /\ Keys(work[r].file)' = Keys(work[r].file)
  BY <1>3 DEF PlannedKeys, Keys
<1>8. Stage(r)'
  BY <1>2, <1>3, <1>7 DEF Sound, Stage
<1>9. ASSUME NEW s \in Request, s # r PROVE Sound(s)'
  <2>1. Same(s) /\ UNCHANGED sales
    BY <1>1, <1>2, <1>9 DEF Note, Same
  <2> QED
    BY <2>1, QuietFrame DEF TypesOfRequest
<1> QED
  BY <1>4, <1>6, <1>8, <1>9 DEF Sound

\* A row that is looked up joins what is planned, as an update or an insert, and changes
\* nothing else.
LEMMA PlannedAdds ==
  ASSUME NEW w \in Work, NEW row \in Row, NEW fact \in Fact \cup {NoFact}
  PROVE  LET p == Planned(w, row, fact) IN
         /\ PlannedKeys(p) = PlannedKeys(w) \cup {row.key}
         /\ p.kind = w.kind /\ p.batch = w.batch /\ p.file = w.file /\ p.next = w.next
         /\ p.gone = w.gone /\ p.wrote = w.wrote
<1>1. CASE fact = NoFact
  <2> DEFINE p == [w EXCEPT !.inserts = Append(@, row)]
  <2>1. w.inserts \in Seq(Row)
    BY DEF Work
  <2>2. p.inserts = Append(w.inserts, row) /\ p.updates = w.updates
        /\ p.kind = w.kind /\ p.batch = w.batch /\ p.file = w.file /\ p.next = w.next
        /\ p.gone = w.gone /\ p.wrote = w.wrote
    BY DEF Work
  <2>3. Keys(Append(w.inserts, row)) = Keys(w.inserts) \cup {row.key}
    <3>1. Len(Append(w.inserts, row)) = Len(w.inserts) + 1
      BY <2>1
    <3>2. \A i \in 1..Len(w.inserts) : Append(w.inserts, row)[i] = w.inserts[i]
      BY <2>1
    <3>3. Append(w.inserts, row)[Len(w.inserts) + 1] = row
      BY <2>1
    <3>4. DOMAIN w.inserts = 1..Len(w.inserts)
          /\ DOMAIN Append(w.inserts, row) = 1..(Len(w.inserts) + 1) /\ Len(w.inserts) \in Nat
      BY <2>1, <3>1
    <3>5. 1..(Len(w.inserts) + 1) = (1..Len(w.inserts)) \cup {Len(w.inserts) + 1}
      BY <3>4
    <3> QED
      BY <3>2, <3>3, <3>4, <3>5 DEF Keys
  <2>4. Planned(w, row, fact) = p
    BY <1>1 DEF Planned
  <2> QED
    BY <2>2, <2>3, <2>4 DEF PlannedKeys
<1>2. CASE fact # NoFact
  <2> DEFINE same == {u \in w.updates : u.key = row.key /\ u.id = fact.id}
             loaded == IF same = {} THEN fact.qty ELSE (CHOOSE u \in same : TRUE).loaded
             new == [key |-> row.key, id |-> fact.id, loaded |-> loaded, qty |-> row.qty]
             p == [w EXCEPT !.updates = (@ \ same) \cup {new}]
  <2>1. Planned(w, row, fact) = p
    BY <1>2 DEF Planned
  <2>2. p.updates = (w.updates \ same) \cup {new} /\ p.inserts = w.inserts
        /\ p.kind = w.kind /\ p.batch = w.batch /\ p.file = w.file /\ p.next = w.next
        /\ p.gone = w.gone /\ p.wrote = w.wrote
    <3> HIDE DEF same, new
    <3> QED
      BY DEF Work
  <2>3. new.key = row.key /\ \A u \in same : u.key = row.key
    OBVIOUS
  <2> HIDE DEF new, same, p
  <2>4. {u.key : u \in (w.updates \ same) \cup {new}} = {u.key : u \in w.updates} \cup {row.key}
    <3>s. same \subseteq w.updates
      BY DEF same
    <3> QED
      BY <2>3, <3>s
  <2> QED
    BY <2>1, <2>2, <2>4 DEF PlannedKeys
<1> QED
  BY <1>1, <1>2

LEMMA SoundLookRow ==
  ASSUME TypesOfRequest, NEW r \in Request, LookRow(r)
  PROVE  \A s \in Request : Sound(s)'
<1> DEFINE w == work[r]
           row == w.file[w.next]
           p == Planned(w, row, SeenSales(r)[row.key])
<1>1. /\ Note(r, [p EXCEPT !.next = @ + 1]) /\ pc[r] = "rows" /\ OwnKeys(r) = {}
      /\ Goto(r, IF w.next = Len(w.file) THEN "flush" ELSE "rows") /\ sales' = sales
  BY DEF LookRow
<1>2. TypeOK /\ work \in [Request -> Work] /\ w \in Work /\ Sound(r) /\ pc \in [Request -> Location]
  BY DEF TypesOfRequest, TypeOK
<1>3. /\ w.kind = "apply" /\ w.batch \in Batch /\ w.wrote = NoFacts
      /\ w.next <= Len(w.file) /\ w.next \in Nat \ {0} /\ w.file \in Seq(Row)
  BY <1>1, <1>2 DEF Sound, Stage, Work
<1>4. w.next \in DOMAIN w.file /\ row \in Row /\ row.key \in Key
  <2>1. w.next \in DOMAIN w.file /\ row \in Row
    BY <1>3
  <2> QED
    BY <2>1 DEF Row
<1>5. SeenSales(r)[row.key] \in Fact \cup {NoFact}
  BY <1>2, <1>4, SeenIsTable DEF SalesTable
<1>6. p \in Work
  BY <1>2, <1>4, <1>5, PlannedIsWork
<1>7. /\ PlannedKeys(p) = PlannedKeys(w) \cup {row.key}
      /\ p.kind = w.kind /\ p.batch = w.batch /\ p.file = w.file /\ p.next = w.next
      /\ p.gone = w.gone /\ p.wrote = w.wrote
  BY <1>2, <1>4, <1>5, PlannedAdds
<1> HIDE DEF p
<1>8. /\ work'[r].next = w.next + 1 /\ work'[r].kind = w.kind /\ work'[r].batch = w.batch
      /\ work'[r].file = w.file /\ work'[r].gone = w.gone /\ work'[r].wrote = w.wrote
      /\ work'[r].updates = p.updates /\ work'[r].inserts = p.inserts
  BY <1>1, <1>2, <1>6, <1>7 DEF Note, Work
<1>9. PlannedKeys(work[r])' = PlannedKeys(w) \cup {row.key}
  BY <1>7, <1>8 DEF PlannedKeys
<1>10. OwnWork(work[r])' /\ GoneIsOwn(r)'
  BY <1>1, <1>2, <1>8 DEF Sound, OwnWork, GoneIsOwn, Keys
<1>11. OwnKeys(r)' = {}
  BY <1>1, <1>8 DEF OwnKeys, SeenSales
<1>12. row.key \in Keys(w.file) /\ Keys(work[r].file)' = Keys(w.file)
  BY <1>4, <1>8 DEF Keys
<1>13. \A i \in DOMAIN w.file : i < w.next + 1 => w.file[i].key \in PlannedKeys(w) \cup {row.key}
  <2>1. \A i \in DOMAIN w.file : i < w.next => w.file[i].key \in PlannedKeys(w)
    BY <1>1, <1>2 DEF Sound, Stage
  <2>2. \A i \in DOMAIN w.file : i < w.next + 1 => i < w.next \/ i = w.next
    BY <1>3
  <2> QED
    BY <2>1, <2>2
<1>16. \A s \in Request \ {r} : Sound(s)'
  BY <1>1, <1>2, NoteFrame DEF Goto
<1>14. CASE w.next = Len(w.file)
  <2>1. pc'[r] = "flush"
    BY <1>1, <1>2, <1>14 DEF Goto
  <2>2. Keys(w.file) \subseteq PlannedKeys(w) \cup {row.key}
    <3>1. \A i \in DOMAIN w.file : i < w.next + 1
      BY <1>3, <1>14
    <3> QED
      BY <1>13, <3>1 DEF Keys
  <2>3. Stage(r)'
    BY <1>2, <1>3, <1>8, <1>9, <1>11, <1>12, <2>1, <2>2 DEF Stage, Sound
  <2> QED
    BY <1>10, <1>16, <2>3 DEF Sound
<1>15. CASE w.next # Len(w.file)
  <2>1. pc'[r] = "rows" /\ w.next + 1 <= Len(w.file)
    BY <1>1, <1>2, <1>3, <1>15 DEF Goto
  <2>2. PlannedKeys(w) \cup {row.key} \subseteq Keys(w.file)
    BY <1>2, <1>12 DEF Sound, Stage
  <2>3. Stage(r)'
    BY <1>3, <1>8, <1>9, <1>11, <1>12, <1>13, <2>1, <2>2 DEF Stage
  <2> QED
    BY <1>10, <1>16, <2>3 DEF Sound
<1> QED
  BY <1>14, <1>15

\* A row that the flush writes moves its key from what is planned to what is written.
LEMMA WrittenIsSound ==
  ASSUME TypesOfRequest, NEW r \in Request, NEW k \in Key, NEW f \in Fact, pc[r] = "flush",
         f.batch = work[r].batch, k \in PlannedKeys(work[r]),
         PlannedKeys(work[r])' \subseteq PlannedKeys(work[r]),
         PlannedKeys(work[r]) \subseteq PlannedKeys(work[r])' \cup {k},
         work'[r].kind = work[r].kind, work'[r].batch = work[r].batch, work'[r].file = work[r].file,
         work'[r].gone = work[r].gone, work'[r].wrote = [work[r].wrote EXCEPT ![k] = f],
         pc' = pc, sales' = sales
  PROVE  Sound(r)'
<1>1. work[r].wrote \in SalesTable /\ f # NoFact
  BY NoFactIsNoFact DEF TypesOfRequest, TypeOK, Work
<1>2. \A j \in Key : work'[r].wrote[j] = IF j = k THEN f ELSE work[r].wrote[j]
  BY <1>1 DEF SalesTable
<1>3. Written(work[r])' = Written(work[r]) \cup {k}
  BY <1>1, <1>2 DEF Written
<1>4. Keys(work[r].file)' = Keys(work[r].file)
  BY DEF Keys
<1>5. Sound(r)
  BY DEF TypesOfRequest
<1>6. k \in Keys(work[r].file)
  BY <1>5 DEF Sound, Stage
<1>7. OwnWork(work[r])'
  BY <1>2, <1>4, <1>5, <1>6 DEF Sound, OwnWork, Stage
<1>8. GoneIsOwn(r)'
  BY <1>5 DEF Sound, GoneIsOwn
<1>9. OwnKeys(r)' \subseteq OwnKeys(r) \cup {k}
  BY <1>2 DEF OwnKeys, SeenSales
<1>10. Stage(r)'
  BY <1>3, <1>4, <1>5, <1>6, <1>9 DEF Sound, Stage
<1> QED
  BY <1>7, <1>8, <1>10 DEF Sound

LEMMA SoundWriteUpdate ==
  ASSUME TypesOfRequest, NEW r \in Request, WriteUpdate(r)
  PROVE  \A s \in Request : Sound(s)'
<1>1. PICK u \in work[r].updates :
          Note(r, [work[r] EXCEPT !.updates = @ \ {u}, !.wrote[u.key] = Updated(work[r], u)])
  BY DEF WriteUpdate, NextUpdates
<1>2. /\ TypeOK /\ work \in [Request -> Work] /\ work[r] \in Work /\ u \in Update /\ u.key \in Key
      /\ pc[r] = "flush" /\ pc' = pc /\ sales' = sales /\ work[r].batch \in Batch
  BY DEF WriteUpdate, TypesOfRequest, TypeOK, Work, Update, Sound, Stage
<1> DEFINE f == Updated(work[r], u)
<1>3. f \in Fact /\ f.batch = work[r].batch
  <2>1. sales[u.key].qty \in Nat
    BY <1>2 DEF TypeOK, SalesTable, Fact, NoFact
  <2> QED
    BY <1>2, <2>1 DEF Updated, Update, Fact
<1> HIDE DEF f
<1>4. /\ work'[r].kind = work[r].kind /\ work'[r].batch = work[r].batch
      /\ work'[r].file = work[r].file /\ work'[r].gone = work[r].gone
      /\ work'[r].inserts = work[r].inserts /\ work'[r].updates = work[r].updates \ {u}
      /\ work'[r].wrote = [work[r].wrote EXCEPT ![u.key] = f]
  BY <1>1, <1>2 DEF Note, Work, f
<1>5. /\ u.key \in PlannedKeys(work[r])
      /\ PlannedKeys(work[r])' \subseteq PlannedKeys(work[r])
      /\ PlannedKeys(work[r]) \subseteq PlannedKeys(work[r])' \cup {u.key}
  BY <1>4 DEF PlannedKeys, Keys
<1>6. Sound(r)'
  BY <1>2, <1>3, <1>4, <1>5, WrittenIsSound
<1>7. \A s \in Request \ {r} : Sound(s)'
  BY <1>1, <1>2, NoteFrame
<1> QED
  BY <1>6, <1>7

LEMMA SoundWriteInsert ==
  ASSUME TypesOfRequest, NEW r \in Request, WriteInsert(r)
  PROVE  \A s \in Request : Sound(s)'
<1>1. PICK row \in NextInserts(work[r]) :
          Note(r, [work[r] EXCEPT !.inserts = Tail(@), !.wrote[row.key] = Inserted(work[r], row)])
  BY DEF WriteInsert
<1> DEFINE q == work[r].inserts
<1>2. /\ TypeOK /\ work \in [Request -> Work] /\ work[r] \in Work
      /\ pc[r] = "flush" /\ pc' = pc /\ sales' = sales /\ work[r].batch \in Batch
  BY DEF WriteInsert, TypesOfRequest, TypeOK, Sound, Stage
<1>3. q \in Seq(Row) /\ q # <<>> /\ row = Head(q) /\ row \in Row /\ row.key \in Key /\ row.qty \in Nat
  <2>1. q \in Seq(Row) /\ q # <<>> /\ row = Head(q)
    BY <1>2 DEF NextInserts, Work
  <2>2. row \in Row
    BY <2>1
  <2> QED
    BY <2>1, <2>2 DEF Row
<1> DEFINE f == Inserted(work[r], row)
<1>4. f \in Fact /\ f.batch = work[r].batch
  BY <1>2, <1>3 DEF Inserted, Fact, Work
<1> HIDE DEF f
<1>5. /\ work'[r].kind = work[r].kind /\ work'[r].batch = work[r].batch
      /\ work'[r].file = work[r].file /\ work'[r].gone = work[r].gone
      /\ work'[r].inserts = Tail(q) /\ work'[r].updates = work[r].updates
      /\ work'[r].wrote = [work[r].wrote EXCEPT ![row.key] = f]
  BY <1>1, <1>2 DEF Note, Work, f
<1>6. Keys(q) = {row.key} \cup Keys(Tail(q))
  <2>1. Len(q) \in Nat \ {0} /\ DOMAIN q = 1..Len(q)
        /\ DOMAIN Tail(q) = 1..(Len(q) - 1) /\ row = q[1]
    BY <1>3
  <2>2. \A i \in 1..(Len(q) - 1) : Tail(q)[i] = q[i + 1]
    BY <1>3
  <2>3. \A i \in 1..Len(q) : i = 1 \/ (i - 1 \in 1..(Len(q) - 1) /\ q[i] = Tail(q)[i - 1])
    BY <2>1, <2>2
  <2>4. \A i \in 1..(Len(q) - 1) : i + 1 \in 1..Len(q)
    BY <2>1
  <2>5. Keys(Tail(q)) \subseteq Keys(q) /\ row.key \in Keys(q)
    BY <2>1, <2>2, <2>4 DEF Keys
  <2>6. Keys(q) \subseteq {row.key} \cup Keys(Tail(q))
    BY <2>1, <2>3 DEF Keys
  <2> QED
    BY <2>5, <2>6
<1> HIDE DEF q
<1>7. /\ row.key \in PlannedKeys(work[r])
      /\ PlannedKeys(work[r])' \subseteq PlannedKeys(work[r])
      /\ PlannedKeys(work[r]) \subseteq PlannedKeys(work[r])' \cup {row.key}
  <2>1. PlannedKeys(work[r])' = {u.key : u \in work[r].updates} \cup Keys(Tail(q))
    BY <1>5 DEF PlannedKeys, Keys
  <2>2. PlannedKeys(work[r]) = {u.key : u \in work[r].updates} \cup Keys(q)
    BY DEF PlannedKeys, q
  <2> QED
    BY <1>6, <2>1, <2>2
<1>8. Sound(r)'
  BY <1>2, <1>3, <1>4, <1>5, <1>7, WrittenIsSound
<1>9. \A s \in Request \ {r} : Sound(s)'
  BY <1>1, <1>2, NoteFrame
<1> QED
  BY <1>8, <1>9

LEMMA SoundEnd ==
  ASSUME TypesOfRequest, NEW r \in Request, End(r), UNCHANGED sales
  PROVE  \A s \in Request : Sound(s)'
<1>1. Sound(r)'
  BY IdleIsSound DEF End, TypesOfRequest, TypeOK
<1>2. \A s \in Request \ {r} : pc'[s] = pc[s]
  BY DEF End, TypesOfRequest, TypeOK
<1>3. \A s \in Request \ {r} : Sound(s)'
  BY <1>2, NoteFrame
<1> QED
  BY <1>1, <1>3

LEMMA SoundCalculation ==
  ASSUME TypesOfRequest, NEW r \in Request, ReadStock(r) \/ StoreRun(r)
  PROVE  \A s \in Request : Sound(s)'
<1>1. PICK x : Note(r, x) /\ x \in {[work[r] EXCEPT !.run.read = commits], [work[r] EXCEPT !.run = NoRun]}
  BY DEF ReadStock, StoreRun
<1>2. /\ TypeOK /\ work \in [Request -> Work] /\ work[r] \in Work /\ pc \in [Request -> Location]
      /\ Sound(r) /\ sales' = sales /\ \A s \in Request \ {r} : pc'[s] = pc[s]
  BY DEF ReadStock, StoreRun, Goto, TypesOfRequest, TypeOK
<1>3. work[r].kind # "apply" /\ pc'[r] \in {"store", "refresh"}
  BY <1>2 DEF ReadStock, StoreRun, Goto, Sound, Stage
<1>4. /\ work'[r].kind = work[r].kind /\ work'[r].batch = work[r].batch
      /\ work'[r].file = work[r].file /\ work'[r].next = work[r].next
      /\ work'[r].gone = work[r].gone /\ work'[r].wrote = work[r].wrote
      /\ work'[r].updates = work[r].updates /\ work'[r].inserts = work[r].inserts
  BY <1>1, <1>2 DEF Note, Work
<1>5. PlannedKeys(work[r])' = PlannedKeys(work[r]) /\ Keys(work[r].file)' = Keys(work[r].file)
  BY <1>4 DEF PlannedKeys, Keys
<1>6. Sound(r)'
  BY <1>2, <1>3, <1>4, <1>5 DEF Sound, OwnWork, GoneIsOwn, Stage
<1>7. \A s \in Request \ {r} : Sound(s)'
  BY <1>1, <1>2, NoteFrame
<1> QED
  BY <1>6, <1>7

\* When the flush has sent all it has planned, the whole file is written.
LEMMA SoundReadTables ==
  ASSUME TypesOfRequest, NEW r \in Request, ReadTables(r)
  PROVE  \A s \in Request : Sound(s)'
<1> DEFINE x == [work[r] EXCEPT !.view = [sales |-> SeenSales(r), stock |-> SeenStock(r),
                                          at |-> commits, by |-> ProcessOf[r]]]
<1>1. Note(r, x) /\ Goto(r, "files") /\ sales' = sales /\ Flushed(r)
  BY DEF ReadTables
<1>2. /\ TypeOK /\ work \in [Request -> Work] /\ work[r] \in Work /\ pc \in [Request -> Location]
      /\ Sound(r)
  BY DEF TypesOfRequest, TypeOK
<1>3. /\ work'[r].kind = work[r].kind /\ work'[r].batch = work[r].batch
      /\ work'[r].file = work[r].file /\ work'[r].next = work[r].next
      /\ work'[r].gone = work[r].gone /\ work'[r].wrote = work[r].wrote
      /\ work'[r].updates = work[r].updates /\ work'[r].inserts = work[r].inserts
  BY <1>1, <1>2 DEF Note, Work
<1>4. /\ PlannedKeys(work[r])' = PlannedKeys(work[r]) /\ Keys(work[r].file)' = Keys(work[r].file)
      /\ Written(work[r])' = Written(work[r]) /\ OwnKeys(r)' = OwnKeys(r)
  BY <1>1, <1>3 DEF PlannedKeys, Keys, Written, OwnKeys, SeenSales
<1>5. pc[r] = "flush" => PlannedKeys(work[r]) = {}
  BY <1>1 DEF Flushed, PlannedKeys, Keys
<1>6. work[r].kind = "apply" => OwnKeys(r) \subseteq Written(work[r]) /\ Keys(work[r].file) \subseteq Written(work[r])
  BY <1>1, <1>2, <1>5 DEF Flushed, Sound, Stage
<1>7. pc'[r] = "files" /\ \A s \in Request \ {r} : pc'[s] = pc[s]
  BY <1>1, <1>2 DEF Goto
<1>8. Sound(r)'
  BY <1>1, <1>2, <1>3, <1>4, <1>6, <1>7 DEF Sound, OwnWork, GoneIsOwn, Stage
<1> HIDE DEF x
<1>9. \A s \in Request \ {r} : Sound(s)'
  BY <1>1, <1>2, <1>7, NoteFrame
<1> QED
  BY <1>8, <1>9

LEMMA SoundWriteFiles ==
  ASSUME TypesOfRequest, NEW r \in Request, WriteFiles(r)
  PROVE  \A s \in Request : Sound(s)'
<1>0. sales' = sales
  BY DEF WriteFiles
<1>1. ASSUME work[r].kind # "apply" PROVE \A s \in Request : Sound(s)'
  <2>1. End(r)
    BY <1>1 DEF WriteFiles
  <2> QED
    BY <1>0, <2>1, SoundEnd
<1>2. ASSUME work[r].kind = "apply" PROVE \A s \in Request : Sound(s)'
  <2>1. Goto(r, "publish") /\ Note(r, [work[r] EXCEPT !.view = NoView])
    BY <1>2 DEF WriteFiles
  <2>2. /\ TypeOK /\ work \in [Request -> Work] /\ work[r] \in Work /\ pc \in [Request -> Location]
        /\ Sound(r) /\ pc[r] = "files"
    BY DEF TypesOfRequest, TypeOK, WriteFiles
  <2>3. /\ work'[r].kind = work[r].kind /\ work'[r].batch = work[r].batch
        /\ work'[r].file = work[r].file /\ work'[r].next = work[r].next
        /\ work'[r].gone = work[r].gone /\ work'[r].wrote = work[r].wrote
        /\ work'[r].updates = work[r].updates /\ work'[r].inserts = work[r].inserts
    BY <2>1, <2>2 DEF Note, Work
  <2>4. /\ PlannedKeys(work[r])' = PlannedKeys(work[r]) /\ Keys(work[r].file)' = Keys(work[r].file)
        /\ Written(work[r])' = Written(work[r]) /\ OwnKeys(r)' = OwnKeys(r)
    BY <1>0, <2>3 DEF PlannedKeys, Keys, Written, OwnKeys, SeenSales
  <2>5. pc'[r] = "publish" /\ \A s \in Request \ {r} : pc'[s] = pc[s]
    BY <2>1, <2>2 DEF Goto
  <2>6. Sound(r)'
    BY <1>0, <1>2, <2>2, <2>3, <2>4, <2>5 DEF Sound, OwnWork, GoneIsOwn, Stage
  <2>7. \A s \in Request \ {r} : Sound(s)'
    BY <1>0, <2>1, <2>2, <2>5, NoteFrame
  <2> QED
    BY <2>6, <2>7
<1> QED
  BY <1>1, <1>2

\* A commit touches no row another apply holds, and adds no fact of another's batch.
LEMMA CommitDisturbsNobody ==
  ASSUME IInv, NEW r \in Request, NEW s \in Request, s # r, sales' = SeenSales(r)
  PROVE  Undisturbed(s)
<1>1. ASSUME NEW k \in work[s].gone PROVE sales'[k] = sales[k]
  <2>1. k \in Held(s) /\ k \notin Held(r) /\ k \in Key
    <3>1. k \in Held(s) /\ k \in Key
      BY DEF IInv, TypeOK, Work, Held
    <3> QED
      BY <3>1 DEF IInv, HeldApart
  <2> QED
    BY <2>1 DEF Held, SeenSales
<1>2. ASSUME NEW k \in Key, work[s].kind = "apply", sales'[k].batch = work[s].batch
      PROVE  sales[k].batch = work[s].batch
  <2>1. work[s].batch \in Batch \cup StockBatch /\ work[s].batch # "none"
    BY <1>2, BatchAssumption DEF IInv, Sound, OwnWork
  <2>2. work[r].batch # work[s].batch
    BY <2>1 DEF IInv, OneApplyPerBatch
  <2>3. ASSUME work[r].wrote[k] # NoFact PROVE FALSE
    BY <1>2, <2>2, <2>3 DEF IInv, Sound, OwnWork, SeenSales
  <2>4. NoFact.batch # work[s].batch
    BY <2>1 DEF NoFact
  <2> QED
    BY <1>2, <2>3, <2>4 DEF SeenSales
<1> QED
  BY <1>1, <1>2 DEF Undisturbed

LEMMA SoundCommit ==
  ASSUME IInv, NEW r \in Request, End(r), sales' = SeenSales(r)
  PROVE  \A s \in Request : Sound(s)'
<1>0. TypeOK /\ pc \in [Request -> Location] /\ work \in [Request -> Work]
  BY DEF IInv, TypeOK
<1>1. Sound(r)'
  BY <1>0, IdleIsSound DEF End
<1>2. ASSUME NEW s \in Request, s # r PROVE Sound(s)'
  <2>1. Same(s)
    BY <1>0, <1>2 DEF End, Same
  <2>2. Undisturbed(s) /\ Sound(s)
    BY <1>2, CommitDisturbsNobody DEF IInv
  <2> QED
    BY <1>0, <2>1, <2>2, Frame
<1> QED
  BY <1>1, <1>2

LEMMA SoundRest ==
  ASSUME TypesOfRequest, (\E p \in Process : Crash(p)) \/ NextDay \/ UNCHANGED vars
  PROVE  \A s \in Request : Sound(s)'
<1>0. TypeOK /\ work \in [Request -> Work] /\ pc \in [Request -> Location]
  BY DEF TypesOfRequest, TypeOK
<1>1. sales' = sales
  BY DEF Crash, NextDay, vars
<1>2. ASSUME NEW s \in Request PROVE Sound(s)'
  <2>1. (work'[s] = NoWork /\ pc'[s] = "idle") \/ (work'[s] = work[s] /\ pc'[s] = pc[s])
    BY <1>0 DEF Crash, NextDay, vars
  <2>2. CASE work'[s] = NoWork /\ pc'[s] = "idle"
    BY <2>2, IdleIsSound
  <2>3. CASE work'[s] = work[s] /\ pc'[s] = pc[s]
    BY <1>0, <1>1, <2>3, QuietFrame DEF Same, TypesOfRequest
  <2> QED
    BY <2>1, <2>2, <2>3
<1> QED
  BY <1>2

LEMMA IInvTypes == IInv => TypesOfRequest
BY DEF IInv, TypesOfRequest

LEMMA StepSound == IInv /\ [Next]_vars => \A s \in Request : Sound(s)'
<1> SUFFICES ASSUME IInv, [Next]_vars PROVE \A s \in Request : Sound(s)'
  OBVIOUS
<1>0. TypesOfRequest
  BY IInvTypes
<1>1. ASSUME NEW r \in Request, BeginApply(r) \/ BeginCalculation(r) \/ Step(r)
      PROVE  \A s \in Request : Sound(s)'
  <2>1. CASE BeginApply(r) \/ BeginCalculation(r)
    BY <1>0, <2>1, SoundBeginApply, SoundBeginCalculation
  <2>2. CASE DeleteRow(r) \/ LookRow(r) \/ WriteUpdate(r) \/ WriteInsert(r)
    BY <1>0, <2>2, SoundDeleteRow, SoundLookRow, SoundWriteUpdate, SoundWriteInsert
  <2>3. CASE Conflict(r) \/ BreakDeadlock(r)
    BY <1>0, <2>3, SoundEnd DEF Conflict, BreakDeadlock
  <2>4. CASE ReadStock(r) \/ StoreRun(r)
    BY <1>0, <2>4, SoundCalculation
  <2>5. CASE ReadTables(r) \/ WriteFiles(r)
    BY <1>0, <2>5, SoundReadTables, SoundWriteFiles
  <2>6. CASE Publish(r)
    BY <2>6, SoundCommit DEF Publish, Commit
  <2>7. CASE RefreshFails(r)
    BY <1>0, <2>7, SoundCommit, SoundEnd DEF RefreshFails, Commit
  <2> QED
    BY <1>1, <2>1, <2>2, <2>3, <2>4, <2>5, <2>6, <2>7 DEF Step
<1> QED
  BY <1>0, <1>1, SoundRest DEF Next


-----------------------------------------------------------------------------
(* Locks and lineage                                                         *)

\* Rows that are let go, or kept, stay apart.
LEMMA ApartFrame ==
  ASSUME HeldApart, \A s \in Request : Held(s)' \subseteq Held(s)
  PROVE  HeldApart'
BY DEF HeldApart

LEMMA ApartGrows ==
  ASSUME HeldApart, NEW r \in Request, NEW k \in Key, Free(r, k), Held(r)' \subseteq Held(r) \cup {k},
         \A s \in Request \ {r} : Held(s)' \subseteq Held(s)
  PROVE  HeldApart'
BY DEF HeldApart, Free

\* A step that writes to one request leaves what the others hold.
LEMMA NoteHolds ==
  ASSUME TypeOK, NEW r \in Request, NEW x, Note(r, x) \/ End(r), NEW s \in Request \ {r}
  PROVE  Held(s)' = Held(s) /\ work'[s].batch = work[s].batch
<1>1. work'[s] = work[s]
  BY DEF Note, End, TypeOK
<1> QED
  BY <1>1 DEF Held

LEMMA IdleHolds ==
  ASSUME NEW s \in Request, work'[s] = NoWork
  PROVE  Held(s)' = {} /\ work'[s].batch = "none"
<1>1. \A k \in Key : NoWork.wrote[k] = NoFact
  BY DEF NoWork, NoFacts
<1> QED
  BY <1>1 DEF Held, NoWork

\* A row that is looked up changes nothing of what the request holds.
LEMMA LookHolds ==
  ASSUME TypesOfRequest, NEW r \in Request, LookRow(r)
  PROVE  work'[r].gone = work[r].gone /\ work'[r].wrote = work[r].wrote /\ work'[r].batch = work[r].batch
<1> DEFINE w == work[r]
           row == w.file[w.next]
           p == Planned(w, row, SeenSales(r)[row.key])
<1>1. Note(r, [p EXCEPT !.next = @ + 1]) /\ pc[r] = "rows"
  BY DEF LookRow
<1>2. TypeOK /\ work \in [Request -> Work] /\ w \in Work /\ Sound(r)
  BY DEF TypesOfRequest, TypeOK
<1>3. w.next <= Len(w.file) /\ w.next \in Nat \ {0} /\ w.file \in Seq(Row)
  BY <1>1, <1>2 DEF Sound, Stage, Work
<1>4. row \in Row /\ row.key \in Key
  <2>1. row \in Row
    BY <1>3
  <2> QED
    BY <2>1 DEF Row
<1>5. SeenSales(r)[row.key] \in Fact \cup {NoFact}
  BY <1>2, <1>4, SeenIsTable DEF SalesTable
<1>6. p \in Work /\ p.gone = w.gone /\ p.wrote = w.wrote /\ p.batch = w.batch
  BY <1>2, <1>4, <1>5, PlannedIsWork, PlannedAdds
<1> HIDE DEF p
<1> QED
  BY <1>1, <1>2, <1>6 DEF Note, Work

\* What a step of a request, after it has begun, does to what it holds.
LEMMA StepHolds ==
  ASSUME IInv, NEW r \in Request, Step(r)
  PROVE  /\ \/ Held(r)' \subseteq Held(r)
            \/ \E k \in Key : Free(r, k) /\ Held(r)' \subseteq Held(r) \cup {k}
         /\ work'[r].batch \in {work[r].batch, "none"}
         /\ \A s \in Request \ {r} : Held(s)' = Held(s) /\ work'[s].batch = work[s].batch
<1> DEFINE Goal == /\ \/ Held(r)' \subseteq Held(r)
                      \/ \E k \in Key : Free(r, k) /\ Held(r)' \subseteq Held(r) \cup {k}
                   /\ work'[r].batch \in {work[r].batch, "none"}
<1>0. TypesOfRequest /\ TypeOK /\ work \in [Request -> Work] /\ work[r] \in Work
  BY IInvTypes DEF IInv, TypeOK
<1>1. \E x : Note(r, x) \/ End(r)
  BY DEF Step, DeleteRow, LookRow, WriteUpdate, WriteInsert, Conflict, BreakDeadlock, ReadStock, StoreRun,
         ReadTables, WriteFiles, RefreshFails, Publish
<1>2. \A s \in Request \ {r} : Held(s)' = Held(s) /\ work'[s].batch = work[s].batch
  BY <1>0, <1>1, NoteHolds
<1>3. ASSUME work'[r].gone = work[r].gone, work'[r].wrote = work[r].wrote, work'[r].batch = work[r].batch
      PROVE  Goal
  BY <1>3 DEF Held
<1>4. ASSUME End(r) PROVE Goal
  <2>1. work'[r] = NoWork
    BY <1>0, <1>4 DEF End
  <2> QED
    BY <2>1, IdleHolds
<1>5. CASE DeleteRow(r)
  <2>1. PICK k \in OwnKeys(r) : Free(r, k) /\ Note(r, [work[r] EXCEPT !.gone = @ \cup {k}])
    BY <1>5 DEF DeleteRow
  <2>2. work'[r].gone = work[r].gone \cup {k} /\ work'[r].wrote = work[r].wrote /\ work'[r].batch = work[r].batch
    BY <1>0, <2>1 DEF Note, Work
  <2>3. k \in Key /\ Held(r)' \subseteq Held(r) \cup {k}
    BY <2>2 DEF Held, OwnKeys
  <2> QED
    BY <1>2, <2>1, <2>2, <2>3
<1>6. ASSUME NEW k \in Key, NEW f, Free(r, k), work'[r].gone = work[r].gone,
             work'[r].wrote = [work[r].wrote EXCEPT ![k] = f], work'[r].batch = work[r].batch
      PROVE  Goal
  <2>1. work[r].wrote \in SalesTable
    BY <1>0 DEF Work
  <2>2. Held(r)' \subseteq Held(r) \cup {k}
    BY <1>6, <2>1 DEF Held, SalesTable
  <2> QED
    BY <1>6, <2>2
<1>7. CASE WriteUpdate(r)
  <2>1. PICK u \in work[r].updates :
          /\ Free(r, u.key)
          /\ Note(r, [work[r] EXCEPT !.updates = @ \ {u}, !.wrote[u.key] = Updated(work[r], u)])
    BY <1>7 DEF WriteUpdate, NextUpdates
  <2>2. u.key \in Key
    BY <1>0 DEF Work, Update
  <2> DEFINE f == Updated(work[r], u)
  <2> HIDE DEF f
  <2>3. /\ work'[r].gone = work[r].gone /\ work'[r].wrote = [work[r].wrote EXCEPT ![u.key] = f]
        /\ work'[r].batch = work[r].batch
    BY <1>0, <2>1 DEF Note, Work, f
  <2> QED
    BY <1>2, <1>6, <2>1, <2>2, <2>3
<1>8. CASE WriteInsert(r)
  <2>1. PICK row \in NextInserts(work[r]) :
          /\ Free(r, row.key)
          /\ Note(r, [work[r] EXCEPT !.inserts = Tail(@), !.wrote[row.key] = Inserted(work[r], row)])
    BY <1>8 DEF WriteInsert
  <2>2. row.key \in Key
    <3>1. work[r].inserts \in Seq(Row) /\ work[r].inserts # <<>> /\ row = Head(work[r].inserts)
      BY <1>0 DEF NextInserts, Work
    <3>2. row \in Row
      BY <3>1
    <3> QED
      BY <3>2 DEF Row
  <2> DEFINE f == Inserted(work[r], row)
  <2> HIDE DEF f
  <2>3. /\ work'[r].gone = work[r].gone /\ work'[r].wrote = [work[r].wrote EXCEPT ![row.key] = f]
        /\ work'[r].batch = work[r].batch
    BY <1>0, <2>1 DEF Note, Work, f
  <2> QED
    BY <1>2, <1>6, <2>1, <2>2, <2>3
<1>9. CASE LookRow(r)
  BY <1>2, <1>0, <1>3, <1>9, LookHolds
<1>10. CASE Conflict(r) \/ BreakDeadlock(r) \/ RefreshFails(r) \/ Publish(r)
  BY <1>2, <1>4, <1>10 DEF Conflict, BreakDeadlock, RefreshFails, Publish
<1>11. CASE ReadStock(r) \/ StoreRun(r) \/ ReadTables(r)
  <2>1. \/ Note(r, [work[r] EXCEPT !.run.read = commits])
        \/ Note(r, [work[r] EXCEPT !.run = NoRun])
        \/ Note(r, [work[r] EXCEPT !.view = [sales |-> SeenSales(r), stock |-> SeenStock(r),
                                             at |-> commits, by |-> ProcessOf[r]]])
    BY <1>11 DEF ReadStock, StoreRun, ReadTables
  <2>2. work'[r].gone = work[r].gone /\ work'[r].wrote = work[r].wrote /\ work'[r].batch = work[r].batch
    BY <1>0, <2>1 DEF Note, Work
  <2> QED
    BY <1>2, <1>3, <2>2
<1>12. CASE WriteFiles(r)
  <2>1. Note(r, [work[r] EXCEPT !.view = NoView]) \/ End(r)
    BY <1>12 DEF WriteFiles
  <2>2. ASSUME Note(r, [work[r] EXCEPT !.view = NoView]) PROVE Goal
    <3>1. work'[r].gone = work[r].gone /\ work'[r].wrote = work[r].wrote /\ work'[r].batch = work[r].batch
      BY <1>0, <2>2 DEF Note, Work
    <3> QED
      BY <1>3, <3>1
  <2> QED
    BY <1>2, <1>4, <2>1, <2>2
<1>13. Goal
  BY <1>5, <1>7, <1>8, <1>9, <1>10, <1>11, <1>12 DEF Step
<1> QED
  BY <1>2, <1>13

\* No batch is applied twice at a time, because the row of an UploadFile is locked, and
\* no row is written by two, because PostgreSQL locks it.
LEMMA StepApart == IInv /\ [Next]_vars => HeldApart' /\ OneApplyPerBatch'
<1> SUFFICES ASSUME IInv, [Next]_vars PROVE HeldApart' /\ OneApplyPerBatch'
  OBVIOUS
<1>0. TypeOK /\ HeldApart /\ OneApplyPerBatch /\ work \in [Request -> Work]
  BY DEF IInv, TypeOK
<1>1. ASSUME NEW r \in Request, Step(r) PROVE HeldApart' /\ OneApplyPerBatch'
  <2>1. HeldApart'
    <3>1. CASE Held(r)' \subseteq Held(r)
      <4>1. \A s \in Request : Held(s)' \subseteq Held(s)
        BY <1>1, <3>1, StepHolds
      <4> QED
        BY <1>0, <4>1, ApartFrame
    <3>2. CASE \E k \in Key : Free(r, k) /\ Held(r)' \subseteq Held(r) \cup {k}
      <4>1. PICK k \in Key : Free(r, k) /\ Held(r)' \subseteq Held(r) \cup {k}
        BY <3>2
      <4>2. \A s \in Request \ {r} : Held(s)' \subseteq Held(s)
        BY <1>1, StepHolds
      <4> QED
        BY <1>0, <4>1, <4>2, ApartGrows
    <3> QED
      BY <1>1, <3>1, <3>2, StepHolds
  <2>2. \A s \in Request : work'[s].batch \in {work[s].batch, "none"}
    BY <1>1, StepHolds
  <2> QED
    BY <1>0, <2>1, <2>2 DEF OneApplyPerBatch
<1>2. ASSUME NEW r \in Request, BeginApply(r) PROVE HeldApart' /\ OneApplyPerBatch'
  <2>a. PICK b \in Batch \cup StockBatch :
          /\ \A s \in Request : work[s].batch # b
          /\ \E f \in IF b \in Batch THEN Files[b] ELSE {<<>>} :
               Begin(r, [NoWork EXCEPT !.kind = "apply", !.batch = b, !.apply = begun + 1, !.file = f],
                     IF b \in Batch THEN "rows" ELSE "refresh")
    BY <1>2 DEF BeginApply
  <2>b. PICK f \in IF b \in Batch THEN Files[b] ELSE {<<>>} :
               Begin(r, [NoWork EXCEPT !.kind = "apply", !.batch = b, !.apply = begun + 1, !.file = f],
                     IF b \in Batch THEN "rows" ELSE "refresh")
    BY <2>a
  <2>1. work'[r].batch = b /\ work'[r].gone = {} /\ work'[r].wrote = NoFacts
    BY <2>b DEF Begin, NoWork
  <2>2. \A s \in Request \ {r} : Same(s)
    BY <1>0, <2>b, BeginFrame
  <2>3. \A s \in Request : Held(s)' \subseteq Held(s)
    BY <2>1, <2>2 DEF Held, Same, NoFacts
  <2>4. OneApplyPerBatch'
    BY <1>0, <2>a, <2>1, <2>2 DEF OneApplyPerBatch, Same
  <2> QED
    BY <1>0, <2>3, <2>4, ApartFrame
<1>3. ASSUME NEW r \in Request, BeginCalculation(r) PROVE HeldApart' /\ OneApplyPerBatch'
  <2>a. PICK kind \in Calculation :
         Begin(r, [NoWork EXCEPT !.kind = kind, !.run = [kind |-> kind, day |-> 0, after |-> Len(runs),
                                                         began |-> commits, read |-> commits]],
               "read stock")
    BY <1>3 DEF BeginCalculation
  <2>1. work'[r].batch = "none" /\ work'[r].gone = {} /\ work'[r].wrote = NoFacts
    BY <2>a DEF Begin, NoWork
  <2>2. \A s \in Request \ {r} : Same(s)
    BY <1>0, <2>a, BeginFrame
  <2>3. \A s \in Request : Held(s)' \subseteq Held(s)
    BY <2>1, <2>2 DEF Held, Same, NoFacts
  <2>4. OneApplyPerBatch'
    BY <1>0, <2>1, <2>2 DEF OneApplyPerBatch, Same
  <2> QED
    BY <1>0, <2>3, <2>4, ApartFrame
<1>4. ASSUME (\E p \in Process : Crash(p)) \/ NextDay \/ UNCHANGED vars PROVE HeldApart' /\ OneApplyPerBatch'
  <2>1. \A s \in Request : work'[s] = NoWork \/ work'[s] = work[s]
    BY <1>4, <1>0 DEF Crash, NextDay, vars
  <2>2. \A s \in Request : Held(s)' \subseteq Held(s) /\ work'[s].batch \in {work[s].batch, "none"}
    <3> SUFFICES ASSUME NEW s \in Request
                 PROVE  Held(s)' \subseteq Held(s) /\ work'[s].batch \in {work[s].batch, "none"}
      OBVIOUS
    <3>1. CASE work'[s] = NoWork
      BY <3>1, IdleHolds
    <3>2. CASE work'[s] = work[s]
      BY <3>2 DEF Held
    <3> QED
      BY <2>1, <3>1, <3>2
  <2>3. OneApplyPerBatch'
    BY <1>0, <2>2 DEF OneApplyPerBatch
  <2> QED
    BY <1>0, <2>2, <2>3, ApartFrame
<1> QED
  BY <1>1, <1>2, <1>3, <1>4 DEF Next

\* The facts change only by the commit of an apply whose flush is through.
Commits(r) ==
    /\ pc[r] \in {"files", "publish"} /\ work[r].kind = "apply" /\ End(r)
    /\ sales' = SeenSales(r) /\ commits' = commits + 1
    /\ \E status \in {"applied", "failed"}, refresh \in {"running", "completed"} :
         batches' = [batches EXCEPT ![work[r].batch] =
                       [status |-> status, file |-> work[r].file, refresh |-> refresh,
                        crossed |-> work[r].crossed]]

LEMMA OnlyCommitsChange ==
  ASSUME IInv, [Next]_vars
  PROVE  UNCHANGED <<sales, batches, commits>> \/ \E r \in Request : Commits(r)
<1>1. ASSUME NEW r \in Request, Step(r)
      PROVE  UNCHANGED <<sales, batches, commits>> \/ Commits(r)
  <2>1. ASSUME Publish(r) PROVE Commits(r)
    <3>1. work[r].kind = "apply"
      BY <2>1 DEF IInv, Sound, Stage, Publish
    <3> QED
      BY <2>1, <3>1 DEF Publish, Commit, Commits
  <2>2. ASSUME RefreshFails(r), work[r].kind = "apply" PROVE Commits(r)
    BY <2>2 DEF RefreshFails, Commit, Commits
  <2>3. ASSUME RefreshFails(r), work[r].kind # "apply" PROVE UNCHANGED <<sales, batches, commits>>
    BY <2>3 DEF RefreshFails
  <2>4. ASSUME DeleteRow(r) \/ LookRow(r) \/ WriteUpdate(r) \/ WriteInsert(r) \/ Conflict(r) \/ BreakDeadlock(r)
               \/ ReadStock(r) \/ StoreRun(r) \/ ReadTables(r) \/ WriteFiles(r)
        PROVE  UNCHANGED <<sales, batches, commits>>
    BY <2>4 DEF DeleteRow, LookRow, WriteUpdate, WriteInsert, Conflict, BreakDeadlock, ReadStock, StoreRun,
                ReadTables, WriteFiles
  <2> QED
    BY <1>1, <2>1, <2>2, <2>3, <2>4 DEF Step
<1>2. ASSUME NEW r \in Request, BeginApply(r) \/ BeginCalculation(r) PROVE UNCHANGED <<sales, batches, commits>>
  BY <1>2 DEF BeginApply, BeginCalculation
<1>3. ASSUME (\E p \in Process : Crash(p)) \/ NextDay \/ UNCHANGED vars
      PROVE  UNCHANGED <<sales, batches, commits>>
  BY <1>3 DEF Crash, NextDay, vars
<1> QED
  BY <1>1, <1>2, <1>3 DEF Next

\* What is committed: the facts the apply has written name its batch and stand in its
\* file, it has left no other fact of the batch, and every row of the file is written.
LEMMA Committed ==
  ASSUME IInv, NEW r \in Request, Commits(r)
  PROVE  /\ \A k \in Keys(work[r].file) : k \in Key => sales'[k].batch = work[r].batch
         /\ \A k \in Key : sales'[k] # NoFact =>
              \/ sales'[k].batch = work[r].batch /\ k \in Keys(work[r].file)
              \/ sales'[k] = sales[k] /\ sales[k].batch # work[r].batch
         /\ \A k \in Key : sales[k] # NoFact /\ sales'[k] = NoFact => sales[k].batch = work[r].batch
<1>1. Sound(r) /\ sales' = SeenSales(r) /\ pc[r] \in {"files", "publish"} /\ work[r].kind = "apply"
  BY DEF IInv, Commits
<1>2. OwnKeys(r) \subseteq Written(work[r]) /\ Keys(work[r].file) \subseteq Written(work[r])
  BY <1>1 DEF Sound, Stage
<1>3. \A k \in Key : work[r].wrote[k] # NoFact =>
         sales'[k].batch = work[r].batch /\ k \in Keys(work[r].file)
  BY <1>1 DEF Sound, OwnWork, SeenSales
<1>4. \A k \in Keys(work[r].file) : k \in Key => sales'[k].batch = work[r].batch
  BY <1>2, <1>3 DEF Written
<1>5. ASSUME NEW k \in Key, sales'[k] # NoFact, work[r].wrote[k] = NoFact
      PROVE  sales'[k] = sales[k] /\ sales[k].batch # work[r].batch
  <2>1. sales'[k] = sales[k]
    BY <1>1, <1>5 DEF SeenSales
  <2>2. k \notin OwnKeys(r)
    BY <1>2, <1>5 DEF Written
  <2> QED
    BY <1>1, <2>1, <2>2 DEF OwnKeys
<1>6. ASSUME NEW k \in Key, sales[k] # NoFact, sales'[k] = NoFact PROVE sales[k].batch = work[r].batch
  <2>1. k \in work[r].gone
    BY <1>1, <1>6 DEF SeenSales
  <2> QED
    BY <1>1, <2>1 DEF Sound, GoneIsOwn
<1> QED
  BY <1>3, <1>4, <1>5, <1>6

LEMMA StepFacts == IInv /\ [Next]_vars => FactsAreOfTheirFile'
<1> SUFFICES ASSUME IInv, [Next]_vars PROVE FactsAreOfTheirFile'
  OBVIOUS
<1>1. CASE UNCHANGED <<sales, batches, commits>>
  BY <1>1 DEF IInv, FactsAreOfTheirFile, Keys
<1>2. CASE \E r \in Request : Commits(r)
  <2>1. PICK r \in Request : Commits(r)
    BY <1>2
  <2>2. batches \in [Batch \cup StockBatch -> Apply] /\ work[r].batch \in Batch \cup StockBatch
    BY <2>1 DEF IInv, TypeOK, Commits, Sound, OwnWork
  <2>3. /\ batches'[work[r].batch].file = work[r].file
        /\ \A b \in Batch \cup StockBatch : b # work[r].batch => batches'[b] = batches[b]
    BY <2>1, <2>2 DEF Commits
  <2> SUFFICES ASSUME NEW k \in Key, sales'[k] # NoFact
               PROVE  k \in Keys(batches'[sales'[k].batch].file)
    BY DEF FactsAreOfTheirFile, Keys
  <2>4. CASE sales'[k].batch = work[r].batch /\ k \in Keys(work[r].file)
    BY <2>3, <2>4
  <2>5. CASE sales'[k] = sales[k] /\ sales[k].batch # work[r].batch
    <3>1. sales[k].batch \in Batch \cup StockBatch
      BY <2>5 DEF IInv, TypeOK, SalesTable, Fact
    <3>2. k \in Keys(batches[sales[k].batch].file)
      BY <2>5 DEF IInv, FactsAreOfTheirFile
    <3> QED
      BY <2>3, <2>5, <3>1, <3>2
  <2> QED
    BY <2>1, <2>4, <2>5, Committed
<1> QED
  BY <1>1, <1>2, OnlyCommitsChange

LEMMA InitIInv == Init => IInv
<1> SUFFICES ASSUME Init PROVE IInv
  OBVIOUS
<1>1. TypeOK
  BY InitTypes
<1>2. \A s \in Request : work[s] = NoWork /\ pc[s] = "idle"
  BY DEF Init
<1>3. \A k \in Key : NoWork.wrote[k] = NoFact
  BY DEF NoWork, NoFacts
<1>4. ASSUME NEW s \in Request PROVE Held(s) = {} /\ work[s].batch = "none" /\ Sound(s)
  <2>1. work[s].gone = {} /\ work[s].wrote = NoFacts /\ work[s].batch = "none" /\ work[s].kind = "none"
        /\ work[s].updates = {} /\ work[s].inserts = <<>> /\ pc[s] = "idle"
    BY <1>2 DEF NoWork
  <2>2. \A k \in Key : work[s].wrote[k] = NoFact
    BY <1>2, <1>3
  <2>3. PlannedKeys(work[s]) = {}
    BY <2>1 DEF PlannedKeys, Keys
  <2>4. OwnWork(work[s]) /\ GoneIsOwn(s) /\ Stage(s)
    BY <2>1, <2>2, <2>3 DEF OwnWork, GoneIsOwn, Stage
  <2> QED
    BY <2>1, <2>2, <2>4 DEF Held, Sound
<1>6. FactsAreOfTheirFile
  BY DEF Init, NoFacts, FactsAreOfTheirFile
<1> QED
  BY <1>1, <1>4, <1>6 DEF IInv, HeldApart, OneApplyPerBatch

LEMMA StepIInv == IInv /\ [Next]_vars => IInv'
<1> SUFFICES ASSUME IInv, [Next]_vars PROVE IInv'
  OBVIOUS
<1>1. TypeOK'
  BY IInvTypes, StepTypes
<1> QED
  BY <1>1, StepSound, StepApart, StepFacts DEF IInv

-----------------------------------------------------------------------------
\* The inductive invariant holds of every reachable state.
THEOREM Lineage == Spec => []IInv
<1> QED
  BY InitIInv, StepIInv, PTL DEF Spec

\* The tables, the files and what each request holds keep their types.
THEOREM TypeCorrect == Spec => []TypeOK
<1>1. IInv => TypeOK
  BY DEF IInv
<1> QED
  BY <1>1, Lineage, PTL

\* A fact never names a batch whose last committed apply had no row for it, however
\* many uploads take facts over, replace and delete them at the same time.
THEOREM FactsKeepTheirOrigin == Spec => []FactsAreOfTheirFile
<1>1. IInv => FactsAreOfTheirFile
  BY DEF IInv
<1> QED
  BY <1>1, Lineage, PTL

\* No row is written by two transactions, and no batch is applied by two requests.
THEOREM LocksKeepApart == Spec => [](HeldApart /\ OneApplyPerBatch)
<1>1. IInv => HeldApart /\ OneApplyPerBatch
  BY DEF IInv
<1> QED
  BY <1>1, Lineage, PTL

\* Only a new apply of its own batch takes a fact away: what another upload has taken
\* over stays when the upload it came from is replaced.
THEOREM TakenOverFactsStay == Spec => FactsVanishOnlyByTheirOwner
<1>1. IInv /\ [Next]_vars =>
        [\A k \in Key : (sales[k] # NoFact /\ sales'[k] = NoFact) =>
          \E r \in Request : work[r].batch = sales[k].batch /\ pc'[r] = "idle"]_vars
  <2> SUFFICES ASSUME IInv, [Next]_vars, NEW k \in Key, sales[k] # NoFact, sales'[k] = NoFact
               PROVE  \E r \in Request : work[r].batch = sales[k].batch /\ pc'[r] = "idle"
    OBVIOUS
  <2>1. PICK r \in Request : Commits(r)
    BY OnlyCommitsChange
  <2>2. work[r].batch = sales[k].batch
    BY <2>1, Committed
  <2>3. pc'[r] = "idle"
    BY <2>1 DEF Commits, End, IInv, TypeOK
  <2> QED
    BY <2>2, <2>3
<1> QED
  BY <1>1, Lineage, PTL DEF Spec, FactsVanishOnlyByTheirOwner

\* An apply is committed as a whole, whatever else is applied, conflicts or dies.
THEOREM AppliesAreAtomic == Spec => CommitsAreWhole
<1>1. IInv /\ [Next]_vars =>
        [\A b \in Batch, r \in Request :
         (pc[r] # "idle" /\ work[r].batch = b /\ commits' # commits /\ pc'[r] = "idle") =>
            \A i \in DOMAIN work[r].file : sales'[work[r].file[i].key].batch = b]_vars
  <2> SUFFICES ASSUME IInv, [Next]_vars, NEW r \in Request, pc[r] # "idle", commits' # commits,
                      pc'[r] = "idle", NEW i \in DOMAIN work[r].file
               PROVE  sales'[work[r].file[i].key].batch = work[r].batch
    OBVIOUS
  <2>1. PICK s \in Request : Commits(s)
    BY OnlyCommitsChange
  <2>2. s = r
    BY <2>1 DEF Commits, End, IInv, TypeOK
  <2>3. work[r].file[i].key \in Keys(work[r].file) /\ work[r].file[i].key \in Key
    <3>1. work[r].file \in Seq(Row)
      BY DEF IInv, TypeOK, Work
    <3>2. work[r].file[i] \in Row
      BY <3>1
    <3> QED
      BY <3>2 DEF Keys, Row
  <2> QED
    BY <2>1, <2>2, <2>3, Committed
<1> QED
  BY <1>1, Lineage, PTL DEF Spec, CommitsAreWhole

-----------------------------------------------------------------------------
(* The files under the lock of their process                                 *)

\* A request that writes files read their tables after what its process wrote last, and
\* no other one of its process writes meanwhile.
Refreshing ==
    /\ files.at <= commits
    /\ \A r \in Request : pc[r] = "files" =>
         /\ work[r].view.by = ProcessOf[r] /\ work[r].view.at <= commits
         /\ files.by = ProcessOf[r] => files.at <= work[r].view.at
    /\ \A r, s \in Request : r # s /\ pc[r] = "files" /\ pc[s] = "files" => ProcessOf[r] # ProcessOf[s]

LEMMA InitRefreshing == Init => Refreshing
BY DEF Init, Refreshing, NoView

\* No step but a look at the tables enters the lock, and none but a write changes the files.
LEMMA RefreshingFrame ==
  ASSUME TypeOK, Refreshing, files' = files, commits' \in Nat, commits <= commits',
         \A r \in Request : pc'[r] = "files" => pc[r] = "files" /\ work'[r].view = work[r].view
  PROVE  Refreshing'
<1>1. commits \in Nat /\ files.at \in Nat /\ \A r \in Request : work[r].view.at \in Nat
  BY DEF TypeOK, View, Work
<1>2. files'.at <= commits'
  BY <1>1 DEF Refreshing
<1>3. ASSUME NEW r \in Request, pc'[r] = "files"
      PROVE  /\ work'[r].view.by = ProcessOf[r] /\ work'[r].view.at <= commits'
             /\ files'.by = ProcessOf[r] => files'.at <= work'[r].view.at
  BY <1>1, <1>3 DEF Refreshing
<1> QED
  BY <1>2, <1>3 DEF Refreshing

LEMMA StepRefreshing == IInv /\ Refreshing /\ [Next]_vars => Refreshing'
<1> SUFFICES ASSUME IInv, Refreshing, [Next]_vars PROVE Refreshing'
  OBVIOUS
<1>0. /\ TypeOK /\ work \in [Request -> Work] /\ pc \in [Request -> Location]
      /\ commits \in Nat /\ files \in View
      /\ \A r \in Request : work[r] \in Work /\ work[r].view \in View
  BY DEF IInv, TypeOK, Work
<1>1. ASSUME NEW r \in Request, ReadTables(r) PROVE Refreshing'
  <2>1. /\ pc' = [pc EXCEPT ![r] = "files"] /\ files' = files /\ commits' = commits
        /\ ~LockTaken(ProcessOf[r])
    BY <1>1 DEF ReadTables, Goto
  <2>2. \A s \in Request \ {r} : work'[s] = work[s] /\ pc'[s] = pc[s]
    BY <1>0, <1>1, <2>1 DEF ReadTables, Note
  <2>3. work'[r].view.at = commits /\ work'[r].view.by = ProcessOf[r]
    BY <1>0, <1>1 DEF ReadTables, Note, Work
  <2>4. \A s \in Request \ {r} : pc[s] = "files" => ProcessOf[s] # ProcessOf[r]
    BY <2>1 DEF LockTaken
  <2> QED
    BY <1>0, <2>1, <2>2, <2>3, <2>4 DEF Refreshing
<1>2. ASSUME NEW r \in Request, WriteFiles(r) \/ RefreshFails(r) PROVE Refreshing'
  <2>1. pc[r] = "files" /\ files' \in {files, work[r].view}
    BY <1>2 DEF WriteFiles, RefreshFails
  <2>2. commits' = commits \/ commits' = commits + 1
    BY <1>2 DEF WriteFiles, RefreshFails, Commit
  <2>3. \E x : Note(r, x) \/ End(r)
    BY <1>2 DEF WriteFiles, RefreshFails
  <2>4. \A s \in Request \ {r} : work'[s] = work[s] /\ pc'[s] = pc[s]
    BY <1>0, <1>2, <2>3 DEF WriteFiles, RefreshFails, Note, End, Goto
  <2>5. pc'[r] # "files"
    BY <1>0, <1>2 DEF WriteFiles, RefreshFails, Goto, End
  <2>6. CASE files' = work[r].view
    <3>1. \A s \in Request \ {r} : pc[s] = "files" => ProcessOf[s] # ProcessOf[r]
      BY <2>1 DEF Refreshing
    <3>2. files'.by = ProcessOf[r] /\ files'.at <= commits /\ files'.at \in Nat
      BY <1>0, <2>1, <2>6 DEF Refreshing, View
    <3>3. files'.at <= commits'
      BY <1>0, <2>2, <3>2
    <3>4. ASSUME NEW s \in Request, pc'[s] = "files"
          PROVE  /\ s # r /\ pc[s] = "files" /\ work'[s].view = work[s].view
                 /\ files'.by # ProcessOf[s] /\ work[s].view.at <= commits'
                 /\ work[s].view.by = ProcessOf[s]
      <4>1. s # r /\ pc[s] = "files" /\ work'[s].view = work[s].view
        BY <2>4, <2>5, <3>4
      <4>2. work[s].view.at <= commits /\ work[s].view.at \in Nat /\ work[s].view.by = ProcessOf[s]
        BY <1>0, <4>1 DEF Refreshing, View
      <4> QED
        BY <1>0, <2>2, <3>1, <3>2, <4>1, <4>2
    <3>5. \A s, q \in Request : s # q /\ pc'[s] = "files" /\ pc'[q] = "files" => ProcessOf[s] # ProcessOf[q]
      BY <3>4 DEF Refreshing
    <3> QED
      BY <3>3, <3>4, <3>5 DEF Refreshing
  <2>7. CASE files' = files
    BY <1>0, <2>2, <2>4, <2>5, <2>7, RefreshingFrame
  <2> QED
    BY <2>1, <2>6, <2>7
<1>3. ASSUME NEW r \in Request,
             DeleteRow(r) \/ LookRow(r) \/ WriteUpdate(r) \/ WriteInsert(r) \/ Conflict(r) \/ BreakDeadlock(r)
             \/ ReadStock(r) \/ StoreRun(r) \/ Publish(r)
      PROVE  Refreshing'
  <2>a. files' = files /\ (commits' = commits \/ commits' = commits + 1)
    BY <1>3
    DEF DeleteRow, LookRow, WriteUpdate, WriteInsert, Conflict, BreakDeadlock, ReadStock, StoreRun,
        Publish, Commit
  <2>b. \/ pc' = pc /\ pc[r] \in {"rows", "flush"}
        \/ pc'[r] \in {"rows", "flush", "store", "refresh", "idle"}
    BY <1>0, <1>3
    DEF DeleteRow, LookRow, WriteUpdate, WriteInsert, Conflict, BreakDeadlock, ReadStock, StoreRun,
        Publish, Goto, End
  <2>1. files' = files /\ commits' \in Nat /\ commits <= commits' /\ pc'[r] # "files"
    BY <1>0, <2>a, <2>b
  <2>2. \E x : Note(r, x) \/ End(r)
    BY <1>3
    DEF DeleteRow, LookRow, WriteUpdate, WriteInsert, Conflict, BreakDeadlock, ReadStock, StoreRun,
        Publish
  <2>3. \A s \in Request \ {r} : work'[s] = work[s]
    BY <1>0, <2>2 DEF Note, End
  <2>4. \A s \in Request \ {r} : pc'[s] = pc[s]
    BY <1>0, <1>3
    DEF DeleteRow, LookRow, WriteUpdate, WriteInsert, Conflict, BreakDeadlock, ReadStock, StoreRun,
        Publish, Goto, End
  <2> QED
    BY <1>0, <2>1, <2>3, <2>4, RefreshingFrame
<1>4. ASSUME NEW r \in Request, BeginApply(r) \/ BeginCalculation(r) PROVE Refreshing'
  <2>1. files' = files /\ commits' = commits
    BY <1>4 DEF BeginApply, BeginCalculation
  <2>2. pc'[r] # "files" /\ \A s \in Request \ {r} : pc'[s] = pc[s] /\ work'[s].view = work[s].view
    <3>1. ASSUME NEW x, NEW l, Begin(r, x, l), l # "files"
          PROVE  pc'[r] # "files" /\ \A s \in Request \ {r} : pc'[s] = pc[s] /\ work'[s].view = work[s].view
      <4>1. pc'[r] # "files" /\ \A s \in Request \ {r} : pc'[s] = pc[s]
        BY <1>0, <3>1 DEF Begin
      <4>2. ASSUME NEW s \in Request \ {r} PROVE work'[s].view = work[s].view
        <5>1. work'[s] = [work[s] EXCEPT !.crossed = TRUE] \/ work'[s] = work[s]
          BY <3>1 DEF Begin
        <5> QED
          BY <1>0, <5>1 DEF Work
      <4> QED
        BY <4>1, <4>2
    <3>2. CASE BeginApply(r)
      <4>1. PICK b \in Batch \cup StockBatch :
              \E f \in IF b \in Batch THEN Files[b] ELSE {<<>>} :
                Begin(r, [NoWork EXCEPT !.kind = "apply", !.batch = b, !.apply = begun + 1, !.file = f],
                      IF b \in Batch THEN "rows" ELSE "refresh")
        BY <3>2 DEF BeginApply
      <4>2. PICK f \in IF b \in Batch THEN Files[b] ELSE {<<>>} :
                Begin(r, [NoWork EXCEPT !.kind = "apply", !.batch = b, !.apply = begun + 1, !.file = f],
                      IF b \in Batch THEN "rows" ELSE "refresh")
        BY <4>1
      <4>3. (IF b \in Batch THEN "rows" ELSE "refresh") # "files"
        OBVIOUS
      <4> QED
        BY <3>1, <4>2, <4>3
    <3>3. CASE BeginCalculation(r)
      <4>1. PICK kind \in Calculation :
             Begin(r, [NoWork EXCEPT !.kind = kind, !.run = [kind |-> kind, day |-> 0, after |-> Len(runs),
                                                             began |-> commits, read |-> commits]],
                   "read stock")
        BY <3>3 DEF BeginCalculation
      <4>2. "read stock" # "files"
        OBVIOUS
      <4> QED
        BY <3>1, <4>1, <4>2
    <3> QED
      BY <1>4, <3>2, <3>3
  <2> QED
    BY <1>0, <2>1, <2>2, RefreshingFrame
<1>5. ASSUME NEW p \in Process, Crash(p) PROVE Refreshing'
  <2>1. commits' = commits
    BY <1>5 DEF Crash
  <2>2. \A s \in Request : pc'[s] = "files" =>
          ProcessOf[s] # p /\ pc[s] = "files" /\ work'[s].view = work[s].view
    BY <1>0, <1>5 DEF Crash
  <2>3. CASE files' = files
    BY <1>0, <2>1, <2>2, <2>3, RefreshingFrame
  <2>4. ASSUME NEW r \in Request, pc[r] = "files", ProcessOf[r] = p, files' = work[r].view PROVE Refreshing'
    <3>1. files'.by = p /\ files'.at <= commits'
      BY <2>1, <2>4 DEF Refreshing
    <3> QED
      BY <2>1, <2>2, <3>1 DEF Refreshing
  <2>5. files' = files \/ \E r \in Request : pc[r] = "files" /\ ProcessOf[r] = p /\ files' = work[r].view
    BY <1>5 DEF Crash, Busy
  <2> QED
    BY <2>3, <2>4, <2>5
<1>6. ASSUME NextDay \/ UNCHANGED vars PROVE Refreshing'
  <2>1. files' = files /\ commits' = commits /\ pc' = pc /\ work' = work
    BY <1>6 DEF NextDay, vars
  <2> QED
    BY <1>0, <2>1, RefreshingFrame
<1> QED
  BY <1>1, <1>2, <1>3, <1>4, <1>5, <1>6 DEF Next, Step

\* The refreshes of one process do not overtake each other, however many requests of it
\* refresh: its lock is held from the reading of the tables to the writing of the files.
THEOREM RefreshesKeepOrder == Spec => RefreshesDoNotOvertake
<1>1. Spec => []Refreshing
  BY InitRefreshing, StepRefreshing, Lineage, PTL DEF Spec
<1>2. IInv /\ Refreshing /\ [Next]_vars => [files'.by = files.by => files'.at >= files.at]_vars
  <2> SUFFICES ASSUME IInv, Refreshing, [Next]_vars, files'.by = files.by PROVE files'.at >= files.at
    OBVIOUS
  <2>1. files.at \in Nat
    BY DEF IInv, TypeOK, View
  <2>2. ASSUME NEW r \in Request, pc[r] = "files", files' = work[r].view PROVE files'.at >= files.at
    BY <2>2 DEF Refreshing, IInv, TypeOK, Work, View
  <2>3. files' = files \/ \E r \in Request : pc[r] = "files" /\ files' = work[r].view
    BY DEF Next, Step, BeginApply, BeginCalculation, DeleteRow, LookRow, WriteUpdate, WriteInsert, Conflict,
        BreakDeadlock, ReadStock, StoreRun, ReadTables, WriteFiles, RefreshFails, Publish, Crash, Busy,
        NextDay, vars
  <2> QED
    BY <2>1, <2>2, <2>3
<1> QED
  BY <1>1, <1>2, Lineage, PTL DEF Spec, RefreshesDoNotOvertake

-----------------------------------------------------------------------------
(* The runs that are stored, and the one the pages show                      *)

\* A calculation, stored or not, began after everything that was stored before it began.
FoundBefore(run) ==
    /\ run.after <= Len(runs) /\ run.began <= commits
    /\ \A i \in DOMAIN runs : i <= run.after => runs[i].began <= run.began
RunsInOrder ==
    /\ \A j \in DOMAIN runs : runs[j].after < j /\ FoundBefore(runs[j])
    /\ \A r \in Request : FoundBefore(work[r].run)

LEMMA RunTypes ==
  ASSUME TypeOK
  PROVE  /\ commits \in Nat /\ runs \in Seq(Run) /\ Len(runs) \in Nat /\ DOMAIN runs = 1..Len(runs)
         /\ \A j \in DOMAIN runs : runs[j] \in Run
         /\ \A r \in Request : work[r] \in Work /\ work[r].run \in Run
<1>1. commits \in Nat /\ runs \in Seq(Run) /\ \A r \in Request : work[r] \in Work
  BY DEF TypeOK
<1>2. \A r \in Request : work[r].run \in Run
  BY <1>1 DEF Work
<1>3. Len(runs) \in Nat /\ DOMAIN runs = 1..Len(runs) /\ \A j \in DOMAIN runs : runs[j] \in Run
  BY <1>1
<1> QED
  BY <1>1, <1>2, <1>3

\* A request without a calculation holds NoRun.
LEMMA NoRunIsFound == TypeOK => FoundBefore(NoRun)
BY RunTypes DEF FoundBefore, NoRun

LEMMA InitRunsInOrder == Init => RunsInOrder
<1> SUFFICES ASSUME Init PROVE RunsInOrder
  OBVIOUS
<1>1. runs = <<>> /\ \A r \in Request : work[r].run = NoRun
  BY DEF Init, NoWork
<1>2. DOMAIN runs = {}
  BY <1>1
<1>3. FoundBefore(NoRun)
  BY InitTypes, NoRunIsFound
<1> QED
  BY <1>1, <1>2, <1>3 DEF RunsInOrder

SameStart(x, y) == y.after = x.after /\ y.began = x.began

\* Steps that store no run and begin no calculation leave the order as it is.
LEMMA RunsFrame ==
  ASSUME TypeOK, RunsInOrder, runs' = runs, commits' \in Nat, commits <= commits',
         \A s \in Request : SameStart(work[s].run, work'[s].run) \/ work'[s].run = NoRun
  PROVE  RunsInOrder'
<1>1. ASSUME NEW x \in Run, NEW y, FoundBefore(x), SameStart(x, y)
      PROVE  y.after <= Len(runs') /\ y.began <= commits'
             /\ \A i \in DOMAIN runs' : i <= y.after => runs'[i].began <= y.began
  BY <1>1, RunTypes DEF FoundBefore, Run, SameStart
<1>2. ASSUME NEW j \in DOMAIN runs' PROVE runs'[j].after < j /\ FoundBefore(runs[j])'
  BY <1>1, <1>2, RunTypes DEF RunsInOrder, FoundBefore, SameStart
<1>3. ASSUME NEW s \in Request PROVE FoundBefore(work[s].run)'
  <2>1. CASE SameStart(work[s].run, work'[s].run)
    BY <1>1, <2>1, RunTypes DEF RunsInOrder, FoundBefore
  <2>2. CASE work'[s].run = NoRun
    <3>1. SameStart(NoRun, work'[s].run) /\ NoRun \in Run /\ FoundBefore(NoRun)
      BY <2>2, NoFactIsNoFact, NoRunIsFound DEF SameStart
    <3> QED
      BY <1>1, <3>1 DEF FoundBefore
  <2> QED
    BY <2>1, <2>2
<1> QED
  BY <1>2, <1>3 DEF RunsInOrder

\* The calculation that a request works on is the same, or there is none any more.
LEMMA NoteRun ==
  ASSUME TypeOK, NEW r \in Request, NEW x,
         (Note(r, x) /\ SameStart(work[r].run, x.run)) \/ End(r)
  PROVE  \A s \in Request : SameStart(work[s].run, work'[s].run) \/ work'[s].run = NoRun
BY DEF Note, End, NoWork, SameStart, TypeOK

LEMMA BeginRun ==
  ASSUME TypeOK, NEW r \in Request, NEW x, NEW l, Begin(r, x, l), x \in Work
  PROVE  /\ work'[r].run = x.run
         /\ \A s \in Request \ {r} : work'[s].run = work[s].run
<1>1. work'[r] = [x EXCEPT !.crossed = (Busy # {})]
  BY DEF Begin
<1>2. work'[r].run = x.run
  BY <1>1 DEF Work
<1>3. ASSUME NEW s \in Request \ {r} PROVE work'[s].run = work[s].run
  <2>1. work'[s] = [work[s] EXCEPT !.crossed = TRUE] \/ work'[s] = work[s]
    BY <1>3 DEF Begin
  <2>2. work[s] \in Work
    BY DEF TypeOK
  <2> QED
    BY <2>1, <2>2 DEF Work
<1> QED
  BY <1>2, <1>3

LEMMA RunsApply ==
  ASSUME IInv, RunsInOrder, NEW r \in Request, BeginApply(r) PROVE RunsInOrder'
<1>0. TypeOK
  BY DEF IInv
<1>1. PICK b \in Batch \cup StockBatch :
        \E f \in IF b \in Batch THEN Files[b] ELSE {<<>>} :
          Begin(r, [NoWork EXCEPT !.kind = "apply", !.batch = b, !.apply = begun + 1, !.file = f],
                IF b \in Batch THEN "rows" ELSE "refresh")
  BY DEF BeginApply
<1>2. PICK f \in IF b \in Batch THEN Files[b] ELSE {<<>>} :
        Begin(r, [NoWork EXCEPT !.kind = "apply", !.batch = b, !.apply = begun + 1, !.file = f],
              IF b \in Batch THEN "rows" ELSE "refresh")
  BY <1>1
<1>3. f \in Seq(Row) /\ begun + 1 \in Nat
  <2>1. CASE b \in Batch
    BY <1>0, <2>1, FilesAssumption, Bounds DEF TypeOK
  <2>2. CASE b \notin Batch
    BY <1>0, <2>2, Bounds DEF TypeOK
  <2> QED
    BY <2>1, <2>2
<1> DEFINE x == [NoWork EXCEPT !.kind = "apply", !.batch = b, !.apply = begun + 1, !.file = f]
<1>4. x \in Work /\ x.run = NoRun
  BY <1>3, NoWorkIsWork DEF Work, NoWork
<1> HIDE DEF x
<1>5. \A s \in Request : SameStart(work[s].run, work'[s].run) \/ work'[s].run = NoRun
  BY <1>0, <1>2, <1>4, BeginRun DEF SameStart, x
<1>6. runs' = runs /\ commits' = commits
  BY DEF BeginApply
<1> QED
  BY <1>0, <1>5, <1>6, RunTypes, RunsFrame

LEMMA RunsCalculation ==
  ASSUME IInv, RunsInOrder, NEW r \in Request, BeginCalculation(r) PROVE RunsInOrder'
<1>0. TypeOK
  BY DEF IInv
<1>1. PICK kind \in Calculation :
       Begin(r, [NoWork EXCEPT !.kind = kind, !.run = [kind |-> kind, day |-> 0, after |-> Len(runs),
                                                       began |-> commits, read |-> commits]],
             "read stock")
  BY DEF BeginCalculation
<1> DEFINE q == [kind |-> kind, day |-> 0, after |-> Len(runs), began |-> commits, read |-> commits]
           x == [NoWork EXCEPT !.kind = kind, !.run = q]
<1>2. q \in Run
  BY <1>0, BoundsAssumption DEF TypeOK, Run
<1>3. q.after = Len(runs) /\ q.began = commits
  OBVIOUS
<1> HIDE DEF q
<1>4. x \in Work /\ x.run = q
  BY <1>2, NoWorkIsWork DEF Work, NoWork
<1>5. Begin(r, x, "read stock")
  BY <1>1, Zenon DEF q
<1> HIDE DEF x
<1>6. work'[r].run = q /\ \A s \in Request \ {r} : work'[s].run = work[s].run
  BY <1>0, <1>4, <1>5, BeginRun, Zenon
<1>7. runs' = runs /\ commits' = commits
  BY DEF BeginCalculation
<1>8. FoundBefore(q)
  <2>1. \A i \in DOMAIN runs : runs[i].began <= commits
    BY DEF RunsInOrder, FoundBefore
  <2> QED
    BY <1>0, <1>3, <2>1, RunTypes DEF FoundBefore
<1> QED
  BY <1>6, <1>7, <1>8 DEF RunsInOrder, FoundBefore

LEMMA RunsStored ==
  ASSUME IInv, RunsInOrder, NEW r \in Request, StoreRun(r) PROVE RunsInOrder'
<1>0. TypeOK
  BY DEF IInv
<1> DEFINE q == [work[r].run EXCEPT !.day = day]
<1>1. q \in Run /\ FoundBefore(q)
  <2>1. work[r].run \in Run /\ FoundBefore(work[r].run) /\ day \in 0..MaxDay
    BY <1>0, RunTypes DEF RunsInOrder, TypeOK
  <2>2. q \in Run /\ q.after = work[r].run.after /\ q.began = work[r].run.began
    <3>1. day \in Nat
      BY <2>1, Bounds
    <3> QED
      BY <2>1, <3>1 DEF Run
  <2> QED
    BY <2>1, <2>2 DEF FoundBefore
<1>2. runs' = Append(runs, q) /\ commits' = commits
  BY DEF StoreRun
<1> HIDE DEF q
<1>3. /\ Len(runs') = Len(runs) + 1 /\ DOMAIN runs' = 1..(Len(runs) + 1)
      /\ runs'[Len(runs) + 1] = q /\ \A i \in 1..Len(runs) : runs'[i] = runs[i]
  BY <1>0, <1>1, <1>2, RunTypes
<1>4. ASSUME NEW x \in Run, FoundBefore(x)
      PROVE  x.after <= Len(runs') /\ x.began <= commits'
             /\ \A i \in DOMAIN runs' : i <= x.after => runs'[i].began <= x.began
  <2>1. x.after \in Nat /\ x.after <= Len(runs)
    BY <1>4 DEF FoundBefore, Run
  <2> QED
    BY <1>0, <1>2, <1>3, <1>4, <2>1, RunTypes DEF FoundBefore
<1>5. ASSUME NEW j \in DOMAIN runs' PROVE runs'[j].after < j /\ FoundBefore(runs[j])'
  <2>1. CASE j = Len(runs) + 1
    <3>1. runs'[j] = q /\ q.after < j
      BY <1>0, <1>1, <1>3, <2>1, RunTypes DEF FoundBefore, Run
    <3> QED
      BY <1>1, <1>4, <3>1 DEF FoundBefore
  <2>2. CASE j \in DOMAIN runs
    <3>1. runs'[j] = runs[j] /\ runs[j] \in Run /\ runs[j].after < j /\ FoundBefore(runs[j])
      BY <1>0, <1>3, <2>2, RunTypes DEF RunsInOrder
    <3> QED
      BY <1>4, <3>1 DEF FoundBefore
  <2> QED
    BY <1>0, <1>3, <2>1, <2>2, RunTypes
<1>6. ASSUME NEW s \in Request PROVE FoundBefore(work[s].run)'
  <2>1. work'[s].run = NoRun \/ work'[s].run = work[s].run
    <3>1. Note(r, [work[r] EXCEPT !.run = NoRun])
      BY DEF StoreRun
    <3> QED
      BY <1>0, <3>1 DEF Note, TypeOK, Work
  <2>2. NoRun \in Run /\ FoundBefore(NoRun) /\ work[s].run \in Run /\ FoundBefore(work[s].run)
    BY <1>0, NoFactIsNoFact, NoRunIsFound, RunTypes DEF RunsInOrder
  <2> QED
    BY <1>4, <2>1, <2>2 DEF FoundBefore
<1> QED
  BY <1>5, <1>6 DEF RunsInOrder

LEMMA StepRunsInOrder == IInv /\ RunsInOrder /\ [Next]_vars => RunsInOrder'
<1> SUFFICES ASSUME IInv, RunsInOrder, [Next]_vars PROVE RunsInOrder'
  OBVIOUS
<1>0. TypeOK /\ TypesOfRequest /\ commits \in Nat
  BY IInvTypes DEF IInv, TypeOK
<1>1. ASSUME NEW r \in Request, DeleteRow(r) \/ WriteUpdate(r) \/ WriteInsert(r) \/ ReadStock(r) \/ ReadTables(r)
      PROVE  RunsInOrder'
  <2>1. runs' = runs /\ commits' = commits
    BY <1>1 DEF DeleteRow, WriteUpdate, WriteInsert, ReadStock, ReadTables
  <2>2. \E x : Note(r, x) /\ SameStart(work[r].run, x.run)
    <3>1. work[r] \in Work /\ work[r].run \in Run
      BY <1>0, RunTypes
    <3>2. CASE DeleteRow(r)
      <4>1. PICK k : Note(r, [work[r] EXCEPT !.gone = @ \cup {k}])
        BY <3>2 DEF DeleteRow
      <4>2. [work[r] EXCEPT !.gone = @ \cup {k}].run = work[r].run
        BY <3>1 DEF Work
      <4> QED
        BY <4>1, <4>2 DEF SameStart
    <3>3. CASE WriteUpdate(r)
      <4>1. PICK u : Note(r, [work[r] EXCEPT !.updates = @ \ {u}, !.wrote[u.key] = Updated(work[r], u)])
        BY <3>3 DEF WriteUpdate
      <4>2. [work[r] EXCEPT !.updates = @ \ {u}, !.wrote[u.key] = Updated(work[r], u)].run = work[r].run
        BY <3>1 DEF Work
      <4> QED
        BY <4>1, <4>2 DEF SameStart
    <3>4. CASE WriteInsert(r)
      <4>1. PICK row : Note(r, [work[r] EXCEPT !.inserts = Tail(@), !.wrote[row.key] = Inserted(work[r], row)])
        BY <3>4 DEF WriteInsert
      <4>2. [work[r] EXCEPT !.inserts = Tail(@), !.wrote[row.key] = Inserted(work[r], row)].run = work[r].run
        BY <3>1 DEF Work
      <4> QED
        BY <4>1, <4>2 DEF SameStart
    <3>5. CASE ReadStock(r)
      <4> DEFINE x == [work[r] EXCEPT !.run.read = commits]
      <4>1. Note(r, x)
        BY <3>5 DEF ReadStock
      <4>2. x.run = [work[r].run EXCEPT !.read = commits]
        BY <3>1 DEF Work
      <4>3. SameStart(work[r].run, x.run)
        BY <3>1, <4>2 DEF SameStart, Run
      <4> HIDE DEF x
      <4> QED
        BY <4>1, <4>3
    <3>6. CASE ReadTables(r)
      BY <3>1, <3>6 DEF ReadTables, SameStart, Work
    <3> QED
      BY <1>1, <3>2, <3>3, <3>4, <3>5, <3>6
  <2> QED
    BY <1>0, <2>1, <2>2, NoteRun, RunsFrame
<1>2. ASSUME NEW r \in Request, LookRow(r) PROVE RunsInOrder'
  <2> DEFINE w == work[r]
             row == w.file[w.next]
             p == Planned(w, row, SeenSales(r)[row.key])
  <2>1. Note(r, [p EXCEPT !.next = @ + 1]) /\ runs' = runs /\ commits' = commits
    BY <1>2 DEF LookRow
  <2>2. w \in Work
    BY <1>0 DEF TypeOK
  <2>a. [p EXCEPT !.next = @ + 1].run = p.run
    <3>1. p = [w EXCEPT !.inserts = Append(@, row)] \/ \E u : p = [w EXCEPT !.updates = u]
      BY Zenon DEF Planned
    <3> QED
      BY <2>2, <3>1 DEF Work
  <2>b. p.run = w.run
    <3>1. p = [w EXCEPT !.inserts = Append(@, row)] \/ \E u : p = [w EXCEPT !.updates = u]
      BY Zenon DEF Planned
    <3> QED
      BY <2>2, <3>1 DEF Work
  <2>3. [p EXCEPT !.next = @ + 1].run = w.run
    BY <2>a, <2>b
  <2> DEFINE x == [p EXCEPT !.next = @ + 1]
  <2>4. Note(r, x) /\ SameStart(work[r].run, x.run)
    BY <2>1, <2>3 DEF SameStart
  <2> HIDE DEF x
  <2>5. \A s \in Request : SameStart(work[s].run, work'[s].run) \/ work'[s].run = NoRun
    BY <1>0, <2>4, NoteRun
  <2> QED
    BY <1>0, <2>1, <2>5, RunsFrame
<1>3. ASSUME NEW r \in Request, WriteFiles(r) \/ Conflict(r) \/ BreakDeadlock(r) \/ RefreshFails(r) \/ Publish(r)
      PROVE  RunsInOrder'
  <2>1. runs' = runs /\ (commits' = commits \/ commits' = commits + 1)
    BY <1>3 DEF WriteFiles, Conflict, BreakDeadlock, RefreshFails, Publish, Commit
  <2>2. End(r) \/ Note(r, [work[r] EXCEPT !.view = NoView])
    BY <1>3 DEF WriteFiles, Conflict, BreakDeadlock, RefreshFails, Publish
  <2>3. [work[r] EXCEPT !.view = NoView].run = work[r].run
    BY <1>0 DEF TypeOK, Work
  <2> DEFINE x == [work[r] EXCEPT !.view = NoView]
  <2>4. End(r) \/ (Note(r, x) /\ SameStart(work[r].run, x.run))
    BY <2>2, <2>3 DEF SameStart
  <2> HIDE DEF x
  <2>5. \A s \in Request : SameStart(work[s].run, work'[s].run) \/ work'[s].run = NoRun
    BY <1>0, <2>4, NoteRun
  <2>6. commits' \in Nat /\ commits <= commits'
    BY <1>0, <2>1
  <2> QED
    BY <1>0, <2>1, <2>5, <2>6, RunsFrame
<1>4. ASSUME NEW p \in Process, Crash(p) PROVE RunsInOrder'
  <2>1. runs' = runs /\ commits' = commits
    BY <1>4 DEF Crash
  <2>2. \A s \in Request : work'[s].run = work[s].run \/ work'[s].run = NoRun
    BY <1>4 DEF Crash, NoWork
  <2> QED
    BY <1>0, <2>1, <2>2, RunsFrame DEF SameStart
<1>5. ASSUME NextDay \/ UNCHANGED vars PROVE RunsInOrder'
  <2>1. runs' = runs /\ commits' = commits /\ work' = work
    BY <1>5 DEF NextDay, vars
  <2> QED
    BY <1>0, <2>1, RunsFrame DEF SameStart
<1> QED
  BY <1>1, <1>2, <1>3, <1>4, <1>5, RunsApply, RunsCalculation, RunsStored DEF Next, Step

\* A set of places in a sequence that is not empty has a last one.
LEMMA LastOfSome ==
  ASSUME NEW n \in Nat, NEW S \in SUBSET (1..n), S # {}
  PROVE  \E i \in S : \A j \in S : j <= i
<1> DEFINE R == OpToRel(<, Nat)
           T == {n - i : i \in S}
<1>1. \A x, y \in Nat : x < y => <<x, y>> \in R
  BY DEF OpToRel
<1>2. T \in SUBSET Nat /\ T # {}
  <2>1. \A i \in S : n - i \in Nat
    OBVIOUS
  <2>2. T # {}
    OBVIOUS
  <2> QED
    BY <2>1, <2>2
<1>3. IsWellFoundedOn(R, Nat)
  BY NatLessThanWellFounded
<1> HIDE DEF R, T
<1>4. PICK t \in T : \A y \in T : ~ (<<y, t>> \in R)
  BY <1>2, <1>3, WFMin
<1>5. ASSUME NEW y \in T PROVE t <= y
  <2>1. t \in Nat /\ y \in Nat /\ (y < t => <<y, t>> \in R)
    BY <1>1, <1>2, <1>4
  <2> QED
    BY <1>4, <2>1
<1>6. PICK i \in S : t = n - i
  BY DEF T
<1>7. ASSUME NEW j \in S PROVE j <= i
  <2>1. n - j \in T
    BY DEF T
  <2> QED
    BY <1>5, <1>6, <2>1
<1> QED
  BY <1>7

\* However calculations overlap, the run that the pages show is one of today's that was
\* calculated last: another that has read later commits was calculated at the same time.
\* (find_recent_matching_run, over the runs by created_at, newest first)
THEOREM PagesShowTheFreshest == Spec => []PortfolioIsFreshest
<1>1. Spec => []RunsInOrder
  BY InitRunsInOrder, StepRunsInOrder, Lineage, PTL DEF Spec
<1>2. IInv /\ RunsInOrder => PortfolioIsFreshest
  <2> SUFFICES ASSUME IInv, RunsInOrder, PortfolioRun # 0, NEW i \in DOMAIN runs, MatchesPortfolio(i),
                      runs[i].began > runs[PortfolioRun].began
               PROVE  Overlapped(i, PortfolioRun)
    BY DEF PortfolioIsFreshest
  <2>0. TypeOK
    BY DEF IInv
  <2> DEFINE p == PortfolioRun
             matching == {j \in Recent : MatchesPortfolio(j)}
  <2>1. matching # {} /\ p = FirstMatch(matching)
    BY DEF PortfolioRun
  <2>2. matching \subseteq 1..Len(runs)
    BY <2>0, RunTypes DEF Recent
  <2>3. p \in matching /\ \A j \in matching : j <= p
    <3>1. \E k \in matching : \A j \in matching : j <= k
      BY <2>0, <2>1, <2>2, RunTypes, LastOfSome
    <3> QED
      BY <2>1, <3>1 DEF FirstMatch
  <2> HIDE DEF p, matching
  <2>4. p \in DOMAIN runs /\ p > Len(runs) - Window
    BY <2>3 DEF Recent, matching
  <2>5. i <= p
    BY <2>0, <2>3, <2>4, RunTypes, Bounds DEF Recent, matching
  <2>6. i # p /\ runs[i].began \in Nat /\ runs[p].began \in Nat /\ runs[p].after \in Nat /\ runs[i].after \in Nat
    BY <2>0, <2>4, RunTypes DEF Run, p
  <2>7. runs[i].after < p
    BY <2>0, <2>4, <2>5, <2>6, RunTypes DEF RunsInOrder
  <2>8. runs[p].after < i
    BY <2>0, <2>4, <2>6, RunTypes DEF RunsInOrder, FoundBefore, p
  <2> QED
    BY <2>7, <2>8 DEF Overlapped, p
<1> QED
  BY <1>1, <1>2, Lineage, PTL

-----------------------------------------------------------------------------
(* What a request may rely on that no other one runs beside                  *)

\* The last of the first n rows of a file for a key, and its quantity.
LastAt(f, n, i) == i \in 1..n /\ \A j \in 1..n : j > i => f[j].key # f[i].key
IsLast(f, n, k, q) == \E i \in 1..n : LastAt(f, n, i) /\ f[i].key = k /\ f[i].qty = q

\* What is planned stands in the rows looked up so far: an update is of the fact that is
\* there, one for each key, to the last quantity of the key; an insert has no fact in its
\* way; and what is written has the last quantity, unless a further insert is to come.
UpdatesFit(w) ==
    \A u \in w.updates :
      /\ sales[u.key] # NoFact /\ sales[u.key].id = u.id /\ sales[u.key].qty = u.loaded
      /\ u.key \notin w.gone /\ u.key \notin Written(w)
      /\ IsLast(w.file, w.next - 1, u.key, u.qty)
      /\ \A v \in w.updates : v.key = u.key => v = u
InsertsFit(w) ==
    \A i \in DOMAIN w.inserts :
      /\ sales[w.inserts[i].key] = NoFact \/ w.inserts[i].key \in w.gone
      /\ \E j \in 1..(w.next - 1) : w.file[j].key = w.inserts[i].key
      /\ LastAt(w.inserts, Len(w.inserts), i) =>
           IsLast(w.file, w.next - 1, w.inserts[i].key, w.inserts[i].qty)
WrittenFit(w) ==
    \A k \in Written(w) : k \notin Keys(w.inserts) => IsLast(w.file, w.next - 1, k, w.wrote[k].qty)
RepeatsFit(w) ==
    ~Repeats(w.file) => ~Repeats(w.inserts) /\ Keys(w.inserts) \cap Written(w) = {}
PlanFits(w) == UpdatesFit(w) /\ InsertsFit(w) /\ WrittenFit(w) /\ RepeatsFit(w)

LEMMA LastGrows ==
  ASSUME NEW f, NEW n \in Nat, NEW k, NEW q, IsLast(f, n, k, q), f[n + 1].key # k
  PROVE  IsLast(f, n + 1, k, q)
<1>1. PICK i \in 1..n : LastAt(f, n, i) /\ f[i].key = k /\ f[i].qty = q
  BY DEF IsLast
<1>2. i \in 1..(n + 1) /\ \A j \in 1..(n + 1) : j \in 1..n \/ j = n + 1
  OBVIOUS
<1>3. LastAt(f, n + 1, i)
  BY <1>1, <1>2 DEF LastAt
<1> QED
  BY <1>1, <1>2, <1>3 DEF IsLast

LEMMA LastIsNew ==
  ASSUME NEW f, NEW n \in Nat
  PROVE  IsLast(f, n + 1, f[n + 1].key, f[n + 1].qty)
<1>1. n + 1 \in 1..(n + 1) /\ \A j \in 1..(n + 1) : ~(j > n + 1)
  OBVIOUS
<1>2. LastAt(f, n + 1, n + 1)
  BY <1>1 DEF LastAt
<1> QED
  BY <1>1, <1>2 DEF IsLast

LEMMA LastRowIs ==
  ASSUME NEW f \in Seq(Row), NEW k, NEW q, IsLast(f, Len(f), k, q)
  PROVE  LastRow(f, k).qty = q
<1>1. PICK i \in 1..Len(f) : LastAt(f, Len(f), i) /\ f[i].key = k /\ f[i].qty = q
  BY DEF IsLast
<1>2. DOMAIN f = 1..Len(f) /\ Len(f) \in Nat
  OBVIOUS
<1> DEFINE P(j) == f[j].key = k /\ \A l \in DOMAIN f : f[l].key = k => l <= j
<1>3. \A j \in DOMAIN f : f[j].key = k => j <= i
  BY <1>1, <1>2 DEF LastAt
<1>4. i \in DOMAIN f /\ P(i)
  BY <1>1, <1>2, <1>3
<1>5. \A j \in DOMAIN f : P(j) => j = i
  <2> SUFFICES ASSUME NEW j \in DOMAIN f, P(j) PROVE j = i
    OBVIOUS
  <2>1. i <= j /\ j <= i
    BY <1>3, <1>4
  <2> QED
    BY <1>1, <1>2, <2>1
<1>6. (CHOOSE j \in DOMAIN f : P(j)) = i
  <2> HIDE DEF P
  <2> QED
    BY <1>4, <1>5
<1> QED
  BY <1>1, <1>6 DEF LastRow

LEMMA PlaceTypes ==
  ASSUME NEW w \in Work
  PROVE  /\ w.next \in Nat \ {0} /\ w.next - 1 \in Nat /\ w.file \in Seq(Row)
         /\ w.inserts \in Seq(Row) /\ Len(w.inserts) \in Nat /\ DOMAIN w.inserts = 1..Len(w.inserts)
         /\ Len(w.file) \in Nat /\ DOMAIN w.file = 1..Len(w.file)
         /\ \A i \in DOMAIN w.inserts : w.inserts[i] \in Row /\ w.inserts[i].key \in Key
         /\ \A i \in DOMAIN w.file : w.file[i] \in Row /\ w.file[i].key \in Key
<1>1. w.next \in Nat \ {0} /\ w.file \in Seq(Row) /\ w.inserts \in Seq(Row)
  BY DEF Work
<1>2. \A i \in DOMAIN w.inserts : w.inserts[i] \in Row
  BY <1>1
<1>3. \A i \in DOMAIN w.file : w.file[i] \in Row
  BY <1>1
<1>4. \A y \in Row : y.key \in Key
  BY DEF Row
<1> QED
  BY <1>1, <1>2, <1>3, <1>4

\* A row without a fact is planned as an insert.
LEMMA FitsInsert ==
  ASSUME NEW w \in Work, NEW x \in Work, w.next \in DOMAIN w.file, w.wrote = NoFacts,
         PlanFits(w), NEW row, row = w.file[w.next], sales[row.key] = NoFact \/ row.key \in w.gone,
         x.file = w.file, x.gone = w.gone, x.wrote = w.wrote, x.next = w.next + 1,
         x.updates = w.updates, x.inserts = Append(w.inserts, row)
  PROVE  PlanFits(x)
<1> DEFINE n == w.next - 1
           m == Len(w.inserts)
<1>1. /\ n \in Nat /\ n + 1 = w.next /\ x.next - 1 = n + 1 /\ w.next - 1 = n
      /\ m \in Nat /\ m = Len(w.inserts) /\ DOMAIN w.inserts = 1..m
      /\ row = w.file[n + 1] /\ row \in Row /\ row.key \in Key
  BY PlaceTypes
<1>2. /\ Len(x.inserts) = m + 1 /\ DOMAIN x.inserts = 1..(m + 1) /\ x.inserts[m + 1] = row
      /\ \A i \in 1..m : x.inserts[i] = w.inserts[i]
  BY <1>1, PlaceTypes
<1> HIDE DEF n, m
<1>3. Written(x) = {} /\ Written(w) = {}
  BY DEF Written, NoFacts
<1>4. UpdatesFit(x)
  <2> SUFFICES ASSUME NEW u \in w.updates
               PROVE  /\ sales[u.key] # NoFact /\ sales[u.key].id = u.id /\ sales[u.key].qty = u.loaded
                      /\ u.key \notin w.gone
                      /\ IsLast(w.file, n + 1, u.key, u.qty)
                      /\ \A v \in w.updates : v.key = u.key => v = u
    BY <1>1, <1>3 DEF UpdatesFit
  <2>1. /\ sales[u.key] # NoFact /\ sales[u.key].id = u.id /\ sales[u.key].qty = u.loaded
        /\ u.key \notin w.gone /\ IsLast(w.file, n, u.key, u.qty)
        /\ \A v \in w.updates : v.key = u.key => v = u
    BY <1>1 DEF PlanFits, UpdatesFit
  <2>2. w.file[n + 1].key # u.key
    BY <1>1, <2>1
  <2> QED
    BY <1>1, <2>1, <2>2, LastGrows
<1>5. InsertsFit(x)
  <2> SUFFICES ASSUME NEW i \in 1..(m + 1)
               PROVE  /\ sales[x.inserts[i].key] = NoFact \/ x.inserts[i].key \in w.gone
                      /\ \E j \in 1..(n + 1) : w.file[j].key = x.inserts[i].key
                      /\ LastAt(x.inserts, m + 1, i) =>
                           IsLast(w.file, n + 1, x.inserts[i].key, x.inserts[i].qty)
    BY <1>1, <1>2 DEF InsertsFit
  <2>1. CASE i = m + 1
    <3>1. n + 1 \in 1..(n + 1)
      BY <1>1
    <3>2. IsLast(w.file, n + 1, row.key, row.qty)
      BY <1>1, LastIsNew
    <3> QED
      BY <1>1, <1>2, <2>1, <3>1, <3>2
  <2>2. CASE i \in 1..m
    <3> DEFINE y == w.inserts[i]
    <3>1. /\ x.inserts[i] = y
          /\ sales[y.key] = NoFact \/ y.key \in w.gone
          /\ \E j \in 1..n : w.file[j].key = y.key
          /\ LastAt(w.inserts, m, i) => IsLast(w.file, n, y.key, y.qty)
      BY <1>1, <1>2, <2>2 DEF PlanFits, InsertsFit
    <3>2. 1..n \subseteq 1..(n + 1) /\ m + 1 \in 1..(m + 1) /\ m + 1 > i /\ 1..m \subseteq 1..(m + 1)
      BY <1>1, <2>2
    <3>3. ASSUME LastAt(x.inserts, m + 1, i) PROVE IsLast(w.file, n + 1, y.key, y.qty)
      <4>1. row.key # y.key
        BY <1>2, <3>1, <3>2, <3>3 DEF LastAt
      <4>2. LastAt(w.inserts, m, i)
        BY <1>2, <2>2, <3>2, <3>3 DEF LastAt
      <4> QED
        BY <1>1, <3>1, <4>1, <4>2, LastGrows
    <3> HIDE DEF y
    <3> QED
      BY <3>1, <3>2, <3>3
  <2> QED
    BY <1>1, <2>1, <2>2
<1>6. WrittenFit(x)
  BY <1>3 DEF WrittenFit
<1>7. RepeatsFit(x)
  <2> SUFFICES ASSUME ~Repeats(w.file) PROVE ~Repeats(x.inserts)
    BY <1>3 DEF RepeatsFit
  <2> SUFFICES ASSUME NEW i \in 1..(m + 1), NEW j \in 1..(m + 1), i < j,
                      x.inserts[i].key = x.inserts[j].key
               PROVE  FALSE
    BY <1>2 DEF Repeats
  <2>1. ~Repeats(w.inserts)
    BY DEF PlanFits, RepeatsFit
  <2>2. i \in 1..m
    BY <1>1
  <2>3. CASE j \in 1..m
    <3>1. i \in DOMAIN w.inserts /\ j \in DOMAIN w.inserts /\ w.inserts[i].key = w.inserts[j].key
      BY <1>1, <1>2, <2>2, <2>3
    <3> QED
      BY <2>1, <3>1 DEF Repeats
  <2>4. CASE j = m + 1
    <3>1. PICK l \in 1..n : w.file[l].key = w.inserts[i].key
      BY <1>1, <2>2 DEF PlanFits, InsertsFit
    <3>2. w.file[l].key = w.file[n + 1].key
      BY <1>1, <1>2, <2>2, <2>4, <3>1
    <3>3. DOMAIN w.file = 1..Len(w.file) /\ Len(w.file) \in Nat /\ n + 1 \in DOMAIN w.file
      BY <1>1, PlaceTypes
    <3>4. l \in DOMAIN w.file /\ l < n + 1
      BY <1>1, <3>3
    <3> QED
      BY <3>2, <3>3, <3>4 DEF Repeats
  <2> QED
    BY <1>1, <2>3, <2>4
<1> QED
  BY <1>4, <1>5, <1>6, <1>7 DEF PlanFits

\* A row with a fact is planned as an update of it, in the place of an earlier one.
LEMMA FitsUpdate ==
  ASSUME NEW w \in Work, NEW x \in Work, w.next \in DOMAIN w.file, w.wrote = NoFacts,
         PlanFits(w), NEW row, row = w.file[w.next], sales[row.key] # NoFact, row.key \notin w.gone,
         NEW new, new.key = row.key, new.id = sales[row.key].id, new.loaded = sales[row.key].qty,
         new.qty = row.qty,
         x.file = w.file, x.gone = w.gone, x.wrote = w.wrote, x.next = w.next + 1,
         x.updates = {u \in w.updates : u.key # row.key} \cup {new}, x.inserts = w.inserts
  PROVE  PlanFits(x)
<1> DEFINE n == w.next - 1
<1>1. /\ n \in Nat /\ n + 1 = w.next /\ x.next - 1 = n + 1 /\ w.next - 1 = n
      /\ row = w.file[n + 1]
  BY PlaceTypes
<1> HIDE DEF n
<1>3. Written(x) = {} /\ Written(w) = {}
  BY DEF Written, NoFacts
<1>4. UpdatesFit(x)
  <2> SUFFICES ASSUME NEW u \in x.updates
               PROVE  /\ sales[u.key] # NoFact /\ sales[u.key].id = u.id /\ sales[u.key].qty = u.loaded
                      /\ u.key \notin w.gone
                      /\ IsLast(w.file, n + 1, u.key, u.qty)
                      /\ \A v \in x.updates : v.key = u.key => v = u
    BY <1>1, <1>3 DEF UpdatesFit
  <2>1. CASE u = new
    <3>1. IsLast(w.file, n + 1, row.key, row.qty)
      BY <1>1, LastIsNew
    <3> QED
      BY <2>1, <3>1
  <2>2. CASE u # new
    <3>0. u \in w.updates /\ u.key # row.key
      BY <2>2
    <3>1. /\ sales[u.key] # NoFact /\ sales[u.key].id = u.id /\ sales[u.key].qty = u.loaded
          /\ u.key \notin w.gone /\ IsLast(w.file, n, u.key, u.qty)
          /\ \A v \in w.updates : v.key = u.key => v = u
      BY <1>1, <3>0 DEF PlanFits, UpdatesFit
    <3>2. IsLast(w.file, n + 1, u.key, u.qty)
      BY <1>1, <3>0, <3>1, LastGrows
    <3> QED
      BY <3>0, <3>1, <3>2
  <2> QED
    BY <2>1, <2>2
<1>5. InsertsFit(x)
  <2> SUFFICES ASSUME NEW i \in DOMAIN w.inserts
               PROVE  /\ sales[w.inserts[i].key] = NoFact \/ w.inserts[i].key \in w.gone
                      /\ \E j \in 1..(n + 1) : w.file[j].key = w.inserts[i].key
                      /\ LastAt(w.inserts, Len(w.inserts), i) =>
                           IsLast(w.file, n + 1, w.inserts[i].key, w.inserts[i].qty)
    BY <1>1 DEF InsertsFit
  <2>1. /\ sales[w.inserts[i].key] = NoFact \/ w.inserts[i].key \in w.gone
        /\ \E j \in 1..n : w.file[j].key = w.inserts[i].key
        /\ LastAt(w.inserts, Len(w.inserts), i) => IsLast(w.file, n, w.inserts[i].key, w.inserts[i].qty)
    BY <1>1 DEF PlanFits, InsertsFit
  <2>2. w.file[n + 1].key # w.inserts[i].key /\ 1..n \subseteq 1..(n + 1)
    BY <1>1, <2>1
  <2> QED
    BY <1>1, <2>1, <2>2, LastGrows
<1>6. WrittenFit(x)
  BY <1>3 DEF WrittenFit
<1>7. RepeatsFit(x)
  BY <1>3 DEF PlanFits, RepeatsFit
<1> QED
  BY <1>4, <1>5, <1>6, <1>7 DEF PlanFits

\* An update that is written takes its key from the plan.
LEMMA FitsWriteUpdate ==
  ASSUME NEW w \in Work, NEW x \in Work, PlanFits(w), NEW u \in w.updates, NEW f \in Fact, f.qty = u.qty,
         x.file = w.file, x.gone = w.gone, x.next = w.next, x.inserts = w.inserts,
         x.updates = w.updates \ {u}, x.wrote = [w.wrote EXCEPT ![u.key] = f]
  PROVE  PlanFits(x)
<1>1. u.key \in Key /\ w.wrote \in SalesTable /\ f # NoFact
  BY NoFactIsNoFact DEF Work, Update
<1>2. x.wrote[u.key] = f /\ \A k \in Key \ {u.key} : x.wrote[k] = w.wrote[k]
  BY <1>1 DEF SalesTable
<1>3. Written(x) = Written(w) \cup {u.key}
  BY <1>1, <1>2 DEF Written
<1>4. UpdatesFit(x)
  BY <1>3 DEF PlanFits, UpdatesFit
<1>5. InsertsFit(x)
  BY DEF PlanFits, InsertsFit
<1>6. WrittenFit(x)
  <2> SUFFICES ASSUME NEW k \in Written(x), k \notin Keys(w.inserts)
               PROVE  IsLast(w.file, w.next - 1, k, x.wrote[k].qty)
    BY DEF WrittenFit
  <2>1. CASE k = u.key
    BY <1>2, <2>1 DEF PlanFits, UpdatesFit
  <2>2. CASE k # u.key
    <3>1. k \in Written(w) /\ x.wrote[k] = w.wrote[k]
      BY <1>2, <1>3, <2>2 DEF Written
    <3> QED
      BY <3>1 DEF PlanFits, WrittenFit
  <2> QED
    BY <2>1, <2>2
<1>7. u.key \notin Keys(w.inserts)
  BY DEF PlanFits, UpdatesFit, InsertsFit, Keys
<1>8. RepeatsFit(x)
  BY <1>3, <1>7 DEF PlanFits, RepeatsFit
<1> QED
  BY <1>4, <1>5, <1>6, <1>8 DEF PlanFits

LEMMA TailTypes ==
  ASSUME NEW q \in Seq(Row), q # <<>>
  PROVE  /\ Len(q) \in Nat /\ Len(q) - 1 \in Nat /\ DOMAIN q = 1..Len(q) /\ 1 \in 1..Len(q) /\ Head(q) = q[1]
         /\ Len(Tail(q)) = Len(q) - 1 /\ DOMAIN Tail(q) = 1..(Len(q) - 1)
         /\ \A i \in 1..(Len(q) - 1) : Tail(q)[i] = q[i + 1] /\ i + 1 \in 1..Len(q)
         /\ Keys(q) = {Head(q).key} \cup Keys(Tail(q))
<1>1. /\ Len(q) \in Nat /\ Len(q) - 1 \in Nat /\ DOMAIN q = 1..Len(q) /\ 1 \in 1..Len(q) /\ Head(q) = q[1]
      /\ Len(Tail(q)) = Len(q) - 1 /\ DOMAIN Tail(q) = 1..(Len(q) - 1)
      /\ \A i \in 1..(Len(q) - 1) : Tail(q)[i] = q[i + 1] /\ i + 1 \in 1..Len(q)
  OBVIOUS
<1>2. \A i \in 1..Len(q) : i = 1 \/ (i - 1 \in 1..(Len(q) - 1) /\ q[i] = Tail(q)[i - 1])
  BY <1>1
<1>3. Keys(Tail(q)) \subseteq Keys(q) /\ Head(q).key \in Keys(q)
  BY <1>1 DEF Keys
<1>4. Keys(q) \subseteq {Head(q).key} \cup Keys(Tail(q))
  <2> SUFFICES ASSUME NEW i \in 1..Len(q), i # 1 PROVE q[i].key \in Keys(Tail(q))
    BY <1>1 DEF Keys
  <2>1. i - 1 \in DOMAIN Tail(q) /\ q[i] = Tail(q)[i - 1]
    BY <1>1, <1>2
  <2> QED
    BY <2>1 DEF Keys
<1> QED
  BY <1>1, <1>3, <1>4

\* So does an insert: unless a further one of its key is to come, it was the last.
LEMMA FitsWriteInsert ==
  ASSUME NEW w \in Work, NEW x \in Work, PlanFits(w), w.updates = {}, w.inserts # <<>>,
         NEW row, row = Head(w.inserts), NEW f \in Fact, f.qty = row.qty,
         x.file = w.file, x.gone = w.gone, x.next = w.next, x.updates = w.updates,
         x.inserts = Tail(w.inserts), x.wrote = [w.wrote EXCEPT ![row.key] = f]
  PROVE  PlanFits(x)
<1> DEFINE q == w.inserts
           m == Len(q)
<1>1. q \in Seq(Row) /\ q # <<>> /\ w.wrote \in SalesTable /\ f # NoFact /\ row.key \in Key
  <2>1. row \in Row
    BY DEF Work
  <2> QED
    BY <2>1, NoFactIsNoFact DEF Work, Row
<1>2. /\ m \in Nat /\ m - 1 \in Nat /\ DOMAIN q = 1..m /\ 1 \in 1..m /\ row = q[1]
      /\ Len(x.inserts) = m - 1 /\ DOMAIN x.inserts = 1..(m - 1) /\ m = Len(w.inserts)
      /\ \A i \in 1..(m - 1) : x.inserts[i] = q[i + 1] /\ i + 1 \in 1..m
      /\ Keys(q) = {row.key} \cup Keys(x.inserts)
  BY <1>1, TailTypes
<1> HIDE DEF m
<1>3. x.wrote[row.key] = f /\ \A k \in Key \ {row.key} : x.wrote[k] = w.wrote[k]
  BY <1>1 DEF SalesTable
<1>4. Written(x) = Written(w) \cup {row.key}
  BY <1>1, <1>3 DEF Written
<1>5. UpdatesFit(x)
  BY DEF UpdatesFit
<1>6. InsertsFit(x)
  <2> SUFFICES ASSUME NEW i \in 1..(m - 1)
               PROVE  /\ sales[q[i + 1].key] = NoFact \/ q[i + 1].key \in w.gone
                      /\ \E j \in 1..(w.next - 1) : w.file[j].key = q[i + 1].key
                      /\ LastAt(x.inserts, m - 1, i) =>
                           IsLast(w.file, w.next - 1, q[i + 1].key, q[i + 1].qty)
    BY <1>2 DEF InsertsFit
  <2>1. i + 1 \in 1..m
    BY <1>2
  <2>2. ASSUME LastAt(x.inserts, m - 1, i) PROVE LastAt(q, m, i + 1)
    <3> SUFFICES ASSUME NEW j \in 1..m, j > i + 1 PROVE q[j].key # q[i + 1].key
      BY <2>1 DEF LastAt
    <3>1. j - 1 \in 1..(m - 1) /\ j - 1 > i /\ (j - 1) + 1 = j
      BY <1>2
    <3>2. x.inserts[j - 1].key # x.inserts[i].key
      BY <2>2, <3>1 DEF LastAt
    <3>3. x.inserts[j - 1] = q[j] /\ x.inserts[i] = q[i + 1]
      BY <1>2, <3>1
    <3> QED
      BY <3>2, <3>3
  <2>3. /\ sales[q[i + 1].key] = NoFact \/ q[i + 1].key \in w.gone
        /\ \E j \in 1..(w.next - 1) : w.file[j].key = q[i + 1].key
        /\ LastAt(q, m, i + 1) => IsLast(w.file, w.next - 1, q[i + 1].key, q[i + 1].qty)
    BY <1>2, <2>1 DEF PlanFits, InsertsFit
  <2> QED
    BY <2>2, <2>3
<1>7. WrittenFit(x)
  <2> SUFFICES ASSUME NEW k \in Written(x), k \notin Keys(x.inserts)
               PROVE  IsLast(w.file, w.next - 1, k, x.wrote[k].qty)
    BY DEF WrittenFit
  <2>1. CASE k = row.key
    <3>1. \A j \in 1..m : j > 1 => q[j].key # k
      <4> SUFFICES ASSUME NEW j \in 1..m, j > 1 PROVE q[j].key # k
        OBVIOUS
      <4>1. j - 1 \in 1..(m - 1) /\ (j - 1) + 1 = j
        BY <1>2
      <4>2. x.inserts[j - 1] = q[j]
        BY <1>2, <4>1
      <4>3. x.inserts[j - 1].key \in Keys(x.inserts)
        BY <1>2, <4>1 DEF Keys
      <4> QED
        BY <4>2, <4>3
    <3>2. LastAt(q, m, 1)
      BY <1>2, <2>1, <3>1 DEF LastAt
    <3>3. IsLast(w.file, w.next - 1, row.key, row.qty)
      BY <1>2, <3>2 DEF PlanFits, InsertsFit
    <3> QED
      BY <1>3, <2>1, <3>3
  <2>2. CASE k # row.key
    <3>1. k \in Written(w) /\ x.wrote[k] = w.wrote[k] /\ k \notin Keys(w.inserts)
      BY <1>2, <1>3, <1>4, <2>2 DEF Written
    <3> QED
      BY <3>1 DEF PlanFits, WrittenFit
  <2> QED
    BY <2>1, <2>2
<1>8. RepeatsFit(x)
  <2> SUFFICES ASSUME ~Repeats(w.file)
               PROVE  ~Repeats(x.inserts) /\ Keys(x.inserts) \cap Written(x) = {}
    BY DEF RepeatsFit
  <2>1. ~Repeats(q) /\ Keys(q) \cap Written(w) = {}
    BY DEF PlanFits, RepeatsFit
  <2>2. ~Repeats(x.inserts)
    <3> SUFFICES ASSUME NEW i \in 1..(m - 1), NEW j \in 1..(m - 1), i < j,
                        x.inserts[i].key = x.inserts[j].key
                 PROVE  FALSE
      BY <1>2 DEF Repeats
    <3>1. i + 1 \in 1..m /\ j + 1 \in 1..m /\ i + 1 < j + 1 /\ q[i + 1].key = q[j + 1].key
      BY <1>2
    <3> QED
      BY <1>2, <2>1, <3>1 DEF Repeats
  <2>3. row.key \notin Keys(x.inserts)
    <3> SUFFICES ASSUME NEW i \in 1..(m - 1), x.inserts[i].key = row.key PROVE FALSE
      BY <1>2 DEF Keys
    <3>1. i + 1 \in 1..m /\ 1 < i + 1 /\ q[1].key = q[i + 1].key
      BY <1>2
    <3> QED
      BY <1>2, <2>1, <3>1 DEF Repeats
  <2> QED
    BY <1>2, <1>4, <2>1, <2>2, <2>3
<1> QED
  BY <1>5, <1>6, <1>7, <1>8 DEF PlanFits

LEMMA FreshFits ==
  ASSUME NEW x, x.updates = {}, x.inserts = <<>>, x.wrote = NoFacts
  PROVE  PlanFits(x)
<1>1. Written(x) = {} /\ Keys(x.inserts) = {} /\ DOMAIN x.inserts = {}
  BY DEF Written, NoFacts, Keys
<1> QED
  BY <1>1 DEF PlanFits, UpdatesFit, InsertsFit, WrittenFit, RepeatsFit, Repeats

\* A fact that is deleted before the first row is looked up is in nobody's way.
LEMMA DeleteFits ==
  ASSUME NEW w \in Work, NEW x, PlanFits(w), x.file = w.file, x.wrote = w.wrote, x.next = w.next,
         x.updates = w.updates, x.inserts = w.inserts,
         x.gone = w.gone \/ (w.next = 1 /\ w.gone \subseteq x.gone)
  PROVE  PlanFits(x)
<1>1. Written(x) = Written(w)
  BY DEF Written
<1>2. w.next = 1 => w.updates = {}
  <2> SUFFICES ASSUME w.next = 1, NEW u \in w.updates PROVE FALSE
    OBVIOUS
  <2>1. IsLast(w.file, 0, u.key, u.qty)
    BY DEF PlanFits, UpdatesFit
  <2> QED
    BY <2>1 DEF IsLast
<1>3. UpdatesFit(x)
  BY <1>1, <1>2 DEF PlanFits, UpdatesFit
<1>4. InsertsFit(x)
  BY DEF PlanFits, InsertsFit
<1>5. WrittenFit(x) /\ RepeatsFit(x)
  BY <1>1 DEF PlanFits, WrittenFit, RepeatsFit
<1> QED
  BY <1>3, <1>4, <1>5 DEF PlanFits

LEMMA FitsPrimed ==
  ASSUME NEW r \in Request, NEW x, work'[r] = x, sales' = sales, PlanFits(x)
  PROVE  PlanFits(work[r])'
<1>1. Written(work[r])' = Written(x) /\ Keys(work[r].inserts)' = Keys(x.inserts)
      /\ Repeats(work[r].inserts)' = Repeats(x.inserts) /\ Repeats(work[r].file)' = Repeats(x.file)
  BY DEF Written, Keys, Repeats
<1>2. UpdatesFit(work[r])'
  BY <1>1 DEF PlanFits, UpdatesFit, IsLast, LastAt
<1>3. InsertsFit(work[r])'
  BY <1>1 DEF PlanFits, InsertsFit, IsLast, LastAt
<1>4. WrittenFit(work[r])'
  BY <1>1 DEF PlanFits, WrittenFit, IsLast, LastAt
<1>5. RepeatsFit(work[r])'
  BY <1>1 DEF PlanFits, RepeatsFit
<1> QED
  BY <1>2, <1>3, <1>4, <1>5 DEF PlanFits

\* The plan of a request, at each place of its way.
LonePlan(r) ==
    /\ pc[r] # "rows" => work[r].next = Len(work[r].file) + 1
    /\ pc[r] \notin {"rows", "flush"} => work[r].updates = {} /\ work[r].inserts = <<>>
    /\ PlanFits(work[r])

LEMMA LoneDeleteRow ==
  ASSUME IInv, NEW r \in Request, LonePlan(r), DeleteRow(r)
  PROVE  LonePlan(r)'
<1>1. PICK k \in OwnKeys(r) : Note(r, [work[r] EXCEPT !.gone = @ \cup {k}])
  BY DEF DeleteRow
<1>2. work \in [Request -> Work] /\ work[r] \in Work /\ pc' = pc /\ sales' = sales /\ pc[r] = "rows"
      /\ work[r].next = 1
  BY DEF DeleteRow, IInv, TypeOK
<1>3. /\ work'[r].gone = work[r].gone \cup {k} /\ work'[r].wrote = work[r].wrote
      /\ work'[r].file = work[r].file /\ work'[r].next = work[r].next
      /\ work'[r].updates = work[r].updates /\ work'[r].inserts = work[r].inserts
  BY <1>1, <1>2 DEF Note, Work
<1>4. PlanFits(work'[r])
  BY <1>2, <1>3, DeleteFits DEF LonePlan
<1> QED
  BY <1>2, <1>4, FitsPrimed DEF LonePlan

\* An update of the fact that is there, in the place of an earlier one.
UpdateOf(row, fact) == [key |-> row.key, id |-> fact.id, loaded |-> fact.qty, qty |-> row.qty]
Replaced(w, row, fact) ==
    [w EXCEPT !.updates = {u \in w.updates : u.key # row.key} \cup {UpdateOf(row, fact)}]

LEMMA PlannedUpdate ==
  ASSUME NEW w \in Work, UpdatesFit(w), NEW row \in Row, NEW fact \in Fact, fact = sales[row.key]
  PROVE  Planned(w, row, fact) = Replaced(w, row, fact)
<1> DEFINE same == {u \in w.updates : u.key = row.key /\ u.id = fact.id}
           loaded == IF same = {} THEN fact.qty ELSE (CHOOSE u \in same : TRUE).loaded
           new == [key |-> row.key, id |-> fact.id, loaded |-> loaded, qty |-> row.qty]
<1>1. fact # NoFact
  BY NoFactIsNoFact
<1>2. Planned(w, row, fact) = [w EXCEPT !.updates = (@ \ same) \cup {new}]
  BY <1>1 DEF Planned
<1>3. \A u \in same : u.loaded = fact.qty
  BY DEF UpdatesFit
<1>4. loaded = fact.qty
  BY <1>3
<1>5. w.updates \ same = {u \in w.updates : u.key # row.key}
  BY DEF UpdatesFit
<1>6. new = UpdateOf(row, fact)
  BY <1>4 DEF UpdateOf
<1> HIDE DEF new, same, loaded
<1> QED
  BY <1>2, <1>5, <1>6 DEF Replaced

LEMMA LoneLookRow ==
  ASSUME IInv, NEW r \in Request, LonePlan(r), LookRow(r)
  PROVE  LonePlan(r)'
<1> DEFINE w == work[r]
           row == w.file[w.next]
           fact == SeenSales(r)[row.key]
           p == Planned(w, row, fact)
           x == [p EXCEPT !.next = @ + 1]
<1>0. /\ TypeOK /\ work \in [Request -> Work] /\ w \in Work /\ pc \in [Request -> Location]
      /\ Sound(r) /\ sales \in SalesTable /\ sales' = sales /\ pc[r] = "rows"
  <2>1. sales' = sales /\ pc[r] = "rows"
    BY DEF LookRow
  <2> QED
    BY <2>1 DEF IInv, TypeOK
<1>1. Note(r, x) /\ Goto(r, IF w.next = Len(w.file) THEN "flush" ELSE "rows")
  BY DEF LookRow
<1>2. w.next \in DOMAIN w.file /\ w.wrote = NoFacts /\ row \in Row /\ row.key \in Key
  <2>1. w.next <= Len(w.file) /\ w.wrote = NoFacts
    BY <1>0 DEF Sound, Stage
  <2> QED
    BY <1>0, <2>1, PlaceTypes
<1>3. fact = IF row.key \in w.gone THEN NoFact ELSE sales[row.key]
  BY <1>2 DEF SeenSales, NoFacts
<1>4. fact \in Fact \cup {NoFact}
  BY <1>0, <1>2, SeenIsTable DEF SalesTable
<1>5. /\ p \in Work /\ p.file = w.file /\ p.next = w.next /\ p.gone = w.gone /\ p.wrote = w.wrote
      /\ w.next + 1 \in Nat \ {0}
  BY <1>0, <1>2, <1>4, PlannedIsWork, PlannedAdds, PlaceTypes
<1>6. PlanFits(w)
  BY DEF LonePlan
<1>7. /\ x \in Work /\ x.file = w.file /\ x.next = w.next + 1 /\ x.gone = w.gone /\ x.wrote = w.wrote
      /\ x.updates = p.updates /\ x.inserts = p.inserts
  <2> HIDE DEF p
  <2> QED
    BY <1>5 DEF Work
<1>8. ASSUME fact = NoFact PROVE PlanFits(x)
  <2>1. p = [w EXCEPT !.inserts = Append(@, row)]
    BY <1>8 DEF Planned
  <2>2. p.updates = w.updates /\ p.inserts = Append(w.inserts, row)
    BY <1>0, <2>1 DEF Work
  <2>3. sales[row.key] = NoFact \/ row.key \in w.gone
    BY <1>3, <1>8
  <2> HIDE DEF x, p, fact, row
  <2>4. row = w.file[w.next]
    BY DEF row
  <2> HIDE DEF w
  <2>5. x.updates = w.updates /\ x.inserts = Append(w.inserts, row)
    BY <1>7, <2>2
  <2> QED
    BY <1>0, <1>2, <1>6, <1>7, <2>3, <2>4, <2>5, FitsInsert
<1>9. ASSUME fact # NoFact PROVE PlanFits(x)
  <2>1. fact \in Fact /\ fact = sales[row.key] /\ row.key \notin w.gone /\ sales[row.key] # NoFact
    BY <1>3, <1>4, <1>9
  <2>2. row = w.file[w.next]
    OBVIOUS
  <2>3. UpdatesFit(w)
    BY <1>6 DEF PlanFits
  <2> HIDE DEF x, fact, row, w
  <2> DEFINE new == UpdateOf(row, fact)
  <2>a. p = Replaced(w, row, fact)
    BY <1>0, <1>2, <2>1, <2>3, PlannedUpdate, Zenon DEF p
  <2>4. p = [w EXCEPT !.updates = {u \in w.updates : u.key # row.key} \cup {new}]
    BY <2>a DEF Replaced
  <2>5. /\ new.key = row.key /\ new.id = sales[row.key].id /\ new.loaded = sales[row.key].qty
        /\ new.qty = row.qty
    BY <2>1 DEF UpdateOf
  <2> HIDE DEF new
  <2>6. p.updates = {u \in w.updates : u.key # row.key} \cup {new} /\ p.inserts = w.inserts
    BY <1>0, <2>4 DEF Work
  <2> HIDE DEF p
  <2>7. x.updates = {u \in w.updates : u.key # row.key} \cup {new} /\ x.inserts = w.inserts
    BY <1>7, <2>6
  <2> QED
    BY <1>0, <1>2, <1>6, <1>7, <2>1, <2>2, <2>5, <2>7, FitsUpdate
<1>10. work'[r] = x
  BY <1>0, <1>1 DEF Note
<1> HIDE DEF x, p
<1>11. PlanFits(work[r])'
  BY <1>0, <1>8, <1>9, <1>10, FitsPrimed, Zenon
<1>12. pc'[r] = (IF w.next = Len(w.file) THEN "flush" ELSE "rows")
  BY <1>0, <1>1 DEF Goto
<1> QED
  BY <1>7, <1>10, <1>11, <1>12 DEF LonePlan

LEMMA FlushTypes ==
  ASSUME IInv, NEW r \in Request, LonePlan(r), pc[r] = "flush", TypeOK'
  PROVE  /\ work \in [Request -> Work] /\ work[r] \in Work /\ work'[r] \in Work
         /\ work[r].batch \in Batch /\ PlanFits(work[r]) /\ sales \in SalesTable
<1>1. Sound(r) /\ TypeOK
  BY DEF IInv
<1>2. work[r].batch \in Batch
  BY <1>1 DEF Sound, Stage
<1> QED
  BY <1>1, <1>2 DEF TypeOK, LonePlan

LEMMA LoneWriteUpdate ==
  ASSUME IInv, NEW r \in Request, LonePlan(r), WriteUpdate(r), TypeOK'
  PROVE  LonePlan(r)'
<1>1. PICK u \in work[r].updates :
        Note(r, [work[r] EXCEPT !.updates = @ \ {u}, !.wrote[u.key] = Updated(work[r], u)])
  BY DEF WriteUpdate, NextUpdates
<1>2. pc[r] = "flush" /\ pc' = pc /\ sales' = sales
  BY DEF WriteUpdate
<1>3. /\ work \in [Request -> Work] /\ work[r] \in Work /\ work'[r] \in Work
      /\ work[r].batch \in Batch /\ PlanFits(work[r]) /\ sales \in SalesTable
  BY <1>2, FlushTypes
<1> DEFINE f == Updated(work[r], u)
<1>4. f \in Fact /\ f.qty = u.qty
  <2>1. u \in Update /\ sales[u.key].qty = u.loaded
    BY <1>3 DEF Work, PlanFits, UpdatesFit
  <2> QED
    BY <1>3, <2>1 DEF Updated, Update, Fact
<1> HIDE DEF f
<1>5. /\ work'[r].file = work[r].file /\ work'[r].gone = work[r].gone /\ work'[r].next = work[r].next
      /\ work'[r].inserts = work[r].inserts /\ work'[r].updates = work[r].updates \ {u}
      /\ work'[r].wrote = [work[r].wrote EXCEPT ![u.key] = f]
  BY <1>1, <1>3 DEF Note, Work, f
<1>6. PlanFits(work'[r])
  BY <1>3, <1>4, <1>5, FitsWriteUpdate
<1>7. PlanFits(work[r])'
  BY <1>2, <1>6, FitsPrimed
<1> QED
  BY <1>2, <1>5, <1>7 DEF LonePlan

LEMMA LoneWriteInsert ==
  ASSUME IInv, NEW r \in Request, LonePlan(r), WriteInsert(r), TypeOK'
  PROVE  LonePlan(r)'
<1>1. PICK row \in NextInserts(work[r]) :
        Note(r, [work[r] EXCEPT !.inserts = Tail(@), !.wrote[row.key] = Inserted(work[r], row)])
  BY DEF WriteInsert
<1>2. pc[r] = "flush" /\ pc' = pc /\ sales' = sales
  BY DEF WriteInsert
<1>3. /\ work \in [Request -> Work] /\ work[r] \in Work /\ work'[r] \in Work
      /\ work[r].batch \in Batch /\ PlanFits(work[r]) /\ sales \in SalesTable
  BY <1>2, FlushTypes
<1>4. work[r].updates = {} /\ work[r].inserts # <<>> /\ row = Head(work[r].inserts)
  BY DEF NextInserts
<1> DEFINE f == Inserted(work[r], row)
<1>5. f \in Fact /\ f.qty = row.qty
  <2>1. work[r].inserts \in Seq(Row)
    BY <1>3 DEF Work
  <2>2. row \in Row
    BY <1>4, <2>1
  <2> QED
    BY <1>3, <2>2 DEF Inserted, Fact, Work, Row
<1> HIDE DEF f
<1>6. /\ work'[r].file = work[r].file /\ work'[r].gone = work[r].gone /\ work'[r].next = work[r].next
      /\ work'[r].inserts = Tail(work[r].inserts) /\ work'[r].updates = work[r].updates
      /\ work'[r].wrote = [work[r].wrote EXCEPT ![row.key] = f]
  BY <1>1, <1>3 DEF Note, Work, f
<1>7. PlanFits(work'[r])
  <2> DEFINE w == work[r]
             x == work'[r]
  <2>1. /\ w \in Work /\ x \in Work /\ PlanFits(w) /\ w.updates = {} /\ w.inserts # <<>>
        /\ row = Head(w.inserts)
        /\ x.file = w.file /\ x.gone = w.gone /\ x.next = w.next /\ x.updates = w.updates
        /\ x.inserts = Tail(w.inserts) /\ x.wrote = [w.wrote EXCEPT ![row.key] = f]
    BY <1>3, <1>4, <1>6, Zenon
  <2> HIDE DEF w, x
  <2>2. PlanFits(x)
    BY <1>5, <2>1, FitsWriteInsert, Zenon
  <2> QED
    BY <2>2 DEF x
<1>8. PlanFits(work[r])'
  BY <1>2, <1>7, FitsPrimed
<1> QED
  BY <1>2, <1>6, <1>8 DEF LonePlan

\* The steps after the flush leave what was planned and written alone.
LEMMA LoneRest ==
  ASSUME IInv, NEW r \in Request, LonePlan(r), pc'[r] \notin {"idle", "rows"},
         ReadStock(r) \/ StoreRun(r) \/ ReadTables(r) \/ WriteFiles(r)
  PROVE  LonePlan(r)'
<1>0. /\ work \in [Request -> Work] /\ work[r] \in Work /\ pc \in [Request -> Location] /\ PlanFits(work[r])
  BY DEF IInv, TypeOK, LonePlan
<1>1. sales' = sales
  BY DEF ReadStock, StoreRun, ReadTables, WriteFiles
<1> DEFINE Kept == /\ work'[r].gone = work[r].gone /\ work'[r].wrote = work[r].wrote
                   /\ work'[r].file = work[r].file /\ work'[r].next = work[r].next
                   /\ work'[r].updates = work[r].updates /\ work'[r].inserts = work[r].inserts
<1>2. ASSUME Note(r, [work[r] EXCEPT !.run.read = commits]) PROVE Kept
  BY <1>0, <1>2 DEF Note, Work
<1>3. ASSUME Note(r, [work[r] EXCEPT !.run = NoRun]) PROVE Kept
  BY <1>0, <1>3 DEF Note, Work
<1>4. ASSUME Note(r, [work[r] EXCEPT !.view = [sales |-> SeenSales(r), stock |-> SeenStock(r),
                                               at |-> commits, by |-> ProcessOf[r]]])
      PROVE  Kept
  BY <1>0, <1>4 DEF Note, Work
<1>5. ASSUME Note(r, [work[r] EXCEPT !.view = NoView]) PROVE Kept
  BY <1>0, <1>5 DEF Note, Work
<1>6. WriteFiles(r) => Note(r, [work[r] EXCEPT !.view = NoView])
  BY <1>0 DEF WriteFiles, End
<1>7. Kept
  BY <1>2, <1>3, <1>4, <1>5, <1>6, Zenon DEF ReadStock, StoreRun, ReadTables
<1>8. PlanFits(work[r])'
  <2>1. PlanFits(work'[r])
    BY <1>0, <1>7, DeleteFits
  <2> QED
    BY <1>1, <2>1, FitsPrimed
<1>9. pc[r] # "rows" /\ (pc[r] = "flush" => work[r].updates = {} /\ work[r].inserts = <<>>)
  <2>1. CASE ReadStock(r)
    <3>1. "read stock" # "rows" /\ "read stock" # "flush"
      OBVIOUS
    <3> QED
      BY <2>1, <3>1, Zenon DEF ReadStock
  <2>2. CASE StoreRun(r) \/ ReadTables(r) \/ WriteFiles(r)
    BY <2>2 DEF StoreRun, ReadTables, WriteFiles, Flushed
  <2> QED
    BY <2>1, <2>2
<1>10. work[r].updates = {} /\ work[r].inserts = <<>> /\ work[r].next = Len(work[r].file) + 1
  BY <1>9 DEF LonePlan
<1> QED
  BY <1>7, <1>8, <1>10 DEF LonePlan

\* What a lone request has read of the tables is what they hold, with what it has
\* written itself, and so is what it has left in the files.
LoneView(r) ==
    /\ pc[r] = "files" => work[r].view.sales = SeenSales(r) /\ work[r].view.stock = SeenStock(r)
    /\ pc[r] = "publish" => files.sales = SeenSales(r) /\ files.stock = SeenStock(r)
    /\ work[r].kind \in Calculation =>
         IF pc[r] \in {"refresh", "files"}
         THEN runs[Len(runs)].began = commits /\ runs[Len(runs)].read = commits
         ELSE work[r].run.began = commits /\ (pc[r] = "store" => work[r].run.read = commits)

\* Two requests that are on at the same time know it.
CrossedTells ==
    \A r, s \in Request : r # s /\ pc[r] # "idle" /\ pc[s] # "idle" => work[r].crossed

LoneInv == CrossedTells /\ \A r \in Request : ~work[r].crossed => LonePlan(r) /\ LoneView(r)

LEMMA IdleLone ==
  ASSUME NEW s \in Request, work'[s] = NoWork, pc'[s] = "idle"
  PROVE  LonePlan(s)' /\ LoneView(s)'
<1>1. /\ work'[s].updates = {} /\ work'[s].inserts = <<>> /\ work'[s].wrote = NoFacts
      /\ work'[s].next = 1 /\ work'[s].file = <<>> /\ work'[s].kind = "none"
  BY DEF NoWork
<1>2. PlanFits(work[s])'
  <2>1. Written(work[s])' = {} /\ Keys(work[s].inserts)' = {} /\ DOMAIN work'[s].inserts = {}
    BY <1>1 DEF Written, NoFacts, Keys
  <2> QED
    BY <1>1, <2>1 DEF PlanFits, UpdatesFit, InsertsFit, WrittenFit, RepeatsFit, Repeats
<1>3. LonePlan(s)'
  BY <1>1, <1>2 DEF LonePlan
<1>4. LoneView(s)'
  BY <1>1 DEF LoneView, Calculation
<1> QED
  BY <1>3, <1>4

LEMMA QuietLone ==
  ASSUME NEW s \in Request, LonePlan(s), LoneView(s), work' = work, pc' = pc,
         UNCHANGED <<sales, stock, runs, files, commits>>
  PROVE  LonePlan(s)' /\ LoneView(s)'
<1>1. PlanFits(work[s])'
  BY FitsPrimed DEF LonePlan
<1>2. LonePlan(s)'
  BY <1>1 DEF LonePlan
<1>3. LoneView(s)'
  BY DEF LoneView, SeenSales, SeenStock
<1> QED
  BY <1>2, <1>3

\* A request that has begun keeps its kind and knows no less of the others.
LEMMA StepKeeps ==
  ASSUME IInv, NEW r \in Request, Step(r), pc'[r] # "idle"
  PROVE  work'[r].kind = work[r].kind /\ work'[r].crossed = work[r].crossed
<1>0. work \in [Request -> Work] /\ work[r] \in Work /\ pc \in [Request -> Location]
  BY DEF IInv, TypeOK
<1> DEFINE Kept == work'[r].kind = work[r].kind /\ work'[r].crossed = work[r].crossed
<1>1. ASSUME DeleteRow(r) PROVE Kept
  <2>1. PICK k : Note(r, [work[r] EXCEPT !.gone = @ \cup {k}])
    BY <1>1 DEF DeleteRow
  <2> QED
    BY <1>0, <2>1 DEF Note, Work
<1>2. ASSUME LookRow(r) PROVE Kept
  <2> DEFINE w == work[r]
             row == w.file[w.next]
             p == Planned(w, row, SeenSales(r)[row.key])
  <2>1. Note(r, [p EXCEPT !.next = @ + 1])
    BY <1>2 DEF LookRow
  <2>2. p = [w EXCEPT !.inserts = Append(@, row)] \/ \E u : p = [w EXCEPT !.updates = u]
    BY Zenon DEF Planned
  <2>3. /\ [p EXCEPT !.next = @ + 1].kind = p.kind /\ [p EXCEPT !.next = @ + 1].crossed = p.crossed
        /\ p.kind = w.kind /\ p.crossed = w.crossed
    <3> HIDE DEF w, p
    <3>1. w \in Work
      BY <1>0 DEF w
    <3>2. p.kind = w.kind /\ p.crossed = w.crossed
      BY <2>2, <3>1 DEF Work
    <3>3. [p EXCEPT !.next = @ + 1].kind = p.kind /\ [p EXCEPT !.next = @ + 1].crossed = p.crossed
      BY <2>2, <3>1 DEF Work
    <3> QED
      BY <3>2, <3>3
  <2> DEFINE x == [p EXCEPT !.next = @ + 1]
  <2>4. Note(r, x) /\ x.kind = w.kind /\ x.crossed = w.crossed
    BY <2>1, <2>3
  <2> HIDE DEF x
  <2> QED
    BY <1>0, <2>4 DEF Note
<1>3. ASSUME WriteUpdate(r) PROVE Kept
  <2>1. PICK u : Note(r, [work[r] EXCEPT !.updates = @ \ {u}, !.wrote[u.key] = Updated(work[r], u)])
    BY <1>3, Zenon DEF WriteUpdate
  <2> DEFINE f == Updated(work[r], u)
  <2> HIDE DEF f
  <2> QED
    BY <1>0, <2>1 DEF Note, Work, f
<1>4. ASSUME WriteInsert(r) PROVE Kept
  <2>1. PICK row : Note(r, [work[r] EXCEPT !.inserts = Tail(@), !.wrote[row.key] = Inserted(work[r], row)])
    BY <1>4, Zenon DEF WriteInsert
  <2> DEFINE f == Inserted(work[r], row)
  <2> HIDE DEF f
  <2> QED
    BY <1>0, <2>1 DEF Note, Work, f
<1>5. ASSUME ReadStock(r) PROVE Kept
  <2>1. Note(r, [work[r] EXCEPT !.run.read = commits])
    BY <1>5, Zenon DEF ReadStock
  <2> QED
    BY <1>0, <2>1 DEF Note, Work
<1>6. ASSUME StoreRun(r) PROVE Kept
  <2>1. Note(r, [work[r] EXCEPT !.run = NoRun])
    BY <1>6 DEF StoreRun
  <2> QED
    BY <1>0, <2>1 DEF Note, Work
<1>7. ASSUME ReadTables(r) PROVE Kept
  BY <1>0, <1>7 DEF ReadTables, Note, Work
<1>8. ASSUME WriteFiles(r) PROVE Kept
  <2>1. Note(r, [work[r] EXCEPT !.view = NoView])
    BY <1>0, <1>8 DEF WriteFiles, End
  <2> QED
    BY <1>0, <2>1 DEF Note, Work
<1>9. ~End(r)
  BY <1>0 DEF End
<1>10. ~(Conflict(r) \/ BreakDeadlock(r) \/ RefreshFails(r) \/ Publish(r))
  BY <1>9 DEF Conflict, BreakDeadlock, RefreshFails, Publish
<1> QED
  BY <1>1, <1>2, <1>3, <1>4, <1>5, <1>6, <1>7, <1>8, <1>10 DEF Step

\* A step is one of a request that is on, and of it alone.
LEMMA StepIsBusy ==
  ASSUME IInv, NEW r \in Request, Step(r)
  PROVE  /\ pc[r] # "idle"
         /\ \A s \in Request \ {r} : pc'[s] = pc[s] /\ work'[s] = work[s]
<1>0. work \in [Request -> Work] /\ pc \in [Request -> Location]
  BY DEF IInv, TypeOK
<1>1. (\E x : Note(r, x)) \/ End(r)
  BY DEF Step, DeleteRow, LookRow, WriteUpdate, WriteInsert, Conflict, BreakDeadlock, ReadStock, StoreRun,
         ReadTables, WriteFiles, RefreshFails, Publish
<1>2. \A s \in Request \ {r} : work'[s] = work[s]
  BY <1>0, <1>1 DEF Note, End
<1>3. pc' = pc \/ (\E l : Goto(r, l)) \/ End(r)
  BY DEF Step, DeleteRow, LookRow, WriteUpdate, WriteInsert, Conflict, BreakDeadlock, ReadStock, StoreRun,
         ReadTables, WriteFiles, RefreshFails, Publish
<1>4. \A s \in Request \ {r} : pc'[s] = pc[s]
  BY <1>0, <1>3 DEF Goto, End
<1>5. Wanted(r) # {} => pc[r] # "idle"
  BY DEF Wanted
<1>6. BreakDeadlock(r) => Wanted(r) # {}
  BY DEF BreakDeadlock, Stuck
<1>7. "read stock" # "idle"
  OBVIOUS
<1>8. ReadStock(r) => pc[r] # "idle"
  BY <1>7, Zenon DEF ReadStock
<1>9. ~BreakDeadlock(r) /\ ~ReadStock(r) => pc[r] # "idle"
  BY DEF Step, DeleteRow, LookRow, WriteUpdate, WriteInsert, Conflict, StoreRun,
         ReadTables, Flushed, WriteFiles, RefreshFails, Publish
<1> QED
  BY <1>2, <1>4, <1>5, <1>6, <1>8, <1>9

LEMMA LoneLooks ==
  ASSUME IInv, NEW r \in Request, LonePlan(r), LoneView(r), TypeOK', Step(r), pc'[r] # "idle"
  PROVE  LoneView(r)'
<1>0. /\ TypeOK /\ work \in [Request -> Work] /\ work[r] \in Work /\ pc \in [Request -> Location] /\ Sound(r)
      /\ work'[r].kind = work[r].kind
  BY StepKeeps DEF IInv, TypeOK
<1>1. ASSUME DeleteRow(r) \/ LookRow(r) \/ WriteUpdate(r) \/ WriteInsert(r) PROVE LoneView(r)'
  <2>1. pc[r] \in {"rows", "flush"}
    BY <1>1 DEF DeleteRow, LookRow, WriteUpdate, WriteInsert
  <2>2. pc'[r] \in {"rows", "flush"}
    BY <1>0, <1>1, <2>1 DEF DeleteRow, LookRow, WriteUpdate, WriteInsert, Goto
  <2>3. work'[r].kind \notin Calculation
    BY <1>0, <2>1 DEF Sound, Stage, Calculation
  <2> QED
    BY <2>2, <2>3 DEF LoneView
<1>2. ASSUME ReadStock(r) PROVE LoneView(r)'
  <2>1. pc'[r] = "store" /\ commits' = commits /\ Note(r, [work[r] EXCEPT !.run.read = commits])
    BY <1>0, <1>2, Zenon DEF ReadStock, Goto
  <2>2. pc[r] \notin {"refresh", "files"}
    <3>1. "read stock" # "refresh" /\ "read stock" # "files"
      OBVIOUS
    <3> QED
      BY <1>2, <3>1, Zenon DEF ReadStock
  <2>3. work'[r].run = [work[r].run EXCEPT !.read = commits] /\ work[r].run \in Run
    BY <1>0, <2>1 DEF Note, Work
  <2>4. work'[r].run.read = commits /\ work'[r].run.began = work[r].run.began
    BY <2>3 DEF Run
  <2>5. work'[r].kind \in Calculation => work[r].run.began = commits
    BY <1>0, <2>2 DEF LoneView
  <2> QED
    BY <2>1, <2>4, <2>5 DEF LoneView
<1>3. ASSUME StoreRun(r) PROVE LoneView(r)'
  <2>1. /\ pc[r] = "store" /\ pc'[r] = "refresh" /\ commits' = commits
        /\ runs' = Append(runs, [work[r].run EXCEPT !.day = day])
    BY <1>0, <1>3 DEF StoreRun, Goto
  <2>2. runs \in Seq(Run) /\ work[r].run \in Run /\ day \in 0..MaxDay
    BY <1>0, RunTypes DEF IInv, TypeOK
  <2>5. LET q == [work[r].run EXCEPT !.day = day]
        IN  q \in Run /\ q.began = work[r].run.began /\ q.read = work[r].run.read
    <3>1. day \in Nat
      BY <2>2, Bounds
    <3> QED
      BY <2>2, <3>1 DEF Run
  <2>3. LET q == runs'[Len(runs')]
        IN  q.began = work[r].run.began /\ q.read = work[r].run.read
    BY <2>1, <2>2, <2>5
  <2>4. work'[r].kind \in Calculation => work[r].run.began = commits /\ work[r].run.read = commits
    BY <1>0, <2>1 DEF LoneView
  <2> QED
    BY <2>1, <2>3, <2>4 DEF LoneView
<1>4. ASSUME ReadTables(r) PROVE LoneView(r)'
  <2>1. /\ pc'[r] = "files" /\ sales' = sales /\ stock' = stock /\ commits' = commits /\ runs' = runs
        /\ Flushed(r)
    BY <1>0, <1>4 DEF ReadTables, Goto
  <2>2. /\ work'[r].view.sales = SeenSales(r) /\ work'[r].view.stock = SeenStock(r)
        /\ work'[r].wrote = work[r].wrote /\ work'[r].gone = work[r].gone
        /\ work'[r].batch = work[r].batch /\ work'[r].apply = work[r].apply
    BY <1>0, <1>4 DEF ReadTables, Note, Work
  <2>3. SeenSales(r)' = SeenSales(r) /\ SeenStock(r)' = SeenStock(r)
    BY <2>1, <2>2 DEF SeenSales, SeenStock
  <2>4. work[r].kind \in Calculation => pc[r] = "refresh"
    BY <1>0, <2>1 DEF Flushed, Sound, Stage, Calculation
  <2> QED
    BY <1>0, <2>1, <2>2, <2>3, <2>4 DEF LoneView
<1>5. ASSUME WriteFiles(r) PROVE LoneView(r)'
  <2>1. work[r].kind = "apply"
    BY <1>0, <1>5 DEF WriteFiles, End
  <2>2. /\ pc[r] = "files" /\ pc'[r] = "publish" /\ sales' = sales /\ stock' = stock
        /\ files' = work[r].view /\ Note(r, [work[r] EXCEPT !.view = NoView])
    BY <1>0, <1>5, <2>1 DEF WriteFiles, Goto
  <2>3. /\ work'[r].wrote = work[r].wrote /\ work'[r].gone = work[r].gone
        /\ work'[r].batch = work[r].batch /\ work'[r].apply = work[r].apply
    BY <1>0, <2>2 DEF Note, Work
  <2>4. SeenSales(r)' = SeenSales(r) /\ SeenStock(r)' = SeenStock(r)
    BY <2>2, <2>3 DEF SeenSales, SeenStock
  <2> QED
    BY <1>0, <2>1, <2>2, <2>4 DEF LoneView, Calculation
<1>6. ~(Conflict(r) \/ BreakDeadlock(r) \/ RefreshFails(r) \/ Publish(r))
  BY <1>0 DEF Conflict, BreakDeadlock, RefreshFails, Publish, End
<1> QED
  BY <1>1, <1>2, <1>3, <1>4, <1>5, <1>6 DEF Step

LEMMA LoneStep ==
  ASSUME IInv, NEW r \in Request, LonePlan(r), LoneView(r), TypeOK', Step(r), pc'[r] # "idle"
  PROVE  LonePlan(r)' /\ LoneView(r)'
<1>0. work \in [Request -> Work] /\ pc \in [Request -> Location]
  BY DEF IInv, TypeOK
<1>1. CASE DeleteRow(r) \/ LookRow(r) \/ WriteUpdate(r) \/ WriteInsert(r)
  BY <1>1, LoneDeleteRow, LoneLookRow, LoneWriteUpdate, LoneWriteInsert, LoneLooks
<1>2. CASE ReadStock(r) \/ StoreRun(r) \/ ReadTables(r) \/ WriteFiles(r)
  <2>1. pc'[r] # "rows"
    BY <1>0, <1>2 DEF ReadStock, StoreRun, ReadTables, WriteFiles, Goto, End
  <2> QED
    BY <1>2, <2>1, LoneRest, LoneLooks
<1>3. ~(Conflict(r) \/ BreakDeadlock(r) \/ RefreshFails(r) \/ Publish(r))
  BY <1>0 DEF Conflict, BreakDeadlock, RefreshFails, Publish, End
<1> QED
  BY <1>1, <1>2, <1>3 DEF Step

LEMMA LoneBegins ==
  ASSUME IInv, NEW r \in Request, BeginApply(r) \/ BeginCalculation(r)
  PROVE  /\ LonePlan(r)' /\ LoneView(r)'
         /\ Busy \ {r} # {} => work'[r].crossed
         /\ \A s \in Request \ {r} : pc'[s] = pc[s] /\ (pc[s] # "idle" => work'[s].crossed)
<1>0. work \in [Request -> Work] /\ pc \in [Request -> Location] /\ commits \in Nat
  BY DEF IInv, TypeOK
<1>a. ASSUME NEW x \in Work, NEW l, Begin(r, x, l), x.updates = {}, x.inserts = <<>>, x.wrote = NoFacts
      PROVE  /\ PlanFits(work[r])'
             /\ pc'[r] = l /\ work'[r].updates = {} /\ work'[r].inserts = <<>>
             /\ work'[r].next = x.next /\ work'[r].file = x.file /\ work'[r].kind = x.kind
             /\ work'[r].run = x.run
             /\ Busy \ {r} # {} => work'[r].crossed
             /\ \A s \in Request \ {r} : pc'[s] = pc[s] /\ (pc[s] # "idle" => work'[s].crossed)
  <2>1. work'[r] = [x EXCEPT !.crossed = (Busy # {})] /\ pc' = [pc EXCEPT ![r] = l]
    BY <1>a DEF Begin
  <2>2. /\ work'[r].updates = {} /\ work'[r].inserts = <<>> /\ work'[r].wrote = NoFacts
        /\ work'[r].next = x.next /\ work'[r].file = x.file /\ work'[r].kind = x.kind
        /\ work'[r].run = x.run
    BY <1>a, <2>1 DEF Work
  <2>3. work'[r].crossed = (Busy # {})
    BY <2>1 DEF Work
  <2>4. PlanFits(work[r])'
    <3>1. Written(work[r])' = {} /\ Keys(work[r].inserts)' = {} /\ DOMAIN work'[r].inserts = {}
      BY <2>2 DEF Written, NoFacts, Keys
    <3> QED
      BY <2>2, <3>1 DEF PlanFits, UpdatesFit, InsertsFit, WrittenFit, RepeatsFit, Repeats
  <2>5. ASSUME NEW s \in Request \ {r} PROVE pc'[s] = pc[s] /\ (pc[s] # "idle" => work'[s].crossed)
    <3>1. pc'[s] = pc[s]
      BY <1>0, <2>1
    <3>2. ASSUME pc[s] # "idle" PROVE work'[s].crossed
      <4>1. work'[s] = [work[s] EXCEPT !.crossed = TRUE]
        BY <1>a, <3>2 DEF Begin, Busy
      <4> QED
        BY <1>0, <4>1 DEF Work
    <3> QED
      BY <3>1, <3>2
  <2> QED
    BY <1>0, <2>1, <2>2, <2>3, <2>4, <2>5
<1>1. CASE BeginApply(r)
  <2>a. PICK b \in Batch \cup StockBatch :
          \E f \in IF b \in Batch THEN Files[b] ELSE {<<>>} :
            Begin(r, [NoWork EXCEPT !.kind = "apply", !.batch = b, !.apply = begun + 1, !.file = f],
                  IF b \in Batch THEN "rows" ELSE "refresh")
    BY <1>1 DEF BeginApply
  <2>b. PICK f \in IF b \in Batch THEN Files[b] ELSE {<<>>} :
            Begin(r, [NoWork EXCEPT !.kind = "apply", !.batch = b, !.apply = begun + 1, !.file = f],
                  IF b \in Batch THEN "rows" ELSE "refresh")
    BY <2>a
  <2> DEFINE x == [NoWork EXCEPT !.kind = "apply", !.batch = b, !.apply = begun + 1, !.file = f]
             l == IF b \in Batch THEN "rows" ELSE "refresh"
  <2>1. f \in Seq(Row) /\ begun + 1 \in Nat /\ (b \notin Batch => f = <<>>)
    <3>1. CASE b \in Batch
      BY <3>1, FilesAssumption, Bounds DEF IInv, TypeOK
    <3>2. CASE b \notin Batch
      BY <3>2, Bounds DEF IInv, TypeOK
    <3> QED
      BY <3>1, <3>2
  <2>2. /\ x \in Work /\ x.updates = {} /\ x.inserts = <<>> /\ x.wrote = NoFacts
        /\ x.next = 1 /\ x.file = f /\ x.kind = "apply"
    BY <2>1, NoWorkIsWork DEF Work, NoWork
  <2>3. Begin(r, x, l)
    BY <2>b
  <2>4. l \in {"rows", "refresh"} /\ (l = "refresh" => f = <<>>)
    BY <2>1
  <2> HIDE DEF x, l
  <2>5. /\ PlanFits(work[r])'
        /\ pc'[r] = l /\ work'[r].updates = {} /\ work'[r].inserts = <<>>
        /\ work'[r].next = 1 /\ work'[r].file = f /\ work'[r].kind = "apply"
        /\ Busy \ {r} # {} => work'[r].crossed
        /\ \A s \in Request \ {r} : pc'[s] = pc[s] /\ (pc[s] # "idle" => work'[s].crossed)
    BY <1>a, <2>2, <2>3
  <2>6. LonePlan(r)'
    BY <2>4, <2>5 DEF LonePlan
  <2>7. LoneView(r)'
    BY <2>4, <2>5 DEF LoneView, Calculation
  <2> QED
    BY <2>5, <2>6, <2>7
<1>2. CASE BeginCalculation(r)
  <2>a. PICK kind \in Calculation :
         Begin(r, [NoWork EXCEPT !.kind = kind, !.run = [kind |-> kind, day |-> 0, after |-> Len(runs),
                                                         began |-> commits, read |-> commits]],
               "read stock")
    BY <1>2 DEF BeginCalculation
  <2> DEFINE q == [kind |-> kind, day |-> 0, after |-> Len(runs), began |-> commits, read |-> commits]
             x == [NoWork EXCEPT !.kind = kind, !.run = q]
             l == "read stock"
  <2>1. q \in Run /\ q.began = commits
    BY BoundsAssumption DEF IInv, TypeOK, Run
  <2>2. Begin(r, x, l)
    BY <2>a
  <2>3. l \notin {"rows", "flush", "store", "refresh", "files", "publish"}
    OBVIOUS
  <2> HIDE DEF q, l
  <2>4. /\ x \in Work /\ x.updates = {} /\ x.inserts = <<>> /\ x.wrote = NoFacts
        /\ x.next = 1 /\ x.file = <<>> /\ x.run = q
    BY <2>1, NoWorkIsWork DEF Work, NoWork
  <2> HIDE DEF x
  <2>5. /\ PlanFits(work[r])'
        /\ pc'[r] = l /\ work'[r].updates = {} /\ work'[r].inserts = <<>>
        /\ work'[r].next = 1 /\ work'[r].file = <<>> /\ work'[r].run = q
        /\ Busy \ {r} # {} => work'[r].crossed
        /\ \A s \in Request \ {r} : pc'[s] = pc[s] /\ (pc[s] # "idle" => work'[s].crossed)
    BY <1>a, <2>2, <2>4
  <2>6. LonePlan(r)'
    BY <2>5 DEF LonePlan
  <2>7. commits' = commits
    BY <1>2 DEF BeginCalculation
  <2>8. LoneView(r)'
    BY <2>1, <2>3, <2>5, <2>7 DEF LoneView
  <2> QED
    BY <2>5, <2>6, <2>8
<1> QED
  BY <1>1, <1>2

LEMMA InitLone == Init => LoneInv
<1> SUFFICES ASSUME Init PROVE LoneInv
  OBVIOUS
<1>1. \A s \in Request : work[s] = NoWork /\ pc[s] = "idle"
  BY DEF Init
<1>2. /\ NoWork.updates = {} /\ NoWork.inserts = <<>> /\ NoWork.wrote = NoFacts
      /\ NoWork.next = 1 /\ NoWork.file = <<>> /\ NoWork.kind = "none"
  BY DEF NoWork
<1>3. PlanFits(NoWork)
  BY <1>2, FreshFits
<1>4. Len(<<>>) + 1 = 1
  OBVIOUS
<1>5. \A s \in Request : LonePlan(s) /\ LoneView(s)
  BY <1>1, <1>2, <1>3, <1>4 DEF LonePlan, LoneView, Calculation
<1> QED
  BY <1>1, <1>5 DEF LoneInv, CrossedTells

LEMMA StepLone == IInv /\ LoneInv /\ [Next]_vars => LoneInv'
<1> SUFFICES ASSUME IInv, LoneInv, [Next]_vars PROVE LoneInv'
  OBVIOUS
<1>0. /\ TypeOK' /\ work \in [Request -> Work] /\ pc \in [Request -> Location]
      /\ \A s \in Request : pc'[s] = "idle" => work'[s] = NoWork
  <2>1. TypeOK'
    BY IInvTypes, StepTypes
  <2> QED
    BY <2>1 DEF IInv, TypeOK
<1> DEFINE Fine(s) == ~work'[s].crossed => LonePlan(s)' /\ LoneView(s)'
<1>1. \A s \in Request : pc'[s] = "idle" => Fine(s)
  BY <1>0, IdleLone
<1>2. ASSUME NEW r \in Request, Step(r) PROVE LoneInv'
  <2>1. pc[r] # "idle" /\ \A s \in Request \ {r} : pc'[s] = pc[s] /\ work'[s] = work[s]
    BY <1>2, StepIsBusy
  <2>2. pc'[r] # "idle" => work'[r].crossed = work[r].crossed
    BY <1>2, StepKeeps
  <2>3. CrossedTells'
    BY <2>1, <2>2 DEF LoneInv, CrossedTells
  <2>4. ASSUME NEW s \in Request \ {r}, pc'[s] # "idle" PROVE Fine(s)
    BY <2>1, <2>4 DEF LoneInv, CrossedTells
  <2>5. ASSUME pc'[r] # "idle" PROVE Fine(r)
    BY <1>0, <1>2, <2>2, <2>5, LoneStep DEF LoneInv
  <2> HIDE DEF Fine
  <2>6. \A s \in Request : Fine(s)
    BY <1>1, <2>4, <2>5
  <2> QED
    BY <2>3, <2>6 DEF LoneInv, Fine
<1>3. ASSUME NEW r \in Request, BeginApply(r) \/ BeginCalculation(r) PROVE LoneInv'
  <2>1. /\ LonePlan(r)' /\ LoneView(r)'
        /\ Busy \ {r} # {} => work'[r].crossed
        /\ \A s \in Request \ {r} : pc'[s] = pc[s] /\ (pc[s] # "idle" => work'[s].crossed)
    BY <1>3, LoneBegins
  <2>2. CrossedTells'
    BY <2>1 DEF CrossedTells, Busy
  <2>3. \A s \in Request \ {r} : pc'[s] # "idle" => Fine(s)
    BY <2>1
  <2> HIDE DEF Fine
  <2>4. \A s \in Request : Fine(s)
    BY <1>1, <2>1, <2>3 DEF Fine
  <2> QED
    BY <2>2, <2>4 DEF LoneInv, Fine
<1>4. ASSUME NEW p \in Process, Crash(p) PROVE LoneInv'
  <2>1. PICK q \in Request : pc[q] # "idle" /\ ProcessOf[q] = p
    BY <1>4 DEF Crash, Busy
  <2>2. \A s \in Request : pc'[s] # "idle" => ProcessOf[s] # p /\ pc[s] # "idle" /\ work'[s] = work[s]
    BY <1>0, <1>4 DEF Crash
  <2>3. \A s \in Request : pc'[s] # "idle" => work'[s].crossed
    BY <2>1, <2>2 DEF LoneInv, CrossedTells
  <2>4. CrossedTells'
    BY <2>3 DEF CrossedTells
  <2> HIDE DEF Fine
  <2>5. \A s \in Request : Fine(s)
    BY <1>1, <2>3 DEF Fine
  <2> QED
    BY <2>4, <2>5 DEF LoneInv, Fine
<1>5. ASSUME NextDay \/ UNCHANGED vars PROVE LoneInv'
  <2>1. work' = work /\ pc' = pc /\ UNCHANGED <<sales, stock, runs, files, commits>>
    BY <1>5 DEF NextDay, vars
  <2>2. CrossedTells'
    BY <2>1 DEF LoneInv, CrossedTells
  <2>3. \A s \in Request : Fine(s)
    BY <2>1, QuietLone DEF LoneInv
  <2> HIDE DEF Fine
  <2> QED
    BY <2>2, <2>3 DEF LoneInv, Fine
<1> QED
  BY <1>2, <1>3, <1>4, <1>5 DEF Next

\* What a lone request plans, writes, reads and leaves is as it says, in every reachable state.
THEOREM LoneRequestsAreSafe == Spec => []LoneInv
<1> QED
  BY InitLone, StepLone, Lineage, PTL DEF Spec

\* An upload is refused by the tables, or ended by PostgreSQL, only because another
\* apply or calculation was open while it was, because its own file repeats a key, or
\* because its file has a value that the column refuses.
THEOREM RefusalsHaveAReason == Spec => ConflictsOnlyWhenCrossed
<1>1. IInv /\ LoneInv =>
        \A r \in Request : Conflict(r) \/ BreakDeadlock(r) =>
          work[r].crossed \/ Repeats(work[r].file) \/ Unwritable(work[r].file)
  <2> SUFFICES ASSUME IInv, LoneInv, NEW r \in Request, ~work[r].crossed, ~Repeats(work[r].file),
                      ~Unwritable(work[r].file)
               PROVE  ~Conflict(r) /\ ~BreakDeadlock(r)
    OBVIOUS
  <2>0. PlanFits(work[r]) /\ work[r] \in Work
    BY DEF LoneInv, LonePlan, IInv, TypeOK
  <2>1. ASSUME NEW u \in NextUpdates(work[r]) PROVE ~Vanished(u)
    BY <2>0 DEF NextUpdates, Vanished, PlanFits, UpdatesFit
  <2>2. ASSUME NEW row \in NextInserts(work[r]) PROVE ~Taken(r, row)
    <3>1. work[r].inserts # <<>> /\ row = Head(work[r].inserts) /\ work[r].inserts \in Seq(Row)
      BY <2>0 DEF NextInserts, Work
    <3>2. 1 \in DOMAIN work[r].inserts /\ row = work[r].inserts[1] /\ row.key \in Key
      <4>1. 1 \in DOMAIN work[r].inserts /\ row = work[r].inserts[1]
        BY <3>1
      <4> QED
        BY <2>0, <4>1, PlaceTypes
    <3>3. sales[row.key] = NoFact \/ row.key \in work[r].gone
      BY <2>0, <3>2 DEF PlanFits, InsertsFit
    <3>4. row.key \in Keys(work[r].inserts)
      BY <3>2 DEF Keys
    <3>5. row.key \notin Written(work[r])
      BY <2>0, <3>4 DEF PlanFits, RepeatsFit
    <3> QED
      BY <3>2, <3>3, <3>5 DEF Taken, SeenSales, Written
  <2>5. ASSUME pc[r] = "flush" PROVE work[r].next - 1 = Len(work[r].file)
    BY <2>5, <2>0, PlaceTypes DEF LoneInv, LonePlan
  <2>6. ASSUME pc[r] = "flush", NEW k, NEW q, IsLast(work[r].file, work[r].next - 1, k, q)
        PROVE  q \notin Refused
    <3>1. PICK i \in 1..(work[r].next - 1) : work[r].file[i].qty = q
      BY <2>6 DEF IsLast
    <3> QED
      BY <2>0, <2>5, <2>6, <3>1, PlaceTypes DEF Unwritable
  <2>7. ASSUME pc[r] = "flush", NEW u \in NextUpdates(work[r]) PROVE u.qty \notin Refused
    <3>1. IsLast(work[r].file, work[r].next - 1, u.key, u.qty)
      BY <2>0, <2>7 DEF NextUpdates, PlanFits, UpdatesFit
    <3> QED
      BY <2>6, <2>7, <3>1
  <2>8. ASSUME pc[r] = "flush", NEW row \in NextInserts(work[r]) PROVE row.qty \notin Refused
    <3> DEFINE ins == work[r].inserts
    <3>1. ins # <<>> /\ row = Head(ins) /\ ins \in Seq(Row)
      BY <2>0, <2>8 DEF NextInserts, Work
    <3>2. DOMAIN ins = 1..Len(ins) /\ 1 \in 1..Len(ins) /\ row = ins[1] /\ Len(ins) \in Nat
      BY <3>1
    <3>3. ~Repeats(ins)
      BY <2>0 DEF PlanFits, RepeatsFit
    <3>4. LastAt(ins, Len(ins), 1)
      BY <3>2, <3>3 DEF LastAt, Repeats
    <3>5. IsLast(work[r].file, work[r].next - 1, row.key, row.qty)
      BY <2>0, <3>2, <3>4 DEF PlanFits, InsertsFit
    <3> QED
      BY <2>6, <2>8, <3>5
  <2>3. ~Conflict(r)
    BY <2>1, <2>2, <2>7, <2>8 DEF Conflict
  <2>4. ASSUME BreakDeadlock(r) PROVE FALSE
    <3>1. Stuck(r)
      BY <2>4 DEF BreakDeadlock
    <3>2. PICK k \in Wanted(r) : ~Free(r, k)
      BY <3>1 DEF Stuck
    <3>3. PICK s \in Request \ {r} : k \in Held(s)
      BY <3>2 DEF Free
    <3>4. pc[s] # "idle"
      <4> SUFFICES ASSUME work[s] = NoWork PROVE FALSE
        BY DEF IInv, TypeOK
      <4>1. work[s].gone = {} /\ work[s].wrote = NoFacts
        BY DEF NoWork
      <4> QED
        BY <3>3, <4>1 DEF Held, NoFacts
    <3>5. pc[r] # "idle"
      BY <3>2 DEF Wanted
    <3> QED
      BY <3>4, <3>5 DEF LoneInv, CrossedTells
  <2> QED
    BY <2>3, <2>4
<1>2. IInv /\ LoneInv /\ [Next]_vars =>
        [\A r \in Request : Conflict(r) \/ BreakDeadlock(r) =>
          work[r].crossed \/ Repeats(work[r].file) \/ Unwritable(work[r].file)]_vars
  BY <1>1
<1> QED
  BY <1>2, Lineage, LoneRequestsAreSafe, PTL DEF Spec, ConflictsOnlyWhenCrossed

\* A fact has the quantity of the last row of its batch's file for its key, unless the
\* apply overlapped with another request.
THEOREM QuantitiesAreKept == Spec => []QuantitiesAreOfTheirFile
<1>1. Init => QuantitiesAreOfTheirFile
  BY DEF Init, QuantitiesAreOfTheirFile, NoFacts
<1>2. IInv /\ LoneInv /\ QuantitiesAreOfTheirFile /\ [Next]_vars => QuantitiesAreOfTheirFile'
  <2> SUFFICES ASSUME IInv, LoneInv, QuantitiesAreOfTheirFile, [Next]_vars
               PROVE  QuantitiesAreOfTheirFile'
    OBVIOUS
  <2>1. CASE UNCHANGED <<sales, batches, commits>>
    <3> SUFFICES ASSUME NEW k \in Key, sales'[k] # NoFact
                 PROVE  \/ LastRow(batches'[sales'[k].batch].file, k).qty = sales'[k].qty
                        \/ batches'[sales'[k].batch].crossed
      BY DEF QuantitiesAreOfTheirFile, LastRow
    <3> QED
      BY <2>1 DEF QuantitiesAreOfTheirFile
  <2>2. CASE \E r \in Request : Commits(r)
    <3>1. PICK r \in Request : Commits(r)
      BY <2>2
    <3>2. /\ batches \in [Batch \cup StockBatch -> Apply] /\ work[r].batch \in Batch \cup StockBatch
          /\ work[r] \in Work /\ sales \in SalesTable /\ Sound(r)
      BY <3>1 DEF IInv, TypeOK, Commits, Sound, OwnWork
    <3>3. /\ batches'[work[r].batch].file = work[r].file
          /\ batches'[work[r].batch].crossed = work[r].crossed
          /\ \A b \in Batch \cup StockBatch : b # work[r].batch => batches'[b] = batches[b]
      BY <3>1, <3>2 DEF Commits
    <3> SUFFICES ASSUME NEW k \in Key, sales'[k] # NoFact
                 PROVE  \/ LastRow(batches'[sales'[k].batch].file, k).qty = sales'[k].qty
                        \/ batches'[sales'[k].batch].crossed
      BY DEF QuantitiesAreOfTheirFile, LastRow
    <3>4. ASSUME sales'[k].batch = work[r].batch, ~work[r].crossed
          PROVE  LastRow(work[r].file, k).qty = sales'[k].qty
      <4>1. sales'[k] = SeenSales(r)[k] /\ pc[r] \in {"files", "publish"} /\ work[r].kind = "apply"
        BY <3>1 DEF Commits
      <4>2. k \in OwnKeys(r)
        BY <3>4, <4>1 DEF OwnKeys
      <4>3. k \in Written(work[r])
        BY <3>2, <4>1, <4>2 DEF Sound, Stage
      <4>4. sales'[k] = work[r].wrote[k]
        BY <4>1, <4>3 DEF SeenSales, Written
      <4>5. work[r].inserts = <<>> /\ work[r].next = Len(work[r].file) + 1 /\ PlanFits(work[r])
        BY <3>4, <4>1 DEF LoneInv, LonePlan
      <4>6. IsLast(work[r].file, work[r].next - 1, k, work[r].wrote[k].qty)
        <5>1. Keys(work[r].inserts) = {}
          BY <4>5 DEF Keys
        <5> QED
          BY <4>3, <4>5, <5>1 DEF PlanFits, WrittenFit
      <4>7. work[r].file \in Seq(Row) /\ work[r].next - 1 = Len(work[r].file)
        BY <3>2, <4>5, PlaceTypes
      <4>8. IsLast(work[r].file, Len(work[r].file), k, sales'[k].qty)
        BY <4>4, <4>6, <4>7
      <4> QED
        BY <4>7, <4>8, LastRowIs
    <3>5. CASE sales'[k].batch = work[r].batch
      BY <3>3, <3>4, <3>5
    <3>6. CASE sales'[k] = sales[k] /\ sales[k].batch # work[r].batch
      <4>1. sales[k].batch \in Batch \cup StockBatch
        BY <3>2, <3>6 DEF SalesTable, Fact
      <4> QED
        BY <3>3, <3>6, <4>1 DEF QuantitiesAreOfTheirFile
    <3> QED
      BY <3>1, <3>5, <3>6, Committed
  <2> QED
    BY <2>1, <2>2, OnlyCommitsChange
<1> QED
  BY <1>1, <1>2, Lineage, LoneRequestsAreSafe, PTL DEF Spec

\* A request that no other one ran beside leaves the files with what is then in the
\* tables, and a calculation a run that has read them.
THEOREM LoneWorkStays == Spec => LoneWorkIsCurrent
<1> DEFINE A == \A r \in Request :
                  (~work[r].crossed /\ pc'[r] = "idle" /\ (WriteFiles(r) \/ Publish(r))) =>
                    /\ files'.sales = sales' /\ files'.stock = stock'
                    /\ work[r].kind \in Calculation =>
                         runs[Len(runs)].began = commits /\ runs[Len(runs)].read = commits
<1>1. IInv /\ LoneInv /\ [Next]_vars => A
  <2> SUFFICES ASSUME IInv, LoneInv, NEW r \in Request, ~work[r].crossed, pc'[r] = "idle",
                      WriteFiles(r) \/ Publish(r)
               PROVE  /\ files'.sales = sales' /\ files'.stock = stock'
                      /\ work[r].kind \in Calculation =>
                           runs[Len(runs)].began = commits /\ runs[Len(runs)].read = commits
    OBVIOUS
  <2>0. /\ LoneView(r) /\ Sound(r) /\ work[r] \in Work /\ pc \in [Request -> Location]
        /\ sales \in SalesTable /\ stock \in StockTable
    BY DEF LoneInv, IInv, TypeOK
  <2>1. CASE Publish(r)
    <3>1. pc[r] = "publish" /\ sales' = SeenSales(r) /\ stock' = SeenStock(r) /\ files' = files
      BY <2>1 DEF Publish, Commit
    <3>2. work[r].kind \notin Calculation
      BY <2>0, <3>1 DEF Sound, Stage, Calculation
    <3> QED
      BY <2>0, <3>1, <3>2 DEF LoneView
  <2>2. CASE WriteFiles(r)
    <3>1. work[r].kind # "apply"
      BY <2>0, <2>2 DEF WriteFiles, Goto
    <3>2. pc[r] = "files" /\ files' = work[r].view /\ sales' = sales /\ stock' = stock
      BY <2>2 DEF WriteFiles
    <3>3. work[r].batch = "none" /\ work[r].gone = {} /\ work[r].wrote = NoFacts
      BY <2>0, <3>1 DEF Sound, OwnWork
    <3>4. SeenSales(r) = sales
      <4>1. SeenSales(r) = [k \in Key |-> sales[k]]
        BY <3>3 DEF SeenSales, NoFacts
      <4> QED
        BY <2>0, <4>1 DEF SalesTable
    <3>5. SeenStock(r) = stock
      <4>1. \A s \in StockBatch : work[r].batch # s
        BY <3>3, BatchAssumption
      <4>2. SeenStock(r) = [s \in StockBatch |-> stock[s]]
        BY <4>1 DEF SeenStock
      <4> QED
        BY <2>0, <4>2 DEF StockTable
    <3> QED
      BY <2>0, <3>2, <3>4, <3>5 DEF LoneView
  <2> QED
    BY <2>1, <2>2
<1>2. IInv /\ LoneInv /\ [Next]_vars => [A]_vars
  BY <1>1
<1>3. LoneWorkIsCurrent <=> [][A]_vars
  BY DEF LoneWorkIsCurrent
<1> HIDE DEF A
<1> QED
  BY <1>2, <1>3, Lineage, LoneRequestsAreSafe, PTL DEF Spec

===============================================================================
