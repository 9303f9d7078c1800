------------------------------ MODULE PlanningData ------------------------------
(***************************************************************************)
(* The tables the planning works on, and what is derived from them: the    *)
(* sales facts and the stock snapshots that uploads are applied to, the    *)
(* reserve runs that are calculated from them, and the Parquet and DuckDB  *)
(* files of the analytics, all written by requests that overlap.           *)
(*                                                                         *)
(* A request is a thread of an API process or of a worker.  It goes        *)
(* statement by statement through PostgreSQL at READ COMMITTED: a SELECT   *)
(* sees what is committed and what its own transaction has sent; a row     *)
(* that another transaction has written is waited for; a Session sends     *)
(* what it has added or changed only at its flush (autoflush=False).       *)
(***************************************************************************)
EXTENDS Integers, Sequences

CONSTANTS
    Request,     \* threads that serve a request or a message
    Process,     \* API processes and workers
    ProcessOf,   \* the process of a thread
    Batch,       \* uploads of sales
    StockBatch,  \* uploads of stock
    Key,         \* client, SKU and month, in the order of the primary keys of their rows
    Files,       \* the rows a file of each batch may have after its mapping, at least one
    Refused,     \* values that the validation only warns of and the columns refuse
    Window,      \* runs that are looked through for one that matches (25)
    MaxBegun, MaxDay   \* bounds: applies and calculations, days

ASSUME ProcessAssumption == ProcessOf \in [Request -> Process]
ASSUME KeyAssumption == Key \in SUBSET Nat
ASSUME BatchAssumption == "none" \notin Batch \cup StockBatch /\ Batch \cap StockBatch = {}

\* The quantity stands for the values of a row; those in Refused for a row whose revenue is
\* no number, which is written as it is to a column of numbers.
Row == [key: Key, qty: Nat]
ASSUME RefusedAssumption == Refused \in SUBSET Nat
ASSUME FilesAssumption ==
    /\ DOMAIN Files = Batch
    /\ \A b \in Batch : \A f \in Files[b] : f \in Seq(Row) /\ f # <<>>
ASSUME BoundsAssumption == {Window, MaxBegun, MaxDay} \subseteq Nat

VARIABLES
    sales,    \* the committed fact of each key
    stock,    \* the apply whose snapshots of each stock batch are committed
    batches,  \* the last committed apply of each batch
    runs,     \* committed reserve runs, by created_at
    files,    \* the tables as the Parquet files and DuckDB were written from last
    day,      \* today
    begun,    \* applies and calculations begun; the number of an apply is its place
    commits,  \* applies committed
    pc,       \* where each request is
    work      \* what each request holds

vars == <<sales, stock, batches, runs, files, day, begun, commits, pc, work>>

NoFact == [id |-> 0, batch |-> "none", qty |-> 0]
NoFacts == [k \in Key |-> NoFact]
NoView == [sales |-> NoFacts, stock |-> [s \in StockBatch |-> 0], at |-> 0, by |-> "none"]
NoRun == [kind |-> "none", day |-> 0, after |-> 0, began |-> 0, read |-> 0]
NoWork == [kind |-> "none", batch |-> "none", apply |-> 0, file |-> <<>>, next |-> 1,
           gone |-> {}, updates |-> {}, inserts |-> <<>>, wrote |-> NoFacts,
           view |-> NoView, run |-> NoRun, crossed |-> FALSE]
NoApply == [status |-> "ready", file |-> <<>>, refresh |-> "none", crossed |-> FALSE]

Location == {"idle", "rows", "flush", "read stock", "store", "refresh", "files", "publish"}
Calculation == {"portfolio", "other"}

Init ==
    /\ sales = NoFacts
    /\ stock = [s \in StockBatch |-> 0]
    /\ batches = [b \in Batch \cup StockBatch |-> NoApply]
    /\ runs = <<>>
    /\ files = NoView
    /\ day = 0 /\ begun = 0 /\ commits = 0
    /\ pc = [r \in Request |-> "idle"]
    /\ work = [r \in Request |-> NoWork]

-----------------------------------------------------------------------------
Busy == {r \in Request : pc[r] # "idle"}

Begin(r, w, l) ==
    /\ pc[r] = "idle"
    /\ pc' = [pc EXCEPT ![r] = l]
    /\ work' = [s \in Request |->
                  CASE s = r -> [w EXCEPT !.crossed = (Busy # {})]
                    [] s # r /\ s \in Busy -> [work[s] EXCEPT !.crossed = TRUE]
                    [] OTHER -> work[s]]

End(r) ==
    /\ pc' = [pc EXCEPT ![r] = "idle"]
    /\ work' = [work EXCEPT ![r] = NoWork]

Goto(r, l) == pc' = [pc EXCEPT ![r] = l]
Note(r, w) == work' = [work EXCEPT ![r] = w]

\* The tables as the transaction of r sees them.
SeenSales(r) ==
    [k \in Key |-> IF work[r].wrote[k] # NoFact THEN work[r].wrote[k]
                   ELSE IF k \in work[r].gone THEN NoFact ELSE sales[k]]
SeenStock(r) == [s \in StockBatch |-> IF work[r].batch = s THEN work[r].apply ELSE stock[s]]

\* Rows, and places in the unique index uq_sales_period, that r has written to.
Held(r) == work[r].gone \cup {k \in Key : work[r].wrote[k] # NoFact}
Free(r, k) == \A s \in Request \ {r} : k \notin Held(s)

-----------------------------------------------------------------------------
(* apply_upload_file, from the flush that locks the row of the batch on.     *)

BeginApply(r) ==
    /\ begun < MaxBegun /\ begun' = begun + 1
    /\ \E b \in Batch \cup StockBatch :
         /\ \A s \in Request : work[s].batch # b
         /\ \E f \in IF b \in Batch THEN Files[b] ELSE {<<>>} :
              Begin(r, [NoWork EXCEPT !.kind = "apply", !.batch = b, !.apply = begun + 1, !.file = f],
                    IF b \in Batch THEN "rows" ELSE "refresh")
    /\ UNCHANGED <<sales, stock, batches, runs, files, day, commits>>

\* Mutant: the facts of an earlier apply stay.
OwnKeysStay(r) == {}

\* Mutant: the DELETE goes by the rows of the last apply, not by source_batch_id.
OwnKeysByFile(r) ==
    {k \in Key : /\ SeenSales(r)[k] # NoFact
                 /\ \E i \in DOMAIN batches[work[r].batch].file : batches[work[r].batch].file[i].key = k}

\* The facts the DELETE of an apply has still to remove.
OwnKeys(r) == {k \in Key : SeenSales(r)[k].batch = work[r].batch}

DeleteRow(r) ==
    /\ pc[r] = "rows" /\ work[r].next = 1
    /\ \E k \in OwnKeys(r) :
         /\ Free(r, k)
         /\ Note(r, [work[r] EXCEPT !.gone = @ \cup {k}])
    /\ UNCHANGED <<sales, stock, batches, runs, files, day, begun, commits, pc>>

\* Mutant: the facts of other uploads are not looked up.
PlannedAsNew(w, row, fact) == [w EXCEPT !.inserts = Append(@, row)]

\* A fact that is found is changed, another one added, in the Session.  A row that
\* the Session has loaded keeps the values it was loaded with.
Planned(w, row, fact) ==
    IF fact = NoFact THEN [w EXCEPT !.inserts = Append(@, row)]
    ELSE LET same   == {u \in w.updates : u.key = row.key /\ u.id = fact.id}
             loaded == IF same = {} THEN fact.qty ELSE (CHOOSE u \in same : TRUE).loaded
         IN  [w EXCEPT !.updates = (@ \ same) \cup
                {[key |-> row.key, id |-> fact.id, loaded |-> loaded, qty |-> row.qty]}]

LookRow(r) ==
    /\ pc[r] = "rows" /\ OwnKeys(r) = {}
    /\ LET w    == work[r]
           row  == w.file[w.next]
       IN  /\ Note(r, [Planned(w, row, SeenSales(r)[row.key]) EXCEPT !.next = @ + 1])
           /\ Goto(r, IF w.next = Len(w.file) THEN "flush" ELSE "rows")
    /\ UNCHANGED <<sales, stock, batches, runs, files, day, begun, commits>>

\* The flush sends the updates in the order of the primary keys, then the inserts.
NextUpdates(w) == {u \in w.updates : \A v \in w.updates : u.key <= v.key}
NextInserts(w) == IF w.updates = {} /\ w.inserts # <<>> THEN {Head(w.inserts)} ELSE {}
Wanted(r) ==
    CASE pc[r] = "rows" /\ work[r].next = 1 -> OwnKeys(r)
      [] pc[r] = "flush" -> {x.key : x \in NextUpdates(work[r]) \cup NextInserts(work[r])}
      [] OTHER -> {}

\* Mutant: a fact that is taken over keeps its quantity.
UpdatedKeepsQuantity(w, u) == [id |-> u.id, batch |-> w.batch, qty |-> u.loaded]

\* An UPDATE has the columns whose value is another one than the loaded one.
Updated(w, u) ==
    [id |-> u.id, batch |-> w.batch,
     qty |-> IF u.qty = u.loaded THEN sales[u.key].qty ELSE u.qty]
Inserted(w, row) == [id |-> w.apply, batch |-> w.batch, qty |-> row.qty]

\* The row has gone; the key is taken, by another upload or an earlier row of the file.
Vanished(u) == sales[u.key].id # u.id
Taken(r, row) == SeenSales(r)[row.key] # NoFact

\* Mutant: an UPDATE that finds no row is not noticed.
WriteUpdateIfThere(r) ==
    /\ pc[r] = "flush"
    /\ \E u \in NextUpdates(work[r]) :
         /\ Free(r, u.key)
         /\ Note(r, [work[r] EXCEPT !.updates = @ \ {u},
                        !.wrote[u.key] = IF Vanished(u) THEN @ ELSE Updated(work[r], u)])
    /\ UNCHANGED <<sales, stock, batches, runs, files, day, begun, commits, pc>>

WriteUpdate(r) ==
    /\ pc[r] = "flush"
    /\ \E u \in NextUpdates(work[r]) :
         /\ Free(r, u.key) /\ ~Vanished(u) /\ u.qty \notin Refused
         /\ Note(r, [work[r] EXCEPT !.updates = @ \ {u}, !.wrote[u.key] = Updated(work[r], u)])
    /\ UNCHANGED <<sales, stock, batches, runs, files, day, begun, commits, pc>>

WriteInsert(r) ==
    /\ pc[r] = "flush"
    /\ \E row \in NextInserts(work[r]) :
         /\ Free(r, row.key) /\ ~Taken(r, row) /\ row.qty \notin Refused
         /\ Note(r, [work[r] EXCEPT !.inserts = Tail(@), !.wrote[row.key] = Inserted(work[r], row)])
    /\ UNCHANGED <<sales, stock, batches, runs, files, day, begun, commits, pc>>

\* The flush fails, on what the table has or on a value, then the commit of the except
\* branch on the broken Session.
Conflict(r) ==
    /\ pc[r] = "flush"
    /\ \/ \E x \in NextUpdates(work[r]) \cup NextInserts(work[r]) : x.qty \in Refused
       \/ \E u \in NextUpdates(work[r]) : Free(r, u.key) /\ Vanished(u)
       \/ \E row \in NextInserts(work[r]) : Free(r, row.key) /\ Taken(r, row)
    /\ End(r)
    /\ UNCHANGED <<sales, stock, batches, runs, files, day, begun, commits>>

Stuck(r) == Wanted(r) # {} /\ \A k \in Wanted(r) : ~Free(r, k)
Blockers(r) == {s \in Request \ {r} : Wanted(r) \cap Held(s) # {}}

\* PostgreSQL ends one of the transactions that wait for each other.
BreakDeadlock(r) ==
    /\ \E S \in SUBSET Request :
         r \in S /\ \A s \in S : Stuck(s) /\ Blockers(s) \cap S # {}
    /\ End(r)
    /\ UNCHANGED <<sales, stock, batches, runs, files, day, begun, commits>>

-----------------------------------------------------------------------------
(* calculate_and_persist, without reuse, as all its callers call it.  Of a    *)
(* run the model knows the commits that its first and its last SELECT saw,   *)
(* and the runs that were there before it began.                              *)

BeginCalculation(r) ==
    /\ begun < MaxBegun /\ begun' = begun + 1
    /\ \E kind \in Calculation :
         Begin(r, [NoWork EXCEPT !.kind = kind, !.run = [kind |-> kind, day |-> 0, after |-> Len(runs),
                                                         began |-> commits, read |-> commits]],
               "read stock")
    /\ UNCHANGED <<sales, stock, batches, runs, files, day, commits>>

ReadStock(r) ==
    /\ pc[r] = "read stock" /\ Goto(r, "store")
    /\ Note(r, [work[r] EXCEPT !.run.read = commits])
    /\ UNCHANGED <<sales, stock, batches, runs, files, day, begun, commits>>

\* The run gets the date of the day on which it is stored.
StoreRun(r) ==
    /\ pc[r] = "store" /\ Goto(r, "refresh")
    /\ runs' = Append(runs, [work[r].run EXCEPT !.day = day])
    /\ Note(r, [work[r] EXCEPT !.run = NoRun])
    /\ UNCHANGED <<sales, stock, batches, files, day, begun, commits>>

\* find_recent_matching_run for the portfolio: the newest of the window with today's date.
Recent == {i \in DOMAIN runs : i > Len(runs) - Window}
MatchesPortfolio(i) == runs[i].kind = "portfolio" /\ runs[i].day = day

\* Mutant: the runs come in ascending order.
FirstMatchAscending(S) == CHOOSE i \in S : \A j \in S : i <= j

FirstMatch(S) == CHOOSE i \in S : \A j \in S : j <= i
PortfolioRun ==
    LET matching == {i \in Recent : MatchesPortfolio(i)}
    IN  IF matching = {} THEN 0 ELSE FirstMatch(matching)

-----------------------------------------------------------------------------
(* materialize_analytics, under the lock of its process.                     *)

Flushed(r) ==
    \/ pc[r] = "refresh"
    \/ pc[r] = "flush" /\ work[r].updates = {} /\ work[r].inserts = <<>>

LockTaken(p) == \E s \in Request : ProcessOf[s] = p /\ pc[s] = "files"

\* Mutant: the tables are read in a transaction of their own.
ReadCommittedTables(r) ==
    /\ Flushed(r) /\ ~LockTaken(ProcessOf[r])
    /\ Note(r, [work[r] EXCEPT !.view = [sales |-> sales, stock |-> stock,
                                        at |-> commits, by |-> ProcessOf[r]]])
    /\ Goto(r, "files")
    /\ UNCHANGED <<sales, stock, batches, runs, files, day, begun, commits>>

\* The tables with what the transaction itself has flushed and not committed.
ReadTables(r) ==
    /\ Flushed(r) /\ ~LockTaken(ProcessOf[r])
    /\ Note(r, [work[r] EXCEPT !.view = [sales |-> SeenSales(r), stock |-> SeenStock(r),
                                        at |-> commits, by |-> ProcessOf[r]]])
    /\ Goto(r, "files")
    /\ UNCHANGED <<sales, stock, batches, runs, files, day, begun, commits>>

WriteFiles(r) ==
    /\ pc[r] = "files"
    /\ files' = work[r].view
    /\ IF work[r].kind = "apply"
       THEN Goto(r, "publish") /\ Note(r, [work[r] EXCEPT !.view = NoView])
       ELSE End(r)
    /\ UNCHANGED <<sales, stock, batches, runs, day, begun, commits>>

\* The commit of an apply, with the status of its batch and the JobRun of the refresh.
Commit(r, status, refresh) ==
    LET w == work[r] IN
    /\ sales' = SeenSales(r) /\ stock' = SeenStock(r)
    /\ batches' = [batches EXCEPT ![w.batch] =
                     [status |-> status, file |-> w.file, refresh |-> refresh, crossed |-> w.crossed]]
    /\ commits' = commits + 1

Publish(r) ==
    /\ pc[r] = "publish"
    /\ Commit(r, "applied", "completed")
    /\ End(r)
    /\ UNCHANGED <<runs, files, day, begun>>

\* A file cannot be written, or DuckDB is open in another process; the Parquet files
\* have been written by then or not.
RefreshFails(r) ==
    /\ pc[r] = "files"
    /\ files' \in {files, work[r].view}
    /\ IF work[r].kind = "apply" THEN Commit(r, "failed", "running")
                                 ELSE UNCHANGED <<sales, stock, batches, commits>>
    /\ End(r)
    /\ UNCHANGED <<runs, day, begun>>

-----------------------------------------------------------------------------
\* A process dies, perhaps after the files were written.
Crash(p) ==
    /\ \E r \in Busy : ProcessOf[r] = p
    /\ files' \in {files} \cup {work[r].view : r \in {s \in Busy : ProcessOf[s] = p /\ pc[s] = "files"}}
    /\ pc' = [r \in Request |-> IF ProcessOf[r] = p THEN "idle" ELSE pc[r]]
    /\ work' = [r \in Request |-> IF ProcessOf[r] = p THEN NoWork ELSE work[r]]
    /\ UNCHANGED <<sales, stock, batches, runs, day, begun, commits>>

\* Midnight; one before the first calculation tells nothing apart and is left out.
NextDay ==
    /\ day < MaxDay /\ day' = day + 1
    /\ runs # <<>> \/ \E r \in Request : work[r].kind \in Calculation
    /\ UNCHANGED <<sales, stock, batches, runs, files, begun, commits, pc, work>>

Step(r) ==
    \/ DeleteRow(r) \/ LookRow(r) \/ WriteUpdate(r) \/ WriteInsert(r) \/ Conflict(r) \/ BreakDeadlock(r)
    \/ ReadStock(r) \/ StoreRun(r)
    \/ ReadTables(r) \/ WriteFiles(r) \/ RefreshFails(r) \/ Publish(r)

Next ==
    \/ \E r \in Request : BeginApply(r) \/ BeginCalculation(r) \/ Step(r)
    \/ \E p \in Process : Crash(p)
    \/ NextDay

Spec == Init /\ [][Next]_vars
FairSpec == Spec /\ \A r \in Request : WF_vars(Step(r))

-----------------------------------------------------------------------------
(* Properties                                                                *)

Fact == [id: Nat, batch: Batch, qty: Nat]
SalesTable == [Key -> Fact \cup {NoFact}]
StockTable == [StockBatch -> Nat]
View == [sales: SalesTable, stock: StockTable, at: Nat, by: Process \cup {"none"}]
Run == [kind: Calculation \cup {"none"}, day: Nat, after: Nat, began: Nat, read: Nat]
Update == [key: Key, id: Nat, loaded: Nat, qty: Nat]
Work == [kind: Calculation \cup {"apply", "none"}, batch: Batch \cup StockBatch \cup {"none"},
         apply: Nat, file: Seq(Row), next: Nat \ {0}, gone: SUBSET Key,
         updates: SUBSET Update, inserts: Seq(Row), wrote: SalesTable, view: View, run: Run,
         crossed: BOOLEAN]
Apply == [status: {"ready", "applied", "failed"}, file: Seq(Row),
          refresh: {"none", "running", "completed"}, crossed: BOOLEAN]

\* The tables, the files and what each request holds have their types, and only a
\* request that is on holds rows.
TypeOK ==
    /\ sales \in SalesTable /\ stock \in StockTable
    /\ batches \in [Batch \cup StockBatch -> Apply]
    /\ runs \in Seq(Run) /\ files \in View
    /\ day \in 0..MaxDay /\ begun \in 0..MaxBegun /\ commits \in Nat
    /\ pc \in [Request -> Location] /\ work \in [Request -> Work]
    /\ \A r \in Request : pc[r] = "idle" => work[r] = NoWork

\* However uploads take facts over, replace and delete them at the same time, a fact
\* never names a batch whose last committed apply, failed or not, had no row for it.
\* (source_batch_id of SalesFact; the DELETEs of apply_upload_file, _apply_sales_row)
Keys(f) == {f[i].key : i \in DOMAIN f}
FactsAreOfTheirFile == \A k \in Key : sales[k] # NoFact => k \in Keys(batches[sales[k].batch].file)

\* And its quantity is that of the last such row, unless the apply overlapped with
\* another request: an UPDATE leaves out a column whose value it believes to be there.
LastRow(f, k) == f[CHOOSE i \in DOMAIN f : f[i].key = k /\ \A j \in DOMAIN f : f[j].key = k => j <= i]
QuantitiesAreOfTheirFile ==
    \A k \in Key : sales[k] # NoFact =>
        LET b == batches[sales[k].batch] IN LastRow(b.file, k).qty = sales[k].qty \/ b.crossed

\* An apply is committed as a whole, also when its refresh has failed: every row of
\* its file is then a fact that names the batch.
CommitsAreWhole ==
    [][\A b \in Batch, r \in Request :
         (pc[r] # "idle" /\ work[r].batch = b /\ commits' # commits /\ pc'[r] = "idle") =>
            \A i \in DOMAIN work[r].file : sales'[work[r].file[i].key].batch = b]_vars

\* A fact that another upload has taken over does not go with the upload it came from:
\* only a new apply of its batch takes a fact away.
FactsVanishOnlyByTheirOwner ==
    [][\A k \in Key : (sales[k] # NoFact /\ sales'[k] = NoFact) =>
          \E r \in Request : work[r].batch = sales[k].batch /\ pc'[r] = "idle"]_vars

\* An upload is refused by the tables only because another request, an apply or a
\* calculation, was open at some time while it was (`crossed`), because its own file repeats
\* a key, or because it has a value that its column refuses.
Unwritable(f) == \E i \in DOMAIN f : f[i].qty \in Refused
Repeats(f) == \E i, j \in DOMAIN f : i < j /\ f[i].key = f[j].key
ConflictsOnlyWhenCrossed ==
    [][\A r \in Request : Conflict(r) \/ BreakDeadlock(r) =>
          work[r].crossed \/ Repeats(work[r].file) \/ Unwritable(work[r].file)]_vars

\* A file with writable values that is applied alone is applied: a row with the key of an
\* earlier one updates it.
LoneApplySucceeds ==
    [][\A r \in Request :
         Conflict(r) => work[r].crossed \/ Unwritable(work[r].file)]_vars

\* The dashboard shows today's portfolio run that was calculated last: another one that
\* has read later commits was calculated at the same time.
Overlapped(i, j) == runs[i].after < j /\ runs[j].after < i
PortfolioIsFreshest ==
    LET p == PortfolioRun IN
    p # 0 => \A i \in DOMAIN runs :
                MatchesPortfolio(i) /\ runs[i].began > runs[p].began => Overlapped(i, p)

\* A request that no other one ran beside leaves the Parquet files and DuckDB with what
\* is then in the tables, and a calculation a run of them.
LoneWorkIsCurrent ==
    [][\A r \in Request :
         (~work[r].crossed /\ pc'[r] = "idle" /\ (WriteFiles(r) \/ Publish(r))) =>
            /\ files'.sales = sales' /\ files'.stock = stock'
            /\ work[r].kind \in Calculation =>
                 runs[Len(runs)].began = commits /\ runs[Len(runs)].read = commits]_vars

\* The refreshes of one process do not overtake each other: what it writes was not read
\* before what it wrote last.
RefreshesDoNotOvertake ==
    [][files'.by = files.by => files'.at >= files.at]_vars
===============================================================================
