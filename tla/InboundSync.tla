------------------------------ MODULE InboundSync ------------------------------
(***************************************************************************)
(* The deliveries that are copied from the Google Sheet: the transaction   *)
(* of sync_inbound_google_sheet (modules/inbound/service.py), run by the   *)
(* route or by the actor sync_inbound_google_sheet_job of worker_app/      *)
(* tasks.py, with its JobRun and the retries of the broker.                *)
(*                                                                         *)
(* A sync deletes the rows that it sees and inserts those of the sheet it  *)
(* has downloaded.  Syncs overlap: nothing orders them but the locks of    *)
(* the rows they delete and the unique external_ref.                       *)
(***************************************************************************)
EXTENDS Integers

CONSTANTS
    Attempt,    \* runs of the sync, each once; a retry is another attempt
    Version,    \* contents the sheet may have
    Ref,        \* external_ref: position, container and article of a row
    Content,    \* the rows of each version that can be read
    MaxMessages \* messages in the queue "inbound"

ASSUME ContentAssumption == Content \in [Version -> SUBSET Ref]
ASSUME MaxMessagesAssumption == MaxMessages \in Nat

Row == [ref: Ref, by: Attempt]
Kind == {"request", "job"}
Location == {"idle", "download", "delete", "deleting", "insert", "commit", "settle", "ended"}
JobStatus == {"none", "running", "completed", "failed"}

VARIABLES
    sheet,      \* the version that a download gets
    rows,       \* committed rows whose external_ref has the prefix of the sheet
    queue,      \* messages that wait for a worker
    jobs,       \* the JobRun of each attempt
    pc,         \* where each attempt is
    kind,       \* who runs it
    version,    \* what it has downloaded
    seen,       \* the rows in the snapshot of its DELETE
    gone,       \* the rows it has deleted, and locked, without a commit
    stored,     \* attempts that have committed (observed)
    overtaken   \* attempts during whose DELETE or INSERTs another committed (observed)

vars == <<sheet, rows, queue, jobs, pc, kind, version, seen, gone, stored, overtaken>>

TypeOK ==
    /\ sheet \in Version
    /\ rows \in SUBSET Row
    /\ queue \in 0..MaxMessages
    /\ jobs \in [Attempt -> JobStatus]
    /\ pc \in [Attempt -> Location]
    /\ kind \in [Attempt -> Kind]
    /\ version \in [Attempt -> Version]
    /\ seen \in [Attempt -> SUBSET Row]
    /\ gone \in [Attempt -> SUBSET Row]
    /\ stored \in SUBSET Attempt
    /\ overtaken \in SUBSET Attempt

Init ==
    /\ sheet \in Version
    /\ rows = {} /\ queue = 0
    /\ jobs = [a \in Attempt |-> "none"]
    /\ pc = [a \in Attempt |-> "idle"]
    /\ kind = [a \in Attempt |-> "request"]
    /\ version = [a \in Attempt |-> sheet]
    /\ seen = [a \in Attempt |-> {}]
    /\ gone = [a \in Attempt |-> {}]
    /\ stored = {} /\ overtaken = {}

-----------------------------------------------------------------------------
Goto(a, l) == pc' = [pc EXCEPT ![a] = l]

Copy(a) == {[ref |-> r, by |-> a] : r \in Content[version[a]]}

\* The rows a transaction has inserted and not committed.
Added(a) == IF pc[a] = "commit" THEN Copy(a) ELSE {}

\* The users of the sheet edit it; the scheduler sends a message a day.
EditSheet ==
    /\ sheet' \in Version \ {sheet}
    /\ UNCHANGED <<rows, queue, jobs, pc, kind, version, seen, gone, stored, overtaken>>

Schedule ==
    /\ queue < MaxMessages /\ queue' = queue + 1
    /\ UNCHANGED <<sheet, rows, jobs, pc, kind, version, seen, gone, stored, overtaken>>

RequestSync(a) ==
    /\ pc[a] = "idle" /\ Goto(a, "download")
    /\ UNCHANGED <<sheet, rows, queue, jobs, kind, version, seen, gone, stored, overtaken>>

\* The actor receives a message and commits a JobRun that is running.
StartJob(a) ==
    /\ pc[a] = "idle" /\ Goto(a, "download")
    /\ queue > 0 /\ queue' = queue - 1
    /\ kind' = [kind EXCEPT ![a] = "job"]
    /\ jobs' = [jobs EXCEPT ![a] = "running"]
    /\ UNCHANGED <<sheet, rows, version, seen, gone, stored, overtaken>>

\* The attempt ends without a commit of rows, and releases what it has locked.  The
\* broker sends the message of a failed actor, or of a dead worker, again.
Abandon(a) ==
    /\ Goto(a, "ended")
    /\ seen' = [seen EXCEPT ![a] = {}] /\ gone' = [gone EXCEPT ![a] = {}]
    /\ queue' = IF kind[a] = "job" /\ queue < MaxMessages THEN queue + 1 ELSE queue
    /\ UNCHANGED <<sheet, rows, kind, version, stored, overtaken>>

Download(a) ==
    /\ pc[a] = "download" /\ Goto(a, "delete")
    /\ version' = [version EXCEPT ![a] = sheet]
    /\ UNCHANGED <<sheet, rows, queue, jobs, kind, seen, gone, stored, overtaken>>

\* The sheet cannot be downloaded or has no header; the actor says so in its JobRun.
DownloadFails(a) ==
    /\ pc[a] = "download" /\ Abandon(a)
    /\ jobs' = [jobs EXCEPT ![a] = IF kind[a] = "job" THEN "failed" ELSE @]

\* Mutant: the DELETE is limited to the rows that the new version has as well.
SeeOfSheet(a) ==
    /\ pc[a] = "delete" /\ Goto(a, "deleting")
    /\ seen' = [seen EXCEPT ![a] = {r \in rows : r.ref \in Content[version[a]]}]
    /\ UNCHANGED <<sheet, rows, queue, jobs, kind, version, gone, stored, overtaken>>

\* The DELETE begins with a snapshot of what is committed.
See(a) ==
    /\ pc[a] = "delete" /\ Goto(a, "deleting")
    /\ seen' = [seen EXCEPT ![a] = rows]
    /\ UNCHANGED <<sheet, rows, queue, jobs, kind, version, gone, stored, overtaken>>

Locked(a, r) == \E b \in Attempt \ {a} : r \in gone[b]

\* It waits for rows that another transaction deletes, and skips those that are gone.
Delete(a) ==
    /\ pc[a] = "deleting" /\ Goto(a, "insert")
    /\ \A r \in seen[a] : ~Locked(a, r)
    /\ gone' = [gone EXCEPT ![a] = seen[a] \cap rows]
    /\ UNCHANGED <<sheet, rows, queue, jobs, kind, version, seen, stored, overtaken>>

SameRef(r) == {s \in rows \cup UNION {Added(b) : b \in Attempt} : s.ref = r.ref}

\* The flush of the INSERTs.  A row of the same external_ref, committed or not, that
\* the transaction has not deleted itself makes it wait or fail.
Insert(a) ==
    /\ pc[a] = "insert" /\ Goto(a, "commit")
    /\ \A r \in Copy(a) : SameRef(r) \subseteq gone[a]
    /\ UNCHANGED <<sheet, rows, queue, jobs, kind, version, seen, gone, stored, overtaken>>

\* Mutant: the handler rolls back, but says that the job was done.
FlushFailsAsDone(a) ==
    /\ pc[a] \in {"deleting", "insert"} /\ Abandon(a)
    /\ jobs' = [jobs EXCEPT ![a] = IF kind[a] = "job" THEN "completed" ELSE @]

\* A statement fails: external_ref is there already, a value is too long, a
\* deadlock.  The handler reads the JobRun in the transaction that has failed, which
\* raises again, so the JobRun stays as it is.
FlushFails(a) ==
    /\ pc[a] \in {"deleting", "insert"} /\ Abandon(a)
    /\ UNCHANGED jobs

InTransaction(a) == pc[a] \in {"deleting", "insert", "commit"}

\* Mutant: the deletes are committed first, and the copy in a second transaction.
CommitInParts(a) ==
    /\ pc[a] = "commit"
    /\ \E part \in SUBSET Copy(a) : rows' = (rows \ gone[a]) \cup part
    /\ gone' = [gone EXCEPT ![a] = {}] /\ seen' = [seen EXCEPT ![a] = {}]
    /\ stored' = stored \cup {a}
    /\ overtaken' = overtaken \cup {b \in Attempt \ {a} : InTransaction(b)}
    /\ Goto(a, IF kind[a] = "job" THEN "settle" ELSE "ended")
    /\ UNCHANGED <<sheet, queue, jobs, kind, version>>

Commit(a) ==
    /\ pc[a] = "commit"
    /\ rows' = (rows \ gone[a]) \cup Copy(a)
    /\ gone' = [gone EXCEPT ![a] = {}] /\ seen' = [seen EXCEPT ![a] = {}]
    /\ stored' = stored \cup {a}
    /\ overtaken' = overtaken \cup {b \in Attempt \ {a} : InTransaction(b)}
    /\ Goto(a, IF kind[a] = "job" THEN "settle" ELSE "ended")
    /\ UNCHANGED <<sheet, queue, jobs, kind, version>>

\* The actor's second commit.
SettleJob(a) ==
    /\ pc[a] = "settle" /\ Goto(a, "ended")
    /\ jobs' = [jobs EXCEPT ![a] = "completed"]
    /\ UNCHANGED <<sheet, rows, queue, kind, version, seen, gone, stored, overtaken>>

\* The process dies, at the latest before the broker knows that the job is done.
Die(a) ==
    /\ pc[a] \notin {"idle", "ended"} /\ Abandon(a)
    /\ UNCHANGED jobs

Step(a) ==
    \/ RequestSync(a) \/ StartJob(a) \/ Download(a) \/ DownloadFails(a)
    \/ See(a) \/ Delete(a) \/ Insert(a) \/ FlushFails(a) \/ Commit(a) \/ SettleJob(a)
    \/ Die(a)

Next == EditSheet \/ Schedule \/ \E a \in Attempt : Step(a)

Spec == Init /\ [][Next]_vars

-----------------------------------------------------------------------------
\* Readers of the deliveries (the calculation, the timeline) see the sheet that a
\* sync has copied as a whole or not at all, even when syncs overlap.
SheetsAreWhole ==
    \A a \in Attempt : LET mine == {r \in rows : r.by = a} IN mine \in {{}, Copy(a)}

\* No delivery is there twice, whatever the order in which transactions delete,
\* insert and commit.
DeliveriesAreUnique == \A r, s \in rows : r.ref = s.ref => r = s

\* A sync replaces what was there (docs/inbound-sync.md), mixtures of earlier syncs
\* too; rows of two sheets stay only if another sync has committed during it.
SheetsMixOnlyWhenOvertaken ==
    \A r, s \in rows : r.by = s.by \/ {r.by, s.by} \cap overtaken # {}

\* A JobRun that has ended tells whether its rows were stored.
JobTellsTruth ==
    \A a \in Attempt : /\ jobs[a] = "completed" => a \in stored
                       /\ jobs[a] = "failed" => a \notin stored

===============================================================================
