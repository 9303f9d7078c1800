------------------------------ MODULE ExportJobs ------------------------------
(***************************************************************************)
(* One export (ExportJob), the JobRuns made for it, the queue "exports",   *)
(* and the artifact under EXPORT_ROOT: modules/exports/service.py with the *)
(* retry of modules/admin/service.py and the actor of worker_app/tasks.py. *)
(*                                                                         *)
(* Web requests dispatch, retry and download; a request that cannot or     *)
(* need not enqueue processes the export itself, exactly as a worker does. *)
(* As in UploadLifecycle a session works on the row it has loaded, its     *)
(* first UPDATE takes the row lock and its commit releases it.             *)
(***************************************************************************)
EXTENDS Integers

CONSTANTS
    Web,          \* API requests in progress
    Worker,       \* worker threads of the queue
    Run,          \* JobRun ids: one for the dispatch and one for each retry
    NoRun,
    NoProcess,    \* nobody holds the row lock
    AsyncChoice,  \* what _should_run_async may answer
    Mortal,       \* the processes that may die
    MaxCrashes,   \* how many times they do
    MaxDownloads  \* how many downloads begin between two retries

Process == Web \cup Worker

ASSUME ProcessAssumption == Web \cap Worker = {} /\ NoProcess \notin Process
ASSUME RunAssumption == NoRun \notin Run
ASSUME AsyncChoiceAssumption == AsyncChoice \subseteq BOOLEAN
ASSUME MortalAssumption == Mortal \subseteq Process
ASSUME BoundAssumption == MaxCrashes \in Nat /\ MaxDownloads \in Nat

JobStatus == {"absent", "queued", "running", "completed", "failed"}
RunStatus == {"unused", "queued", "running", "completed", "failed"}
Outcome == {"completed", "failed"}

\* The columns of export_jobs that decide anything: `key` and `error` say whether
\* storage_key and error_message are set.
Job == [status: JobStatus, key: BOOLEAN, error: BOOLEAN, downloads: Nat]
NoJob == [status |-> "absent", key |-> FALSE, error |-> FALSE, downloads |-> 0]

Location == {"idle", "enqueue", "retry_commit", "load", "flush", "build", "write",
             "commit", "ack", "count", "stream"}

\* What a process has in memory: its JobRun, the row its session has loaded, where
\* it goes on when the message could not be sent, and how its work came out.
Local == [run: Run \cup {NoRun}, snap: Job, next: {"load", "flush"}, outcome: Outcome]
Nothing == [run |-> NoRun, snap |-> NoJob, next |-> "load", outcome |-> "failed"]

VARIABLES
    job,        \* committed ExportJob row
    runs,       \* committed JobRun rows, by status
    queue,      \* messages waiting, named by their JobRun
    artifact,   \* the file at the storage key, which every attempt writes
    spoiled,    \* writers whose file another writer has touched
    lock,       \* the process holding the lock of the ExportJob row
    pc,         \* where each process is
    local,      \* what each process has in memory
    crashes,    \* processes that have died so far
    served      \* downloads handed out since the last retry (observed, not stored)

vars == <<job, runs, queue, artifact, spoiled, lock, pc, local, crashes, served>>

TypeOK ==
    /\ job \in Job
    /\ runs \in [Run -> RunStatus]
    /\ queue \in SUBSET Run
    /\ artifact \in {"none", "partial", "whole"}
    /\ spoiled \in SUBSET Process
    /\ lock \in Process \cup {NoProcess}
    /\ pc \in [Process -> Location]
    /\ local \in [Process -> Local]
    /\ crashes \in 0..MaxCrashes
    /\ served \in Nat

Init ==
    /\ job = NoJob
    /\ runs = [r \in Run |-> "unused"]
    /\ queue = {} /\ artifact = "none" /\ spoiled = {}
    /\ lock = NoProcess
    /\ pc = [p \in Process |-> "idle"]
    /\ local = [p \in Process |-> Nothing]
    /\ crashes = 0 /\ served = 0

-----------------------------------------------------------------------------
Goto(p, l) == pc' = [pc EXCEPT ![p] = l]

Done(p) ==
    /\ Goto(p, "idle")
    /\ local' = [local EXCEPT ![p] = Nothing]

\* The UPDATE names a column only if its value is not the one that was loaded.
Merged(new, loaded, current) == IF new # loaded THEN new ELSE current

InitialStatus(async) == IF async THEN "queued" ELSE "running"

\* The commit of a dispatch or retry with its new JobRun r.
Submit(w, r, async, row, next) ==
    /\ job' = row
    /\ runs' = [runs EXCEPT ![r] = InitialStatus(async)]
    /\ local' = [local EXCEPT ![w] = [run |-> r, snap |-> row, next |-> next,
                                      outcome |-> "failed"]]
    /\ Goto(w, IF async THEN "enqueue" ELSE next)

\* _dispatch_export_job.
Dispatch(w) ==
    /\ pc[w] = "idle" /\ job.status = "absent"
    /\ \E async \in AsyncChoice, r \in Run :
         Submit(w, r, async, [NoJob EXCEPT !.status = InitialStatus(async)], "flush")
    /\ UNCHANGED <<queue, artifact, spoiled, lock, crashes, served>>

\* retry_admin_job finds a JobRun that may be retried; retry_export_job loads the job.
RetryLoad(w) ==
    /\ pc[w] = "idle"
    /\ \E r \in Run : runs[r] \in Outcome
    /\ local' = [local EXCEPT ![w].snap = job]
    /\ Goto(w, "retry_commit")
    /\ UNCHANGED <<job, runs, queue, artifact, spoiled, lock, crashes, served>>

\* Mutant: the retry reuses a JobRun that has ended instead of opening one.
RetryReusesRun(w) ==
    /\ pc[w] = "retry_commit" /\ lock = NoProcess
    /\ \E async \in AsyncChoice, r \in Run :
         /\ runs[r] \in Outcome
         /\ job' = [job EXCEPT !.status = InitialStatus(async), !.key = FALSE,
                               !.error = FALSE, !.downloads = 0]
         /\ local' = [local EXCEPT ![w].run = r]
         /\ Goto(w, IF async THEN "enqueue" ELSE "load")
    /\ served' = 0
    /\ UNCHANGED <<runs, queue, artifact, spoiled, lock, crashes>>

\* retry_export_job: the row is reset and a new JobRun created in one transaction.
RetryCommit(w) ==
    LET loaded == local[w].snap IN
    /\ pc[w] = "retry_commit" /\ lock = NoProcess
    /\ \E async \in AsyncChoice, r \in Run :
         /\ runs[r] = "unused"
         /\ Submit(w, r, async,
                   [job EXCEPT !.status = Merged(InitialStatus(async), loaded.status, @),
                               !.key = Merged(FALSE, loaded.key, @),
                               !.error = Merged(FALSE, loaded.error, @),
                               !.downloads = Merged(0, loaded.downloads, @)],
                   "load")
    /\ served' = 0
    /\ UNCHANGED <<queue, artifact, spoiled, lock, crashes>>

\* Mutant: a send that failed counts as sent.
EnqueueAlwaysTrue(w) ==
    /\ pc[w] = "enqueue"
    /\ queue' \in {queue, queue \cup {local[w].run}}
    /\ Done(w)
    /\ UNCHANGED <<job, runs, artifact, spoiled, lock, crashes, served>>

\* _enqueue_export_job: the message is sent, or sending it raises and the request
\* does the work itself.  A send that raises may still have reached the broker.
Enqueue(w) ==
    /\ pc[w] = "enqueue"
    /\ \/ /\ queue' = queue \cup {local[w].run}
          /\ Done(w)
       \/ /\ queue' \in {queue, queue \cup {local[w].run}}
          /\ Goto(w, local[w].next)
          /\ UNCHANGED local
    /\ UNCHANGED <<job, runs, artifact, spoiled, lock, crashes, served>>

-----------------------------------------------------------------------------
(***************************************************************************)
(* process_export_job, by a worker or by the request itself.               *)
(***************************************************************************)
\* generate_export_job: a worker receives a message; it stays unacknowledged.
Receive(k) ==
    /\ pc[k] = "idle"
    /\ \E r \in queue :
         /\ queue' = queue \ {r}
         /\ local' = [local EXCEPT ![k].run = r]
    /\ Goto(k, "load")
    /\ UNCHANGED <<job, runs, artifact, spoiled, lock, crashes, served>>

\* Nothing is asked of the job's status.
Load(p) ==
    /\ pc[p] = "load"
    /\ local' = [local EXCEPT ![p].snap = job]
    /\ Goto(p, "flush")
    /\ UNCHANGED <<job, runs, queue, artifact, spoiled, lock, crashes, served>>

\* status := running, error_message := None.  The flush updates the row, and so
\* locks it, unless the session has loaded just these values.
Flush(p) ==
    /\ pc[p] = "flush"
    /\ IF local[p].snap.status = "running" /\ ~local[p].snap.error
       THEN UNCHANGED lock
       ELSE lock = NoProcess /\ lock' = p
    /\ Goto(p, "build")
    /\ UNCHANGED <<job, runs, queue, artifact, spoiled, local, crashes, served>>

Finish(p, outcome) ==
    /\ local' = [local EXCEPT ![p].outcome = outcome]
    /\ Goto(p, "commit")

\* _build_export_plan raises, or a CSV would need several sheets.
BuildFails(p) ==
    /\ pc[p] = "build"
    /\ Finish(p, "failed")
    /\ UNCHANGED <<job, runs, queue, artifact, spoiled, lock, crashes, served>>

Writing == {p \in Process : pc[p] = "write"}

\* _persist_export_artifact opens the file for writing, which empties it.
StartWriting(p) ==
    /\ pc[p] = "build"
    /\ artifact' = "partial"
    /\ spoiled' = IF Writing = {} THEN spoiled ELSE spoiled \cup Writing \cup {p}
    /\ Goto(p, "write")
    /\ UNCHANGED <<job, runs, queue, lock, local, crashes, served>>

WriteFails(p) ==
    /\ pc[p] = "write"
    /\ spoiled' = spoiled \ {p}
    /\ Finish(p, "failed")
    /\ UNCHANGED <<job, runs, queue, artifact, lock, crashes, served>>

FinishWriting(p) ==
    /\ pc[p] = "write"
    /\ artifact' = IF p \in spoiled THEN "partial" ELSE "whole"
    /\ spoiled' = spoiled \ {p}
    /\ Finish(p, "completed")
    /\ UNCHANGED <<job, runs, queue, lock, crashes, served>>

Released(p) == IF lock = p THEN NoProcess ELSE lock

\* Mutant: the except branch ends the JobRun but forgets the job.
SettleForgetsFailure(p) ==
    /\ pc[p] = "commit" /\ lock \in {NoProcess, p}
    /\ job' = IF local[p].outcome = "failed" THEN job
              ELSE [job EXCEPT !.status = "completed", !.key = TRUE, !.error = FALSE]
    /\ runs' = [runs EXCEPT ![local[p].run] = local[p].outcome]
    /\ lock' = Released(p)
    /\ Goto(p, IF p \in Worker THEN "ack" ELSE "idle")
    /\ local' = IF p \in Worker THEN local ELSE [local EXCEPT ![p] = Nothing]
    /\ UNCHANGED <<queue, artifact, spoiled, crashes, served>>

\* Mutant: a job whose artifact could not be written is completed all the same.
SettleIgnoresFailure(p) ==
    /\ pc[p] = "commit" /\ lock \in {NoProcess, p}
    /\ job' = [job EXCEPT !.status = "completed", !.key = TRUE]
    /\ runs' = [runs EXCEPT ![local[p].run] = "completed"]
    /\ lock' = Released(p)
    /\ Goto(p, IF p \in Worker THEN "ack" ELSE "idle")
    /\ local' = IF p \in Worker THEN local ELSE [local EXCEPT ![p] = Nothing]
    /\ UNCHANGED <<queue, artifact, spoiled, crashes, served>>

\* Job and JobRun end in one commit.
Settle(p) ==
    LET outcome == local[p].outcome
        loaded == local[p].snap
    IN
    /\ pc[p] = "commit" /\ lock \in {NoProcess, p}
    /\ job' = [job EXCEPT
         !.status = outcome,
         !.error = outcome = "failed" \/ Merged(FALSE, loaded.error, @),
         !.key = IF outcome = "completed" THEN Merged(TRUE, loaded.key, @) ELSE @]
    /\ runs' = [runs EXCEPT ![local[p].run] = outcome]
    /\ lock' = Released(p)
    /\ IF p \in Worker THEN Goto(p, "ack") /\ UNCHANGED local ELSE Done(p)
    /\ UNCHANGED <<queue, artifact, spoiled, crashes, served>>

\* The actor has returned: the broker forgets the message.
Ack(k) ==
    /\ pc[k] = "ack"
    /\ Done(k)
    /\ UNCHANGED <<job, runs, queue, artifact, spoiled, lock, crashes, served>>

-----------------------------------------------------------------------------
(***************************************************************************)
(* export_download_path and the response that streams the file.            *)
(***************************************************************************)
DownloadLoad(w) ==
    /\ pc[w] = "idle" /\ served < MaxDownloads
    /\ job.key /\ job.status = "completed" /\ artifact # "none"
    /\ local' = [local EXCEPT ![w].snap = job]
    /\ Goto(w, "count")
    /\ UNCHANGED <<job, runs, queue, artifact, spoiled, lock, crashes, served>>

\* download_count += 1, from the value that was loaded.
DownloadCount(w) ==
    /\ pc[w] = "count" /\ lock = NoProcess
    /\ job' = [job EXCEPT !.downloads = local[w].snap.downloads + 1]
    /\ served' = served + 1
    /\ Goto(w, "stream")
    /\ UNCHANGED <<runs, queue, artifact, spoiled, lock, local, crashes>>

Stream(w) ==
    /\ pc[w] = "stream"
    /\ Done(w)
    /\ UNCHANGED <<job, runs, queue, artifact, spoiled, lock, crashes, served>>

-----------------------------------------------------------------------------
\* A process dies: its transaction is rolled back.  The broker gives the message of
\* a dead worker to another one; nobody takes over the work of a dead request.
Crash(p) ==
    /\ p \in Mortal /\ pc[p] # "idle" /\ crashes < MaxCrashes
    /\ crashes' = crashes + 1
    /\ queue' = IF p \in Worker THEN queue \cup {local[p].run} ELSE queue
    /\ lock' = Released(p)
    /\ spoiled' = spoiled \ {p}
    /\ Done(p)
    /\ UNCHANGED <<job, runs, artifact, served>>

Request(w) == Dispatch(w) \/ RetryLoad(w) \/ DownloadLoad(w)

\* process_export_job.
Processing(p) ==
    \/ Load(p) \/ Flush(p) \/ BuildFails(p) \/ StartWriting(p) \/ WriteFails(p)
    \/ FinishWriting(p) \/ Settle(p)

WebStep(w) ==
    RetryCommit(w) \/ Enqueue(w) \/ DownloadCount(w) \/ Stream(w) \/ Processing(w)

WorkerStep(k) == Receive(k) \/ Processing(k) \/ Ack(k)

Next ==
    \/ \E w \in Web : Request(w) \/ WebStep(w)
    \/ \E k \in Worker : WorkerStep(k)
    \/ \E p \in Process : Crash(p)

Spec == Init /\ [][Next]_vars

\* Processes that have something to do do it; row locks are granted in the end
\* (strong fairness, other sessions may hold the lock in between).
FairSpec ==
    /\ Spec
    /\ \A w \in Web : SF_vars(WebStep(w))
    /\ \A k \in Worker : SF_vars(WorkerStep(k))

-----------------------------------------------------------------------------
Unfinished == {r \in Run : runs[r] \in {"queued", "running"}}
Ended == {r \in Run : runs[r] \in Outcome}

AtWork == {"enqueue", "load", "flush", "build", "write", "commit"}

\* A JobRun that a process has in hand and will end or send.
InHand(r) == \E p \in Process : local[p].run = r /\ pc[p] \in AtWork

\* Requests that are not killed leave no JobRun behind: an unfinished one is in the
\* queue or in the hands of a process.  (_enqueue_export_job falls back to the
\* request itself, the broker to another worker.)
NoRunIsLost == \A r \in Unfinished : r \in queue \/ InHand(r)

\* Once no attempt is left, a completed export is a file that was written to its
\* end: no failed, killed or repeated attempt has damaged it unnoticed.
QuietArtifactIsWhole ==
    job.status = "completed" /\ queue = {} /\ (\A r \in Run : ~InHand(r))
        => artifact = "whole"

\* Every export that is asked for ends (docs/exports.md: the worker takes the job
\* to completed or failed).
ExportEnds ==
    job.status \in {"queued", "running"} ~> job.status \in {"completed", "failed"}

\* What the requester sees.
Seen ==
    IF job.status = "absent" THEN "none"
    ELSE IF job.status \in Outcome THEN job.status ELSE "pending"

Promise ==
    INSTANCE ExportPromise WITH
        Attempt <- Run, status <- Seen, open <- Unfinished, settled <- Ended

\* The export service keeps the promise of ExportPromise.
KeepsPromise == Promise!Spec
=============================================================================
