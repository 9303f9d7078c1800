--------------------------- MODULE ExportJobsProofs ---------------------------
(***************************************************************************)
(* No export is forgotten, for any number of requests, workers and retries,*)
(* however often workers die; and ExportJobs implements ExportPromise.     *)
(***************************************************************************)
EXTENDS ExportJobs, TLAPS

\* Only a request sends, retries and downloads; only a worker acknowledges.
Roles ==
    \A p \in Process :
        /\ p \in Worker => pc[p] \notin {"enqueue", "retry_commit", "count", "stream"}
        /\ p \notin Worker => pc[p] # "ack"

\* Messages and busy processes name JobRuns that exist; a message is acknowledged
\* when its JobRun has ended.
KnownRuns ==
    /\ \A r \in queue : runs[r] # "unused"
    /\ \A p \in Process :
         /\ pc[p] \in AtWork => local[p].run \in Run /\ runs[local[p].run] # "unused"
         /\ pc[p] = "ack" => local[p].run \in Run /\ runs[local[p].run] \in Outcome

\* Before the dispatch there is nothing to retry.
JobExists ==
    job.status = "absent" =>
        /\ \A r \in Run : runs[r] = "unused"
        /\ \A p \in Process : pc[p] # "retry_commit"

IInv == TypeOK /\ Roles /\ KnownRuns /\ JobExists

-----------------------------------------------------------------------------
LEMMA NothingIsLocal == Nothing \in Local
BY DEF Nothing, Local, NoJob, Job, JobStatus, Outcome

LEMMA InitEstablishes == Init => IInv
<1> SUFFICES ASSUME Init PROVE IInv
  OBVIOUS
<1>1. TypeOK
  BY NothingIsLocal, BoundAssumption
  DEF Init, TypeOK, NoJob, Job, JobStatus, RunStatus, Location
<1>2. Roles /\ KnownRuns /\ JobExists
  BY DEF Init, Roles, KnownRuns, JobExists, AtWork
<1> QED
  BY <1>1, <1>2 DEF IInv

\* A step that leaves the tables alone.
Quiet == UNCHANGED <<job, runs>>

LEMMA DonePreserves ==
    ASSUME IInv, NEW p \in Process, Done(p), Quiet, lock' \in Process \cup {NoProcess},
           queue' \in SUBSET Run, \A r \in queue' : runs[r] # "unused",
           UNCHANGED artifact, spoiled' \in SUBSET Process, crashes' \in 0..MaxCrashes,
           UNCHANGED served
    PROVE  IInv'
<1> USE DEF IInv, Done, Goto, Quiet
<1>1. local' \in [Process -> Local]
  BY NothingIsLocal DEF TypeOK
<1>2. TypeOK'
  BY <1>1 DEF TypeOK, Location
<1>3. Roles'
  BY DEF Roles, TypeOK
<1>4. KnownRuns'
  BY DEF KnownRuns, TypeOK, AtWork
<1>5. JobExists'
  BY DEF JobExists, TypeOK
<1> QED
  BY <1>2, <1>3, <1>4, <1>5

\* A process that goes on with the JobRun it has.
LEMMA WorkPreserves ==
    ASSUME IInv, NEW p \in Process, pc[p] \in AtWork, NEW l \in {"load", "flush", "build",
           "write", "commit"}, Goto(p, l), Quiet, UNCHANGED <<crashes, served>>,
           queue' \in SUBSET Run, \A r \in queue' : runs[r] # "unused",
           local' \in [Process -> Local], local'[p].run = local[p].run,
           \A o \in Process \ {p} : local'[o] = local[o],
           lock' \in Process \cup {NoProcess}, spoiled' \in SUBSET Process,
           artifact' \in {"none", "partial", "whole"}
    PROVE  IInv'
<1> USE DEF IInv, Goto, Quiet
<1>1. TypeOK'
  BY DEF TypeOK, Location
<1>2. Roles'
  BY DEF Roles, TypeOK
<1>3. KnownRuns'
  BY DEF KnownRuns, TypeOK, AtWork
<1>4. JobExists'
  BY DEF JobExists, TypeOK
<1> QED
  BY <1>1, <1>2, <1>3, <1>4

LEMMA SubmitPreserves ==
    ASSUME IInv, NEW w \in Web, NEW r \in Run, NEW async \in BOOLEAN, NEW row \in Job,
           row.status # "absent", NEW next \in {"load", "flush"},
           Submit(w, r, async, row, next), runs[r] = "unused",
           UNCHANGED <<queue, artifact, spoiled, lock, crashes>>, served' \in Nat
    PROVE  IInv'
<1> USE ProcessAssumption DEF IInv, Submit, Goto, Process, InitialStatus
<1>1. local' \in [Process -> Local]
  BY DEF TypeOK, Local, Outcome
<1>2. TypeOK'
  BY <1>1 DEF TypeOK, Location, RunStatus
<1>3. Roles'
  BY DEF Roles, TypeOK
<1>4. runs'[r] \in {"queued", "running"} /\ \A q \in Run \ {r} : runs'[q] = runs[q]
  BY DEF TypeOK
<1>5. local'[w].run = r /\ pc'[w] # "ack"
      /\ \A p \in Process \ {w} : local'[p] = local[p] /\ pc'[p] = pc[p]
  BY DEF TypeOK
<1>6. KnownRuns'
  <2>1. \A q \in queue' : runs'[q] # "unused"
    BY <1>4 DEF KnownRuns, TypeOK
  <2>2. ASSUME NEW p \in Process, pc'[p] \in AtWork
        PROVE  local'[p].run \in Run /\ runs'[local'[p].run] # "unused"
    BY <1>4, <1>5, <2>2 DEF KnownRuns
  <2>3. ASSUME NEW p \in Process, pc'[p] = "ack"
        PROVE  local'[p].run \in Run /\ runs'[local'[p].run] \in Outcome
    <3>1. p # w /\ local[p].run \in Run /\ runs[local[p].run] \in Outcome
      BY <1>5, <2>3 DEF KnownRuns
    <3>2. CASE local[p].run # r
      BY <1>4, <1>5, <3>1, <3>2
    <3>3. CASE local[p].run = r
      BY <3>1, <3>3 DEF Outcome
    <3> QED
      BY <3>2, <3>3
  <2> QED
    BY <2>1, <2>2, <2>3 DEF KnownRuns
<1>7. JobExists'
  BY DEF JobExists, TypeOK
<1> QED
  BY <1>2, <1>3, <1>6, <1>7

\* What a retry commits.
LEMMA RetriedIsJob ==
    ASSUME TypeOK, NEW w \in Process, NEW async \in BOOLEAN, job.status # "absent"
    PROVE  LET row == [job EXCEPT
                 !.status = Merged(InitialStatus(async), local[w].snap.status, @),
                 !.key = Merged(FALSE, local[w].snap.key, @),
                 !.error = Merged(FALSE, local[w].snap.error, @),
                 !.downloads = Merged(0, local[w].snap.downloads, @)]
           IN  /\ row \in Job /\ row.status # "absent"
               /\ row.status = job.status \/ row.status \in {"queued", "running"}
<1>1. Merged(InitialStatus(async), local[w].snap.status, job.status)
        \in {"queued", "running", job.status}
  BY DEF Merged, InitialStatus
<1>2. /\ Merged(FALSE, local[w].snap.key, job.key) \in BOOLEAN
      /\ Merged(FALSE, local[w].snap.error, job.error) \in BOOLEAN
      /\ Merged(0, local[w].snap.downloads, job.downloads) \in Nat
  BY DEF Merged, TypeOK, Job
<1> QED
  BY <1>1, <1>2 DEF TypeOK, Job, JobStatus

\* What the end of an attempt commits.
LEMMA SettledIsJob ==
    ASSUME TypeOK, NEW p \in Process
    PROVE  [job EXCEPT
              !.status = local[p].outcome,
              !.error = local[p].outcome = "failed" \/ Merged(FALSE, local[p].snap.error, @),
              !.key = IF local[p].outcome = "completed" THEN Merged(TRUE, local[p].snap.key, @)
                      ELSE @]
           \in Job
<1>1. /\ local[p].outcome \in JobStatus
      /\ (local[p].outcome = "failed" \/ Merged(FALSE, local[p].snap.error, job.error))
           \in BOOLEAN
      /\ (IF local[p].outcome = "completed" THEN Merged(TRUE, local[p].snap.key, job.key)
          ELSE job.key) \in BOOLEAN
  BY DEF TypeOK, Local, Job, Merged, Outcome, JobStatus
<1> QED
  BY <1>1 DEF TypeOK, Job

LEMMA RequestPreserves ==
    ASSUME IInv, NEW w \in Web, Request(w) \/ RetryCommit(w) \/ DownloadCount(w) \/ Stream(w)
    PROVE  IInv'
<1> USE ProcessAssumption DEF IInv, Process
<1>1. CASE Dispatch(w)
  <2>1. PICK async \in AsyncChoice, r \in Run :
          Submit(w, r, async, [NoJob EXCEPT !.status = InitialStatus(async)], "flush")
    BY <1>1 DEF Dispatch
  <2>2. async \in BOOLEAN /\ runs[r] = "unused"
    BY <1>1, AsyncChoiceAssumption DEF Dispatch, JobExists
  <2>3. /\ [NoJob EXCEPT !.status = InitialStatus(async)] \in Job
        /\ [NoJob EXCEPT !.status = InitialStatus(async)].status # "absent"
    BY DEF NoJob, Job, JobStatus, InitialStatus
  <2>4. UNCHANGED <<queue, artifact, spoiled, lock, crashes>> /\ served' \in Nat
    BY <1>1 DEF Dispatch, TypeOK
  <2> QED
    BY <2>1, <2>2, <2>3, <2>4, SubmitPreserves
<1>2. CASE RetryLoad(w)
  <2> USE <1>2 DEF RetryLoad, Goto
  <2>1. local' \in [Process -> Local]
    BY DEF TypeOK, Local
  <2>2. TypeOK'
    BY <2>1 DEF TypeOK, Location
  <2>3. Roles' /\ KnownRuns'
    BY DEF Roles, KnownRuns, TypeOK, AtWork
  <2>4. job.status # "absent"
    BY DEF JobExists, Outcome
  <2> QED
    BY <2>2, <2>3, <2>4 DEF JobExists
<1>3. CASE RetryCommit(w)
  <2> DEFINE row(async) == [job EXCEPT
               !.status = Merged(InitialStatus(async), local[w].snap.status, @),
               !.key = Merged(FALSE, local[w].snap.key, @),
               !.error = Merged(FALSE, local[w].snap.error, @),
               !.downloads = Merged(0, local[w].snap.downloads, @)]
  <2>1. PICK async \in AsyncChoice, r \in Run :
          runs[r] = "unused" /\ Submit(w, r, async, row(async), "load")
    BY <1>3 DEF RetryCommit
  <2>2. async \in BOOLEAN /\ job.status # "absent"
    BY <1>3, AsyncChoiceAssumption DEF RetryCommit, JobExists
  <2>3. row(async) \in Job /\ row(async).status # "absent"
    BY <2>2, RetriedIsJob
  <2>4. UNCHANGED <<queue, artifact, spoiled, lock, crashes>> /\ served' \in Nat
    BY <1>3 DEF RetryCommit
  <2> HIDE DEF row
  <2> QED
    BY <2>1, <2>2, <2>3, <2>4, SubmitPreserves
<1>4. CASE DownloadLoad(w)
  <2> USE <1>4 DEF DownloadLoad, Goto
  <2>1. local' \in [Process -> Local]
    BY DEF TypeOK, Local
  <2>2. TypeOK'
    BY <2>1 DEF TypeOK, Location
  <2>3. Roles' /\ KnownRuns' /\ JobExists'
    BY DEF Roles, KnownRuns, JobExists, TypeOK, AtWork
  <2> QED
    BY <2>2, <2>3
<1>5. CASE DownloadCount(w)
  <2> USE <1>5 DEF DownloadCount, Goto
  <2>1. local[w].snap.downloads + 1 \in Nat /\ served + 1 \in Nat
    BY DEF TypeOK, Local, Job
  <2>2. job' \in Job /\ job'.status = job.status
    BY <2>1 DEF TypeOK, Job
  <2>3. TypeOK'
    BY <2>1, <2>2 DEF TypeOK, Location
  <2>4. Roles' /\ KnownRuns' /\ JobExists'
    BY <2>2 DEF Roles, KnownRuns, JobExists, TypeOK, AtWork
  <2> QED
    BY <2>3, <2>4
<1>6. CASE Stream(w)
  BY <1>6, DonePreserves DEF Stream, Quiet, KnownRuns, TypeOK
<1> QED
  BY <1>1, <1>2, <1>3, <1>4, <1>5, <1>6 DEF Request

LEMMA ProcessingPreserves ==
    ASSUME IInv, NEW p \in Process, Processing(p)
    PROVE  IInv'
<1> USE DEF IInv, Quiet
<1>1. CASE Load(p)
  <2> USE <1>1 DEF Load
  <2>1. local' \in [Process -> Local] /\ local'[p].run = local[p].run
    BY DEF TypeOK, Local
  <2>2. pc[p] \in AtWork /\ \A o \in Process \ {p} : local'[o] = local[o]
    BY DEF TypeOK, AtWork
  <2> QED
    BY <2>1, <2>2, WorkPreserves DEF TypeOK, KnownRuns
<1>2. CASE Flush(p)
  <2>1. lock' \in Process \cup {NoProcess} /\ pc[p] \in AtWork
    BY <1>2 DEF Flush, TypeOK, AtWork
  <2> QED
    BY <1>2, <2>1, WorkPreserves DEF Flush, TypeOK, KnownRuns
<1>3. ASSUME NEW outcome \in Outcome, Finish(p, outcome), pc[p] \in AtWork,
             spoiled' \in SUBSET Process, artifact' \in {"none", "partial", "whole"},
             UNCHANGED <<job, runs, queue, lock, crashes, served>>
      PROVE  IInv'
  <2> USE <1>3 DEF Finish
  <2>1. local' \in [Process -> Local] /\ local'[p].run = local[p].run
    BY DEF TypeOK, Local
  <2>2. \A o \in Process \ {p} : local'[o] = local[o]
    BY DEF TypeOK
  <2> QED
    BY <2>1, <2>2, WorkPreserves DEF TypeOK, KnownRuns
<1>4. CASE BuildFails(p)
  BY <1>4, <1>3 DEF BuildFails, Outcome, AtWork, TypeOK
<1>5. CASE StartWriting(p)
  <2>1. spoiled' \in SUBSET Process /\ pc[p] \in AtWork
    BY <1>5 DEF StartWriting, TypeOK, Writing, AtWork
  <2> QED
    BY <1>5, <2>1, WorkPreserves DEF StartWriting, TypeOK, KnownRuns
<1>6. CASE WriteFails(p)
  BY <1>6, <1>3 DEF WriteFails, Outcome, AtWork, TypeOK
<1>7. CASE FinishWriting(p)
  <2>1. spoiled' \in SUBSET Process /\ artifact' \in {"none", "partial", "whole"}
        /\ pc[p] \in AtWork
    BY <1>7 DEF FinishWriting, TypeOK, AtWork
  <2> QED
    BY <1>7, <2>1, <1>3 DEF FinishWriting, Outcome
<1>8. CASE Settle(p)
  <2> DEFINE r == local[p].run
             outcome == local[p].outcome
  <2>1. r \in Run /\ runs[r] # "unused" /\ outcome \in Outcome
    BY <1>8 DEF Settle, KnownRuns, AtWork, TypeOK, Local
  <2>2. job' \in Job /\ job'.status = outcome
    BY <1>8, SettledIsJob DEF Settle, TypeOK, Job
  <2>3. runs' = [runs EXCEPT ![r] = outcome] /\ lock' \in Process \cup {NoProcess}
        /\ UNCHANGED <<queue, artifact, spoiled, crashes, served>>
    BY <1>8 DEF Settle, Released, TypeOK
  <2>4. \/ p \in Worker /\ pc' = [pc EXCEPT ![p] = "ack"] /\ local' = local
        \/ p \notin Worker /\ pc' = [pc EXCEPT ![p] = "idle"]
             /\ local' = [local EXCEPT ![p] = Nothing]
    BY <1>8 DEF Settle, Goto, Done
  <2>5. local' \in [Process -> Local] /\ pc' \in [Process -> Location]
    BY <2>4, NothingIsLocal DEF TypeOK, Location
  <2>6. TypeOK'
    BY <2>1, <2>2, <2>3, <2>5 DEF TypeOK, RunStatus, Outcome
  <2>7. Roles'
    BY <2>4 DEF Roles, TypeOK
  <2>8. runs'[r] \in Outcome /\ \A q \in Run \ {r} : runs'[q] = runs[q]
    BY <2>1, <2>3 DEF TypeOK
  <2>9. KnownRuns'
    BY <2>1, <2>3, <2>4, <2>8 DEF KnownRuns, TypeOK, AtWork, Outcome
  <2>10. JobExists'
    BY <2>1, <2>2 DEF JobExists, Outcome
  <2> QED
    BY <2>6, <2>7, <2>9, <2>10
<1> QED
  BY <1>1, <1>2, <1>4, <1>5, <1>6, <1>7, <1>8 DEF Processing

LEMMA NextPreserves == IInv /\ [Next]_vars => IInv'
<1> SUFFICES ASSUME IInv, [Next]_vars PROVE IInv'
  OBVIOUS
<1> USE ProcessAssumption DEF Process
<1>1. ASSUME NEW w \in Web, Enqueue(w) PROVE IInv'
  <2> USE <1>1 DEF Enqueue
  <2>1. local[w].run \in Run /\ runs[local[w].run] # "unused" /\ pc[w] \in AtWork
    BY DEF IInv, KnownRuns, AtWork
  <2>2. queue' \in SUBSET Run /\ \A r \in queue' : runs[r] # "unused"
    BY <2>1 DEF IInv, TypeOK, KnownRuns
  <2>3. CASE Done(w)
    BY <2>2, <2>3, DonePreserves DEF IInv, TypeOK, Quiet
  <2>4. CASE Goto(w, local[w].next) /\ UNCHANGED local
    <3>1. local[w].next \in {"load", "flush"}
      BY DEF IInv, TypeOK, Local
    <3> QED
      BY <2>1, <2>2, <2>4, <3>1, WorkPreserves DEF IInv, TypeOK, Quiet
  <2> QED
    BY <2>3, <2>4
<1>2. ASSUME NEW k \in Worker, Receive(k) PROVE IInv'
  <2> USE <1>2 DEF Receive, IInv, Goto
  <2>1. PICK r \in queue : queue' = queue \ {r} /\ local' = [local EXCEPT ![k].run = r]
    OBVIOUS
  <2>2. local' \in [Process -> Local] /\ local'[k].run = r
        /\ \A o \in Process \ {k} : local'[o] = local[o]
    BY <2>1 DEF TypeOK, Local
  <2>3. TypeOK'
    BY <2>1, <2>2 DEF TypeOK, Location
  <2>4. Roles'
    BY DEF Roles, TypeOK
  <2>5. KnownRuns'
    BY <2>1, <2>2 DEF KnownRuns, TypeOK, AtWork
  <2>6. JobExists'
    BY DEF JobExists, TypeOK
  <2> QED
    BY <2>3, <2>4, <2>5, <2>6
<1>3. ASSUME NEW k \in Worker, Ack(k) PROVE IInv'
  BY <1>3, DonePreserves DEF Ack, IInv, TypeOK, KnownRuns, Quiet
<1>4. ASSUME NEW p \in Process, Crash(p) PROVE IInv'
  <2> USE <1>4 DEF Crash
  <2>1. p \in Worker => pc[p] \in AtWork \cup {"ack"}
    BY DEF IInv, TypeOK, Roles, AtWork, Location
  <2>2. queue' \in SUBSET Run /\ \A r \in queue' : runs[r] # "unused"
    BY <2>1 DEF IInv, TypeOK, KnownRuns, Outcome
  <2>3. crashes' \in 0..MaxCrashes /\ lock' \in Process \cup {NoProcess}
        /\ spoiled' \in SUBSET Process
    BY BoundAssumption DEF IInv, TypeOK, Released
  <2> QED
    BY <2>2, <2>3, DonePreserves DEF Quiet
<1>5. CASE UNCHANGED vars
  BY <1>5 DEF vars, IInv, TypeOK, Roles, KnownRuns, JobExists, AtWork
<1> QED
  BY <1>1, <1>2, <1>3, <1>4, <1>5, RequestPreserves, ProcessingPreserves
  DEF Next, WebStep, WorkerStep

THEOREM Safety == Spec => []IInv
BY InitEstablishes, NextPreserves, PTL DEF Spec

\* The tables, the queue and the memory of the processes keep their types.
THEOREM TypeCorrect == Spec => []TypeOK
BY Safety, PTL DEF IInv

-----------------------------------------------------------------------------
(***************************************************************************)
(* No JobRun is lost.                                                      *)
(***************************************************************************)
\* A process may drop only a JobRun that has ended or is in the queue again.
LEMMA HandedOn ==
    ASSUME NoRunIsLost, NEW p \in Process, UNCHANGED runs, queue \subseteq queue',
           \A o \in Process \ {p} : pc'[o] = pc[o] /\ local'[o] = local[o],
           pc[p] \in AtWork =>
               \/ local[p].run \in queue'
               \/ pc'[p] \in AtWork /\ local'[p].run = local[p].run
    PROVE  NoRunIsLost'
<1> SUFFICES ASSUME NEW r \in Unfinished' PROVE r \in queue' \/ InHand(r)'
  BY DEF NoRunIsLost
<1>1. r \in Unfinished
  BY DEF Unfinished
<1>2. CASE r \in queue
  BY <1>2
<1>3. CASE InHand(r)
  <2>1. PICK o \in Process : local[o].run = r /\ pc[o] \in AtWork
    BY <1>3 DEF InHand
  <2> QED
    BY <2>1 DEF InHand
<1> QED
  BY <1>1, <1>2, <1>3 DEF NoRunIsLost

\* A dispatch or retry has its new JobRun in hand.
LEMMA SubmittedIsInHand ==
    ASSUME TypeOK, NoRunIsLost, NEW w \in Process, NEW r \in Run, NEW async \in BOOLEAN,
           NEW row, NEW next \in {"load", "flush"}, Submit(w, r, async, row, next),
           UNCHANGED queue, pc[w] \notin AtWork
    PROVE  NoRunIsLost'
<1> USE DEF Submit, Goto
<1> SUFFICES ASSUME NEW q \in Unfinished' PROVE q \in queue' \/ InHand(q)'
  BY DEF NoRunIsLost
<1>1. local'[w].run = r /\ pc'[w] \in AtWork
  BY DEF TypeOK, AtWork
<1>2. CASE q = r
  BY <1>1, <1>2 DEF InHand
<1>3. CASE q # r
  <2>1. q \in Unfinished
    BY <1>3 DEF Unfinished, TypeOK
  <2>2. \A o \in Process \ {w} : pc'[o] = pc[o] /\ local'[o] = local[o]
    BY DEF TypeOK
  <2> QED
    BY <2>1, <2>2 DEF NoRunIsLost, InHand
<1> QED
  BY <1>2, <1>3

LEMMA NextLosesNoRun ==
    ASSUME Mortal \subseteq Worker, IInv, NoRunIsLost, [Next]_vars
    PROVE  NoRunIsLost'
<1> USE ProcessAssumption DEF Process, IInv
<1>0. \A p \in Process : \A l, m :
        /\ pc' = [pc EXCEPT ![p] = l]
        /\ local' = local \/ local' = [local EXCEPT ![p] = m]
        => \A o \in Process \ {p} : pc'[o] = pc[o] /\ local'[o] = local[o]
  BY DEF TypeOK
<1>1. ASSUME NEW w \in Web, Dispatch(w) PROVE NoRunIsLost'
  BY <1>1, SubmittedIsInHand, AsyncChoiceAssumption DEF Dispatch, AtWork
<1>2. ASSUME NEW w \in Web, RetryCommit(w) PROVE NoRunIsLost'
  BY <1>2, SubmittedIsInHand, AsyncChoiceAssumption DEF RetryCommit, AtWork
<1>3. ASSUME NEW w \in Web, RetryLoad(w) \/ DownloadLoad(w) \/ DownloadCount(w) \/ Stream(w)
      PROVE  NoRunIsLost'
  BY <1>3, <1>0, HandedOn
  DEF RetryLoad, DownloadLoad, DownloadCount, Stream, Done, Goto, AtWork
<1>4. ASSUME NEW w \in Web, Enqueue(w) PROVE NoRunIsLost'
  <2> USE <1>4 DEF Enqueue, Done, Goto
  <2>1. queue \subseteq queue' /\ UNCHANGED runs
        /\ \A o \in Process \ {w} : pc'[o] = pc[o] /\ local'[o] = local[o]
    BY <1>0
  <2>2. \/ local[w].run \in queue'
        \/ pc'[w] \in AtWork /\ local'[w].run = local[w].run
    BY DEF TypeOK, Local, AtWork
  <2> QED
    BY <2>1, <2>2, HandedOn
<1>5. ASSUME NEW k \in Worker, Receive(k) PROVE NoRunIsLost'
  <2> USE <1>5 DEF Receive, Goto
  <2>1. PICK r \in queue : queue' = queue \ {r} /\ local' = [local EXCEPT ![k].run = r]
    OBVIOUS
  <2>2. local'[k].run = r /\ pc'[k] \in AtWork /\ runs' = runs
        /\ \A o \in Process \ {k} : pc'[o] = pc[o] /\ local'[o] = local[o]
    BY <2>1 DEF TypeOK, AtWork, Local
  <2>3. pc[k] \notin AtWork
    BY DEF AtWork
  <2> QED
    BY <2>1, <2>2, <2>3 DEF NoRunIsLost, Unfinished, InHand
<1>6. ASSUME NEW k \in Worker, Ack(k) PROVE NoRunIsLost'
  BY <1>6, <1>0, HandedOn DEF Ack, Done, Goto, AtWork
<1>7. ASSUME NEW p \in Process, Processing(p) PROVE NoRunIsLost'
  <2>1. CASE Settle(p)
    <3>1. local[p].run \in Run /\ runs' = [runs EXCEPT ![local[p].run] = local[p].outcome]
          /\ local[p].outcome \in Outcome /\ UNCHANGED queue
      BY <2>1 DEF Settle, KnownRuns, AtWork, TypeOK, Local
    <3>2. \A o \in Process \ {p} : pc'[o] = pc[o] /\ local'[o] = local[o]
      BY <2>1, <1>0 DEF Settle, Done, Goto
    <3>3. local[p].run \notin Unfinished'
      BY <3>1 DEF Unfinished, TypeOK, Outcome
    <3>4. Unfinished' \subseteq Unfinished
      BY <3>1, <3>3 DEF Unfinished, TypeOK
    <3> QED
      BY <3>1, <3>2, <3>3, <3>4 DEF NoRunIsLost, InHand
  <2>2. CASE Load(p) \/ BuildFails(p) \/ WriteFails(p) \/ FinishWriting(p)
    <3>1. UNCHANGED <<runs, queue>> /\ pc'[p] \in AtWork /\ local'[p].run = local[p].run
          /\ \A o \in Process \ {p} : pc'[o] = pc[o] /\ local'[o] = local[o]
      BY <2>2 DEF Load, BuildFails, WriteFails, FinishWriting, Finish, Goto, TypeOK, AtWork,
                  Local
    <3> QED
      BY <3>1, HandedOn
  <2>3. CASE Flush(p) \/ StartWriting(p)
    <3>1. UNCHANGED <<runs, queue, local>> /\ pc'[p] \in AtWork
          /\ \A o \in Process \ {p} : pc'[o] = pc[o]
      BY <2>3 DEF Flush, StartWriting, Goto, TypeOK, AtWork
    <3> QED
      BY <3>1, HandedOn
  <2> QED
    BY <1>7, <2>1, <2>2, <2>3 DEF Processing
<1>8. ASSUME NEW p \in Process, Crash(p) PROVE NoRunIsLost'
  <2>1. queue \subseteq queue' /\ local[p].run \in queue' /\ UNCHANGED runs
        /\ \A o \in Process \ {p} : pc'[o] = pc[o] /\ local'[o] = local[o]
    BY <1>8, <1>0 DEF Crash, Done, Goto
  <2> QED
    BY <2>1, HandedOn
<1>9. CASE UNCHANGED vars
  BY <1>9 DEF vars, NoRunIsLost, Unfinished, InHand
<1> QED
  BY <1>1, <1>2, <1>3, <1>4, <1>5, <1>6, <1>7, <1>8, <1>9
  DEF Next, Request, WebStep, WorkerStep

\* While only workers die, every unfinished JobRun is in the queue or in the hands
\* of a process (_enqueue_export_job, process_export_job, the broker's redelivery).
THEOREM WorkIsNotLost == Mortal \subseteq Worker /\ Spec => []NoRunIsLost
<1>1. Init => NoRunIsLost
  BY DEF Init, NoRunIsLost, Unfinished
<1>2. ASSUME Mortal \subseteq Worker
      PROVE  IInv /\ NoRunIsLost /\ [Next]_vars => NoRunIsLost'
  BY <1>2, NextLosesNoRun
<1>3. ASSUME Mortal \subseteq Worker
      PROVE  Spec => []NoRunIsLost
  BY <1>1, <1>2, <1>3, Safety, PTL DEF Spec
<1> QED
  BY <1>3

-----------------------------------------------------------------------------
(***************************************************************************)
(* ExportJobs implements ExportPromise.                                    *)
(***************************************************************************)
\* A step that ends no JobRun and leaves the job's status alone cannot be seen.
LEMMA Unseen ==
    ASSUME UNCHANGED runs, job'.status = job.status
    PROVE  UNCHANGED Promise!vars
BY DEF Promise!vars, Seen, Unfinished, Ended

\* A dispatch or a retry is a request.
LEMMA SubmitAsks ==
    ASSUME TypeOK, NEW w \in Process, NEW r \in Run, runs[r] = "unused",
           NEW async \in BOOLEAN, NEW row, NEW next,
           Submit(w, r, async, row, next), row.status # "absent",
           \/ row.status \in {"queued", "running"}
           \/ job.status # "absent" /\ row.status = job.status
    PROVE  Promise!Ask(r)
<1>1. runs' = [runs EXCEPT ![r] = InitialStatus(async)] /\ job' = row
  BY DEF Submit
<1>2. InitialStatus(async) \in {"queued", "running"}
  BY DEF InitialStatus
<1>3. r \notin Unfinished \cup Ended
  BY DEF Unfinished, Ended, Outcome
<1>4. Unfinished' = Unfinished \cup {r}
  BY <1>1, <1>2 DEF Unfinished, TypeOK
<1>5. Ended' = Ended
  BY <1>1, <1>2 DEF Ended, TypeOK, Outcome
<1>6. Seen' = "pending" \/ (Seen # "none" /\ Seen' = Seen)
  <2>1. CASE row.status \in {"queued", "running"}
    <3>1. job'.status \in {"queued", "running"}
      BY <1>1, <2>1
    <3>2. Seen' = "pending"
      BY <3>1 DEF Seen, Outcome
    <3> QED
      BY <3>2
  <2>2. CASE job.status # "absent" /\ row.status = job.status
    <3>1. Seen # "none"
      BY <2>2 DEF Seen, Outcome
    <3>2. job'.status = job.status
      BY <1>1, <2>2
    <3>3. Seen' = Seen
      BY <3>2 DEF Seen, Outcome
    <3> QED
      BY <3>1, <3>3
  <2> QED
    BY <2>1, <2>2
<1> QED
  BY <1>3, <1>4, <1>5, <1>6 DEF Promise!Ask

LEMMA SettleSettles ==
    ASSUME IInv, NEW p \in Process, Settle(p)
    PROVE  local[p].run \in Run /\ Promise!Settle(local[p].run)
<1> DEFINE r == local[p].run
           outcome == local[p].outcome
<1>1. r \in Run /\ runs[r] # "unused" /\ outcome \in Outcome
  BY DEF Settle, IInv, KnownRuns, AtWork, TypeOK, Local
<1>2. runs' = [runs EXCEPT ![r] = outcome] /\ job'.status = outcome
  BY DEF Settle, IInv, TypeOK, Job
<1> HIDE DEF r, outcome
<1>3. r \in Unfinished \cup Ended
  BY <1>1 DEF Unfinished, Ended, IInv, TypeOK, RunStatus, Outcome
<1>4. Unfinished' = Unfinished \ {r}
  BY <1>1, <1>2 DEF Unfinished, IInv, TypeOK, Outcome
<1>5. Ended' = Ended \cup {r}
  BY <1>1, <1>2 DEF Ended, IInv, TypeOK, Outcome
<1>6. Seen' \in {"completed", "failed"}
  BY <1>1, <1>2 DEF Seen, Outcome
<1>7. Promise!Settle(r)
  BY <1>3, <1>4, <1>5, <1>6 DEF Promise!Settle
<1> QED
  BY <1>1, <1>7 DEF r

LEMMA StepsAreKept ==
    ASSUME IInv, [Next]_vars
    PROVE  [Promise!Next]_(Promise!vars)
<1> USE ProcessAssumption DEF Process, IInv
<1>1. ASSUME NEW w \in Web, Dispatch(w)
      PROVE  \E r \in Run : Promise!Ask(r)
  <2>1. PICK async \in AsyncChoice, r \in Run :
          Submit(w, r, async, [NoJob EXCEPT !.status = InitialStatus(async)], "flush")
    BY <1>1 DEF Dispatch
  <2>2. async \in BOOLEAN /\ runs[r] = "unused"
    BY <1>1, AsyncChoiceAssumption DEF Dispatch, JobExists
  <2>3. [NoJob EXCEPT !.status = InitialStatus(async)].status \in {"queued", "running"}
    BY DEF NoJob, InitialStatus
  <2> QED
    BY <2>1, <2>2, <2>3, SubmitAsks
<1>2. ASSUME NEW w \in Web, RetryCommit(w)
      PROVE  \E r \in Run : Promise!Ask(r)
  <2> DEFINE row(async) == [job EXCEPT
               !.status = Merged(InitialStatus(async), local[w].snap.status, @),
               !.key = Merged(FALSE, local[w].snap.key, @),
               !.error = Merged(FALSE, local[w].snap.error, @),
               !.downloads = Merged(0, local[w].snap.downloads, @)]
  <2>1. PICK async \in AsyncChoice, r \in Run :
          runs[r] = "unused" /\ Submit(w, r, async, row(async), "load")
    BY <1>2 DEF RetryCommit
  <2>2. async \in BOOLEAN /\ job.status # "absent"
    BY <1>2, AsyncChoiceAssumption DEF RetryCommit, JobExists
  <2>3. /\ row(async).status # "absent"
        /\ row(async).status = job.status \/ row(async).status \in {"queued", "running"}
    BY <2>2, RetriedIsJob
  <2> HIDE DEF row
  <2> QED
    BY <2>1, <2>2, <2>3, SubmitAsks
<1>3. ASSUME NEW p \in Process, Settle(p)
      PROVE  \E r \in Run : Promise!Settle(r)
  BY <1>3, SettleSettles
<1>4. ASSUME NEW p \in Process,
             \/ RetryLoad(p) \/ DownloadLoad(p) \/ DownloadCount(p) \/ Stream(p) \/ Enqueue(p)
             \/ Receive(p) \/ Ack(p) \/ Crash(p) \/ Load(p) \/ Flush(p) \/ BuildFails(p)
             \/ StartWriting(p) \/ WriteFails(p) \/ FinishWriting(p)
      PROVE  UNCHANGED Promise!vars
  <2>1. CASE DownloadCount(p)
    BY <2>1, Unseen DEF DownloadCount, TypeOK, Job
  <2>2. CASE ~DownloadCount(p)
    BY <1>4, <2>2, Unseen DEF RetryLoad, DownloadLoad, Stream, Enqueue, Receive, Ack, Crash, Load,
                        Flush, BuildFails, StartWriting, WriteFails, FinishWriting
  <2> QED
    BY <2>1, <2>2
<1>5. CASE UNCHANGED vars
  BY <1>5, Unseen DEF vars
<1>6. CASE Next
  BY <1>1, <1>2, <1>3, <1>4, <1>6
  DEF Next, Request, WebStep, WorkerStep, Processing, Promise!Next
<1> QED
  BY <1>5, <1>6

\* modules/exports/service.py keeps the promise of ExportPromise: an export is
\* pending only while an attempt is open, and only an attempt ends it.
THEOREM Implements == Spec => KeepsPromise
<1>1. Init => Promise!Init
  BY DEF Init, NoJob, Promise!Init, Seen, Unfinished, Ended, Outcome
<1>2. IInv /\ [Next]_vars => [Promise!Next]_(Promise!vars)
  BY StepsAreKept
<1> QED
  BY <1>1, <1>2, Safety, PTL DEF Spec, KeepsPromise, Promise!Spec

-----------------------------------------------------------------------------
(***************************************************************************)
(* The file of a background export.                                        *)
(***************************************************************************)
\* An export that is never worked on by the request that asks for it: its row is
\* queued when the attempt loads it, so that the flush takes the row lock.
NeverRunning ==
    job.status # "running" /\ \A p \in Process : local[p].snap.status # "running"

\* The attempts hold the row lock while they write, one at a time.
OneWriter ==
    /\ \A p \in Process : pc[p] \in {"build", "write", "commit"} => lock = p
    /\ spoiled = {}

\* What has just been written is written to its end.
WholeWhenWritten ==
    \A p \in Process : pc[p] = "commit" /\ local[p].outcome = "completed" => artifact = "whole"

FileInv == NeverRunning /\ OneWriter /\ WholeWhenWritten /\ QuietArtifactIsWhole

\* Somebody will still end an attempt.
Open == queue # {} \/ \E r \in Run : InHand(r)

LEMMA InitFile == Init => FileInv
BY ProcessAssumption
DEF Init, FileInv, NeverRunning, OneWriter, WholeWhenWritten, QuietArtifactIsWhole, Nothing, NoJob

\* A process at work has an attempt open.
LEMMA AtWorkIsOpen ==
    ASSUME IInv, NEW p \in Process, pc[p] \in AtWork
    PROVE  Open
BY DEF IInv, KnownRuns, Open, InHand

\* A step of one process that neither writes nor settles.
LEMMA BesideFile ==
    ASSUME IInv, FileInv, NEW p \in Process, NEW l \in Location, Goto(p, l),
           pc[p] \notin {"build", "write", "commit"}, l \notin {"build", "write", "commit"},
           local' \in [Process -> Local], \A o \in Process \ {p} : local'[o] = local[o],
           local'[p].snap.status # "running",
           job' \in Job, job'.status # "running", UNCHANGED <<artifact, spoiled, lock>>,
           Open' \/ (~Open /\ job'.status = job.status)
    PROVE  FileInv'
<1> USE DEF IInv, FileInv, Goto
<1>1. NeverRunning'
  BY DEF NeverRunning
<1>2. pc'[p] = l /\ \A o \in Process \ {p} : pc'[o] = pc[o]
  BY DEF TypeOK
<1>3. OneWriter' /\ WholeWhenWritten'
  BY <1>2 DEF OneWriter, WholeWhenWritten
<1>4. QuietArtifactIsWhole'
  BY DEF QuietArtifactIsWhole, Open
<1> QED
  BY <1>1, <1>3, <1>4

\* A dispatch or retry has opened an attempt.
LEMMA SubmitLeavesFile ==
    ASSUME IInv, IInv', FileInv, NEW w \in Process, NEW r \in Run, NEW row \in Job,
           row.status # "running", NEW next \in {"load", "flush"},
           Submit(w, r, TRUE, row, next), pc[w] \in {"idle", "retry_commit"},
           UNCHANGED <<artifact, spoiled, lock>>
    PROVE  FileInv'
<1> USE DEF Submit
<1>1. local' \in [Process -> Local] /\ job' \in Job
  BY DEF IInv, TypeOK
<1>2. local'[w].snap.status # "running" /\ \A o \in Process \ {w} : local'[o] = local[o]
  BY DEF IInv, TypeOK
<1>3. pc'[w] \in AtWork
  BY DEF IInv, TypeOK, Goto, AtWork
<1>4. Open'
  BY <1>3 DEF IInv, KnownRuns, Open, InHand
<1> QED
  BY <1>1, <1>2, <1>4, BesideFile DEF Location

\* A process keeps its attempt open, or puts it back into the queue.
LEMMA StaysOpen ==
    ASSUME NEW p \in Process, queue \subseteq queue',
           \A o \in Process \ {p} : pc'[o] = pc[o] /\ local'[o] = local[o],
           pc[p] \in AtWork =>
               \/ queue' # {}
               \/ pc'[p] \in AtWork /\ local'[p].run = local[p].run
    PROVE  Open => Open'
<1> SUFFICES ASSUME queue = {}, queue' = {}, NEW r \in Run, InHand(r)
             PROVE  InHand(r)'
  BY DEF Open
<1>1. PICK o \in Process : local[o].run = r /\ pc[o] \in AtWork
  BY DEF InHand
<1> QED
  BY <1>1 DEF InHand

LEMMA RequestLeavesFile ==
    ASSUME AsyncChoice \subseteq {TRUE}, IInv, IInv', FileInv, NEW w \in Web,
           Request(w) \/ RetryCommit(w) \/ Enqueue(w) \/ DownloadCount(w) \/ Stream(w)
    PROVE  FileInv'
<1> USE DEF IInv, Goto
<1>0. w \in Process /\ local' \in [Process -> Local] /\ job' \in Job /\ NoJob.status # "running"
      /\ Nothing.snap = NoJob /\ local[w].next \in {"load", "flush"}
  BY DEF Process, TypeOK, NoJob, Nothing, Local
<1>1. CASE Dispatch(w)
  <2>1. PICK r \in Run : Submit(w, r, TRUE, [NoJob EXCEPT !.status = InitialStatus(TRUE)], "flush")
    BY <1>1 DEF Dispatch
  <2>2. /\ [NoJob EXCEPT !.status = InitialStatus(TRUE)] \in Job
        /\ [NoJob EXCEPT !.status = InitialStatus(TRUE)].status # "running"
    BY DEF NoJob, Job, JobStatus, InitialStatus
  <2> QED
    BY <1>0, <1>1, <2>1, <2>2, SubmitLeavesFile DEF Dispatch
<1>2. CASE RetryCommit(w)
  <2> DEFINE row == [job EXCEPT
               !.status = Merged(InitialStatus(TRUE), local[w].snap.status, @),
               !.key = Merged(FALSE, local[w].snap.key, @),
               !.error = Merged(FALSE, local[w].snap.error, @),
               !.downloads = Merged(0, local[w].snap.downloads, @)]
  <2>1. PICK r \in Run : Submit(w, r, TRUE, row, "load")
    BY <1>2 DEF RetryCommit
  <2>2. job.status # "absent"
    BY <1>2 DEF RetryCommit, JobExists, Process
  <2>3. row \in Job
    BY <1>0, <2>2, RetriedIsJob
  <2>4. row.status = Merged(InitialStatus(TRUE), local[w].snap.status, job.status)
    BY DEF TypeOK, Job
  <2>5. row.status # "running"
    BY <2>4 DEF Merged, InitialStatus, FileInv, NeverRunning
  <2> HIDE DEF row
  <2> QED
    BY <1>0, <1>2, <2>1, <2>3, <2>5, SubmitLeavesFile DEF RetryCommit
<1>3. CASE RetryLoad(w) \/ DownloadLoad(w)
  <2>1. local' = [local EXCEPT ![w].snap = job] /\ pc[w] = "idle"
        /\ UNCHANGED <<job, queue, artifact, spoiled, lock>>
    BY <1>3 DEF RetryLoad, DownloadLoad
  <2>2. local'[w].snap = job /\ \A o \in Process \ {w} : local'[o] = local[o]
    BY <1>0, <2>1 DEF TypeOK, Local
  <2>3. PICK l \in {"retry_commit", "count"} : Goto(w, l)
    BY <1>3 DEF RetryLoad, DownloadLoad
  <2>4. \A o \in Process \ {w} : pc'[o] = pc[o]
    BY <2>3 DEF TypeOK
  <2>5. Open => Open'
    BY <1>0, <2>1, <2>2, <2>4, StaysOpen DEF AtWork
  <2> QED
    BY <1>0, <2>1, <2>2, <2>3, <2>5, BesideFile DEF FileInv, NeverRunning, Location
<1>4. CASE Enqueue(w)
  <2>1. PICK l \in {"idle", "load", "flush"} : Goto(w, l) /\ (l = "idle" => queue' # {})
    BY <1>0, <1>4 DEF Enqueue, Done
  <2>2. /\ \A o \in Process \ {w} : pc'[o] = pc[o] /\ local'[o] = local[o]
        /\ local'[w] = local[w] \/ local'[w] = Nothing
        /\ l # "idle" => local' = local
    BY <1>4, <2>1 DEF Enqueue, Done, TypeOK
  <2>3. queue \subseteq queue' /\ UNCHANGED <<job, artifact, spoiled, lock>> /\ pc[w] = "enqueue"
    BY <1>4 DEF Enqueue
  <2>4. Open => Open'
    <3>1. l # "idle" => pc'[w] \in AtWork
      BY <1>0, <2>1 DEF TypeOK, AtWork
    <3> QED
      BY <1>0, <2>1, <2>2, <2>3, <3>1, StaysOpen
  <2>5. local'[w].snap.status # "running"
    BY <1>0, <2>2 DEF FileInv, NeverRunning
  <2> QED
    BY <1>0, <2>1, <2>2, <2>3, <2>4, <2>5, BesideFile DEF Location, FileInv, NeverRunning
<1>5. CASE DownloadCount(w) \/ Stream(w)
  <2>1. PICK l \in {"stream", "idle"} : Goto(w, l)
    BY <1>5 DEF DownloadCount, Stream, Done
  <2>2. /\ \A o \in Process \ {w} : pc'[o] = pc[o] /\ local'[o] = local[o]
        /\ local'[w] = local[w] \/ local'[w] = Nothing
    BY <1>5, <2>1 DEF DownloadCount, Stream, Done, TypeOK
  <2>3. UNCHANGED <<queue, artifact, spoiled, lock>> /\ pc[w] \in {"count", "stream"}
        /\ job'.status = job.status
    BY <1>5 DEF DownloadCount, Stream, TypeOK, Job
  <2>4. Open => Open'
    BY <1>0, <2>2, <2>3, StaysOpen DEF AtWork
  <2>5. local'[w].snap.status # "running"
    BY <1>0, <2>2 DEF FileInv, NeverRunning
  <2> QED
    BY <1>0, <2>1, <2>2, <2>3, <2>4, <2>5, BesideFile DEF Location, FileInv, NeverRunning
<1> QED
  BY <1>1, <1>2, <1>3, <1>4, <1>5 DEF Request

LEMMA WorkLeavesFile ==
    ASSUME IInv, FileInv, NEW p \in Process, Processing(p)
    PROVE  FileInv'
<1> USE DEF IInv, FileInv, Goto
<1>1. CASE Load(p)
  <2> USE <1>1 DEF Load
  <2>1. local' \in [Process -> Local] /\ local'[p] = [local[p] EXCEPT !.snap = job]
        /\ \A o \in Process \ {p} : local'[o] = local[o]
    BY DEF TypeOK, Local
  <2>2. local'[p].snap = job /\ local'[p].run = local[p].run
    BY <2>1 DEF TypeOK, Local
  <2>3. pc'[p] \in AtWork /\ \A o \in Process \ {p} : pc'[o] = pc[o]
    BY DEF TypeOK, AtWork
  <2>4. Open => Open'
    BY <2>1, <2>2, <2>3, StaysOpen
  <2>5. pc[p] \in AtWork
    BY DEF AtWork
  <2> QED
    BY <2>1, <2>2, <2>4, <2>5, AtWorkIsOpen, BesideFile DEF Location, NeverRunning, TypeOK
<1>2. CASE Flush(p)
  <2> USE <1>2 DEF Flush
  <2>1. lock = NoProcess /\ lock' = p
    BY DEF NeverRunning
  <2>2. pc'[p] = "build" /\ \A o \in Process \ {p} : pc'[o] = pc[o]
    BY DEF TypeOK
  <2>3. \A o \in Process : pc[o] \notin {"build", "write", "commit"}
    BY <2>1, ProcessAssumption DEF OneWriter
  <2>4. Open => Open'
    BY <2>2, StaysOpen DEF AtWork
  <2>5. Open
    BY AtWorkIsOpen DEF AtWork
  <2> QED
    BY <2>1, <2>2, <2>3, <2>4, <2>5
    DEF NeverRunning, OneWriter, WholeWhenWritten, QuietArtifactIsWhole, Open
<1>3. ASSUME pc[p] \in {"build", "write"}, pc' = [pc EXCEPT ![p] = "write"] \/ pc' = [pc EXCEPT ![p] = "commit"],
             local' = local \/ \E o \in Outcome : local' = [local EXCEPT ![p].outcome = o],
             pc'[p] = "commit" /\ local'[p].outcome = "completed" => artifact' = "whole",
             spoiled' = {}, UNCHANGED <<job, queue, lock>>
      PROVE  FileInv'
  <2>1. pc'[p] \in {"write", "commit"} /\ \A o \in Process \ {p} : pc'[o] = pc[o]
    BY <1>3 DEF TypeOK
  <2>2. /\ local'[p].run = local[p].run /\ local'[p].snap = local[p].snap
        /\ \A o \in Process \ {p} : local'[o] = local[o]
    BY <1>3 DEF TypeOK, Local
  <2>3. lock = p /\ \A o \in Process \ {p} : pc[o] \notin {"build", "write", "commit"}
    BY <1>3 DEF OneWriter
  <2>4. Open => Open'
    BY <1>3, <2>1, <2>2, StaysOpen DEF AtWork
  <2>5. Open
    BY <1>3, AtWorkIsOpen DEF AtWork
  <2> QED
    BY <1>3, <2>1, <2>2, <2>3, <2>4, <2>5
    DEF NeverRunning, OneWriter, WholeWhenWritten, QuietArtifactIsWhole, Open
<1>4. CASE BuildFails(p) \/ WriteFails(p)
  <2>1. local' = [local EXCEPT ![p].outcome = "failed"] /\ local'[p].outcome = "failed"
    BY <1>4 DEF BuildFails, WriteFails, Finish, TypeOK, Local
  <2> QED
    BY <1>4, <2>1, <1>3 DEF BuildFails, WriteFails, Finish, Outcome, OneWriter
<1>5. CASE StartWriting(p)
  <2>1. Writing = {}
    BY <1>5 DEF StartWriting, Writing, OneWriter
  <2>2. pc'[p] = "write"
    BY <1>5 DEF StartWriting, TypeOK
  <2> QED
    BY <1>5, <2>1, <2>2, <1>3 DEF StartWriting, OneWriter
<1>6. CASE FinishWriting(p)
  <2>1. spoiled' = {} /\ artifact' = "whole"
    BY <1>6 DEF FinishWriting, OneWriter
  <2> QED
    BY <1>6, <2>1, <1>3 DEF FinishWriting, Finish, Outcome
<1>7. CASE Settle(p)
  <2>1. lock = p /\ \A o \in Process \ {p} : pc[o] \notin {"build", "write", "commit"}
    BY <1>7 DEF Settle, OneWriter
  <2>2. lock' = NoProcess /\ UNCHANGED <<queue, artifact, spoiled>>
    BY <1>7, <2>1 DEF Settle, Released
  <2>3. job'.status = local[p].outcome
    BY <1>7 DEF Settle, TypeOK, Job
  <2>4. pc'[p] \in {"ack", "idle"} /\ \A o \in Process \ {p} : pc'[o] = pc[o]
    BY <1>7 DEF Settle, Done, TypeOK
  <2>5. \A o \in Process : local'[o] = local[o] \/ local'[o] = Nothing
    BY <1>7 DEF Settle, Done, TypeOK
  <2>6. NeverRunning'
    BY <2>3, <2>5 DEF NeverRunning, Nothing, NoJob, TypeOK, Local, Outcome
  <2>7. OneWriter' /\ WholeWhenWritten'
    BY <2>1, <2>2, <2>4 DEF OneWriter, WholeWhenWritten
  <2>8. local[p].outcome = "completed" => artifact' = "whole"
    BY <1>7, <2>2 DEF Settle, WholeWhenWritten
  <2>9. QuietArtifactIsWhole'
    BY <2>3, <2>8 DEF QuietArtifactIsWhole
  <2> QED
    BY <2>6, <2>7, <2>9
<1> QED
  BY <1>1, <1>2, <1>4, <1>5, <1>6, <1>7 DEF Processing

LEMMA WorkerLeavesFile ==
    ASSUME IInv, FileInv, NEW k \in Worker, Receive(k) \/ Ack(k)
    PROVE  FileInv'
<1> USE DEF IInv, Goto
<1>0. k \in Process /\ Nothing.snap.status # "running" /\ Nothing \in Local
  BY NothingIsLocal DEF Process, NoJob, Nothing
<1>1. CASE Receive(k)
  <2> USE <1>1 DEF Receive
  <2>1. PICK r \in queue : local' = [local EXCEPT ![k].run = r]
    OBVIOUS
  <2>2. local' \in [Process -> Local] /\ local'[k].run = r /\ local'[k].snap = local[k].snap
        /\ \A o \in Process \ {k} : local'[o] = local[o]
    BY <1>0, <2>1 DEF TypeOK, Local
  <2>3. pc'[k] \in AtWork
    BY <1>0 DEF TypeOK, AtWork
  <2>4. r \in Run
    BY DEF TypeOK
  <2>5. Open'
    BY <1>0, <2>2, <2>3, <2>4 DEF Open, InHand
  <2> QED
    BY <1>0, <2>2, <2>5, BesideFile DEF Location, FileInv, NeverRunning, TypeOK
<1>2. CASE Ack(k)
  <2> USE <1>2 DEF Ack, Done
  <2>1. local' \in [Process -> Local] /\ local'[k] = Nothing
        /\ \A o \in Process \ {k} : local'[o] = local[o] /\ pc'[o] = pc[o]
    BY <1>0 DEF TypeOK
  <2>2. Open => Open'
    BY <1>0, <2>1, StaysOpen DEF AtWork
  <2> QED
    BY <1>0, <2>1, <2>2, BesideFile DEF Location, FileInv, NeverRunning, TypeOK
<1> QED
  BY <1>1, <1>2

\* A worker that dies while it writes leaves part of a file, and its message.
LEMMA CrashLeavesFile ==
    ASSUME Mortal \subseteq Worker, IInv, FileInv, NEW p \in Process, Crash(p)
    PROVE  FileInv'
<1> USE DEF FileInv, Crash, Done, Goto
<1>1. queue' # {} /\ UNCHANGED <<job, artifact>> /\ spoiled' = {}
  BY DEF OneWriter
<1>2. pc'[p] = "idle" /\ \A o \in Process \ {p} : pc'[o] = pc[o] /\ local'[o] = local[o]
  BY DEF IInv, TypeOK
<1>3. \A o \in Process : local'[o] = local[o] \/ local'[o] = Nothing
  BY DEF IInv, TypeOK
<1>4. NeverRunning'
  BY <1>1, <1>3 DEF NeverRunning, Nothing, NoJob
<1>5. OneWriter' /\ WholeWhenWritten'
  BY <1>1, <1>2 DEF OneWriter, WholeWhenWritten, Released
<1> QED
  BY <1>1, <1>4, <1>5 DEF QuietArtifactIsWhole

\* An export that is always left to the workers (its type is one of
\* ASYNC_ONLY_EXPORT_TYPES, or it has rows enough) is a file written to its end once it
\* is completed and all attempts are over, however often workers die, messages are
\* delivered again and retries overlap.
THEOREM BackgroundFilesAreWhole ==
    Mortal \subseteq Worker /\ AsyncChoice \subseteq {TRUE} /\ Spec => []QuietArtifactIsWhole
<1>1. ASSUME Mortal \subseteq Worker, AsyncChoice \subseteq {TRUE}
      PROVE  IInv /\ IInv' /\ FileInv /\ [Next]_vars => FileInv'
  <2> SUFFICES ASSUME IInv, IInv', FileInv, [Next]_vars PROVE FileInv'
    OBVIOUS
  <2>1. CASE UNCHANGED vars
    BY <2>1 DEF vars, FileInv, NeverRunning, OneWriter, WholeWhenWritten, QuietArtifactIsWhole,
                InHand
  <2> QED
    BY <1>1, <2>1, RequestLeavesFile, WorkLeavesFile, WorkerLeavesFile, CrashLeavesFile
    DEF Next, WebStep, WorkerStep, Process
<1>2. ASSUME Mortal \subseteq Worker, AsyncChoice \subseteq {TRUE}
      PROVE  Spec => []QuietArtifactIsWhole
  BY <1>1, <1>2, InitFile, Safety, PTL DEF Spec, FileInv
<1> QED
  BY <1>2
===============================================================================
