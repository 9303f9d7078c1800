--------------------------- MODULE UploadLifecycle ---------------------------
(***************************************************************************)
(* The life of one uploaded file (UploadBatch + UploadFile) under several  *)
(* concurrent requests: modules/uploads/service.py.                        *)
(*                                                                         *)
(* Every request has a SQLAlchemy session of its own.  The session reads   *)
(* the batch row once and works on that copy until its next commit; its    *)
(* first flush (the one of _create_job_run) updates the row and so takes   *)
(* the row lock, which the commit releases.  The steps of a request are    *)
(* therefore its reads, its flushes and its commits, and other requests    *)
(* run in between.                                                         *)
(***************************************************************************)
EXTENDS FiniteSets

CONSTANTS
    Session,        \* requests (API threads and worker actors) in progress
    SourceType,     \* the source types users upload, a subset of AllTypes
    MappingQuality, \* what the mappings that are suggested or saved may be worth
    NoHint,         \* create_upload_file called without a source type
    NoSession,      \* nobody holds the row lock
    CanCrash        \* whether a process may die in the middle of a request

AllTypes == {"sales", "stock", "sku_costs", "management_report", "raw_report"}

Quality == {"empty", "partial", "flawed", "warned", "clean"}

ASSUME SourceTypeAssumption == SourceType \subseteq AllTypes /\ "raw_report" \in SourceType
ASSUME MappingQualityAssumption == MappingQuality \subseteq Quality /\ "empty" \in MappingQuality
ASSUME NoHintAssumption == NoHint \notin AllTypes
ASSUME NoSessionAssumption == NoSession \notin Session
ASSUME CanCrashAssumption == CanCrash \in BOOLEAN

(***************************************************************************)
(* The source-type registry, reduced to what the lifecycle asks of it.     *)
(* "sales" stands for every tabular type; "stock" differs from it by the   *)
(* adapter that warehouse files go through (as category_structure does).   *)
(***************************************************************************)
SupportsApply(t) == t \in {"sales", "stock"}
AutoApply(t) == t \in {"sku_costs", "management_report"}
HasRequiredFields(t) == t \in {"sales", "stock", "sku_costs"}
RowsAreChecked(t) == t \in {"sales", "stock"}

(***************************************************************************)
(* A mapping of columns to canonical fields, by what it makes of the file: *)
(* no field, not all required fields, rows with errors, rows with          *)
(* warnings, clean rows.  It was written for one source type.              *)
(***************************************************************************)
Mapping == [for: AllTypes, q: Quality]
NoMapping(t) == [for |-> t, q |-> "empty"]

\* What a mapping written for one type is worth under another one.
QualityFor(t, m) ==
    IF m.for = t \/ m.q = "empty" THEN m.q ELSE "partial"

MissingRequired(t, m) ==
    HasRequiredFields(t) /\ QualityFor(t, m) \in {"empty", "partial"}

Severity == {"warning", "error", "mapping_required", "unmatched"}
Blocking(found) == found \cap {"error", "mapping_required", "unmatched"} # {}

\* validate_frame: the severities it reports for the file under a mapping.
FrameIssues(t, m) ==
    CASE QualityFor(t, m) \in {"empty", "warned"} -> {"warning"}
      [] QualityFor(t, m) \in {"partial", "flawed"} /\ RowsAreChecked(t) -> {"error"}
      [] OTHER -> {}

Status == {"absent", "uploaded", "source_confirmation_required", "ready_to_review",
           "mapping_required", "validating", "issues_found", "ready_to_apply",
           "applied", "applied_with_warnings", "failed"}

\* The columns of upload_batches that the requests read and write; `logged` is
\* the last entry of status_payload.history, `blocking` the validation verdict.
Row == [status: Status, type: AllTypes, mapping: Mapping, blocking: BOOLEAN,
        logged: Status]

\* The rows an apply or an import wrote for the batch, and the table they are in, named
\* by the type they were written for (SalesFact, StockSnapshot, ...).
Generation == [by: Session, table: AllTypes, mapping: Mapping]

\* The memory of a request: what it validates for, the source type a parse was asked
\* for, the mapping it is about to save, the columns of the batch row its session has
\* loaded and still needs (it forgets them on commit) and the facts its open
\* transaction has deleted.
Goal == {"parse", "validate", "apply"}
Snapshot == [type: AllTypes, mapping: Mapping, status: Status]
Local == [goal: Goal, hint: AllTypes \cup {NoHint}, draft: Mapping, snap: Snapshot,
          victims: SUBSET Generation]

Holding == {"parsing", "validating", "applying", "apply_commit"}
Location == {"idle", "parse_load", "parse_flush", "save_commit", "validate_load",
             "validate_flush", "apply_load", "apply_flush"} \cup Holding

\* Whether a file has the layout that the warehouse adapter reads, and whether the
\* adapter finds a readable quantity below an article in it.
Layout == {"other", "rows", "blank"}

VARIABLES
    file,         \* what the file's content is recognised as; never changes
    row,          \* committed UploadBatch row
    issues,       \* committed UploadedRowIssue rows, by severity
    quality,      \* committed QualityIssue rows, by severity
    facts,        \* committed facts of this batch, by the apply that wrote them
    lock,         \* the session holding the row lock
    pc,           \* where each request is
    local         \* what each request has in memory, see Local

database == <<file, row, issues, quality, facts>>
vars == <<file, row, issues, quality, facts, lock, pc, local>>

TypeOK ==
    /\ file \in [detected: AllTypes, warehouse: Layout]
    /\ row \in Row
    /\ issues \in SUBSET Severity
    /\ quality \in SUBSET Severity
    /\ facts \in SUBSET Generation
    /\ lock \in Session \cup {NoSession}
    /\ pc \in [Session -> Location]
    /\ local \in [Session -> Local]

NoRow == [status |-> "absent", type |-> "raw_report", mapping |-> NoMapping("raw_report"),
          blocking |-> FALSE, logged |-> "absent"]

Fresh == [goal |-> "validate", hint |-> NoHint, draft |-> NoMapping("raw_report"),
          snap |-> [type |-> "raw_report", mapping |-> NoMapping("raw_report"),
                    status |-> "absent"], victims |-> {}]

Init ==
    /\ file \in {f \in [detected: SourceType, warehouse: Layout] :
                    f.warehouse # "other" => f.detected = "stock"}
    /\ row = NoRow
    /\ issues = {} /\ quality = {} /\ facts = {}
    /\ lock = NoSession
    /\ pc = [s \in Session |-> "idle"]
    /\ local = [s \in Session |-> Fresh]

-----------------------------------------------------------------------------
(***************************************************************************)
(* What every request shares.                                              *)
(***************************************************************************)
Goto(s, l) == pc' = [pc EXCEPT ![s] = l]

\* SQLAlchemy's UPDATE names only the columns whose value differs from the one
\* the session loaded: the others keep whatever the row holds by now.
Merged(new, loaded, current) == IF new # loaded THEN new ELSE current

\* Two mappings of the same worth may differ or not.
MergedMappings(new, loaded, current) ==
    IF new # loaded THEN {new} ELSE {new, current}

\* _transition_batch_status within a transaction that ends in `status`: the
\* transient statuses (parsing, applying) are flushed first and never committed,
\* so status and history are always written.
Transitioned(r, status) == [r EXCEPT !.status = status, !.logged = status]

\* Mutant: nothing is flushed before the work, so no row lock is taken.
FlushNothing(s, from, to) ==
    /\ pc[s] = from
    /\ lock' = s
    /\ Goto(s, to)
    /\ UNCHANGED <<database, local>>

\* Every flush that updates the batch row takes the same lock.
Flush(s, from, to) ==
    /\ pc[s] = from
    /\ lock = NoSession
    /\ lock' = s
    /\ Goto(s, to)
    /\ UNCHANGED <<database, local>>

\* The request goes on at `next`, or ends, with nothing loaded.
Continue(s, next, why) ==
    /\ Goto(s, next)
    /\ local' = [local EXCEPT ![s] = [Fresh EXCEPT !.goal = why]]

\* Commit, release the row lock and go on.
Commit(s, next, why) ==
    /\ lock' = NoSession
    /\ Continue(s, next, why)

\* Load the batch row and go on at `next`, or end if the row is not `fit`.
LoadIf(s, from, fit, next) ==
    /\ pc[s] = from
    /\ \/ /\ fit
          /\ local' = [local EXCEPT
                         ![s].snap = [@ EXCEPT !.type = row.type, !.mapping = row.mapping]]
          /\ Goto(s, next)
       \/ /\ ~fit
          /\ Continue(s, "idle", "validate")
    /\ UNCHANGED <<database, lock>>

-----------------------------------------------------------------------------
(***************************************************************************)
(* Requests.  None of them looks at the batch's status or readiness first. *)
(***************************************************************************)
\* create_upload_file up to its first commit: the file is stored, the batch exists.
CreateUpload(s) ==
    /\ pc[s] = "idle" /\ row.status = "absent"
    /\ \E h \in SourceType \cup {NoHint} :
         LET t == IF h = NoHint THEN "raw_report" ELSE h IN
         /\ row' = [status |-> "uploaded", type |-> t, mapping |-> NoMapping(t),
                    blocking |-> FALSE, logged |-> "uploaded"]
         /\ local' = [local EXCEPT ![s].hint = h]
    /\ Goto(s, "parse_load")
    /\ UNCHANGED <<file, issues, quality, facts, lock>>

\* confirm_upload_source_type: parse again as the type the user selected.
ConfirmSourceType(s) ==
    /\ pc[s] = "idle" /\ row.status # "absent"
    /\ \E t \in SourceType : local' = [local EXCEPT ![s].hint = t]
    /\ Goto(s, "parse_load")
    /\ UNCHANGED <<database, lock>>

\* suggest_upload_mapping and save_upload_mapping read the batch and the file and
\* then compute the mapping they will store; a failed read ends the request.
LoadForMapping(s, qualities) ==
    /\ pc[s] = "idle" /\ row.status # "absent"
    /\ \E q \in qualities :
         local' = [local EXCEPT ![s] = [@ EXCEPT
           !.snap = [type |-> row.type, mapping |-> row.mapping, status |-> row.status],
           !.draft = [for |-> row.type, q |-> q]]]
    /\ Goto(s, "save_commit")
    /\ UNCHANGED <<database, lock>>

\* The suggestions of a type without canonical fields map nothing.
Suggestable(t) == IF HasRequiredFields(t) THEN MappingQuality ELSE {"empty"}

SuggestMapping(s) == LoadForMapping(s, Suggestable(row.type))
SaveMapping(s) == LoadForMapping(s, MappingQuality)

\* validate_upload_file and apply_upload_file called directly, by the worker's
\* actors or by retry_admin_job.
RequestValidation(s, why) ==
    /\ pc[s] = "idle" /\ row.status # "absent"
    /\ Continue(s, "validate_load", why)
    /\ UNCHANGED <<database, lock>>

RequestValidate(s) == RequestValidation(s, "validate")
RequestApply(s) == RequestValidation(s, "apply")

-----------------------------------------------------------------------------
(***************************************************************************)
(* _run_parse_stage.                                                       *)
(***************************************************************************)
ParseLoad(s) == LoadIf(s, "parse_load", TRUE, "parse_flush")

ParseFlush(s) == Flush(s, "parse_flush", "parsing")

\* detect_source_type and the overrides for management reports and warehouse files.
DetectedType(h) == IF h = NoHint THEN file.detected ELSE h

\* The adapters read only files of their own layout; other files make them raise.
AdapterReads(t) == file.detected = t

\* The rows that the UPDATE of a parse may leave which found type t and mapping m.
Parsed(s, t, m) ==
    {[row EXCEPT !.type = Merged(t, local[s].snap.type, @), !.mapping = merged] :
        merged \in MergedMappings(m, local[s].snap.mapping, row.mapping)}

\* Mutant: the parse replaces the issue rows but not the quality issues.
CommitParseKeepsQuality(s, t, m, status, found, blocked) ==
    /\ \E r \in Parsed(s, t, m) :
         row' = [Transitioned(r, status) EXCEPT !.blocking = blocked]
    /\ issues' = found
    /\ Commit(s, "validate_load", "parse")
    /\ UNCHANGED <<file, quality>>

\* The parse ends in `status`, with the issues `found` and the verdict `blocked`.
CommitParse(s, t, m, status, found, blocked) ==
    /\ \E r \in Parsed(s, t, m) :
         row' = [Transitioned(r, status) EXCEPT !.blocking = blocked]
    /\ issues' = found
    /\ quality' = found
    /\ Commit(s, "validate_load", "parse")
    /\ UNCHANGED file

\* sku_costs and management_report files are imported at once; the adapter of the
\* latter stores an empty mapping.
ParseImportsReferenceData(s) ==
    LET t == DetectedType(local[s].hint)
        q == IF t = "management_report" THEN "empty" ELSE "clean"
    IN
    /\ pc[s] = "parsing" /\ AutoApply(t) /\ AdapterReads(t)
    /\ CommitParse(s, t, [for |-> t, q |-> q], "applied", {}, FALSE)
    /\ UNCHANGED facts

\* Which parses go through the warehouse adapter, and the mapping it stores: the fields
\* it reads are not all those an apply of stock requires.
ReadsWarehouse(h) == DetectedType(h) = "stock" /\ file.warehouse # "other"
WarehouseMapping == [for |-> "stock", q |-> "partial"]

\* So are warehouse files: their snapshots replace those of the batch, and no other
\* table's rows. A file without a readable quantity is applied too.
ParseImportsWarehouse(s) ==
    /\ pc[s] = "parsing" /\ ReadsWarehouse(local[s].hint)
    /\ CommitParse(s, "stock", WarehouseMapping, "applied", {}, FALSE)
    /\ facts' = {g \in facts : g.table # "stock"} \cup
         IF file.warehouse = "blank" THEN {}
         ELSE {[by |-> s, table |-> "stock", mapping |-> WarehouseMapping]}

\* An adapter raises after the type and mapping were set and the issues deleted;
\* the handler commits all of that with status failed.
ParseAdapterFails(s) ==
    LET t == DetectedType(local[s].hint) IN
    /\ pc[s] = "parsing" /\ AutoApply(t) /\ ~AdapterReads(t)
    /\ \E q \in Suggestable(t) : \E r \in Parsed(s, t, [for |-> t, q |-> q]) :
         row' = Transitioned(r, "failed")
    /\ issues' = {} /\ quality' = {}
    /\ Commit(s, "idle", "validate")
    /\ UNCHANGED <<file, facts>>

\* Files of the other types wait for a confirmation, a mapping or validation.
ParseDecides(s) ==
    LET t == DetectedType(local[s].hint) IN
    /\ pc[s] = "parsing" /\ ~AutoApply(t) /\ ~ReadsWarehouse(local[s].hint)
    /\ \E q \in Suggestable(t) :
         LET m == [for |-> t, q |-> q] IN
         \/ /\ local[s].hint = NoHint
            /\ CommitParse(s, t, m, "source_confirmation_required", {}, FALSE)
         \/ /\ local[s].hint # NoHint /\ t = "raw_report"
            /\ CommitParse(s, t, m, "ready_to_review", {}, FALSE)
         \/ /\ local[s].hint # NoHint /\ t # "raw_report" /\ MissingRequired(t, m)
            /\ CommitParse(s, t, m, "mapping_required", {"mapping_required"}, TRUE)
         \/ /\ local[s].hint # NoHint /\ t # "raw_report" /\ ~MissingRequired(t, m)
            /\ CommitParse(s, t, m, "validating", {}, row.blocking)
    /\ UNCHANGED facts

\* Mutant: a handler that neither commits nor rolls back.
FailWithoutCommit(s, at) ==
    /\ pc[s] = at
    /\ Continue(s, "idle", "validate")
    /\ UNCHANGED <<database, lock>>

\* The handlers of failed reads (storage, unreadable file): job and batch failed.
FailEarly(s, at) ==
    /\ pc[s] = at
    /\ row' = Transitioned(row, "failed")
    /\ Commit(s, "idle", "validate")
    /\ UNCHANGED <<file, issues, quality, facts>>

ParseFails(s) == FailEarly(s, "parsing")

\* A unique constraint fails in the flush of imported rows (an article or SKU that
\* another import is adding); the handler's commit then raises too and the
\* transaction is rolled back.
ParseConflict(s) ==
    /\ pc[s] = "parsing"
    /\ AutoApply(DetectedType(local[s].hint)) \/ ReadsWarehouse(local[s].hint)
    /\ Commit(s, "idle", "validate")
    /\ UNCHANGED database

-----------------------------------------------------------------------------
(***************************************************************************)
(* suggest_upload_mapping, save_upload_mapping: one commit, then validate. *)
(***************************************************************************)
StatusForMapping(t, m) ==
    IF t = "raw_report" THEN "ready_to_review"
    ELSE IF MissingRequired(t, m) THEN "mapping_required" ELSE "validating"

\* Mutant: a new mapping leaves the status, and so an old verdict, in place.
SaveKeepsStatus(s) ==
    /\ pc[s] = "save_commit" /\ lock = NoSession
    /\ \E merged \in MergedMappings(local[s].draft, local[s].snap.mapping, row.mapping) :
         row' = [row EXCEPT !.mapping = merged]
    /\ Continue(s, "idle", "validate")
    /\ UNCHANGED <<file, issues, quality, facts, lock>>

SaveCommit(s) ==
    LET loaded == local[s].snap
        status == StatusForMapping(loaded.type, local[s].draft)
    IN
    /\ pc[s] = "save_commit" /\ lock = NoSession
    /\ \E merged \in MergedMappings(local[s].draft, loaded.mapping, row.mapping) :
         row' = [row EXCEPT !.mapping = merged,
                            !.status = Merged(status, loaded.status, @),
                            !.logged = status]
    /\ Continue(s, IF status = "validating" THEN "validate_load" ELSE "idle", "validate")
    /\ UNCHANGED <<file, issues, quality, facts, lock>>

-----------------------------------------------------------------------------
(***************************************************************************)
(* validate_upload_file.                                                   *)
(***************************************************************************)
\* Mutant: a parse does not go on to validate what it left validating.
ValidatableOnDemand(why, r) ==
    /\ why # "parse"
    /\ why = "apply" => SupportsApply(r.type)
    /\ r.type # "raw_report"
    /\ r.mapping.q # "empty"

\* Whether the request goes on to validate the row it has just loaded.
Validatable(why, r) ==
    /\ why = "parse" => r.status = "validating"
    /\ why = "apply" => SupportsApply(r.type)
    /\ r.type # "raw_report"
    /\ r.mapping.q # "empty"

ValidateLoad(s) ==
    LoadIf(s, "validate_load", Validatable(local[s].goal, row), "validate_flush")

ValidateFlush(s) == Flush(s, "validate_flush", "validating")

ValidateCommit(s) ==
    LET found == FrameIssues(local[s].snap.type, local[s].snap.mapping)
        blocked == Blocking(found)
        status == IF blocked THEN "issues_found" ELSE "ready_to_apply"
    IN
    /\ pc[s] = "validating"
    /\ row' = [Transitioned(row, status) EXCEPT !.blocking = blocked]
    /\ issues' = found
    /\ quality' = found
    /\ Commit(s, IF local[s].goal = "apply" THEN "apply_load" ELSE "idle", "validate")
    /\ UNCHANGED <<file, facts>>

ValidateFails(s) == FailEarly(s, "validating")

-----------------------------------------------------------------------------
(***************************************************************************)
(* apply_upload_file, after its call of validate_upload_file.              *)
(***************************************************************************)
\* get_upload_file_detail reads the row again: the verdict that is checked is
\* the committed one, and the mapping that will be applied too.
ApplyLoad(s) == LoadIf(s, "apply_load", ~row.blocking, "apply_flush")

ApplyFlush(s) == Flush(s, "apply_flush", "applying")

\* Deletes the facts of the batch and adds the rows (both uncommitted).
ApplyRows(s) ==
    /\ pc[s] = "applying"
    /\ local' = [local EXCEPT ![s].victims = facts]
    /\ Goto(s, "apply_commit")
    /\ UNCHANGED <<database, lock>>

\* How many rows validate_frame lets through, of a file with at least one row.
Normalized(t, m) ==
    CASE QualityFor(t, m) = "empty" -> {"none"}
      [] QualityFor(t, m) = "partial" /\ RowsAreChecked(t) -> {"none"}
      [] QualityFor(t, m) = "flawed" /\ RowsAreChecked(t) -> {"some", "none"}
      [] OTHER -> {"all"}

\* How many of them are applied, and whether _apply_normalized_row refused some
\* (no such client or SKU, or a type that is not applied at all).
Outcome == [rows: {"all", "some", "none"}, refused: BOOLEAN]
Outcomes(t, m) ==
    UNION {IF n = "none" THEN {[rows |-> "none", refused |-> FALSE]}
           ELSE IF ~SupportsApply(t) THEN {[rows |-> "none", refused |-> TRUE]}
           ELSE {[rows |-> n, refused |-> FALSE], [rows |-> "some", refused |-> TRUE],
                 [rows |-> "none", refused |-> TRUE]} : n \in Normalized(t, m)}

\* Mutant: an apply without a single row is not told from a partial one.
AppliedStatusOfNothing(o, found) ==
    IF "warning" \in found \/ o.refused THEN "applied_with_warnings" ELSE "applied"

AppliedStatus(o, found) ==
    IF o.rows = "none" /\ found # {} THEN "failed"
    ELSE IF "warning" \in found \/ o.refused THEN "applied_with_warnings"
    ELSE "applied"

\* The rows an apply leaves.
Written(s) ==
    [by |-> s, table |-> local[s].snap.type, mapping |-> local[s].snap.mapping]

\* Mutant: the verdict of the validation outlives the issues of the apply.
StoreAppliedOldVerdict(s, o, status, found) ==
    /\ row' = Transitioned(row, status)
    /\ issues' = found
    /\ quality' = found
    /\ facts' = (facts \ local[s].victims)
                  \cup (IF o.rows = "none" THEN {} ELSE {Written(s)})
    /\ Commit(s, "idle", "validate")
    /\ UNCHANGED file

\* What both ends of an apply store: facts, issues, verdict and status.
StoreApplied(s, o, status, found) ==
    /\ row' = [Transitioned(row, status) EXCEPT !.blocking = Blocking(found)]
    /\ issues' = found
    /\ quality' = found
    /\ facts' = (facts \ local[s].victims)
                  \cup (IF o.rows = "none" THEN {} ELSE {Written(s)})
    /\ Commit(s, "idle", "validate")
    /\ UNCHANGED file

ApplyIssues(s, o) ==
    FrameIssues(local[s].snap.type, local[s].snap.mapping)
      \cup (IF o.refused THEN {"unmatched"} ELSE {})

ApplyCommit(s) ==
    /\ pc[s] = "apply_commit"
    /\ \E o \in Outcomes(local[s].snap.type, local[s].snap.mapping) :
         LET found == ApplyIssues(s, o) IN
         StoreApplied(s, o, AppliedStatus(o, found), found)

\* materialize_analytics raises: the handler commits, without a rollback, the
\* facts as they are.
ApplyMaterializeFails(s) ==
    /\ pc[s] = "apply_commit"
    /\ \E o \in Outcomes(local[s].snap.type, local[s].snap.mapping) :
         StoreApplied(s, o, "failed", ApplyIssues(s, o))

\* The flush of the new facts fails, on a unique constraint or on a value that its column
\* refuses; the handler's commit then raises too and the transaction is rolled back.
ApplyConflict(s) ==
    /\ pc[s] = "apply_commit"
    /\ Commit(s, "idle", "validate")
    /\ UNCHANGED database

ApplyFails(s) == FailEarly(s, "applying")

-----------------------------------------------------------------------------
\* The process dies: the database rolls the transaction back.
Crash(s) ==
    /\ CanCrash /\ pc[s] # "idle"
    /\ Continue(s, "idle", "validate")
    /\ lock' = IF lock = s THEN NoSession ELSE lock
    /\ UNCHANGED database

Request(s) ==
    \/ CreateUpload(s) \/ ConfirmSourceType(s)
    \/ SuggestMapping(s) \/ SaveMapping(s)
    \/ RequestValidate(s) \/ RequestApply(s)

ParseStep(s) ==
    \/ ParseLoad(s) \/ ParseFlush(s) \/ ParseImportsReferenceData(s)
    \/ ParseImportsWarehouse(s) \/ ParseAdapterFails(s) \/ ParseDecides(s)
    \/ ParseFails(s) \/ ParseConflict(s)

ValidateStep(s) ==
    ValidateLoad(s) \/ ValidateFlush(s) \/ ValidateCommit(s) \/ ValidateFails(s)

ApplyStep(s) ==
    \/ ApplyLoad(s) \/ ApplyFlush(s) \/ ApplyRows(s) \/ ApplyCommit(s)
    \/ ApplyMaterializeFails(s) \/ ApplyConflict(s) \/ ApplyFails(s)

\* The steps a request takes once it has begun.
Work(s) == ParseStep(s) \/ SaveCommit(s) \/ ValidateStep(s) \/ ApplyStep(s)

Next == \E s \in Session : Request(s) \/ Work(s) \/ Crash(s)

Spec == Init /\ [][Next]_vars

\* The server runs the requests it has accepted; the database grants a row lock
\* to a waiter some time (strongly fair: others may hold the lock in between).
\* Users need not send requests, nothing needs to crash.
FairSpec == Spec /\ \A s \in Session : SF_vars(Work(s))

-----------------------------------------------------------------------------
(***************************************************************************)
(* Properties that hold whatever requests run together.                    *)
(***************************************************************************)
\* The verdict the user sees, the verdict apply checks and the issue rows agree:
\* a batch that is ready has no blocking issue row, one with issues_found has one.
\* They are written by different statements of validate, parse and apply.
VerdictMatchesIssues ==
    /\ row.status = "ready_to_apply" => ~row.blocking
    /\ row.status = "issues_found" => row.blocking
    /\ row.status \in {"ready_to_apply", "issues_found", "applied", "applied_with_warnings"}
         => (row.blocking <=> Blocking(issues))

\* Two applies or imports of a batch never both leave their rows in a table: the
\* append-only stock snapshots of a batch are those of one of them.  It is the row lock
\* taken by the flush before the deletes that makes it so.  (Tables may differ: the
\* warehouse adapter keeps the rows that an apply under another type has left.)
OneApplyOfFacts == \A g, h \in facts : g.table = h.table => g = h

\* The warehouse adapter has just imported a file without a readable quantity.
BlankImport(s) ==
    pc[s] = "parsing" /\ pc'[s] = "validate_load" /\ file.warehouse = "blank"

\* Facts that were there are gone only if the same commit says the upload failed
\* (apply_upload_file deletes before it knows that no row can be applied).  The
\* exception is the warehouse adapter, which says applied of a file it finds nothing in.
FactsVanishOnlyOnFailure ==
    [][facts # {} /\ facts' = {} =>
         row'.status = "failed" \/ \E s \in Session : BlankImport(s)]_vars

\* Validation persists UploadedRowIssue rows and bridges them into QualityIssue:
\* the two tables tell the same story about a batch (_refresh_quality_issues).
QualityMirrorsIssues == quality = issues

\* Only a request between its flush and its commit holds the row lock: no handler,
\* error path or crash leaves it behind for the others to wait on.
LockHeldOnlyAtWork == \A s \in Session : lock = s <=> pc[s] \in Holding

(***************************************************************************)
(* Properties of requests that run one after another.                      *)
(***************************************************************************)
\* What the status says of the batch is true of the mapping, type and facts it has
\* now, which other requests than the one that wrote it may have changed: a batch that
\* is ready was validated with them; an applied one has facts of its type, all from the
\* mapping it shows, and no others, with no row silently skipped for its errors; and the
\* last entry of the history is the status (status_payload.history, docs/ingestion.md).
\* Only what the warehouse adapter applied may have no facts (a file without a readable
\* quantity) or those of an earlier apply under another type beside its own.
StatusIsTrue ==
    /\ row.status = "ready_to_apply" => ~Blocking(FrameIssues(row.type, row.mapping))
    /\ row.status \in {"applied", "applied_with_warnings"} /\ SupportsApply(row.type) =>
         LET own == {g \in facts : g.table = row.type}
             adapted == file.warehouse # "other" /\ row.mapping = WarehouseMapping
         IN
         /\ own # {} \/ (adapted /\ file.warehouse = "blank")
         /\ \A g \in own : g.mapping = row.mapping
         /\ own = facts \/ adapted
         /\ "error" \notin issues
    /\ row.status = row.logged

\* Suggesting or saving a mapping is followed by a validation (docs/ingestion.md): a
\* batch with rows to map whose status is validating gets a verdict, fails or is
\* parsed again.
MappedBatchSettles ==
    row.status = "validating" /\ row.type # "management_report" ~> row.status # "validating"

(***************************************************************************)
(* What the documentation says, and a run refutes.                         *)
(***************************************************************************)
\* Suggesting or saving a mapping is followed by a validation that ends in
\* issues_found or ready_to_apply (docs/ingestion.md): the same for every batch.
ValidatingSettles == row.status = "validating" ~> row.status # "validating"

=============================================================================
