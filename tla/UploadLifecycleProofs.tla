------------------------ MODULE UploadLifecycleProofs ------------------------
(***************************************************************************)
(* Safety of the upload lifecycle for any number of concurrent requests,   *)
(* any source types and mappings, with or without crashes.                 *)
(***************************************************************************)
EXTENDS UploadLifecycle, TLAPS

\* An apply that is about to commit has deleted exactly the facts that are there:
\* nobody could add facts since, because that takes the row lock it holds.
DeletedAreCommitted ==
    \A s \in Session : pc[s] = "apply_commit" => local[s].victims = facts

IInv ==
    /\ TypeOK
    /\ LockHeldOnlyAtWork
    /\ DeletedAreCommitted
    /\ OneApplyOfFacts
    /\ VerdictMatchesIssues
    /\ QualityMirrorsIssues

-----------------------------------------------------------------------------
(***************************************************************************)
(* What the helpers return.                                                *)
(***************************************************************************)
LEMMA FreshIsLocal == Fresh \in Local
BY NoHintAssumption DEF Fresh, Local, Goal, Mapping, NoMapping, AllTypes, Quality, Snapshot,
                        Status

LEMMA FrameIssuesAreSeverities ==
    ASSUME NEW t, NEW m
    PROVE  FrameIssues(t, m) \in SUBSET Severity
BY DEF FrameIssues, Severity

LEMMA LoadedIsLocal ==
    ASSUME NEW l \in Local, NEW loaded \in Snapshot, NEW drafted \in Mapping
    PROVE  [l EXCEPT !.snap = loaded, !.draft = drafted] \in Local
BY DEF Local

\* When no row is applied, the validation or the apply has reported something.
LEMMA NothingAppliedIsAnIssue ==
    ASSUME NEW t, NEW m, NEW o \in Outcomes(t, m), o.rows = "none"
    PROVE  o.refused \/ FrameIssues(t, m) # {}
<1> SUFFICES ASSUME ~o.refused PROVE FrameIssues(t, m) # {}
  OBVIOUS
<1>1. PICK n \in Normalized(t, m) :
        o \in (IF n = "none" THEN {[rows |-> "none", refused |-> FALSE]}
               ELSE IF ~SupportsApply(t) THEN {[rows |-> "none", refused |-> TRUE]}
               ELSE {[rows |-> n, refused |-> FALSE], [rows |-> "some", refused |-> TRUE],
                     [rows |-> "none", refused |-> TRUE]})
  BY DEF Outcomes
<1>2. n = "none"
  BY <1>1
<1>3. \/ QualityFor(t, m) = "empty"
      \/ QualityFor(t, m) \in {"partial", "flawed"} /\ RowsAreChecked(t)
  BY <1>1, <1>2 DEF Normalized
<1> QED
  BY <1>3 DEF FrameIssues

LEMMA NoMappingIsMapping ==
    ASSUME NEW t \in AllTypes
    PROVE  NoMapping(t) \in Mapping
BY DEF NoMapping, Mapping, Quality

LEMMA DetectedIsType ==
    ASSUME TypeOK, NEW h \in AllTypes \cup {NoHint}
    PROVE  DetectedType(h) \in AllTypes
BY DEF TypeOK, DetectedType

LEMMA SuggestableIsQuality ==
    ASSUME NEW t
    PROVE  Suggestable(t) \subseteq Quality
BY MappingQualityAssumption DEF Suggestable, Quality

-----------------------------------------------------------------------------
THEOREM InitEstablishes == Init => IInv
<1> SUFFICES ASSUME Init PROVE IInv
  OBVIOUS
<1>1. TypeOK
  BY FreshIsLocal, SourceTypeAssumption
  DEF Init, TypeOK, Row, NoRow, Mapping, NoMapping, AllTypes, Quality, Status, Location
<1>2. LockHeldOnlyAtWork /\ DeletedAreCommitted
  BY NoSessionAssumption DEF Init, LockHeldOnlyAtWork, DeletedAreCommitted, Holding
<1>3. OneApplyOfFacts /\ VerdictMatchesIssues /\ QualityMirrorsIssues
  BY DEF Init, OneApplyOfFacts, VerdictMatchesIssues, QualityMirrorsIssues, NoRow
<1> QED
  BY <1>1, <1>2, <1>3 DEF IInv

-----------------------------------------------------------------------------
(***************************************************************************)
(* The steps that touch no table: flushes, loads, requests and crashes.    *)
(***************************************************************************)
\* Without a change to the tables only types, the lock and the deleted facts matter.
LEMMA DatabaseUnchanged ==
    ASSUME IInv, UNCHANGED database, TypeOK', LockHeldOnlyAtWork', DeletedAreCommitted'
    PROVE  IInv'
BY DEF IInv, database, OneApplyOfFacts, VerdictMatchesIssues, QualityMirrorsIssues, Blocking

LEMMA FlushPreserves ==
    ASSUME IInv, NEW s \in Session, NEW from \in Location \ Holding,
           NEW to \in {"parsing", "validating", "applying"}, Flush(s, from, to)
    PROVE  IInv'
<1> USE NoSessionAssumption DEF IInv, Flush, Goto, database
<1>1. TypeOK'
  BY DEF TypeOK, Location, Holding
<1>2. LockHeldOnlyAtWork'
  BY DEF LockHeldOnlyAtWork, TypeOK, Holding
<1>3. DeletedAreCommitted'
  BY DEF DeletedAreCommitted, TypeOK
<1> QED
  BY <1>1, <1>2, <1>3, DatabaseUnchanged

LEMMA LoadIfPreserves ==
    ASSUME IInv, NEW s \in Session, NEW from \in Location \ Holding, NEW fit \in BOOLEAN,
           NEW next \in Location \ Holding, LoadIf(s, from, fit, next)
    PROVE  IInv'
<1> USE DEF IInv, LoadIf, Goto, Continue, database
<1>1. local' \in [Session -> Local]
  <2>1. CASE local' = [local EXCEPT ![s] = [Fresh EXCEPT !.goal = "validate"]]
    BY <2>1, FreshIsLocal DEF TypeOK, Local, Goal
  <2>2. CASE local' = [local EXCEPT
               ![s].snap = [@ EXCEPT !.type = row.type, !.mapping = row.mapping]]
    <3> DEFINE loaded == [local[s].snap EXCEPT !.type = row.type, !.mapping = row.mapping]
    <3>1. local[s] \in Local /\ row.type \in AllTypes /\ row.mapping \in Mapping
      BY DEF TypeOK, Row
    <3>2. loaded \in Snapshot
      BY <3>1 DEF Local, Snapshot
    <3> HIDE DEF loaded
    <3>3. [local[s] EXCEPT !.snap = loaded] \in Local
      BY <3>1, <3>2 DEF Local
    <3>4. local' = [local EXCEPT ![s] = [local[s] EXCEPT !.snap = loaded]]
      BY <2>2 DEF TypeOK, loaded
    <3> QED
      BY <3>3, <3>4 DEF TypeOK
  <2> QED
    BY <2>1, <2>2
<1>2. TypeOK'
  BY <1>1 DEF TypeOK, Location
<1>3. LockHeldOnlyAtWork'
  BY DEF LockHeldOnlyAtWork, TypeOK, Location, Holding
<1>4. DeletedAreCommitted'
  BY DEF DeletedAreCommitted, TypeOK, Holding
<1> QED
  BY <1>2, <1>3, <1>4, DatabaseUnchanged

LEMMA CrashPreserves ==
    ASSUME IInv, NEW s \in Session, Crash(s)
    PROVE  IInv'
<1> USE NoSessionAssumption DEF IInv, Crash, Goto, Continue, database
<1>1. local' \in [Session -> Local]
  BY FreshIsLocal DEF TypeOK, Local, Goal
<1>2. TypeOK'
  BY <1>1 DEF TypeOK, Location
<1>3. LockHeldOnlyAtWork'
  BY DEF LockHeldOnlyAtWork, TypeOK, Holding
<1>4. DeletedAreCommitted'
  BY DEF DeletedAreCommitted, TypeOK
<1> QED
  BY <1>2, <1>3, <1>4, DatabaseUnchanged

LEMMA RequestPreserves ==
    ASSUME IInv, NEW s \in Session, Request(s)
    PROVE  IInv'
<1> USE DEF IInv
<1>1. CASE CreateUpload(s)
  <2> USE <1>1 DEF CreateUpload, Goto
  <2>1. PICK h \in SourceType \cup {NoHint} :
          LET t == IF h = NoHint THEN "raw_report" ELSE h IN
          /\ row' = [status |-> "uploaded", type |-> t, mapping |-> NoMapping(t),
                     blocking |-> FALSE, logged |-> "uploaded"]
          /\ local' = [local EXCEPT ![s].hint = h]
    OBVIOUS
  <2>2. row' \in Row /\ row'.status = "uploaded"
    BY <2>1, NoMappingIsMapping, SourceTypeAssumption DEF Row, Status, AllTypes
  <2>3. local' \in [Session -> Local]
    BY <2>1, SourceTypeAssumption DEF TypeOK, Local
  <2>4. TypeOK'
    BY <2>2, <2>3 DEF TypeOK, Location
  <2>5. LockHeldOnlyAtWork' /\ DeletedAreCommitted'
    BY <2>1 DEF LockHeldOnlyAtWork, DeletedAreCommitted, TypeOK, Holding
  <2> QED
    BY <2>2, <2>4, <2>5 DEF OneApplyOfFacts, VerdictMatchesIssues, QualityMirrorsIssues
<1>2. CASE ConfirmSourceType(s)
  <2> USE <1>2 DEF ConfirmSourceType, Goto, database
  <2>1. local' \in [Session -> Local]
    BY SourceTypeAssumption DEF TypeOK, Local
  <2>2. TypeOK'
    BY <2>1 DEF TypeOK, Location
  <2>3. LockHeldOnlyAtWork' /\ DeletedAreCommitted'
    BY DEF LockHeldOnlyAtWork, DeletedAreCommitted, TypeOK, Holding
  <2> QED
    BY <2>2, <2>3, DatabaseUnchanged
<1>3. ASSUME NEW qs \in SUBSET Quality, LoadForMapping(s, qs)
      PROVE  IInv'
  <2> USE <1>3 DEF LoadForMapping, Goto, database
  <2>1. PICK q \in qs : local' = [local EXCEPT ![s] = [local[s] EXCEPT
             !.snap = [type |-> row.type, mapping |-> row.mapping, status |-> row.status],
             !.draft = [for |-> row.type, q |-> q]]]
    OBVIOUS
  <2>2. /\ local[s] \in Local
        /\ [type |-> row.type, mapping |-> row.mapping, status |-> row.status] \in Snapshot
        /\ [for |-> row.type, q |-> q] \in Mapping
    BY DEF TypeOK, Row, Snapshot, Mapping
  <2>3. [local[s] EXCEPT
           !.snap = [type |-> row.type, mapping |-> row.mapping, status |-> row.status],
           !.draft = [for |-> row.type, q |-> q]] \in Local
    BY <2>2, LoadedIsLocal
  <2>5. local' \in [Session -> Local]
    BY <2>1, <2>3 DEF TypeOK
  <2>6. TypeOK'
    BY <2>5 DEF TypeOK, Location
  <2>7. LockHeldOnlyAtWork' /\ DeletedAreCommitted'
    BY <2>1 DEF LockHeldOnlyAtWork, DeletedAreCommitted, TypeOK, Holding
  <2> QED
    BY <2>6, <2>7, DatabaseUnchanged
<1>4. ASSUME NEW why \in Goal, RequestValidation(s, why)
      PROVE  IInv'
  <2> USE <1>4 DEF RequestValidation, Continue, Goto, database
  <2>1. local' \in [Session -> Local]
    BY FreshIsLocal DEF TypeOK, Local
  <2>2. TypeOK'
    BY <2>1 DEF TypeOK, Location
  <2>3. LockHeldOnlyAtWork' /\ DeletedAreCommitted'
    BY DEF LockHeldOnlyAtWork, DeletedAreCommitted, TypeOK, Holding
  <2> QED
    BY <2>2, <2>3, DatabaseUnchanged
<1>5. CASE SuggestMapping(s)
  BY <1>5, <1>3, SuggestableIsQuality DEF SuggestMapping
<1>6. CASE SaveMapping(s)
  BY <1>6, <1>3, MappingQualityAssumption DEF SaveMapping
<1>7. CASE RequestValidate(s)
  BY <1>7, <1>4 DEF RequestValidate, Goal
<1>8. CASE RequestApply(s)
  BY <1>8, <1>4 DEF RequestApply, Goal
<1> QED
  BY <1>1, <1>2, <1>5, <1>6, <1>7, <1>8 DEF Request

-----------------------------------------------------------------------------
(***************************************************************************)
(* The commits.                                                            *)
(***************************************************************************)
\* A commit leaves the memory of the request and the lock in order, so only the
\* tables remain to be looked at.  Nobody else is about to commit an apply: that
\* request would hold the lock.
LEMMA CommitPreserves ==
    ASSUME IInv, NEW s \in Session, pc[s] \in Holding,
           NEW next \in Location \ Holding, NEW why \in Goal, Commit(s, next, why),
           file' = file, row' \in Row, issues' \in SUBSET Severity, quality' = issues',
           facts' \in SUBSET Generation, OneApplyOfFacts', VerdictMatchesIssues'
    PROVE  IInv'
<1> USE DEF IInv, Commit, Continue, Goto
<1>1. local' \in [Session -> Local]
  BY FreshIsLocal DEF TypeOK, Local
<1>2. TypeOK'
  BY <1>1 DEF TypeOK, Location
<1>3. \A t \in Session \ {s} : pc[t] \notin Holding
  BY DEF LockHeldOnlyAtWork
<1>4. pc' = [pc EXCEPT ![s] = next] /\ pc \in [Session -> Location]
  BY DEF TypeOK
<1>5. \A t \in Session : pc'[t] \notin Holding
  BY <1>3, <1>4
<1>6. LockHeldOnlyAtWork'
  BY <1>5, NoSessionAssumption DEF LockHeldOnlyAtWork
<1>7. DeletedAreCommitted'
  BY <1>5 DEF DeletedAreCommitted, Holding
<1> QED
  BY <1>2, <1>6, <1>7 DEF QualityMirrorsIssues

\* A transaction that is rolled back.
LEMMA RollbackPreserves ==
    ASSUME IInv, NEW s \in Session, pc[s] \in Holding, Commit(s, "idle", "validate"),
           UNCHANGED database
    PROVE  IInv'
<1> USE DEF IInv
<1>1. /\ "idle" \in Location \ Holding /\ "validate" \in Goal
      /\ UNCHANGED <<file, row, issues, quality, facts>>
  BY DEF Location, Holding, Goal, database
<1>2. /\ row' \in Row /\ issues' \in SUBSET Severity /\ quality' = issues'
      /\ facts' \in SUBSET Generation
  BY <1>1 DEF TypeOK, QualityMirrorsIssues
<1>3. OneApplyOfFacts' /\ VerdictMatchesIssues'
  BY <1>1 DEF OneApplyOfFacts, VerdictMatchesIssues, Blocking
<1> QED
  BY <1>1, <1>2, <1>3, CommitPreserves

\* The handlers of early failures.
LEMMA FailEarlyPreserves ==
    ASSUME IInv, NEW s \in Session, NEW at \in Holding, FailEarly(s, at)
    PROVE  IInv'
<1> USE DEF FailEarly, Transitioned
<1>1. row' \in Row /\ row'.status = "failed"
  BY DEF IInv, TypeOK, Row, Status
<1>2. OneApplyOfFacts' /\ VerdictMatchesIssues' /\ facts' \in SUBSET Generation
  BY <1>1 DEF IInv, TypeOK, OneApplyOfFacts, VerdictMatchesIssues
<1>3. /\ file' = file /\ issues' \in SUBSET Severity /\ quality' = issues'
      /\ Commit(s, "idle", "validate") /\ pc[s] \in Holding
      /\ "idle" \in Location \ Holding /\ "validate" \in Goal
  BY DEF IInv, TypeOK, QualityMirrorsIssues, Location, Holding, Goal
<1> QED
  BY <1>1, <1>2, <1>3, CommitPreserves

LEMMA SaveCommitPreserves ==
    ASSUME IInv, NEW s \in Session, SaveCommit(s)
    PROVE  IInv'
<1> DEFINE status == StatusForMapping(local[s].snap.type, local[s].draft)
           merged == Merged(status, local[s].snap.status, row.status)
           next == IF status = "validating" THEN "validate_load" ELSE "idle"
<1> USE DEF IInv, Continue, Goto
<1>1. /\ \E mapping \in MergedMappings(local[s].draft, local[s].snap.mapping, row.mapping) :
           row' = [row EXCEPT !.mapping = mapping, !.status = merged, !.logged = status]
      /\ Continue(s, next, "validate")
      /\ pc[s] = "save_commit"
      /\ UNCHANGED <<file, issues, quality, facts, lock>>
  BY DEF SaveCommit
<1>2. status \in {"ready_to_review", "mapping_required", "validating"}
  BY DEF StatusForMapping
<1>3. merged \in {"ready_to_review", "mapping_required", "validating", row.status}
  BY <1>2 DEF Merged
<1>4. merged \in Status /\ status \in Status /\ next \in {"validate_load", "idle"}
  BY <1>2, <1>3 DEF TypeOK, Row, Status
<1> HIDE DEF status, merged, next
<1>5. MergedMappings(local[s].draft, local[s].snap.mapping, row.mapping) \subseteq Mapping
  BY DEF TypeOK, Local, Row, MergedMappings
<1>6. row' \in Row /\ row'.status = merged /\ row'.blocking = row.blocking
  BY <1>1, <1>4, <1>5 DEF TypeOK, Row
<1>7. local' \in [Session -> Local]
  BY <1>1, FreshIsLocal DEF TypeOK, Local, Goal
<1>8. TypeOK'
  BY <1>1, <1>4, <1>6, <1>7 DEF TypeOK, Location
<1>9. VerdictMatchesIssues'
  BY <1>1, <1>3, <1>6 DEF VerdictMatchesIssues, Blocking
<1>10. LockHeldOnlyAtWork' /\ DeletedAreCommitted'
  BY <1>1, <1>4 DEF LockHeldOnlyAtWork, DeletedAreCommitted, TypeOK, Holding
<1> QED
  BY <1>1, <1>8, <1>9, <1>10 DEF OneApplyOfFacts, QualityMirrorsIssues

\* The row a parse writes.
LEMMA ParsedIsRow ==
    ASSUME TypeOK, NEW s \in Session, NEW t \in AllTypes, NEW m \in Mapping
    PROVE  Parsed(s, t, m) \in SUBSET Row
<1>1. local[s].snap \in Snapshot
  BY DEF TypeOK, Local
<1>2. Merged(t, local[s].snap.type, row.type) \in AllTypes
  BY <1>1 DEF TypeOK, Row, Snapshot, Merged
<1>3. MergedMappings(m, local[s].snap.mapping, row.mapping) \subseteq Mapping
  BY <1>1 DEF TypeOK, Row, Snapshot, MergedMappings
<1>4. SUFFICES ASSUME NEW r \in Parsed(s, t, m) PROVE r \in Row
  OBVIOUS
<1>5. PICK merged \in MergedMappings(m, local[s].snap.mapping, row.mapping) :
        r = [row EXCEPT !.type = Merged(t, local[s].snap.type, row.type), !.mapping = merged]
  BY DEF Parsed
<1> QED
  BY <1>2, <1>3, <1>5 DEF TypeOK, Row

LEMMA TransitionedIsRow ==
    ASSUME NEW r \in Row, NEW status \in Status
    PROVE  /\ Transitioned(r, status) \in Row
           /\ Transitioned(r, status).status = status
           /\ \A b \in BOOLEAN :
                /\ [Transitioned(r, status) EXCEPT !.blocking = b] \in Row
                /\ [Transitioned(r, status) EXCEPT !.blocking = b].status = status
                /\ [Transitioned(r, status) EXCEPT !.blocking = b].blocking = b
BY DEF Row, Transitioned

\* A parse that ends well leaves the issues and the verdict of its status.
LEMMA CommitParsePreserves ==
    ASSUME IInv, NEW s \in Session, pc[s] = "parsing",
           NEW t \in AllTypes, NEW m \in Mapping, NEW status \in Status,
           NEW found \in SUBSET Severity, NEW blocked \in BOOLEAN,
           CommitParse(s, t, m, status, found, blocked),
           status \notin {"ready_to_apply", "issues_found"},
           status \in {"applied", "applied_with_warnings"} => (blocked <=> Blocking(found)),
           facts' \in SUBSET Generation, OneApplyOfFacts'
    PROVE  IInv'
<1> USE DEF CommitParse
<1>1. row' \in Row /\ row'.status = status /\ row'.blocking = blocked
  BY ParsedIsRow, TransitionedIsRow DEF IInv
<1>2. VerdictMatchesIssues'
  BY <1>1 DEF VerdictMatchesIssues, Blocking
<1>3. /\ Commit(s, "validate_load", "parse") /\ "validate_load" \in Location \ Holding
      /\ "parse" \in Goal /\ pc[s] \in Holding /\ file' = file
      /\ issues' \in SUBSET Severity /\ quality' = issues'
  BY DEF Location, Holding, Goal
<1> QED
  BY <1>1, <1>2, <1>3, CommitPreserves

LEMMA ParsePreserves ==
    ASSUME IInv, NEW s \in Session, ParseStep(s)
    PROVE  IInv'
<1> DEFINE t == DetectedType(local[s].hint)
<1>0. t \in AllTypes /\ \A q \in Suggestable(t) : [for |-> t, q |-> q] \in Mapping
  <2>1. local[s].hint \in AllTypes \cup {NoHint}
    BY DEF IInv, TypeOK, Local
  <2>2. t \in AllTypes
    BY <2>1, DetectedIsType DEF IInv
  <2> QED
    BY <2>2, SuggestableIsQuality DEF Mapping
<1> HIDE DEF t
<1>1. CASE ParseLoad(s)
  BY <1>1, LoadIfPreserves DEF ParseLoad, Location, Holding
<1>2. CASE ParseFlush(s)
  BY <1>2, FlushPreserves DEF ParseFlush, Location, Holding
<1>3. CASE ParseImportsReferenceData(s)
  <2> DEFINE m == [for |-> t, q |-> IF t = "management_report" THEN "empty" ELSE "clean"]
  <2>1. /\ pc[s] = "parsing" /\ CommitParse(s, t, m, "applied", {}, FALSE)
        /\ facts' = facts
    BY <1>3 DEF ParseImportsReferenceData, t
  <2>2. m \in Mapping
    BY <1>0 DEF Mapping, Quality
  <2>3. facts' \in SUBSET Generation /\ OneApplyOfFacts'
    BY <2>1 DEF IInv, TypeOK, OneApplyOfFacts
  <2>4. "applied" \in Status /\ ~Blocking({})
    BY DEF Status, Blocking
  <2> HIDE DEF m
  <2> QED
    BY <1>0, <2>1, <2>2, <2>3, <2>4, CommitParsePreserves
<1>4. CASE ParseImportsWarehouse(s)
  <2> DEFINE m == WarehouseMapping
             others == {g \in facts : g.table # "stock"}
             new == [by |-> s, table |-> "stock", mapping |-> m]
  <2>1. /\ pc[s] = "parsing" /\ CommitParse(s, "stock", m, "applied", {}, FALSE)
        /\ facts' = others \cup IF file.warehouse = "blank" THEN {} ELSE {new}
    BY <1>4 DEF ParseImportsWarehouse
  <2>2. m \in Mapping /\ "stock" \in AllTypes
    BY DEF WarehouseMapping, Mapping, Quality, AllTypes
  <2>3. facts' \in SUBSET Generation /\ OneApplyOfFacts'
    <3>1. new \in Generation /\ new.table = "stock"
      BY <2>2 DEF Generation
    <3>2. /\ others \in SUBSET Generation
          /\ \A g, h \in others : g.table = h.table => g = h
          /\ \A g \in others : g.table # "stock"
      BY DEF IInv, TypeOK, OneApplyOfFacts
    <3> HIDE DEF others, new, m
    <3> QED
      BY <2>1, <3>1, <3>2 DEF OneApplyOfFacts
  <2>4. "applied" \in Status /\ ~Blocking({})
    BY DEF Status, Blocking
  <2> HIDE DEF m
  <2> QED
    BY <2>1, <2>2, <2>3, <2>4, CommitParsePreserves
<1>5. CASE ParseAdapterFails(s)
  <2>1. PICK q \in Suggestable(t) : \E r \in Parsed(s, t, [for |-> t, q |-> q]) :
          row' = Transitioned(r, "failed")
    BY <1>5 DEF ParseAdapterFails, t
  <2>2. row' \in Row /\ row'.status = "failed"
    BY <1>0, <2>1, ParsedIsRow, TransitionedIsRow DEF IInv, Status
  <2>3. /\ pc[s] \in Holding /\ Commit(s, "idle", "validate")
        /\ "idle" \in Location \ Holding /\ "validate" \in Goal
        /\ file' = file /\ issues' \in SUBSET Severity /\ quality' = issues' /\ facts' = facts
    BY <1>5 DEF ParseAdapterFails, Location, Holding, Goal
  <2>4. VerdictMatchesIssues' /\ OneApplyOfFacts' /\ facts' \in SUBSET Generation
    BY <2>2, <2>3 DEF IInv, TypeOK, VerdictMatchesIssues, OneApplyOfFacts
  <2> QED
    BY <2>2, <2>3, <2>4, CommitPreserves
<1>6. CASE ParseDecides(s)
  <2>1. PICK q \in Suggestable(t) :
          LET m == [for |-> t, q |-> q] IN
          \/ CommitParse(s, t, m, "source_confirmation_required", {}, FALSE)
          \/ CommitParse(s, t, m, "ready_to_review", {}, FALSE)
          \/ CommitParse(s, t, m, "mapping_required", {"mapping_required"}, TRUE)
          \/ CommitParse(s, t, m, "validating", {}, row.blocking)
    BY <1>6 DEF ParseDecides, t
  <2>2. pc[s] = "parsing" /\ facts' \in SUBSET Generation /\ OneApplyOfFacts'
    BY <1>6 DEF ParseDecides, IInv, TypeOK, OneApplyOfFacts
  <2>3. [for |-> t, q |-> q] \in Mapping /\ row.blocking \in BOOLEAN
    BY <1>0, <2>1 DEF IInv, TypeOK, Row
  <2>4. /\ {"source_confirmation_required", "ready_to_review", "mapping_required",
           "validating"} \subseteq Status
        /\ {"mapping_required"} \in SUBSET Severity
    BY DEF Status, Severity
  <2> QED
    BY <1>0, <2>1, <2>2, <2>3, <2>4, CommitParsePreserves
<1>7. CASE ParseFails(s)
  BY <1>7, FailEarlyPreserves DEF ParseFails, Holding
<1>8. CASE ParseConflict(s)
  <2>1. pc[s] \in Holding /\ Commit(s, "idle", "validate") /\ UNCHANGED database
    BY <1>8 DEF ParseConflict, Holding
  <2> QED
    BY <2>1, RollbackPreserves
<1> QED
  BY <1>1, <1>2, <1>3, <1>4, <1>5, <1>6, <1>7, <1>8 DEF ParseStep

LEMMA ValidatePreserves ==
    ASSUME IInv, NEW s \in Session, ValidateStep(s)
    PROVE  IInv'
<1>1. CASE ValidateLoad(s)
  <2>1. Validatable(local[s].goal, row) \in BOOLEAN
    BY DEF Validatable
  <2> QED
    BY <1>1, <2>1, LoadIfPreserves DEF ValidateLoad, Location, Holding
<1>2. CASE ValidateFlush(s)
  BY <1>2, FlushPreserves DEF ValidateFlush, Location, Holding
<1>3. CASE ValidateCommit(s)
  <2> DEFINE found == FrameIssues(local[s].snap.type, local[s].snap.mapping)
             status == IF Blocking(found) THEN "issues_found" ELSE "ready_to_apply"
             next == IF local[s].goal = "apply" THEN "apply_load" ELSE "idle"
  <2>1. /\ pc[s] = "validating"
        /\ row' = [Transitioned(row, status) EXCEPT !.blocking = Blocking(found)]
        /\ issues' = found /\ quality' = found
        /\ Commit(s, next, "validate")
        /\ file' = file /\ facts' = facts
    BY <1>3 DEF ValidateCommit
  <2>2. found \in SUBSET Severity
    BY FrameIssuesAreSeverities
  <2>3. status \in Status /\ Blocking(found) \in BOOLEAN
    BY DEF Status, Blocking
  <2>4. row' \in Row /\ row'.status = status /\ row'.blocking = Blocking(found)
    BY <2>1, <2>3, TransitionedIsRow DEF IInv, TypeOK
  <2>5. VerdictMatchesIssues'
    <3>1. Blocking(issues') = Blocking(found)
      BY <2>1
    <3>2. status = "issues_found" <=> Blocking(found)
      OBVIOUS
    <3>3. status \in {"issues_found", "ready_to_apply"}
      OBVIOUS
    <3> HIDE DEF found, status
    <3> QED
      BY <2>4, <3>1, <3>2, <3>3 DEF VerdictMatchesIssues, Blocking
  <2>6. next \in Location \ Holding /\ "validate" \in Goal /\ pc[s] \in Holding
    BY <2>1 DEF Location, Holding, Goal
  <2>7. facts' \in SUBSET Generation /\ OneApplyOfFacts'
    BY <2>1 DEF IInv, TypeOK, OneApplyOfFacts
  <2> HIDE DEF found, status, next
  <2> QED
    BY <2>1, <2>2, <2>4, <2>5, <2>6, <2>7, CommitPreserves
<1>4. CASE ValidateFails(s)
  BY <1>4, FailEarlyPreserves DEF ValidateFails, Holding
<1> QED
  BY <1>1, <1>2, <1>3, <1>4 DEF ValidateStep

\* An apply has deleted all the facts there are, so those it adds are alone.
LEMMA StoreAppliedPreserves ==
    ASSUME IInv, NEW s \in Session, pc[s] = "apply_commit", NEW o,
           NEW found \in SUBSET Severity,
           NEW status \in {"applied", "applied_with_warnings", "failed"},
           StoreApplied(s, o, status, found)
    PROVE  IInv'
<1> DEFINE mine == Written(s)
<1>1. /\ row' = [Transitioned(row, status) EXCEPT !.blocking = Blocking(found)]
      /\ issues' = found /\ quality' = found
      /\ facts' = (facts \ local[s].victims) \cup (IF o.rows = "none" THEN {} ELSE {mine})
      /\ Commit(s, "idle", "validate")
      /\ file' = file
  BY DEF StoreApplied
<1>2. local[s].victims = facts
  BY DEF IInv, DeletedAreCommitted
<1>3. mine \in Generation
  BY DEF IInv, TypeOK, Local, Snapshot, Generation, Written
<1> HIDE DEF mine
<1>4. facts' \subseteq {mine}
  BY <1>1, <1>2
<1>5. facts' \in SUBSET Generation /\ OneApplyOfFacts'
  BY <1>3, <1>4 DEF OneApplyOfFacts
<1>6. row' \in Row /\ row'.status = status /\ row'.blocking = Blocking(found)
  <2>1. status \in Status /\ Blocking(found) \in BOOLEAN
    BY DEF Status, Blocking
  <2> QED
    BY <1>1, <2>1, TransitionedIsRow DEF IInv, TypeOK
<1>7. VerdictMatchesIssues'
  BY <1>1, <1>6 DEF VerdictMatchesIssues, Blocking
<1>8. "idle" \in Location \ Holding /\ "validate" \in Goal /\ pc[s] \in Holding
  BY DEF Location, Holding, Goal
<1> QED
  BY <1>1, <1>5, <1>6, <1>7, <1>8, CommitPreserves

LEMMA ApplyPreserves ==
    ASSUME IInv, NEW s \in Session, ApplyStep(s)
    PROVE  IInv'
<1>1. CASE ApplyLoad(s)
  <2>1. (~row.blocking) \in BOOLEAN
    OBVIOUS
  <2> QED
    BY <1>1, <2>1, LoadIfPreserves DEF ApplyLoad, Location, Holding
<1>2. CASE ApplyFlush(s)
  BY <1>2, FlushPreserves DEF ApplyFlush, Location, Holding
<1>3. CASE ApplyRows(s)
  <2> USE <1>3 DEF ApplyRows, IInv, Goto, database
  <2>1. local' \in [Session -> Local]
    BY DEF TypeOK, Local
  <2>2. TypeOK'
    BY <2>1 DEF TypeOK, Location, Holding
  <2>3. LockHeldOnlyAtWork'
    BY DEF LockHeldOnlyAtWork, TypeOK, Holding
  <2>4. DeletedAreCommitted'
    BY DEF DeletedAreCommitted, TypeOK
  <2> QED
    BY <2>2, <2>3, <2>4, DatabaseUnchanged
<1>4. ASSUME NEW o
      PROVE  ApplyIssues(s, o) \in SUBSET Severity
  BY FrameIssuesAreSeverities DEF ApplyIssues, Severity
<1>5. CASE ApplyCommit(s)
  <2>1. PICK o : StoreApplied(s, o, AppliedStatus(o, ApplyIssues(s, o)), ApplyIssues(s, o))
    BY <1>5 DEF ApplyCommit
  <2>2. AppliedStatus(o, ApplyIssues(s, o)) \in {"applied", "applied_with_warnings", "failed"}
    BY DEF AppliedStatus
  <2>3. pc[s] = "apply_commit"
    BY <1>5 DEF ApplyCommit
  <2> QED
    BY <1>4, <2>1, <2>2, <2>3, StoreAppliedPreserves
<1>6. CASE ApplyMaterializeFails(s)
  <2>1. PICK o : StoreApplied(s, o, "failed", ApplyIssues(s, o))
    BY <1>6 DEF ApplyMaterializeFails
  <2>2. pc[s] = "apply_commit"
    BY <1>6 DEF ApplyMaterializeFails
  <2> QED
    BY <1>4, <2>1, <2>2, StoreAppliedPreserves
<1>7. CASE ApplyConflict(s)
  <2>1. pc[s] \in Holding /\ Commit(s, "idle", "validate") /\ UNCHANGED database
    BY <1>7 DEF ApplyConflict, Holding
  <2> QED
    BY <2>1, RollbackPreserves
<1>8. CASE ApplyFails(s)
  BY <1>8, FailEarlyPreserves DEF ApplyFails, Holding
<1> QED
  BY <1>1, <1>2, <1>3, <1>5, <1>6, <1>7, <1>8 DEF ApplyStep

-----------------------------------------------------------------------------
(***************************************************************************)
(* The theorems.                                                           *)
(***************************************************************************)
LEMMA NextPreserves == IInv /\ [Next]_vars => IInv'
<1> SUFFICES ASSUME IInv, [Next]_vars PROVE IInv'
  OBVIOUS
<1>1. CASE Next
  <2>1. PICK s \in Session : Request(s) \/ Work(s) \/ Crash(s)
    BY <1>1 DEF Next
  <2> QED
    BY <2>1, RequestPreserves, ParsePreserves, SaveCommitPreserves, ValidatePreserves,
       ApplyPreserves, CrashPreserves DEF Work
<1>2. CASE UNCHANGED vars
  BY <1>2 DEF IInv, vars, TypeOK, LockHeldOnlyAtWork, DeletedAreCommitted, OneApplyOfFacts,
              VerdictMatchesIssues, QualityMirrorsIssues, Blocking
<1> QED
  BY <1>1, <1>2

\* The inductive invariant holds in every reachable state of any number of
\* concurrent requests of modules/uploads/service.py.
THEOREM Safety == Spec => []IInv
BY InitEstablishes, NextPreserves, PTL DEF Spec

\* Types of the tables and of the memory of the requests.
THEOREM TypeCorrect == Spec => []TypeOK
BY Safety, PTL DEF IInv

\* The row lock of upload_batches is held only between a flush and its commit.
THEOREM LockIsReleased == Spec => []LockHeldOnlyAtWork
BY Safety, PTL DEF IInv

\* However applies, validations and parses of a batch overlap, its facts in a table are
\* those of one apply or import (apply_upload_file, the warehouse adapter).
THEOREM AppliesDoNotMix == Spec => []OneApplyOfFacts
BY Safety, PTL DEF IInv

\* The verdict in validation_payload, the status and the issue rows agree.
THEOREM VerdictIsConsistent == Spec => []VerdictMatchesIssues
BY Safety, PTL DEF IInv

\* QualityIssue follows UploadedRowIssue (_refresh_quality_issues).
THEOREM QualityFollowsIssues == Spec => []QualityMirrorsIssues
BY Safety, PTL DEF IInv

\* Facts of a batch vanish only in a commit that marks it failed, or when the warehouse
\* adapter imports a file it finds nothing in.
THEOREM FactsAreNotLostSilently == Spec => FactsVanishOnlyOnFailure
<1>1. ASSUME IInv, [Next]_vars
      PROVE  [facts # {} /\ facts' = {} =>
                row'.status = "failed" \/ \E s \in Session : BlankImport(s)]_vars
  <2> SUFFICES ASSUME Next, facts # {}, facts' = {}
               PROVE  row'.status = "failed" \/ \E s \in Session : BlankImport(s)
    BY <1>1
  <2>1. PICK s \in Session : Request(s) \/ Work(s) \/ Crash(s)
    BY DEF Next
  <2>2. CASE Request(s)
    BY <2>2 DEF Request, CreateUpload, ConfirmSourceType, SuggestMapping, SaveMapping,
                LoadForMapping, RequestValidate, RequestApply, RequestValidation, database
  <2>3. CASE Crash(s)
    BY <2>3 DEF Crash, database
  <2>4. CASE ParseStep(s)
    <3>1. CASE ParseImportsWarehouse(s)
      <4>1. /\ pc[s] = "parsing" /\ file.warehouse = "blank"
            /\ CommitParse(s, "stock", WarehouseMapping, "applied", {}, FALSE)
        BY <3>1 DEF ParseImportsWarehouse
      <4>2. pc'[s] = "validate_load"
        BY <1>1, <4>1 DEF CommitParse, Commit, Continue, Goto, IInv, TypeOK
      <4> QED
        BY <4>1, <4>2 DEF BlankImport
    <3> QED
      BY <2>4, <3>1 DEF ParseStep, ParseLoad, LoadIf, ParseFlush, Flush,
                ParseImportsReferenceData, ParseAdapterFails, ParseDecides, ParseFails,
                FailEarly, ParseConflict, database
  <2>5. CASE SaveCommit(s)
    BY <2>5 DEF SaveCommit
  <2>6. CASE ValidateStep(s)
    BY <2>6 DEF ValidateStep, ValidateLoad, LoadIf, ValidateFlush, Flush, ValidateCommit,
                ValidateFails, FailEarly, database
  <2>7. CASE ApplyStep(s)
    <3>1. CASE ApplyCommit(s)
      <4>1. PICK o \in Outcomes(local[s].snap.type, local[s].snap.mapping) :
              StoreApplied(s, o, AppliedStatus(o, ApplyIssues(s, o)), ApplyIssues(s, o))
        BY <3>1 DEF ApplyCommit
      <4>2. o.rows = "none"
        BY <4>1 DEF StoreApplied
      <4>3. ApplyIssues(s, o) # {}
        BY <4>1, <4>2, NothingAppliedIsAnIssue DEF ApplyIssues
      <4> QED
        BY <4>1, <4>2, <4>3, <1>1, TransitionedIsRow
        DEF StoreApplied, AppliedStatus, IInv, TypeOK, Status, Blocking
    <3>2. CASE ApplyMaterializeFails(s)
      BY <3>2, <1>1, TransitionedIsRow
      DEF ApplyMaterializeFails, StoreApplied, IInv, TypeOK, Status, Blocking
    <3> QED
      BY <2>7, <3>1, <3>2 DEF ApplyStep, ApplyLoad, LoadIf, ApplyFlush, Flush, ApplyRows,
                              ApplyConflict, ApplyFails, FailEarly, database
  <2> QED
    BY <2>1, <2>2, <2>3, <2>4, <2>5, <2>6, <2>7 DEF Work
<1> QED
  BY <1>1, Safety, PTL DEF Spec, FactsVanishOnlyOnFailure

-----------------------------------------------------------------------------
(***************************************************************************)
(* What the status says, when requests run one after another.              *)
(***************************************************************************)
\* No request begins while another one is under way.
OneAtATime ==
    \A s, t \in Session : pc[s] # "idle" /\ pc[t] # "idle" => s = t

\* Where a request works on the columns it has loaded, and where it is going to apply.
Loaded == {"parse_flush", "save_commit", "validate_flush", "apply_flush"} \cup Holding
Applying == {"apply_load", "apply_flush", "applying", "apply_commit"}

\* What a request has loaded is still so; the verdict it is about to apply by is the
\* one of the type and mapping it will apply, and it was looked at.
MemoryIsTrue(s) ==
    /\ pc[s] \in Loaded => local[s].snap.type = row.type /\ local[s].snap.mapping = row.mapping
    /\ pc[s] = "save_commit" => local[s].snap.status = row.status
    /\ pc[s] \in Applying => (row.blocking <=> Blocking(FrameIssues(row.type, row.mapping)))
    /\ pc[s] \in Applying \ {"apply_load"} => ~row.blocking

SerialInv == StatusIsTrue /\ \A s \in Session : MemoryIsTrue(s)

LEMMA SerialInit == Init => SerialInv
BY DEF Init, SerialInv, StatusIsTrue, MemoryIsTrue, NoRow, Loaded, Applying, Holding

\* When a request moves, the others are idle.
LEMMA OthersAreIdle ==
    ASSUME IInv, OneAtATime, OneAtATime', NEW s \in Session, NEW l, Goto(s, l),
           pc[s] # "idle" \/ l # "idle"
    PROVE  pc'[s] = l /\ \A t \in Session \ {s} : pc'[t] = "idle"
<1>1. pc \in [Session -> Location] /\ pc' = [pc EXCEPT ![s] = l]
  BY DEF IInv, TypeOK, Goto
<1>2. pc'[s] = l /\ \A t \in Session \ {s} : pc'[t] = pc[t]
  BY <1>1
<1>3. SUFFICES ASSUME NEW t \in Session \ {s}, pc[t] # "idle" PROVE FALSE
  BY <1>2
<1>4. CASE pc[s] # "idle"
  BY <1>3, <1>4 DEF OneAtATime
<1>5. CASE l # "idle"
  BY <1>2, <1>3, <1>5 DEF OneAtATime
<1> QED
  BY <1>4, <1>5

\* A request that goes to a place where it remembers nothing: only the status remains.
LEMMA NothingRemembered ==
    ASSUME IInv, OneAtATime, OneAtATime', NEW s \in Session, NEW l, Goto(s, l),
           pc[s] # "idle" \/ l # "idle", l \notin Loaded \cup Applying, StatusIsTrue'
    PROVE  SerialInv'
<1>1. \A t \in Session : pc'[t] \notin Loaded \cup Applying
  BY OthersAreIdle DEF Loaded, Applying, Holding
<1>2. \A t \in Session : MemoryIsTrue(t)'
  BY <1>1 DEF MemoryIsTrue, Loaded, Holding
<1> QED
  BY <1>2 DEF SerialInv

\* A request that goes elsewhere remembers what MemoryIsTrue asks of it.
LEMMA SomethingRemembered ==
    ASSUME IInv, OneAtATime, OneAtATime', NEW s \in Session, NEW l, Goto(s, l),
           l # "idle", MemoryIsTrue(s)', StatusIsTrue'
    PROVE  SerialInv'
<1>1. \A t \in Session \ {s} : pc'[t] = "idle"
  BY OthersAreIdle
<1>2. \A t \in Session \ {s} : MemoryIsTrue(t)'
  BY <1>1 DEF MemoryIsTrue, Loaded, Applying, Holding
<1> QED
  BY <1>2 DEF SerialInv

LEMMA StatusUnchanged ==
    ASSUME StatusIsTrue, UNCHANGED database
    PROVE  StatusIsTrue'
BY DEF StatusIsTrue, database, Blocking

LEMMA FlushSerial ==
    ASSUME IInv, SerialInv, OneAtATime, OneAtATime', NEW s \in Session,
           NEW from \in Loaded \ Holding, NEW to \in Holding, Flush(s, from, to),
           from \notin Applying => to \notin Applying
    PROVE  SerialInv'
<1> USE DEF Flush, Goto, database
<1>1. MemoryIsTrue(s) /\ StatusIsTrue
  BY DEF SerialInv
<1>2. pc[s] = from /\ pc'[s] = to
  BY DEF IInv, TypeOK
<1>3. MemoryIsTrue(s)'
  BY <1>1, <1>2 DEF MemoryIsTrue, Loaded, Applying, Holding, Blocking
<1> QED
  BY <1>1, <1>3, StatusUnchanged, SomethingRemembered DEF Holding

LEMMA LoadIfSerial ==
    ASSUME IInv, SerialInv, OneAtATime, OneAtATime', NEW s \in Session,
           NEW from \in Location \ {"idle"}, NEW fit \in BOOLEAN,
           NEW next \in {"parse_flush", "validate_flush", "apply_flush"},
           LoadIf(s, from, fit, next),
           next = "apply_flush" => from = "apply_load" /\ (fit => ~row.blocking)
    PROVE  SerialInv'
<1> USE DEF LoadIf, Goto, database
<1>1. MemoryIsTrue(s) /\ StatusIsTrue
  BY DEF SerialInv
<1>2. StatusIsTrue'
  BY <1>1, StatusUnchanged
<1>3. CASE fit /\ Goto(s, next) /\ local' = [local EXCEPT
               ![s].snap = [@ EXCEPT !.type = row.type, !.mapping = row.mapping]]
  <2>1. pc[s] = from /\ pc'[s] = next
    BY <1>3 DEF IInv, TypeOK
  <2>2. local[s].snap \in Snapshot /\ local[s] \in Local
    BY DEF IInv, TypeOK, Local
  <2>3. local'[s].snap = [local[s].snap EXCEPT !.type = row.type, !.mapping = row.mapping]
    BY <1>3, <2>2 DEF IInv, TypeOK, Local
  <2>4. local'[s].snap.type = row'.type /\ local'[s].snap.mapping = row'.mapping
    BY <2>2, <2>3 DEF Snapshot
  <2>5. MemoryIsTrue(s)'
    BY <1>1, <1>3, <2>1, <2>4 DEF MemoryIsTrue, Loaded, Applying, Holding, Blocking
  <2> QED
    BY <1>2, <1>3, <2>5, SomethingRemembered
<1>4. CASE Goto(s, "idle")
  BY <1>2, <1>4, NothingRemembered DEF Loaded, Applying, Holding
<1> QED
  BY <1>3, <1>4 DEF Continue

LEMMA RequestSerial ==
    ASSUME IInv, SerialInv, OneAtATime, OneAtATime', NEW s \in Session, Request(s)
    PROVE  SerialInv'
<1>0. StatusIsTrue
  BY DEF SerialInv
<1>1. CASE CreateUpload(s)
  <2>1. row'.status = "uploaded" /\ row'.logged = "uploaded" /\ Goto(s, "parse_load")
    BY <1>1 DEF CreateUpload
  <2>2. StatusIsTrue'
    BY <2>1 DEF StatusIsTrue
  <2> QED
    BY <2>1, <2>2, NothingRemembered DEF Loaded, Applying, Holding
<1>2. CASE ConfirmSourceType(s)
  <2>1. Goto(s, "parse_load") /\ UNCHANGED database
    BY <1>2 DEF ConfirmSourceType
  <2> QED
    BY <1>0, <2>1, StatusUnchanged, NothingRemembered DEF Loaded, Applying, Holding
<1>3. ASSUME NEW qs, LoadForMapping(s, qs)
      PROVE  SerialInv'
  <2>1. PICK q \in qs : local' = [local EXCEPT ![s] = [local[s] EXCEPT
             !.snap = [type |-> row.type, mapping |-> row.mapping, status |-> row.status],
             !.draft = [for |-> row.type, q |-> q]]]
    BY <1>3 DEF LoadForMapping
  <2>2. Goto(s, "save_commit") /\ UNCHANGED database
    BY <1>3 DEF LoadForMapping
  <2>3. pc'[s] = "save_commit" /\ row' = row
    BY <2>2 DEF Goto, IInv, TypeOK, database
  <2>4. local'[s].snap
          = [type |-> row.type, mapping |-> row.mapping, status |-> row.status]
    BY <2>1 DEF IInv, TypeOK, Local
  <2>5. MemoryIsTrue(s)'
    BY <2>3, <2>4 DEF MemoryIsTrue, Applying
  <2> QED
    BY <1>0, <2>2, <2>5, StatusUnchanged, SomethingRemembered
<1>4. ASSUME NEW why, RequestValidation(s, why)
      PROVE  SerialInv'
  <2>1. Goto(s, "validate_load") /\ UNCHANGED database
    BY <1>4 DEF RequestValidation, Continue
  <2> QED
    BY <1>0, <2>1, StatusUnchanged, NothingRemembered DEF Loaded, Applying, Holding
<1> QED
  BY <1>1, <1>2, <1>3, <1>4 DEF Request, SuggestMapping, SaveMapping, RequestValidate,
                                RequestApply

LEMMA CrashSerial ==
    ASSUME IInv, SerialInv, OneAtATime, OneAtATime', NEW s \in Session, Crash(s)
    PROVE  SerialInv'
<1>1. StatusIsTrue /\ Goto(s, "idle") /\ pc[s] # "idle" /\ UNCHANGED database
  BY DEF Crash, Continue, SerialInv
<1> QED
  BY <1>1, StatusUnchanged, NothingRemembered DEF Loaded, Applying, Holding

\* A commit that ends the request or goes on to validate: only the status is left to see.
LEMMA CommitSerial ==
    ASSUME IInv, OneAtATime, OneAtATime', NEW s \in Session, pc[s] \in Holding,
           NEW next \in {"idle", "validate_load"}, NEW why, Commit(s, next, why),
           StatusIsTrue'
    PROVE  SerialInv'
<1>1. pc[s] # "idle" /\ Goto(s, next)
  BY DEF Commit, Continue, Holding
<1> QED
  BY <1>1, NothingRemembered DEF Loaded, Applying, Holding

\* What the helper that changes the status leaves of the other columns.
LEMMA TransitionedKeeps ==
    ASSUME NEW r \in Row, NEW status, NEW b
    PROVE  /\ Transitioned(r, status).status = status
           /\ Transitioned(r, status).logged = status
           /\ [Transitioned(r, status) EXCEPT !.blocking = b].status = status
           /\ [Transitioned(r, status) EXCEPT !.blocking = b].logged = status
           /\ [Transitioned(r, status) EXCEPT !.blocking = b].blocking = b
           /\ [Transitioned(r, status) EXCEPT !.blocking = b].type = r.type
           /\ [Transitioned(r, status) EXCEPT !.blocking = b].mapping = r.mapping
BY DEF Row, Transitioned

LEMMA FailEarlySerial ==
    ASSUME IInv, OneAtATime, OneAtATime', NEW s \in Session, NEW at \in Holding,
           FailEarly(s, at)
    PROVE  SerialInv'
<1>1. row'.status = "failed" /\ row'.logged = "failed"
  BY TransitionedKeeps DEF FailEarly, IInv, TypeOK
<1>2. StatusIsTrue'
  BY <1>1 DEF StatusIsTrue
<1> QED
  BY <1>2, CommitSerial DEF FailEarly

LEMMA RollbackSerial ==
    ASSUME IInv, SerialInv, OneAtATime, OneAtATime', NEW s \in Session, pc[s] \in Holding,
           Commit(s, "idle", "validate"), UNCHANGED database
    PROVE  SerialInv'
BY StatusUnchanged, CommitSerial DEF SerialInv

LEMMA SaveCommitSerial ==
    ASSUME IInv, SerialInv, OneAtATime, OneAtATime', NEW s \in Session, SaveCommit(s)
    PROVE  SerialInv'
<1> DEFINE status == StatusForMapping(local[s].snap.type, local[s].draft)
           merged == Merged(status, local[s].snap.status, row.status)
           next == IF status = "validating" THEN "validate_load" ELSE "idle"
<1>1. /\ \E mapping \in MergedMappings(local[s].draft, local[s].snap.mapping, row.mapping) :
           row' = [row EXCEPT !.mapping = mapping, !.status = merged, !.logged = status]
      /\ Goto(s, next)
      /\ pc[s] = "save_commit"
  BY DEF SaveCommit, Continue
<1>2. status \in {"ready_to_review", "mapping_required", "validating"}
  BY DEF StatusForMapping
<1>3. local[s].snap.status = row.status
  BY <1>1 DEF SerialInv, MemoryIsTrue
<1>4. merged = status
  BY <1>3 DEF Merged
<1>5. next \in {"idle", "validate_load"}
  OBVIOUS
<1> HIDE DEF status, merged, next
<1>6. row'.status = status /\ row'.logged = status
  BY <1>1, <1>4 DEF IInv, TypeOK, Row
<1>7. StatusIsTrue'
  BY <1>2, <1>6 DEF StatusIsTrue
<1> QED
  BY <1>1, <1>5, <1>7, NothingRemembered DEF Loaded, Applying, Holding

LEMMA ValidateSerial ==
    ASSUME IInv, SerialInv, OneAtATime, OneAtATime', NEW s \in Session, ValidateStep(s)
    PROVE  SerialInv'
<1>1. CASE ValidateLoad(s)
  <2>1. Validatable(local[s].goal, row) \in BOOLEAN
    BY DEF Validatable
  <2> QED
    BY <1>1, <2>1, LoadIfSerial DEF ValidateLoad, Location, Holding
<1>2. CASE ValidateFlush(s)
  BY <1>2, FlushSerial DEF ValidateFlush, Loaded, Applying, Holding
<1>3. CASE ValidateCommit(s)
  <2> DEFINE found == FrameIssues(local[s].snap.type, local[s].snap.mapping)
             status == IF Blocking(found) THEN "issues_found" ELSE "ready_to_apply"
             next == IF local[s].goal = "apply" THEN "apply_load" ELSE "idle"
  <2>1. /\ pc[s] = "validating"
        /\ row' = [Transitioned(row, status) EXCEPT !.blocking = Blocking(found)]
        /\ Commit(s, next, "validate")
    BY <1>3 DEF ValidateCommit
  <2>2. found = FrameIssues(row.type, row.mapping)
    BY <2>1 DEF SerialInv, MemoryIsTrue, Loaded, Holding
  <2>3. status \in {"issues_found", "ready_to_apply"}
        /\ (status = "ready_to_apply" => ~Blocking(found))
    OBVIOUS
  <2>4. next \in {"idle", "apply_load"}
    OBVIOUS
  <2> HIDE DEF found, status, next
  <2>5. /\ row'.status = status /\ row'.logged = status /\ row'.blocking = Blocking(found)
        /\ row'.type = row.type /\ row'.mapping = row.mapping
    BY <2>1, TransitionedKeeps DEF IInv, TypeOK
  <2>6. StatusIsTrue'
    BY <2>2, <2>3, <2>5 DEF StatusIsTrue, Blocking
  <2>7. CASE next = "idle"
    BY <2>1, <2>6, <2>7, CommitSerial DEF Holding
  <2>8. CASE next = "apply_load"
    <3>1. Goto(s, "apply_load") /\ pc'[s] = "apply_load"
      BY <2>1, <2>8 DEF Commit, Continue, Goto, IInv, TypeOK
    <3>2. row'.blocking <=> Blocking(FrameIssues(row'.type, row'.mapping))
      BY <2>2, <2>5
    <3>3. MemoryIsTrue(s)'
      BY <3>1, <3>2 DEF MemoryIsTrue, Loaded, Holding, Applying, Blocking
    <3> QED
      BY <2>6, <3>1, <3>3, SomethingRemembered
  <2> QED
    BY <2>4, <2>7, <2>8
<1>4. CASE ValidateFails(s)
  BY <1>4, FailEarlySerial DEF ValidateFails, Holding
<1> QED
  BY <1>1, <1>2, <1>3, <1>4 DEF ValidateStep

\* What StatusIsTrue asks of an applied batch.
AppliedIsTrue(written, t, m, found) ==
    LET own == {g \in written : g.table = t}
        adapted == file.warehouse # "other" /\ m = WarehouseMapping
    IN
    /\ own # {} \/ (adapted /\ file.warehouse = "blank")
    /\ \A g \in own : g.mapping = m
    /\ own = written \/ adapted
    /\ "error" \notin found

\* The row of a parse has the type and the mapping that the parse found.
LEMMA ParsedAlone ==
    ASSUME IInv, SerialInv, NEW s \in Session, pc[s] = "parsing",
           NEW t \in AllTypes, NEW m \in Mapping, NEW r \in Parsed(s, t, m)
    PROVE  r \in Row /\ r.type = t /\ r.mapping = m
<1>1. local[s].snap.type = row.type /\ local[s].snap.mapping = row.mapping
  BY DEF SerialInv, MemoryIsTrue, Loaded, Holding
<1>2. PICK merged \in MergedMappings(m, local[s].snap.mapping, row.mapping) :
        r = [row EXCEPT !.type = Merged(t, local[s].snap.type, row.type), !.mapping = merged]
  BY DEF Parsed
<1>3. merged = m /\ Merged(t, local[s].snap.type, row.type) = t
  BY <1>1, <1>2 DEF MergedMappings, Merged
<1>4. row \in Row
  BY DEF IInv, TypeOK
<1> QED
  BY <1>2, <1>3, <1>4 DEF Row

LEMMA CommitParseSerial ==
    ASSUME IInv, SerialInv, OneAtATime, OneAtATime', NEW s \in Session, pc[s] = "parsing",
           NEW t \in AllTypes, NEW m \in Mapping, NEW status \in Status, NEW found, NEW blocked,
           CommitParse(s, t, m, status, found, blocked),
           status \notin {"ready_to_apply", "applied_with_warnings"},
           status = "applied" /\ SupportsApply(t) => AppliedIsTrue(facts', t, m, found)
    PROVE  SerialInv'
<1>1. PICK r \in Parsed(s, t, m) :
        row' = [Transitioned(r, status) EXCEPT !.blocking = blocked]
  BY DEF CommitParse
<1>2. r \in Row /\ r.type = t /\ r.mapping = m
  BY ParsedAlone
<1>3. row'.status = status /\ row'.logged = status /\ row'.type = t /\ row'.mapping = m
  BY <1>1, <1>2, TransitionedKeeps
<1>4. issues' = found /\ Commit(s, "validate_load", "parse")
  BY DEF CommitParse
<1>5. StatusIsTrue'
  BY <1>3, <1>4 DEF StatusIsTrue, AppliedIsTrue, CommitParse
<1> QED
  BY <1>4, <1>5, CommitSerial DEF Holding

LEMMA ParseSerial ==
    ASSUME IInv, SerialInv, OneAtATime, OneAtATime', NEW s \in Session, ParseStep(s)
    PROVE  SerialInv'
<1> DEFINE t == DetectedType(local[s].hint)
<1>0. t \in AllTypes /\ \A q \in Suggestable(t) : [for |-> t, q |-> q] \in Mapping
  <2>1. local[s].hint \in AllTypes \cup {NoHint}
    BY DEF IInv, TypeOK, Local
  <2>2. t \in AllTypes
    BY <2>1, DetectedIsType DEF IInv
  <2> QED
    BY <2>2, SuggestableIsQuality DEF Mapping
<1> HIDE DEF t
<1>1. CASE ParseLoad(s)
  BY <1>1, LoadIfSerial DEF ParseLoad, Location
<1>2. CASE ParseFlush(s)
  BY <1>2, FlushSerial DEF ParseFlush, Loaded, Applying, Holding
<1>3. CASE ParseImportsReferenceData(s)
  <2> DEFINE m == [for |-> t, q |-> IF t = "management_report" THEN "empty" ELSE "clean"]
  <2>1. /\ pc[s] = "parsing" /\ CommitParse(s, t, m, "applied", {}, FALSE)
        /\ AutoApply(t)
    BY <1>3 DEF ParseImportsReferenceData, t
  <2>2. m \in Mapping /\ "applied" \in Status
    BY <1>0 DEF Mapping, Quality, Status
  <2>3. ~SupportsApply(t)
    BY <2>1 DEF AutoApply, SupportsApply
  <2> HIDE DEF m
  <2> QED
    BY <1>0, <2>1, <2>2, <2>3, CommitParseSerial
<1>4. CASE ParseImportsWarehouse(s)
  <2> DEFINE m == WarehouseMapping
             others == {g \in facts : g.table # "stock"}
             new == [by |-> s, table |-> "stock", mapping |-> m]
  <2>1. /\ pc[s] = "parsing" /\ CommitParse(s, "stock", m, "applied", {}, FALSE)
        /\ facts' = others \cup IF file.warehouse = "blank" THEN {} ELSE {new}
        /\ file.warehouse # "other"
    BY <1>4 DEF ParseImportsWarehouse, ReadsWarehouse
  <2>2. m \in Mapping /\ "stock" \in AllTypes /\ "applied" \in Status
    BY DEF WarehouseMapping, Mapping, Quality, AllTypes, Status
  <2>3. AppliedIsTrue(facts', "stock", m, {})
    <3>1. new.table = "stock" /\ new.mapping = m
      OBVIOUS
    <3>2. {g \in facts' : g.table = "stock"} = IF file.warehouse = "blank" THEN {} ELSE {new}
      <4> HIDE DEF new
      <4> QED
        BY <2>1, <3>1
    <3> HIDE DEF new, others
    <3> QED
      BY <2>1, <3>1, <3>2 DEF AppliedIsTrue
  <2> HIDE DEF m, others, new
  <2> QED
    BY <2>1, <2>2, <2>3, CommitParseSerial
<1>5. CASE ParseAdapterFails(s)
  <2>1. PICK q \in Suggestable(t) : \E r \in Parsed(s, t, [for |-> t, q |-> q]) :
          row' = Transitioned(r, "failed")
    BY <1>5 DEF ParseAdapterFails, t
  <2>2. pc[s] = "parsing" /\ Commit(s, "idle", "validate")
    BY <1>5 DEF ParseAdapterFails
  <2>3. row'.status = "failed" /\ row'.logged = "failed"
    BY <1>0, <2>1, ParsedIsRow, TransitionedKeeps DEF IInv
  <2>4. StatusIsTrue'
    BY <2>3 DEF StatusIsTrue
  <2> QED
    BY <2>2, <2>4, CommitSerial DEF Holding
<1>6. CASE ParseDecides(s)
  <2>1. PICK q \in Suggestable(t) :
          LET m == [for |-> t, q |-> q] IN
          \/ CommitParse(s, t, m, "source_confirmation_required", {}, FALSE)
          \/ CommitParse(s, t, m, "ready_to_review", {}, FALSE)
          \/ CommitParse(s, t, m, "mapping_required", {"mapping_required"}, TRUE)
          \/ CommitParse(s, t, m, "validating", {}, row.blocking)
    BY <1>6 DEF ParseDecides, t
  <2>2. pc[s] = "parsing" /\ [for |-> t, q |-> q] \in Mapping
    BY <1>0, <1>6, <2>1 DEF ParseDecides
  <2>3. {"source_confirmation_required", "ready_to_review", "mapping_required",
         "validating"} \subseteq Status
    BY DEF Status
  <2> QED
    BY <1>0, <2>1, <2>2, <2>3, CommitParseSerial
<1>7. CASE ParseFails(s)
  BY <1>7, FailEarlySerial DEF ParseFails, Holding
<1>8. CASE ParseConflict(s)
  BY <1>8, RollbackSerial DEF ParseConflict, Holding
<1> QED
  BY <1>1, <1>2, <1>3, <1>4, <1>5, <1>6, <1>7, <1>8 DEF ParseStep

\* A mapping that was looked at and found not to block lets no error through.
LEMMA NoErrorWithoutBlocking ==
    ASSUME NEW t, NEW m, ~Blocking(FrameIssues(t, m))
    PROVE  "error" \notin FrameIssues(t, m)
BY DEF Blocking

LEMMA ApplySerial ==
    ASSUME IInv, SerialInv, OneAtATime, OneAtATime', NEW s \in Session, ApplyStep(s)
    PROVE  SerialInv'
<1>1. CASE ApplyLoad(s)
  <2>1. (~row.blocking) \in BOOLEAN
    OBVIOUS
  <2> QED
    BY <1>1, <2>1, LoadIfSerial DEF ApplyLoad, Location
<1>2. CASE ApplyFlush(s)
  BY <1>2, FlushSerial DEF ApplyFlush, Loaded, Applying, Holding
<1>3. CASE ApplyRows(s)
  <2> USE <1>3 DEF ApplyRows, Goto, database
  <2>1. StatusIsTrue /\ MemoryIsTrue(s)
    BY DEF SerialInv
  <2>2. pc[s] = "applying" /\ pc'[s] = "apply_commit" /\ row' = row
    BY DEF IInv, TypeOK
  <2>3. local'[s].snap = local[s].snap
    BY DEF IInv, TypeOK, Local
  <2>4. MemoryIsTrue(s)'
    BY <2>1, <2>2, <2>3 DEF MemoryIsTrue, Loaded, Applying, Holding, Blocking
  <2> QED
    BY <2>1, <2>4, StatusUnchanged, SomethingRemembered
<1>4. CASE ApplyCommit(s)
  <2> DEFINE t == local[s].snap.type
             m == local[s].snap.mapping
  <2>1. PICK o \in Outcomes(t, m) :
          StoreApplied(s, o, AppliedStatus(o, ApplyIssues(s, o)), ApplyIssues(s, o))
    BY <1>4 DEF ApplyCommit
  <2> DEFINE found == ApplyIssues(s, o)
             status == AppliedStatus(o, found)
             mine == Written(s)
  <2>2. pc[s] = "apply_commit" /\ t = row.type /\ m = row.mapping
        /\ ~Blocking(FrameIssues(row.type, row.mapping)) /\ local[s].victims = facts
    BY <1>4 DEF ApplyCommit, SerialInv, MemoryIsTrue, Loaded, Applying, Holding, IInv,
                DeletedAreCommitted
  <2>3. "error" \notin found
    BY <2>2, NoErrorWithoutBlocking DEF ApplyIssues
  <2>4. status \in {"applied", "applied_with_warnings", "failed"}
    BY DEF AppliedStatus
  <2>5. status # "failed" => o.rows # "none"
    <3>1. o.rows = "none" => found # {}
      BY <2>1, NothingAppliedIsAnIssue DEF ApplyIssues
    <3> HIDE DEF found
    <3> QED
      BY <3>1 DEF AppliedStatus
  <2> HIDE DEF status
  <2>6. /\ row' = [Transitioned(row, status) EXCEPT !.blocking = Blocking(found)]
        /\ issues' = found
        /\ facts' = (facts \ local[s].victims) \cup (IF o.rows = "none" THEN {} ELSE {mine})
        /\ Commit(s, "idle", "validate")
    BY <2>1 DEF StoreApplied, status
  <2> HIDE DEF found
  <2>7. row'.status = status /\ row'.logged = status /\ row'.mapping = m
    BY <2>2, <2>6, TransitionedKeeps DEF IInv, TypeOK
  <2>8. status # "failed" => {g \in facts' : g.table = t} = facts' /\ facts' # {}
                               /\ \A g \in facts' : g.mapping = m
    <3>1. mine.mapping = m /\ mine.table = t
      BY DEF Written
    <3> HIDE DEF mine, m, t
    <3>2. status # "failed" => facts' = {mine}
      BY <2>2, <2>5, <2>6
    <3> QED
      BY <3>1, <3>2
  <2> HIDE DEF mine, m
  <2>9. row'.type = t
    BY <2>2, <2>6, TransitionedKeeps DEF IInv, TypeOK
  <2> HIDE DEF t
  <2>10. StatusIsTrue'
    BY <2>3, <2>4, <2>6, <2>7, <2>8, <2>9 DEF StatusIsTrue
  <2> QED
    BY <2>2, <2>6, <2>10, CommitSerial DEF Holding
<1>5. CASE ApplyMaterializeFails(s)
  <2>1. PICK o : StoreApplied(s, o, "failed", ApplyIssues(s, o))
    BY <1>5 DEF ApplyMaterializeFails
  <2>2. pc[s] \in Holding /\ Commit(s, "idle", "validate")
    BY <1>5, <2>1 DEF ApplyMaterializeFails, StoreApplied, Holding
  <2>3. row'.status = "failed" /\ row'.logged = "failed"
    BY <2>1, TransitionedKeeps DEF StoreApplied, IInv, TypeOK
  <2>4. StatusIsTrue'
    BY <2>3 DEF StatusIsTrue
  <2> QED
    BY <2>2, <2>4, CommitSerial
<1>6. CASE ApplyConflict(s)
  BY <1>6, RollbackSerial DEF ApplyConflict, Holding
<1>7. CASE ApplyFails(s)
  BY <1>7, FailEarlySerial DEF ApplyFails, Holding
<1> QED
  BY <1>1, <1>2, <1>3, <1>4, <1>5, <1>6, <1>7 DEF ApplyStep

LEMMA NextSerial ==
    IInv /\ SerialInv /\ OneAtATime /\ OneAtATime' /\ [Next]_vars => SerialInv'
<1> SUFFICES ASSUME IInv, SerialInv, OneAtATime, OneAtATime', [Next]_vars PROVE SerialInv'
  OBVIOUS
<1>1. CASE Next
  <2>1. PICK s \in Session : Request(s) \/ Work(s) \/ Crash(s)
    BY <1>1 DEF Next
  <2> QED
    BY <2>1, RequestSerial, ParseSerial, SaveCommitSerial, ValidateSerial, ApplySerial,
       CrashSerial DEF Work
<1>2. CASE UNCHANGED vars
  <2>1. StatusIsTrue'
    BY <1>2, StatusUnchanged DEF SerialInv, vars, database
  <2>2. \A s \in Session : MemoryIsTrue(s)'
    BY <1>2 DEF SerialInv, MemoryIsTrue, vars, Blocking
  <2> QED
    BY <2>1, <2>2 DEF SerialInv
<1> QED
  BY <1>1, <1>2

\* Requests that run one after another, crashes and failures included, keep what the
\* status of a batch says true of its mapping, type and facts.  A second request in
\* between is all that can make a status stale (the UPDATEs of
\* modules/uploads/service.py name only the columns they change).
THEOREM StatusesAreTrueAlone == Spec /\ []OneAtATime => []StatusIsTrue
<1>1. Init => SerialInv
  BY SerialInit
<1>2. IInv /\ SerialInv /\ OneAtATime /\ OneAtATime' /\ [Next]_vars => SerialInv'
  BY NextSerial
<1>3. SerialInv => StatusIsTrue
  BY DEF SerialInv
<1> QED
  BY <1>1, <1>2, <1>3, Safety, PTL DEF Spec

\* In particular when one process serves all requests, as in the run.
THEOREM StatusesAreTrueInOneSession ==
    ASSUME \A s, t \in Session : s = t
    PROVE  Spec => []StatusIsTrue
<1>1. OneAtATime
  BY DEF OneAtATime
<1> QED
  BY <1>1, StatusesAreTrueAlone, PTL

===============================================================================
