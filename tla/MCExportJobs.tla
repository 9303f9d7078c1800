----------------------------- MODULE MCExportJobs -----------------------------
(* The instances of ExportJobs that TLC checks. *)
EXTENDS ExportJobs, TLC

CONSTANTS w1, w2, k1, k2, r1, r2, r3

\* Requests, workers and JobRuns differ only in name.
Symmetry == Permutations(Web) \cup Permutations(Worker) \cup Permutations(Run)
=============================================================================
