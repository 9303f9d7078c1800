-------------------------- MODULE MCUploadLifecycle --------------------------
(* The instances of UploadLifecycle that TLC checks. *)
EXTENDS UploadLifecycle, TLC

CONSTANTS s1, s2

Symmetry == Permutations(Session)
=============================================================================
