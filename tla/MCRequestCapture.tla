-------------------------- MODULE MCRequestCapture --------------------------
(* Small instances of RequestCapture for TLC. *)
EXTENDS RequestCapture, TLC

\* Request ids, tasks and workers are only compared for equality.
Symmetry == Permutations(Requests) \cup Permutations(Tasks) \cup Permutations(Workers)
=============================================================================
