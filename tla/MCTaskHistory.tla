--------------------------- MODULE MCTaskHistory ---------------------------
(* Small instances of TaskHistory for TLC.                                 *)
EXTENDS TaskHistory, TLC

\* Runs, tasks and sessions are interchangeable in every safety property.
Symmetry == Permutations(Runs) \cup Permutations(Tasks) \cup Permutations(Sessions)

=============================================================================
