----------------------------- MODULE MCAgentsApi -----------------------------
(* Small instances of AgentsApi for TLC.                                   *)
EXTENDS AgentsApi, TLC

\* Agents and sessions are interchangeable in every safety property.
Symmetry == Permutations(Agents) \cup Permutations(Sessions)

=============================================================================
