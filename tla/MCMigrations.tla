---------------------------- MODULE MCMigrations ----------------------------
(* Small instances of Migrations for TLC.                                  *)
EXTENDS Migrations, TLC

CONSTANTS m1, m2

\* One migration to any revision, but for the first, which holds nothing the
\* second does not, and a `make migrate` beside it.
MCTargets == m1 :> {0} \cup 2..Latest @@ m2 :> {Latest}

=============================================================================
