---------------------------- MODULE AttemptLedger ----------------------------
(***************************************************************************)
(* What the database promises about run attempts however requests overlap: *)
(* an agent is created once, its attempts are numbered 1, 2, 3, ... one at *)
(* a time and never withdrawn, deletion takes all of them, and an id that  *)
(* is gone never comes back.  It says nothing of statuses: those are what  *)
(* overlapping requests may get wrong (see AgentsApi).                     *)
(***************************************************************************)
EXTENDS Integers, FiniteSetsExt

CONSTANT Agents

VARIABLES life,         \* life[a]: "unborn", "alive" or "gone"
          attempts      \* attempts[a]: the committed attempt numbers

ledger == <<life, attempts>>

\* The highest attempt number of a, 0 before the first.
Last(a) == Max(attempts[a] \cup {0})

Init ==
    /\ life = [a \in Agents |-> "unborn"]
    /\ attempts = [a \in Agents |-> {}]

Create(a) ==
    /\ life[a] = "unborn"
    /\ life' = [life EXCEPT ![a] = "alive"]
    /\ UNCHANGED attempts

\* A create whose transaction never commits: its uuid is spent.
Abandon(a) ==
    /\ life[a] = "unborn"
    /\ life' = [life EXCEPT ![a] = "gone"]
    /\ UNCHANGED attempts

Attempt(a) ==
    /\ life[a] = "alive"
    /\ attempts' = [attempts EXCEPT ![a] = @ \cup {Last(a) + 1}]
    /\ UNCHANGED life

Delete(a) ==
    /\ life[a] = "alive"
    /\ life' = [life EXCEPT ![a] = "gone"]
    /\ attempts' = [attempts EXCEPT ![a] = {}]

Next == \E a \in Agents : Create(a) \/ Abandon(a) \/ Attempt(a) \/ Delete(a)

Spec == Init /\ [][Next]_ledger

=============================================================================
