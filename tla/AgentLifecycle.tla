--------------------------- MODULE AgentLifecycle ---------------------------
(***************************************************************************)
(* What the lifecycle API promises, were every request served alone: each  *)
(* operation is one atomic step on one agent.  The concurrent API of       *)
(* AgentsApi implements this specification only while no two requests for  *)
(* one agent overlap.                                                      *)
(***************************************************************************)
EXTENDS Lifecycle, Integers, FiniteSetsExt

CONSTANTS Agents,       \* agent ids
          NoRow         \* the absence of a row

VARIABLES status,       \* status[a]: agent a's lifecycle status, or NoRow
          attempts      \* attempts[a]: the numbers of agent a's runs

lifecycle == <<status, attempts>>

\* RunRepository.create_attempt: one above the highest number, 1 when none.
NextAttempt(a) == Max(attempts[a] \cup {0}) + 1

Exists(a) == status[a] # NoRow

Init ==
    /\ status = [a \in Agents |-> NoRow]
    /\ attempts = [a \in Agents |-> {}]

Create(a) ==
    /\ ~Exists(a)
    /\ status' = [status EXCEPT ![a] = "created"]
    /\ UNCHANGED attempts

AttemptActions == {"start", "restart"}

\* _apply_lifecycle_action, whole: new status and, with it, the new attempt.
Apply(a, action) ==
    /\ Exists(a)
    /\ \E target \in NextStatus(status[a], action) :
          status' = [status EXCEPT ![a] = target]
    /\ IF action \in AttemptActions
       THEN attempts' = [attempts EXCEPT ![a] = @ \cup {NextAttempt(a)}]
       ELSE UNCHANGED attempts

\* The execution loop performs a system transition it checked with is_legal.
Advance(a) ==
    /\ Exists(a)
    /\ \E edge \in SystemEdges :
          /\ IsLegal(status[a], edge[2])
          /\ status' = [status EXCEPT ![a] = edge[2]]
    /\ UNCHANGED attempts

Delete(a) ==
    /\ Exists(a)
    /\ status' = [status EXCEPT ![a] = NoRow]
    /\ attempts' = [attempts EXCEPT ![a] = {}]

Next ==
    \E a \in Agents :
       \/ Create(a)
       \/ \E action \in LifecycleAction : Apply(a, action)
       \/ Advance(a)
       \/ Delete(a)

Spec == Init /\ [][Next]_lifecycle

-----------------------------------------------------------------------------
\* The statuses at most one caller action away from `current`.
CallerReach(current) ==
    {current} \cup UNION {NextStatus(current, action) : action \in LifecycleAction}

\* The comment on TRANSITIONS promises that a started agent can always be
\* stopped by its callers alone, before and after the execution loop exists:
\* from every live status `stopped` is within two actions (resume, stop).
CallersCanStop ==
    \A a \in Agents : status[a] \in {"starting", "running", "paused"} =>
        \E between \in CallerReach(status[a]) : "stopped" \in CallerReach(between)

\* `completed` is terminal (ADR-0002 reopens only failed and stopped): the
\* only thing left to do to a completed agent is to delete it.
CompletedStep ==
    \A a \in Agents : status[a] = "completed" => status'[a] \in {"completed", NoRow}

\* Of every step of a behaviour.
CompletedIsTerminal == [][CompletedStep]_lifecycle

=============================================================================
