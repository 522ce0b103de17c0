----------------------------- MODULE TaskHistory -----------------------------
(***************************************************************************)
(* The task graph of a run and the history of its iterations: the tables   *)
(* `task` and `iteration_record`, TaskRepository and IterationRepository,  *)
(* over the same PostgreSQL as AgentsApi and under the same session_scope. *)
(*                                                                         *)
(*    plan      check -> commit                     TaskRepository.create    *)
(*    append    key -> check [-> task] -> commit    IterationRepository.append *)
(*    drop      drop -> commit                      a task deleted on its own *)
(*    delete    delete -> cascade* -> commit        AgentRepository.delete   *)
(*                                                                         *)
(* `key` is the unique constraint on (run_id, iteration), `check` the      *)
(* foreign keys to the agent and its run, which live and die together and  *)
(* are one value here, `task` the foreign key to the task.                 *)
(***************************************************************************)
EXTENDS Integers

CONSTANTS Runs,         \* runs, and their agents, there from the start
          Tasks,        \* the uuids tasks may be given
          Iterations,   \* the iteration numbers callers pass
          Sessions,     \* transactions that may be open together
          NoRun,        \* the run of a task that is not there
          NoTask,       \* a task_id that is null
          NoRow         \* an iteration record that is not there

ASSUME IterationsAssumption == Iterations \subseteq Nat
ASSUME NoRunAssumption == NoRun \notin Runs
ASSUME NullAssumption == {NoTask, NoRow} \cap Tasks = {} /\ NoTask # NoRow

VARIABLES
    alive,      \* the runs that have a committed row
    task,       \* task[t]: the run of the committed task t, or NoRun
    record,     \* record[r, n]: the task_id of the committed record, or NoRow
    issued,     \* every uuid given to a task so far
    session     \* session[h]: the transaction h runs

vars == <<alive, task, record, issued, session>>

Keys == Runs \X Iterations

\* The record h appends is of `iteration`; `task` is the task it creates,
\* drops or refers to; `taken` are the tasks its cascade has deleted; `held` is
\* its lock on the agent's row.
Idle == [pc |-> "idle", kind |-> "none", run |-> NoRun, iteration |-> 0,
         task |-> NoTask, taken |-> {}, held |-> "none", code |-> "none"]

Init ==
    /\ alive = Runs
    /\ task = [t \in Tasks |-> NoRun]
    /\ record = [k \in Keys |-> NoRow]
    /\ issued = {}
    /\ session = [h \in Sessions |-> Idle]

TasksOf(r) == {t \in Tasks : task[t] = r}

Others(h) == Sessions \ {h}

\* The unique key of the record s appends.
Key(s) == <<s.run, s.iteration>>

-----------------------------------------------------------------------------
(* How a transaction begins and ends.                                      *)

Begin(h, s) ==
    /\ session[h].pc = "idle"
    /\ session' = [session EXCEPT ![h] = s]
    /\ UNCHANGED <<alive, task, record>>

\* TaskRepository.create: INSERT INTO task with a fresh uuid.
BeginPlan(h) ==
    \E r \in Runs, t \in Tasks \ issued :
        /\ issued' = issued \cup {t}
        /\ Begin(h, [Idle EXCEPT !.pc = "check", !.kind = "plan", !.run = r, !.task = t])

\* IterationRepository.append: INSERT INTO iteration_record, with the number
\* and the task its caller gives it: none, or one it has seen.
BeginAppend(h) ==
    \E r \in Runs, n \in Iterations : \E t \in TasksOf(r) \cup {NoTask} :
        /\ Begin(h, [Idle EXCEPT !.pc = "key", !.kind = "append", !.run = r,
                                 !.iteration = n, !.task = t])
        /\ UNCHANGED issued

\* A task is deleted on its own.
BeginDrop(h) ==
    \E r \in Runs : \E t \in TasksOf(r) :
        /\ Begin(h, [Idle EXCEPT !.pc = "drop", !.kind = "drop", !.run = r, !.task = t])
        /\ UNCHANGED issued

BeginDelete(h) ==
    \E r \in alive :
        /\ Begin(h, [Idle EXCEPT !.pc = "delete", !.kind = "delete", !.run = r])
        /\ UNCHANGED issued

\* The request is over and its transaction left open.
FinishLeaky(h, code) ==
    session' = [session EXCEPT ![h].pc = "idle", ![h].code = code]

\* The transaction is over, its locks with it.
Finish(h, code) == session' = [session EXCEPT ![h] = [Idle EXCEPT !.code = code]]

\* An error leaves the caller: session_scope rolls back.
Raise(h, code) ==
    /\ Finish(h, code)
    /\ UNCHANGED <<alive, task, record, issued>>

Proceed(h, pc, held) ==
    /\ session' = [session EXCEPT ![h].pc = pc, ![h].held = held]
    /\ UNCHANGED <<alive, task, record, issued>>

-----------------------------------------------------------------------------
(* The statements, one action each.                                        *)

\* iteration_record without its unique constraint.
ClaimKeyUnchecked(h) ==
    /\ session[h].pc = "key"
    /\ Proceed(h, "check", "none")

\* uq_iteration_record_run_iteration: an insert of a key that another
\* transaction has inserted waits for its outcome; a key taken is an
\* IntegrityError.
ClaimKey(h) ==
    LET s == session[h] IN
    /\ s.pc = "key"
    /\ ~\E o \in Others(h) :
          /\ session[o].kind = "append" /\ session[o].pc # "key"
          /\ Key(session[o]) = Key(s)
    /\ \/ record[Key(s)] # NoRow /\ Raise(h, "integrity")
       \/ record[Key(s)] = NoRow /\ Proceed(h, "check", "none")

\* The tables without their foreign keys to the agent and the run.
CheckParentUnchecked(h) ==
    LET s == session[h] IN
    /\ s.pc = "check"
    /\ Proceed(h, IF s.kind = "append" /\ s.task # NoTask THEN "task" ELSE "commit", "none")

\* The foreign keys to the agent and the run lock both against deletion; a
\* row that is gone is an IntegrityError.
CheckParent(h) ==
    LET s == session[h] IN
    /\ s.pc = "check"
    /\ ~\E o \in Others(h) : session[o].run = s.run /\ session[o].held = "update"
    /\ \/ s.run \notin alive /\ Raise(h, "integrity")
       \/ /\ s.run \in alive
          /\ Proceed(h, IF s.kind = "append" /\ s.task # NoTask THEN "task" ELSE "commit",
                     "keyshare")

\* iteration_record.task_id as run.current_task_id is: no foreign key.
CheckTaskUnchecked(h) ==
    /\ session[h].pc = "task"
    /\ Proceed(h, "commit", "keyshare")

\* A session that has deleted task t, or one that refers to it, and has not
\* committed.
Dropping(t, o) == session[o].kind = "drop" /\ session[o].task = t /\ session[o].pc = "commit"

Referring(t, o) == session[o].kind = "append" /\ session[o].task = t /\ session[o].pc = "commit"

\* The foreign key to the task: a task being deleted is waited for, one that
\* is gone is an IntegrityError.
CheckTask(h) ==
    LET s == session[h] IN
    /\ s.pc = "task"
    /\ ~\E o \in Others(h) : Dropping(s.task, o)
    /\ \/ task[s.task] = NoRun /\ Raise(h, "integrity")
       \/ task[s.task] # NoRun /\ Proceed(h, "commit", "keyshare")

\* DELETE FROM task waits for those who refer to it, for another delete of it
\* and for the cascade that has it; none left to delete is no error.
DropTask(h) ==
    LET s == session[h] IN
    /\ s.pc = "drop"
    /\ ~\E o \in Others(h) :
          \/ Referring(s.task, o) \/ Dropping(s.task, o)
          \/ s.task \in session[o].taken
    /\ \/ task[s.task] = NoRun /\ Raise(h, "ok")
       \/ task[s.task] # NoRun /\ Proceed(h, "commit", "none")

\* DELETE FROM agent waits for every insert under the agent.
DeleteAgent(h) ==
    LET s == session[h] IN
    /\ s.pc = "delete"
    /\ ~\E o \in Others(h) : session[o].run = s.run /\ session[o].held # "none"
    /\ \/ s.run \notin alive /\ Raise(h, "ok")
       \/ s.run \in alive /\ Proceed(h, "cascade", "update")

\* The cascade deletes the tasks of the run in the order its scan meets them,
\* each once nobody else is deleting it.  The records come after the tasks:
\* whoever is setting a task_id to null holds the task.
CascadeTask(h) ==
    LET s == session[h] IN
    /\ s.pc = "cascade"
    /\ \E t \in TasksOf(s.run) \ s.taken :
          /\ ~\E o \in Others(h) : Dropping(t, o)
          /\ session' = [session EXCEPT ![h].taken = @ \cup {t}]
    /\ UNCHANGED <<alive, task, record, issued>>

TaskAfter(s) ==
    CASE s.kind = "plan" -> [task EXCEPT ![s.task] = s.run]
      [] s.kind = "drop" -> [task EXCEPT ![s.task] = NoRun]
      [] s.kind = "delete" ->
            [t \in Tasks |-> IF task[t] = s.run THEN NoRun ELSE task[t]]
      [] OTHER -> task

\* ON DELETE SET NULL for a task, ON DELETE CASCADE for a run.
RecordAfter(s) ==
    CASE s.kind = "append" -> [record EXCEPT ![Key(s)] = s.task]
      [] s.kind = "drop" ->
            [k \in Keys |-> IF record[k] = s.task THEN NoTask ELSE record[k]]
      [] s.kind = "delete" ->
            [k \in Keys |-> IF k[1] = s.run THEN NoRow ELSE record[k]]
      [] OTHER -> record

\* session_scope commits.
Commit(h) ==
    LET s == session[h] IN
    /\ \/ s.pc = "commit"
       \/ s.pc = "cascade" /\ TasksOf(s.run) \subseteq s.taken
    /\ alive' = IF s.kind = "delete" THEN alive \ {s.run} ELSE alive
    /\ task' = TaskAfter(s)
    /\ record' = RecordAfter(s)
    /\ Finish(h, "ok")
    /\ UNCHANGED issued

\* The connection or the process is lost, or the commit fails.
LoseSession(h) == session[h].pc # "idle" /\ Raise(h, "lost")

Statement(h) ==
    \/ ClaimKey(h) \/ CheckParent(h) \/ CheckTask(h) \/ DropTask(h)
    \/ DeleteAgent(h) \/ CascadeTask(h) \/ Commit(h)

Next ==
    \E h \in Sessions :
        \/ BeginPlan(h) \/ BeginAppend(h) \/ BeginDrop(h) \/ BeginDelete(h)
        \/ Statement(h) \/ LoseSession(h)

Spec == Init /\ [][Next]_vars

\* A transaction in flight keeps running, and the server grants a lock to
\* those who wait for it before those who come later.
FairSpec == Spec /\ \A h \in Sessions : SF_vars(Statement(h))

-----------------------------------------------------------------------------
(* Properties.                                                             *)

Codes == {"none", "ok", "integrity", "lost"}

InFlight ==
    [pc : {"key", "check", "task", "drop", "delete", "cascade", "commit"},
     kind : {"plan", "append", "drop", "delete"}, run : Runs,
     iteration : Iterations \cup {0}, task : Tasks \cup {NoTask},
     taken : SUBSET Tasks,
     held : {"none", "keyshare", "update"}, code : {"none"}]

\* A session in flight, or at rest, which holds nothing.
Session == InFlight \cup {[Idle EXCEPT !.code = c] : c \in Codes}

TypeOK ==
    /\ alive \subseteq Runs
    /\ task \in [Tasks -> Runs \cup {NoRun}]
    /\ record \in [Keys -> Tasks \cup {NoTask, NoRow}]
    /\ issued \subseteq Tasks
    /\ session \in [Sessions -> Session]

\* A record never names a task that is gone, whatever drop its append raced
\* (run.current_task_id, which has no foreign key, can).
NoDanglingTask ==
    \A k \in Keys : record[k] \in Tasks => task[record[k]] # NoRun

\* Nothing of a run outlives it, not even a task or a record that was being
\* inserted while its agent was deleted.
NoOrphanRows ==
    /\ \A t \in Tasks : task[t] # NoRun => task[t] \in alive
    /\ \A k \in Keys : record[k] # NoRow => k[1] \in alive

\* "Append-only", "history that should outlive the task": while its run is
\* there a record is neither removed nor written again, by another append of
\* the same number or otherwise; it loses its task_id when the task goes, and
\* in no other way.
HistoryStep ==
    \A k \in Keys : record[k] # NoRow /\ k[1] \in alive' =>
        \/ record'[k] = record[k]
        \/ /\ record[k] \in Tasks /\ task'[record[k]] = NoRun
           /\ record'[k] = NoTask

\* Of every step of a behaviour.
HistoryIsKept == [][HistoryStep]_vars

\* Locks and key waits leave no two transactions waiting for one another.
EveryTransactionEnds ==
    \A h \in Sessions : session[h].pc # "idle" ~> session[h].pc = "idle"

=============================================================================
