-------------------------- MODULE TaskHistoryProofs --------------------------
(***************************************************************************)
(* Machine-checked proofs about TaskHistory for every number of runs,      *)
(* tasks, iterations and transactions.                                     *)
(***************************************************************************)
EXTENDS TaskHistory, TLAPS

-----------------------------------------------------------------------------
(* Why the history is kept: an invariant every step preserves.             *)

\* What a transaction is and holds at each statement.
Shape(s) ==
    /\ s.pc = "key" => s.kind = "append"
    /\ s.pc = "check" => s.kind \in {"plan", "append"}
    /\ s.pc = "task" => s.kind = "append" /\ s.task # NoTask
    /\ s.pc = "drop" => s.kind = "drop"
    /\ s.pc \in {"delete", "cascade"} => s.kind = "delete"
    /\ s.pc = "commit" => s.kind \in {"plan", "append", "drop"}
    /\ s.held = CASE s.pc = "cascade" -> "update"
                  [] s.pc = "task" -> "keyshare"
                  [] s.pc = "commit" /\ s.kind # "drop" -> "keyshare"
                  [] OTHER -> "none"
    /\ s.kind \in {"plan", "drop"} => s.task # NoTask
    /\ s.kind = "append" => s.iteration \in Iterations
    /\ s.task \in Tasks => s.task \in issued

\* A lock is on the rows of a run that is there, and a delete's excludes all
\* the others.
LocksExclude ==
    /\ \A h \in Sessions : session[h].held # "none" => session[h].run \in alive
    /\ \A h \in Sessions : session[h].held = "update" =>
          \A o \in Others(h) : session[o].run = session[h].run => session[o].held = "none"

\* A task's uuid is issued before its row appears, and to one plan only.
UuidsFresh ==
    /\ \A t \in Tasks : task[t] # NoRun => t \in issued
    /\ \A h \in Sessions : session[h].kind = "plan" =>
          /\ task[session[h].task] = NoRun
          /\ \A o \in Others(h) : session[o].task # session[h].task

\* The key a record was inserted under is free until it commits, and nobody
\* else's.
PastKey(s) == s.kind = "append" /\ s.pc # "key"

KeysExclude ==
    \A h \in Sessions : LET s == session[h] IN
        PastKey(s) =>
            /\ record[Key(s)] = NoRow
            /\ \A o \in Others(h) :
                  PastKey(session[o]) => Key(session[o]) # Key(s)

\* A record names a task of its own run, and so does one about to be: its task
\* stays until it commits, because whoever refers to a task keeps others from
\* dropping it.
TasksOfTheRun ==
    /\ \A k \in Keys : record[k] \in Tasks => task[record[k]] = k[1]
    /\ \A h \in Sessions : LET s == session[h] IN
          s.kind = "append" /\ s.task # NoTask =>
              /\ task[s.task] \in {s.run, NoRun}
              /\ s.pc = "commit" =>
                    /\ task[s.task] = s.run
                    /\ \A o \in Others(h) : ~Dropping(s.task, o)

HistoryInv ==
    /\ TypeOK
    /\ \A h \in Sessions : Shape(session[h])
    /\ LocksExclude
    /\ UuidsFresh
    /\ KeysExclude
    /\ TasksOfTheRun
    /\ NoOrphanRows

-----------------------------------------------------------------------------
(* Sessions.                                                               *)

\* A session that has ended is at rest, whatever the code.
LEMMA RestType ==
    ASSUME NEW code \in Codes, NEW s, s = [Idle EXCEPT !.code = code]
    PROVE  /\ s \in Session
           /\ s.pc = "idle" /\ s.kind = "none" /\ s.run = NoRun /\ s.task = NoTask
           /\ s.held = "none"
BY DEF Session, Idle

\* A session is in flight or at rest.
LEMMA SessionFields ==
    ASSUME NEW s \in Session
    PROVE  \/ s \in InFlight
           \/ /\ s.pc = "idle" /\ s.kind = "none" /\ s.run = NoRun /\ s.task = NoTask
              /\ s.held = "none"
<1>1. CASE s \notin InFlight
  <2>1. PICK code \in Codes : s = [Idle EXCEPT !.code = code]
    BY <1>1 DEF Session
  <2> QED
    BY <2>1, RestType
<1> QED
  BY <1>1

\* The fields of a session by its kind and counter.
LEMMA FieldTypes ==
    ASSUME NEW s \in Session
    PROVE  /\ s.kind \in {"none", "plan", "append", "drop", "delete"}
           /\ s.held \in {"none", "keyshare", "update"}
           /\ s.task \in Tasks \cup {NoTask}
           /\ s.kind # "none" => s.run \in Runs /\ s.iteration \in Iterations \cup {0}
           /\ s.pc # "idle" <=> s \in InFlight
           /\ s.pc = "idle" <=> s.kind = "none"
BY SessionFields DEF InFlight

-----------------------------------------------------------------------------
(* Steps that leave the tables alone.                                      *)

\* One transaction begins, moves on or ends without a commit: what its new
\* state must satisfy for the invariant.
LEMMA LocalStep ==
    ASSUME HistoryInv, NEW h \in Sessions, NEW s \in Session,
           session' = [session EXCEPT ![h] = s],
           UNCHANGED <<alive, task, record>>,
           issued \subseteq issued', issued' \subseteq Tasks,
           Shape(s)',
           s.held # "none" => s.run \in alive,
           s.held = "update" =>
              \A o \in Others(h) : session[o].run = s.run => session[o].held = "none",
           \A o \in Others(h) :
              session[o].held = "update" /\ session[o].run = s.run => s.held = "none",
           s.kind = "plan" =>
              task[s.task] = NoRun /\ \A o \in Others(h) : session[o].task # s.task,
           \A o \in Others(h) : session[o].kind = "plan" => session[o].task # s.task,
           PastKey(s) =>
              /\ record[Key(s)] = NoRow
              /\ \A o \in Others(h) : PastKey(session[o]) => Key(session[o]) # Key(s),
           s.kind = "append" /\ s.task # NoTask => task[s.task] \in {s.run, NoRun},
           s.kind = "append" /\ s.task # NoTask /\ s.pc = "commit" =>
              task[s.task] = s.run /\ \A o \in Others(h) : ~Dropping(s.task, o),
           s.kind = "drop" /\ s.pc = "commit" =>
              \A o \in Others(h) : ~Referring(s.task, o)
    PROVE  HistoryInv'
<1>1. /\ session'[h] = s
      /\ \A o \in Others(h) : session'[o] = session[o]
  BY DEF HistoryInv, TypeOK, Others
<1>2. TypeOK'
  BY DEF HistoryInv, TypeOK
<1>3. (\A o \in Sessions : Shape(session[o]))'
  <2>1. Shape(session[h])'
    BY <1>1 DEF Shape
  <2>2. \A o \in Others(h) : Shape(session[o])'
    BY <1>1 DEF HistoryInv, Shape, Others
  <2> QED
    BY <2>1, <2>2 DEF Others
<1>4. LocksExclude'
  BY <1>1 DEF HistoryInv, LocksExclude, Others
<1>5. UuidsFresh'
  BY <1>1 DEF HistoryInv, UuidsFresh, Others
<1>6. KeysExclude'
  BY <1>1 DEF HistoryInv, KeysExclude, PastKey, Key, Others
<1>7. TasksOfTheRun'
  <2>1. (\A k \in Keys : record[k] \in Tasks => task[record[k]] = k[1])'
    BY DEF HistoryInv, TasksOfTheRun
  <2>2. ASSUME NEW o \in Sessions, session'[o].kind = "append", session'[o].task # NoTask
        PROVE  /\ task'[session'[o].task] \in {session'[o].run, NoRun}
               /\ session'[o].pc = "commit" => task'[session'[o].task] = session'[o].run
    BY <1>1, <2>2 DEF HistoryInv, TasksOfTheRun, Others
  <2>3. ASSUME NEW o \in Sessions, session'[o].kind = "append", session'[o].task # NoTask,
               session'[o].pc = "commit", NEW p \in Others(o)
        PROVE  ~(session'[p].kind = "drop" /\ session'[p].task = session'[o].task
                 /\ session'[p].pc = "commit")
    <3>1. CASE o = h
      BY <1>1, <2>3, <3>1 DEF Dropping, Others
    <3>2. CASE p = h
      BY <1>1, <2>3, <3>2 DEF Referring, Others
    <3>3. CASE o # h /\ p # h
      BY <1>1, <2>3, <3>3 DEF HistoryInv, TasksOfTheRun, Dropping, Others
    <3> QED
      BY <3>1, <3>2, <3>3
  <2> QED
    BY <2>1, <2>2, <2>3 DEF TasksOfTheRun, Dropping
<1>8. NoOrphanRows'
  BY DEF HistoryInv, NoOrphanRows
<1> QED
  BY <1>2, <1>3, <1>4, <1>5, <1>6, <1>7, <1>8 DEF HistoryInv

\* A transaction ends without a commit.
LEMMA RaiseStep ==
    ASSUME HistoryInv, NEW h \in Sessions, NEW code \in Codes, Raise(h, code)
    PROVE  HistoryInv'
<1> DEFINE s == [Idle EXCEPT !.code = code]
<1>1. /\ s \in Session /\ s.pc = "idle" /\ s.kind = "none" /\ s.run = NoRun
      /\ s.task = NoTask /\ s.held = "none"
  BY RestType
<1>2. /\ session' = [session EXCEPT ![h] = s]
      /\ UNCHANGED <<alive, task, record, issued>>
  BY DEF Raise, Finish
<1> HIDE DEF s
<1>3. Shape(s)'
  BY <1>1, NullAssumption DEF Shape
<1>4. \A o \in Sessions : session[o].kind = "plan" => session[o].task # s.task
  BY <1>1 DEF HistoryInv, Shape
<1>5. issued' \subseteq Tasks
  BY <1>2 DEF HistoryInv, TypeOK
<1> QED
  BY <1>1, <1>2, <1>3, <1>4, <1>5, LocalStep DEF PastKey, Others

\* The invariant holds of the empty tables.
LEMMA InitHistory == Init => HistoryInv
<1> SUFFICES ASSUME Init PROVE HistoryInv
  OBVIOUS
<1>1. Idle = [Idle EXCEPT !.code = "none"]
  BY DEF Idle
<1>2. \A h \in Sessions :
         /\ session[h] \in Session /\ session[h].pc = "idle" /\ session[h].kind = "none"
         /\ session[h].task = NoTask /\ session[h].held = "none"
  BY <1>1, RestType DEF Init, Codes
<1>3. TypeOK
  BY <1>2 DEF Init, TypeOK, Session
<1>4. \A h \in Sessions : Shape(session[h])
  BY <1>2, NullAssumption DEF Shape
<1> QED
  BY <1>2, <1>3, <1>4, NullAssumption
     DEF Init, HistoryInv, LocksExclude, UuidsFresh, KeysExclude, PastKey, TasksOfTheRun,
         NoOrphanRows

-----------------------------------------------------------------------------
(* One lemma per statement.                                                *)

\* What the invariant says of one session and the tables, for its readers.
LEMMA SessionFacts ==
    ASSUME HistoryInv, NEW h \in Sessions
    PROVE  /\ session[h] \in Session /\ Shape(session[h])
           /\ session[h].task \in Tasks => session[h].task \in issued
BY DEF HistoryInv, TypeOK, Shape

\* A task is inserted under an id nobody has.
LEMMA BeginPlanStep ==
    ASSUME HistoryInv, NEW h \in Sessions, BeginPlan(h) PROVE HistoryInv'
<1>1. PICK r \in Runs, t \in Tasks \ issued :
         /\ issued' = issued \cup {t}
         /\ Begin(h, [Idle EXCEPT !.pc = "check", !.kind = "plan", !.run = r, !.task = t])
  BY DEF BeginPlan
<1> DEFINE s == [Idle EXCEPT !.pc = "check", !.kind = "plan", !.run = r, !.task = t]
<1>2. /\ s \in Session /\ s.pc = "check" /\ s.kind = "plan" /\ s.run = r /\ s.task = t
      /\ s.held = "none"
  BY DEF Idle, Session, InFlight
<1>3. session' = [session EXCEPT ![h] = s] /\ UNCHANGED <<alive, task, record>>
  BY <1>1 DEF Begin
<1> HIDE DEF s
<1>4. task[t] = NoRun /\ \A o \in Sessions : session[o].task # t
  BY <1>1, SessionFacts DEF HistoryInv, UuidsFresh
<1>5. Shape(s)'
  BY <1>1, <1>2, NullAssumption DEF Shape
<1>6. issued \subseteq issued' /\ issued' \subseteq Tasks
  BY <1>1 DEF HistoryInv, TypeOK
<1>7. \A o \in Others(h) : session[o].task # t
  BY <1>4 DEF Others
<1> QED
  BY <1>2, <1>3, <1>4, <1>5, <1>6, <1>7, LocalStep DEF PastKey

\* The three that give out no uuid.
LEMMA BeginStep ==
    ASSUME HistoryInv, NEW h \in Sessions, NEW s \in Session,
           Begin(h, s), issued' = issued, s.held = "none", Shape(s),
           s.kind # "plan", ~PastKey(s), s.pc # "commit",
           s.task # NoTask => task[s.task] = s.run /\ s.run \in Runs
    PROVE  HistoryInv'
<1>1. session' = [session EXCEPT ![h] = s] /\ UNCHANGED <<alive, task, record>>
  BY DEF Begin
<1>2. issued' \subseteq Tasks /\ Shape(s)'
  BY DEF HistoryInv, TypeOK, Shape
<1>3. ASSUME NEW o \in Others(h), session[o].kind = "plan" PROVE session[o].task # s.task
  <2>1. task[session[o].task] = NoRun /\ session[o].task # NoTask
    BY <1>3 DEF HistoryInv, UuidsFresh, Shape, Others
  <2> QED
    BY <2>1, NoRunAssumption
<1> QED
  BY <1>1, <1>2, <1>3, LocalStep

\* An append begins without a lock.
LEMMA BeginAppendStep ==
    ASSUME HistoryInv, NEW h \in Sessions, BeginAppend(h) PROVE HistoryInv'
<1>0. PICK r \in Runs, n \in Iterations : \E t \in TasksOf(r) \cup {NoTask} :
         /\ Begin(h, [Idle EXCEPT !.pc = "key", !.kind = "append", !.run = r,
                                  !.iteration = n, !.task = t])
         /\ UNCHANGED issued
  BY DEF BeginAppend
<1>1. PICK t \in TasksOf(r) \cup {NoTask} :
         /\ Begin(h, [Idle EXCEPT !.pc = "key", !.kind = "append", !.run = r,
                                  !.iteration = n, !.task = t])
         /\ UNCHANGED issued
  BY <1>0
<1> DEFINE s == [Idle EXCEPT !.pc = "key", !.kind = "append", !.run = r,
                             !.iteration = n, !.task = t]
<1>2. t \in Tasks \cup {NoTask} /\ (t # NoTask => task[t] = r)
  BY DEF TasksOf
<1>3. /\ s \in Session /\ s.pc = "key" /\ s.kind = "append" /\ s.run = r /\ s.task = t
      /\ s.held = "none" /\ s.iteration = n
  BY <1>2 DEF Idle, Session, InFlight
<1>4. Begin(h, s)
  BY <1>1
<1> HIDE DEF s
<1>5. t \in Tasks => t \in issued
  BY <1>2, NullAssumption, NoRunAssumption DEF HistoryInv, UuidsFresh
<1>6. Shape(s)
  BY <1>3, <1>5 DEF Shape
<1> QED
  BY <1>1, <1>2, <1>3, <1>4, <1>6, BeginStep DEF PastKey

\* A drop begins without a lock.
LEMMA BeginDropStep ==
    ASSUME HistoryInv, NEW h \in Sessions, BeginDrop(h) PROVE HistoryInv'
<1>0. PICK r \in Runs : \E t \in TasksOf(r) :
         /\ Begin(h, [Idle EXCEPT !.pc = "drop", !.kind = "drop", !.run = r, !.task = t])
         /\ UNCHANGED issued
  BY DEF BeginDrop
<1>1. PICK t \in TasksOf(r) :
         /\ Begin(h, [Idle EXCEPT !.pc = "drop", !.kind = "drop", !.run = r, !.task = t])
         /\ UNCHANGED issued
  BY <1>0
<1> DEFINE s == [Idle EXCEPT !.pc = "drop", !.kind = "drop", !.run = r, !.task = t]
<1>2. t \in Tasks /\ task[t] = r
  BY DEF TasksOf
<1>3. /\ s \in Session /\ s.pc = "drop" /\ s.kind = "drop" /\ s.run = r /\ s.task = t
      /\ s.held = "none"
  BY <1>2 DEF Idle, Session, InFlight
<1>4. Begin(h, s)
  BY <1>1
<1> HIDE DEF s
<1>5. t \in issued /\ t # NoTask
  BY <1>2, NullAssumption, NoRunAssumption DEF HistoryInv, UuidsFresh
<1>6. Shape(s)
  BY <1>3, <1>5 DEF Shape
<1> QED
  BY <1>1, <1>2, <1>3, <1>4, <1>6, BeginStep DEF PastKey

\* A delete begins without a lock.
LEMMA BeginDeleteStep ==
    ASSUME HistoryInv, NEW h \in Sessions, BeginDelete(h) PROVE HistoryInv'
<1>1. PICK r \in alive :
         /\ Begin(h, [Idle EXCEPT !.pc = "delete", !.kind = "delete", !.run = r])
         /\ UNCHANGED issued
  BY DEF BeginDelete
<1> DEFINE s == [Idle EXCEPT !.pc = "delete", !.kind = "delete", !.run = r]
<1>2. /\ s \in Session /\ s.pc = "delete" /\ s.kind = "delete" /\ s.run = r
      /\ s.task = NoTask /\ s.held = "none"
  BY DEF Idle, Session, InFlight, HistoryInv, TypeOK
<1>3. Begin(h, s)
  BY <1>1
<1> HIDE DEF s
<1>4. Shape(s)
  BY <1>2, NullAssumption DEF Shape
<1> QED
  BY <1>1, <1>2, <1>3, <1>4, BeginStep DEF PastKey

\* A transaction that goes on to its next statement: what it newly holds.
LEMMA ProceedStep ==
    ASSUME HistoryInv, NEW h \in Sessions,
           NEW pc \in {"key", "check", "task", "drop", "delete", "cascade", "commit"},
           NEW held \in {"none", "keyshare", "update"},
           NEW s, s = [session[h] EXCEPT !.pc = pc, !.held = held],
           session[h].pc # "idle", Proceed(h, pc, held),
           Shape(s),
           held # "none" => session[h].run \in alive,
           held = "update" =>
              \A o \in Others(h) : session[o].run = session[h].run => session[o].held = "none",
           held = "keyshare" =>
              \A o \in Others(h) :
                 session[o].run = session[h].run => session[o].held # "update",
           PastKey(s) /\ ~PastKey(session[h]) =>
              /\ record[Key(session[h])] = NoRow
              /\ \A o \in Others(h) : PastKey(session[o]) => Key(session[o]) # Key(session[h]),
           pc = "commit" /\ session[h].kind = "append" /\ session[h].task # NoTask =>
              /\ task[session[h].task] # NoRun
              /\ \A o \in Others(h) : ~Dropping(session[h].task, o),
           pc = "commit" /\ session[h].kind = "drop" =>
              \A o \in Others(h) : ~Referring(session[h].task, o)
    PROVE  HistoryInv'
<1>1. session[h] \in Session /\ session[h] \in InFlight
  BY SessionFacts, FieldTypes
<1>2. /\ s \in InFlight /\ s.pc = pc /\ s.held = held /\ s.kind = session[h].kind
      /\ s.run = session[h].run /\ s.task = session[h].task
      /\ s.iteration = session[h].iteration
  BY <1>1 DEF InFlight
<1>3. session' = [session EXCEPT ![h] = s] /\ UNCHANGED <<alive, task, record, issued>>
  BY DEF Proceed
<1>4. Key(s) = Key(session[h])
  BY <1>2 DEF Key
<1>5. PastKey(s) => /\ record[Key(s)] = NoRow
                    /\ \A o \in Others(h) : PastKey(session[o]) => Key(session[o]) # Key(s)
  BY <1>4 DEF HistoryInv, KeysExclude
<1>6. s.kind = "plan" =>
         task[s.task] = NoRun /\ \A o \in Others(h) : session[o].task # s.task
  BY <1>2 DEF HistoryInv, UuidsFresh
<1>7. \A o \in Others(h) : session[o].kind = "plan" => session[o].task # s.task
  BY <1>2 DEF HistoryInv, UuidsFresh, Others
<1>8. s.kind = "append" /\ s.task # NoTask => task[s.task] \in {s.run, NoRun}
  BY <1>2 DEF HistoryInv, TasksOfTheRun
<1>9. \A o \in Others(h) :
         session[o].held = "update" /\ session[o].run = s.run => s.held = "none"
  BY <1>2 DEF HistoryInv, LocksExclude, Others
<1>10. Shape(s)' /\ issued' \subseteq Tasks /\ issued \subseteq issued'
  BY <1>3 DEF Shape, HistoryInv, TypeOK
<1>11. s \in Session
  BY <1>2 DEF Session
<1>12. /\ s.held # "none" => s.run \in alive
       /\ s.held = "update" =>
             \A o \in Others(h) : session[o].run = s.run => session[o].held = "none"
  BY <1>2
<1>13. s.kind = "append" /\ s.task # NoTask /\ s.pc = "commit" =>
          task[s.task] = s.run /\ \A o \in Others(h) : ~Dropping(s.task, o)
  BY <1>2, <1>8
<1>14. s.kind = "drop" /\ s.pc = "commit" => \A o \in Others(h) : ~Referring(s.task, o)
  BY <1>2
<1>15. UNCHANGED <<alive, task, record>>
  BY <1>3
<1> QED
  BY <1>3, <1>5, <1>6, <1>7, <1>8, <1>9, <1>10, <1>11, <1>12, <1>13, <1>14, <1>15, LocalStep

\* The key of a record is claimed where it is free.
LEMMA ClaimKeyStep ==
    ASSUME HistoryInv, NEW h \in Sessions, ClaimKey(h) PROVE HistoryInv'
<1>1. CASE Raise(h, "integrity")
  BY <1>1, RaiseStep DEF Codes
<1>2. CASE record[Key(session[h])] = NoRow /\ Proceed(h, "check", "none")
  <2>1. PICK s : s = [session[h] EXCEPT !.pc = "check", !.held = "none"]
    OBVIOUS
  <2>2. session[h].pc = "key" /\ session[h] \in InFlight /\ Shape(session[h])
    BY SessionFacts, FieldTypes DEF ClaimKey
  <2>3. Shape(s)
    BY <2>1, <2>2 DEF Shape, InFlight
  <2>4. \A o \in Others(h) : PastKey(session[o]) => Key(session[o]) # Key(session[h])
    BY DEF ClaimKey, PastKey
  <2> QED
    BY <1>2, <2>1, <2>2, <2>3, <2>4, ProceedStep
<1> QED
  BY <1>1, <1>2 DEF ClaimKey

\* The foreign key to the run locks a row that is there.
LEMMA CheckParentStep ==
    ASSUME HistoryInv, NEW h \in Sessions, CheckParent(h) PROVE HistoryInv'
<1>1. CASE Raise(h, "integrity")
  BY <1>1, RaiseStep DEF Codes
<1>2. ASSUME NEW pc, pc = IF session[h].kind = "append" /\ session[h].task # NoTask
                          THEN "task" ELSE "commit",
             session[h].run \in alive, Proceed(h, pc, "keyshare")
      PROVE  HistoryInv'
  <2>1. PICK s : s = [session[h] EXCEPT !.pc = pc, !.held = "keyshare"]
    OBVIOUS
  <2>2. session[h].pc = "check" /\ session[h] \in InFlight /\ Shape(session[h])
    BY SessionFacts, FieldTypes DEF CheckParent
  <2>3. s.kind = session[h].kind /\ s.task = session[h].task
        /\ s.iteration = session[h].iteration /\ s.pc = pc /\ s.held = "keyshare"
    BY <2>1, <2>2 DEF InFlight
  <2>4. session[h].kind \in {"plan", "append"}
    BY <2>2 DEF Shape
  <2>5. Shape(s)
    BY <1>2, <2>2, <2>3, <2>4 DEF Shape
  <2>6. PastKey(s) => PastKey(session[h])
    BY <2>2, <2>3 DEF PastKey
  <2>7. \A o \in Others(h) : session[o].run = session[h].run => session[o].held # "update"
    BY DEF CheckParent
  <2>8. pc \in {"task", "commit"} /\ session[h].kind # "drop"
        /\ (session[h].kind = "append" /\ session[h].task # NoTask => pc # "commit")
    BY <1>2, <2>4
  <2> QED
    BY <1>2, <2>1, <2>2, <2>5, <2>6, <2>7, <2>8, ProceedStep
<1> QED
  BY <1>1, <1>2 DEF CheckParent

\* The foreign key to the task keeps it from being dropped.
LEMMA CheckTaskStep ==
    ASSUME HistoryInv, NEW h \in Sessions, CheckTask(h) PROVE HistoryInv'
<1>1. CASE Raise(h, "integrity")
  BY <1>1, RaiseStep DEF Codes
<1>2. CASE task[session[h].task] # NoRun /\ Proceed(h, "commit", "keyshare")
  <2>1. PICK s : s = [session[h] EXCEPT !.pc = "commit", !.held = "keyshare"]
    OBVIOUS
  <2>2. session[h].pc = "task" /\ session[h] \in InFlight /\ Shape(session[h])
    BY SessionFacts, FieldTypes DEF CheckTask
  <2>3. s.kind = session[h].kind /\ s.task = session[h].task
        /\ s.iteration = session[h].iteration /\ s.pc = "commit" /\ s.held = "keyshare"
    BY <2>1, <2>2 DEF InFlight
  <2>4. session[h].kind = "append" /\ session[h].held = "keyshare"
    BY <2>2 DEF Shape
  <2>5. Shape(s)
    BY <2>2, <2>3, <2>4 DEF Shape
  <2>6. PastKey(session[h])
    BY <2>2, <2>4 DEF PastKey
  <2>7. session[h].run \in alive
        /\ \A o \in Others(h) : session[o].run = session[h].run => session[o].held # "update"
    BY <2>4 DEF HistoryInv, LocksExclude, Others
  <2>8. \A o \in Others(h) : ~Dropping(session[h].task, o)
    BY DEF CheckTask
  <2> QED
    BY <1>2, <2>1, <2>2, <2>4, <2>5, <2>6, <2>7, <2>8, ProceedStep
<1> QED
  BY <1>1, <1>2 DEF CheckTask

\* A task is dropped once no record in flight names it.
LEMMA DropTaskStep ==
    ASSUME HistoryInv, NEW h \in Sessions, DropTask(h) PROVE HistoryInv'
<1>1. CASE Raise(h, "ok")
  BY <1>1, RaiseStep DEF Codes
<1>2. CASE Proceed(h, "commit", "none")
  <2>1. PICK s : s = [session[h] EXCEPT !.pc = "commit", !.held = "none"]
    OBVIOUS
  <2>2. session[h].pc = "drop" /\ session[h] \in InFlight /\ Shape(session[h])
    BY SessionFacts, FieldTypes DEF DropTask
  <2>3. s.kind = session[h].kind /\ s.task = session[h].task
        /\ s.iteration = session[h].iteration /\ s.pc = "commit" /\ s.held = "none"
    BY <2>1, <2>2 DEF InFlight
  <2>4. session[h].kind = "drop"
    BY <2>2 DEF Shape
  <2>5. Shape(s) /\ ~PastKey(s)
    BY <2>2, <2>3, <2>4 DEF Shape, PastKey
  <2>6. \A o \in Others(h) : ~Referring(session[h].task, o)
    BY DEF DropTask
  <2> QED
    BY <1>2, <2>1, <2>2, <2>4, <2>5, <2>6, ProceedStep
<1> QED
  BY <1>1, <1>2 DEF DropTask

\* A delete waits for every insert below the run.
LEMMA DeleteAgentStep ==
    ASSUME HistoryInv, NEW h \in Sessions, DeleteAgent(h) PROVE HistoryInv'
<1>1. CASE Raise(h, "ok")
  BY <1>1, RaiseStep DEF Codes
<1>2. CASE session[h].run \in alive /\ Proceed(h, "cascade", "update")
  <2>1. PICK s : s = [session[h] EXCEPT !.pc = "cascade", !.held = "update"]
    OBVIOUS
  <2>2. session[h].pc = "delete" /\ session[h] \in InFlight /\ Shape(session[h])
    BY SessionFacts, FieldTypes DEF DeleteAgent
  <2>3. s.kind = session[h].kind /\ s.task = session[h].task
        /\ s.iteration = session[h].iteration /\ s.pc = "cascade" /\ s.held = "update"
    BY <2>1, <2>2 DEF InFlight
  <2>4. session[h].kind = "delete"
    BY <2>2 DEF Shape
  <2>5. Shape(s) /\ ~PastKey(s)
    BY <2>2, <2>3, <2>4 DEF Shape, PastKey
  <2>6. \A o \in Others(h) : session[o].run = session[h].run => session[o].held = "none"
    BY DEF DeleteAgent
  <2> QED
    BY <1>2, <2>1, <2>2, <2>4, <2>5, <2>6, ProceedStep
<1> QED
  BY <1>1, <1>2 DEF DeleteAgent

\* The cascade locks one task more.
LEMMA CascadeTaskStep ==
    ASSUME HistoryInv, NEW h \in Sessions, CascadeTask(h) PROVE HistoryInv'
<1>1. PICK t \in Tasks :
         session' = [session EXCEPT ![h] =
           [session[h] EXCEPT !.taken = session[h].taken \cup {t}]]
  BY DEF CascadeTask, TasksOf
<1>0. PICK s : s = [session[h] EXCEPT !.taken = session[h].taken \cup {t}]
  OBVIOUS
<1>2. /\ session[h].pc = "cascade" /\ session[h] \in InFlight /\ Shape(session[h])
      /\ UNCHANGED <<alive, task, record, issued>>
  BY SessionFacts, FieldTypes DEF CascadeTask
<1>3. /\ s \in InFlight /\ s.pc = "cascade" /\ s.kind = session[h].kind
      /\ s.task = session[h].task /\ s.run = session[h].run /\ s.held = session[h].held
  BY <1>0, <1>2 DEF InFlight
<1>4. session' = [session EXCEPT ![h] = s]
  BY <1>0, <1>1
<1>5. s.kind = "delete" /\ s.held = "update" /\ Shape(s)' /\ ~PastKey(s) /\ s \in Session
  BY <1>2, <1>3 DEF Shape, PastKey, Session
<1>6. /\ s.run \in alive
      /\ \A o \in Others(h) : session[o].run = s.run => session[o].held = "none"
  BY <1>3, <1>5 DEF HistoryInv, LocksExclude
<1>7. \A o \in Others(h) : session[o].kind = "plan" => session[o].task # s.task
  BY <1>3 DEF HistoryInv, UuidsFresh, Others
<1>8. issued' \subseteq Tasks /\ issued \subseteq issued'
  BY <1>2 DEF HistoryInv, TypeOK
<1> QED
  BY <1>2, <1>3, <1>4, <1>5, <1>6, <1>7, <1>8, LocalStep

\* A lost session leaves nothing.
LEMMA LoseSessionStep ==
    ASSUME HistoryInv, NEW h \in Sessions, LoseSession(h) PROVE HistoryInv'
BY RaiseStep DEF LoseSession, Codes

-----------------------------------------------------------------------------
(* A commit.                                                               *)

\* What the tables must satisfy after a commit, whose session is then at rest.
LEMMA AfterCommit ==
    ASSUME HistoryInv, NEW h \in Sessions, Commit(h),
           alive' \subseteq Runs,
           task' \in [Tasks -> Runs \cup {NoRun}],
           record' \in [Keys -> Tasks \cup {NoTask, NoRow}],
           \A o \in Others(h) : session[o].held # "none" => session[o].run \in alive',
           \A t \in Tasks : task'[t] # NoRun => t \in issued,
           \A o \in Others(h) : session[o].kind = "plan" => task'[session[o].task] = NoRun,
           \A o \in Others(h) : PastKey(session[o]) => record'[Key(session[o])] = NoRow,
           \A k \in Keys : record'[k] \in Tasks => task'[record'[k]] = k[1],
           \A o \in Others(h) :
              session[o].kind = "append" /\ session[o].task # NoTask =>
                 /\ task'[session[o].task] \in {session[o].run, NoRun}
                 /\ session[o].pc = "commit" => task'[session[o].task] = session[o].run,
           NoOrphanRows'
    PROVE  HistoryInv'
<1>0. PICK s \in Session : s = [Idle EXCEPT !.code = "ok"]
  BY RestType DEF Codes
<1>1. /\ s.pc = "idle" /\ s.kind = "none" /\ s.run = NoRun /\ s.task = NoTask /\ s.held = "none"
  BY <1>0, RestType DEF Codes
<1>2. session' = [session EXCEPT ![h] = s] /\ issued' = issued
  BY <1>0 DEF Commit, Finish
<1>3. /\ session'[h] = s
      /\ \A o \in Others(h) : session'[o] = session[o]
  BY <1>2 DEF HistoryInv, TypeOK, Others
<1>4. TypeOK'
  BY <1>2 DEF HistoryInv, TypeOK
<1>5. (\A o \in Sessions : Shape(session[o]))'
  <2>1. Shape(session[h])'
    BY <1>1, <1>3, NullAssumption DEF Shape
  <2>2. \A o \in Others(h) : Shape(session[o])'
    BY <1>2, <1>3 DEF HistoryInv, Shape, Others
  <2> QED
    BY <2>1, <2>2 DEF Others
<1>6. LocksExclude'
  BY <1>1, <1>3 DEF HistoryInv, LocksExclude, Others
<1>7. UuidsFresh'
  <2>1. \A o \in Others(h) : session[o].kind = "plan" => session[o].task # NoTask
    BY DEF HistoryInv, Shape, Others
  <2> QED
    BY <1>1, <1>2, <1>3, <2>1 DEF HistoryInv, UuidsFresh, Others
<1>8. KeysExclude'
  BY <1>1, <1>3 DEF HistoryInv, KeysExclude, PastKey, Key, Others
<1>9. TasksOfTheRun'
  <2>1. ASSUME NEW o \in Sessions, session'[o].kind = "append", session'[o].task # NoTask,
               session'[o].pc = "commit", NEW p \in Others(o)
        PROVE  ~(session'[p].kind = "drop" /\ session'[p].task = session'[o].task
                 /\ session'[p].pc = "commit")
    BY <1>1, <1>3, <2>1 DEF HistoryInv, TasksOfTheRun, Dropping, Others
  <2>2. ASSUME NEW o \in Sessions, session'[o].kind = "append", session'[o].task # NoTask
        PROVE  /\ task'[session'[o].task] \in {session'[o].run, NoRun}
               /\ session'[o].pc = "commit" => task'[session'[o].task] = session'[o].run
    BY <1>1, <1>3, <2>2 DEF Others
  <2> QED
    BY <2>1, <2>2 DEF TasksOfTheRun, Dropping
<1> QED
  BY <1>4, <1>5, <1>6, <1>7, <1>8, <1>9 DEF HistoryInv

\* A planned task belongs to a run that is there.
LEMMA CommitPlan ==
    ASSUME HistoryInv, NEW h \in Sessions, Commit(h), session[h].kind = "plan"
    PROVE  HistoryInv'
<1>0. PICK s \in InFlight : s = session[h]
  BY SessionFacts, FieldTypes
<1>1. /\ s.kind = "plan" /\ s.pc = "commit" /\ s.run \in alive /\ s.run \in Runs
      /\ s.task \in Tasks /\ s.task \in issued /\ task[s.task] = NoRun
      /\ \A o \in Others(h) : session[o].task # s.task
  BY <1>0 DEF Commit, HistoryInv, Shape, LocksExclude, UuidsFresh, InFlight
<1>2. /\ alive' = alive /\ task' = [task EXCEPT ![s.task] = s.run] /\ record' = record
  BY <1>0, <1>1 DEF Commit, TaskAfter, RecordAfter
<1>3. alive' \subseteq Runs /\ task' \in [Tasks -> Runs \cup {NoRun}]
      /\ record' \in [Keys -> Tasks \cup {NoTask, NoRow}] /\ task \in [Tasks -> Runs \cup {NoRun}]
  BY <1>1, <1>2 DEF HistoryInv, TypeOK
<1>4. /\ \A o \in Others(h) : session[o].held # "none" => session[o].run \in alive'
      /\ \A t \in Tasks : task'[t] # NoRun => t \in issued
      /\ \A o \in Others(h) : session[o].kind = "plan" => task'[session[o].task] = NoRun
      /\ \A o \in Others(h) : PastKey(session[o]) => record'[Key(session[o])] = NoRow
  BY <1>1, <1>2, <1>3 DEF HistoryInv, LocksExclude, UuidsFresh, KeysExclude, Others
<1>5. \A k \in Keys : record'[k] \in Tasks => task'[record'[k]] = k[1]
  <2>1. \A k \in Keys : k[1] # NoRun
    BY NoRunAssumption DEF Keys
  <2> QED
    BY <1>1, <1>2, <1>3, <2>1 DEF HistoryInv, TasksOfTheRun
<1>6. \A o \in Others(h) :
         session[o].kind = "append" /\ session[o].task # NoTask =>
            /\ task'[session[o].task] \in {session[o].run, NoRun}
            /\ session[o].pc = "commit" => task'[session[o].task] = session[o].run
  BY <1>1, <1>2, <1>3 DEF HistoryInv, TasksOfTheRun, Others
<1>7. NoOrphanRows'
  BY <1>1, <1>2, <1>3 DEF HistoryInv, NoOrphanRows
<1> QED
  BY <1>3, <1>4, <1>5, <1>6, <1>7, AfterCommit

\* An appended record has a key of its own, and parents that are there.
LEMMA CommitAppend ==
    ASSUME HistoryInv, NEW h \in Sessions, Commit(h), session[h].kind = "append"
    PROVE  HistoryInv'
<1>0. PICK s \in InFlight : s = session[h]
  BY SessionFacts, FieldTypes
<1>1. /\ s.kind = "append" /\ s.pc = "commit" /\ s.run \in alive /\ s.run \in Runs
      /\ s.task \in Tasks \cup {NoTask} /\ (s.task # NoTask => task[s.task] = s.run)
      /\ PastKey(s)
      /\ \A o \in Others(h) : PastKey(session[o]) => Key(session[o]) # Key(s)
  BY <1>0 DEF Commit, HistoryInv, Shape, LocksExclude, KeysExclude, TasksOfTheRun, InFlight,
              PastKey
<1>2. /\ alive' = alive /\ task' = task /\ record' = [record EXCEPT ![Key(s)] = s.task]
  BY <1>0, <1>1 DEF Commit, TaskAfter, RecordAfter
<1>3. alive' \subseteq Runs /\ task' \in [Tasks -> Runs \cup {NoRun}]
      /\ record' \in [Keys -> Tasks \cup {NoTask, NoRow}]
      /\ record \in [Keys -> Tasks \cup {NoTask, NoRow}]
  BY <1>1, <1>2 DEF HistoryInv, TypeOK
<1>4. Key(s) = <<s.run, s.iteration>> /\ Key(s)[1] = s.run
  BY DEF Key
<1>5. /\ \A o \in Others(h) : session[o].held # "none" => session[o].run \in alive'
      /\ \A t \in Tasks : task'[t] # NoRun => t \in issued
      /\ \A o \in Others(h) : session[o].kind = "plan" => task'[session[o].task] = NoRun
  BY <1>2 DEF HistoryInv, LocksExclude, UuidsFresh, Others
<1>6. \A o \in Others(h) : PastKey(session[o]) => record'[Key(session[o])] = NoRow
  <2>1. \A o \in Others(h) : PastKey(session[o]) =>
           record[Key(session[o])] = NoRow /\ Key(session[o]) \in Keys
    BY FieldTypes, SessionFacts DEF HistoryInv, KeysExclude, Others, Key, Keys, PastKey, Shape
  <2> QED
    BY <1>1, <1>2, <1>3, <2>1
<1>7. \A k \in Keys : record'[k] \in Tasks => task'[record'[k]] = k[1]
  <2>1. ASSUME NEW k \in Keys, record'[k] \in Tasks PROVE task'[record'[k]] = k[1]
    <3>1. CASE k = Key(s)
      BY <1>1, <1>2, <1>3, <1>4, <2>1, <3>1, NullAssumption
    <3>2. CASE k # Key(s)
      BY <1>2, <1>3, <2>1, <3>2 DEF HistoryInv, TasksOfTheRun
    <3> QED
      BY <3>1, <3>2
  <2> QED
    BY <2>1
<1>8. \A o \in Others(h) :
         session[o].kind = "append" /\ session[o].task # NoTask =>
            /\ task'[session[o].task] \in {session[o].run, NoRun}
            /\ session[o].pc = "commit" => task'[session[o].task] = session[o].run
  BY <1>2 DEF HistoryInv, TasksOfTheRun, Others
<1>9. NoOrphanRows'
  <2>1. ASSUME NEW k \in Keys, record'[k] # NoRow PROVE k[1] \in alive'
    <3>1. CASE k = Key(s)
      BY <1>1, <1>2, <1>4, <3>1
    <3>2. CASE k # Key(s)
      BY <1>2, <1>3, <2>1, <3>2 DEF HistoryInv, NoOrphanRows
    <3> QED
      BY <3>1, <3>2
  <2> QED
    BY <1>2, <2>1 DEF HistoryInv, NoOrphanRows
<1> QED
  BY <1>3, <1>5, <1>6, <1>7, <1>8, <1>9, AfterCommit

\* A dropped task is taken out of the records that name it.
LEMMA CommitDrop ==
    ASSUME HistoryInv, NEW h \in Sessions, Commit(h), session[h].kind = "drop"
    PROVE  HistoryInv'
<1>0. PICK s \in InFlight : s = session[h]
  BY SessionFacts, FieldTypes
<1>1. /\ s.kind = "drop" /\ s.pc = "commit" /\ s.task \in Tasks
      /\ \A o \in Others(h) : ~(/\ session[o].kind = "append" /\ session[o].task = s.task
                                /\ session[o].task # NoTask /\ session[o].pc = "commit")
  <2>1. s.kind = "drop" /\ s.pc = "commit" /\ s.task \in Tasks
    BY <1>0 DEF Commit, HistoryInv, Shape, InFlight
  <2>2. \A o \in Others(h) : h \in Others(o) /\ o \in Sessions
    BY DEF Others
  <2> QED
    BY <1>0, <2>1, <2>2 DEF HistoryInv, TasksOfTheRun, Dropping
<1>2. /\ alive' = alive /\ task' = [task EXCEPT ![s.task] = NoRun]
      /\ record' = [k \in Keys |-> IF record[k] = s.task THEN NoTask ELSE record[k]]
  BY <1>0, <1>1 DEF Commit, TaskAfter, RecordAfter
<1>3. alive' \subseteq Runs /\ task' \in [Tasks -> Runs \cup {NoRun}]
      /\ record' \in [Keys -> Tasks \cup {NoTask, NoRow}] /\ task \in [Tasks -> Runs \cup {NoRun}]
  BY <1>2 DEF HistoryInv, TypeOK
<1>4. /\ \A o \in Others(h) : session[o].held # "none" => session[o].run \in alive'
      /\ \A t \in Tasks : task'[t] # NoRun => t \in issued
      /\ \A o \in Others(h) : session[o].kind = "plan" => task'[session[o].task] = NoRun
  BY <1>1, <1>2, <1>3 DEF HistoryInv, LocksExclude, UuidsFresh, Others
<1>5. \A o \in Others(h) : PastKey(session[o]) => record'[Key(session[o])] = NoRow
  <2>1. \A o \in Others(h) : PastKey(session[o]) =>
           record[Key(session[o])] = NoRow /\ Key(session[o]) \in Keys
    BY FieldTypes, SessionFacts DEF HistoryInv, KeysExclude, Others, Key, Keys, PastKey, Shape
  <2> QED
    BY <1>1, <1>2, <2>1, NullAssumption
<1>6. \A k \in Keys : record'[k] \in Tasks => task'[record'[k]] = k[1]
  BY <1>1, <1>2, <1>3, NullAssumption DEF HistoryInv, TasksOfTheRun
<1>7. \A o \in Others(h) :
         session[o].kind = "append" /\ session[o].task # NoTask =>
            /\ task'[session[o].task] \in {session[o].run, NoRun}
            /\ session[o].pc = "commit" => task'[session[o].task] = session[o].run
  BY <1>1, <1>2, <1>3 DEF HistoryInv, TasksOfTheRun, Others
<1>8. NoOrphanRows'
  <2>1. \A t \in Tasks : task'[t] # NoRun => task'[t] \in alive'
    BY <1>1, <1>2, <1>3 DEF HistoryInv, NoOrphanRows
  <2>2. ASSUME NEW k \in Keys, record'[k] # NoRow PROVE k[1] \in alive'
    <3>1. record[k] # NoRow
      BY <1>1, <1>2, <2>2, NullAssumption
    <3> QED
      BY <1>2, <3>1 DEF HistoryInv, NoOrphanRows
  <2> QED
    BY <2>1, <2>2 DEF NoOrphanRows
<1> QED
  BY <1>3, <1>4, <1>5, <1>6, <1>7, <1>8, AfterCommit

\* A deleted run takes its tasks and its records.
LEMMA CommitDelete ==
    ASSUME HistoryInv, NEW h \in Sessions, Commit(h), session[h].kind = "delete"
    PROVE  HistoryInv'
<1>0. PICK s \in InFlight : s = session[h]
  BY SessionFacts, FieldTypes
<1>1. /\ s.kind = "delete" /\ s.run \in Runs
      /\ \A o \in Others(h) : session[o].run = s.run => session[o].held = "none"
  <2>1. session[h].pc = "cascade"
    BY DEF Commit, HistoryInv, Shape
  <2> QED
    BY <1>0, <2>1 DEF HistoryInv, Shape, LocksExclude, InFlight
<1>2. /\ alive' = alive \ {s.run}
      /\ task' = [t \in Tasks |-> IF task[t] = s.run THEN NoRun ELSE task[t]]
      /\ record' = [k \in Keys |-> IF k[1] = s.run THEN NoRow ELSE record[k]]
  BY <1>0, <1>1 DEF Commit, TaskAfter, RecordAfter
<1>3. alive' \subseteq Runs /\ task' \in [Tasks -> Runs \cup {NoRun}]
      /\ record' \in [Keys -> Tasks \cup {NoTask, NoRow}]
  BY <1>2 DEF HistoryInv, TypeOK
<1>4. /\ \A o \in Others(h) : session[o].held # "none" => session[o].run \in alive'
      /\ \A t \in Tasks : task'[t] # NoRun => t \in issued
  BY <1>1, <1>2 DEF HistoryInv, LocksExclude, UuidsFresh, Others
<1>5. \A o \in Others(h) : session[o].kind = "plan" => task'[session[o].task] = NoRun
  <2>1. \A o \in Others(h) : session[o].kind = "plan" =>
           task[session[o].task] = NoRun /\ session[o].task \in Tasks
    BY FieldTypes, SessionFacts DEF HistoryInv, UuidsFresh, Shape, Others
  <2> QED
    BY <1>2, <2>1
<1>6. \A o \in Others(h) : PastKey(session[o]) => record'[Key(session[o])] = NoRow
  <2>1. \A o \in Others(h) : PastKey(session[o]) =>
           record[Key(session[o])] = NoRow /\ Key(session[o]) \in Keys
    BY FieldTypes, SessionFacts DEF HistoryInv, KeysExclude, Others, Key, Keys, PastKey, Shape
  <2> QED
    BY <1>2, <2>1
<1>7. \A k \in Keys : record'[k] \in Tasks => task'[record'[k]] = k[1]
  BY <1>2, NullAssumption DEF HistoryInv, TasksOfTheRun
<1>8. ASSUME NEW o \in Others(h), session[o].kind = "append", session[o].task # NoTask
      PROVE  /\ task'[session[o].task] \in {session[o].run, NoRun}
             /\ session[o].pc = "commit" => task'[session[o].task] = session[o].run
  <2>1. /\ session[o].task \in Tasks /\ task[session[o].task] \in {session[o].run, NoRun}
        /\ session[o].pc = "commit" => task[session[o].task] = session[o].run
    BY <1>8, FieldTypes, SessionFacts DEF HistoryInv, TasksOfTheRun, Others
  <2>2. session[o].pc = "commit" => session[o].run # s.run
    BY <1>1, <1>8 DEF HistoryInv, Shape, Others
  <2> QED
    BY <1>2, <2>1, <2>2
<1>9. NoOrphanRows'
  BY <1>2 DEF HistoryInv, NoOrphanRows, TypeOK
<1> QED
  BY <1>3, <1>4, <1>5, <1>6, <1>7, <1>8, <1>9, AfterCommit

\* A commit of any kind preserves the invariant.
LEMMA CommitStep ==
    ASSUME HistoryInv, NEW h \in Sessions, Commit(h) PROVE HistoryInv'
<1>1. session[h].kind \in {"plan", "append", "drop", "delete"}
  BY SessionFacts, FieldTypes DEF Commit
<1> QED
  BY <1>1, CommitPlan, CommitAppend, CommitDrop, CommitDelete

-----------------------------------------------------------------------------
(* Theorems.                                                               *)

\* Every step preserves the invariant.
LEMMA NextHistoryInv == HistoryInv /\ [Next]_vars => HistoryInv'
<1> SUFFICES ASSUME HistoryInv, [Next]_vars PROVE HistoryInv'
  OBVIOUS
<1>1. CASE UNCHANGED vars
  <2>1. TypeOK' /\ (\A h \in Sessions : Shape(session[h]))'
    BY <1>1 DEF vars, HistoryInv, TypeOK, Shape
  <2>2. LocksExclude' /\ UuidsFresh' /\ KeysExclude'
    BY <1>1 DEF vars, HistoryInv, LocksExclude, UuidsFresh, KeysExclude, Others, PastKey, Key
  <2>3. TasksOfTheRun' /\ NoOrphanRows'
    BY <1>1 DEF vars, HistoryInv, TasksOfTheRun, NoOrphanRows, Dropping, Others
  <2> QED
    BY <2>1, <2>2, <2>3 DEF HistoryInv
<1>2. ASSUME NEW h \in Sessions, Statement(h) PROVE HistoryInv'
  BY <1>2, ClaimKeyStep, CheckParentStep, CheckTaskStep, DropTaskStep, DeleteAgentStep,
     CascadeTaskStep, CommitStep DEF Statement
<1> QED
  BY <1>1, <1>2, BeginPlanStep, BeginAppendStep, BeginDropStep, BeginDeleteStep,
     LoseSessionStep DEF Next

\* HistoryInv, the inductive invariant: what each transaction has locked,
\* claimed and checked at its statement, and that nobody takes it away.
THEOREM HistoryInvariance == Spec => []HistoryInv
BY InitHistory, NextHistoryInv, PTL DEF Spec

\* Every variable keeps its type.
THEOREM HistoryTypes == Spec => []TypeOK
<1>1. HistoryInv => TypeOK
  BY DEF HistoryInv
<1> QED
  BY <1>1, HistoryInvariance, PTL

\* Nothing of a run outlives it: no insert of a task or of a record slips past
\* the cascade of a delete.
THEOREM NothingOutlivesARun == Spec => []NoOrphanRows
<1>1. HistoryInv => NoOrphanRows
  BY DEF HistoryInv
<1> QED
  BY <1>1, HistoryInvariance, PTL

\* A record never names a task that is gone.
THEOREM NoRecordDangles == Spec => []NoDanglingTask
<1>1. HistoryInv => NoDanglingTask
  BY NoRunAssumption DEF HistoryInv, TasksOfTheRun, NoDanglingTask, Keys
<1> QED
  BY <1>1, HistoryInvariance, PTL

\* No step removes a record of a run that stays, or rewrites it but for a task
\* that goes.
LEMMA HistoryStepHolds ==
    ASSUME HistoryInv, [Next]_vars
    PROVE  HistoryStep
<1> SUFFICES ASSUME NEW k \in Keys, record[k] # NoRow, k[1] \in alive', record'[k] # record[k]
             PROVE  /\ record[k] \in Tasks /\ task'[record[k]] = NoRun
                    /\ record'[k] = NoTask
  BY DEF HistoryStep
<1>1. PICK h \in Sessions : Commit(h)
  <2>1. ~UNCHANGED record
    OBVIOUS
  <2>2. \A h \in Sessions : BeginPlan(h) \/ BeginAppend(h) \/ BeginDrop(h) \/ BeginDelete(h)
           => UNCHANGED record
    BY DEF BeginPlan, BeginAppend, BeginDrop, BeginDelete, Begin
  <2>3. \A h \in Sessions : (Statement(h) /\ ~Commit(h)) \/ LoseSession(h) => UNCHANGED record
    BY DEF Statement, LoseSession, ClaimKey, CheckParent, CheckTask, DropTask, DeleteAgent,
           CascadeTask, Raise, Proceed
  <2> QED
    BY <2>1, <2>2, <2>3 DEF Next, vars
<1>2. PICK s \in InFlight : s = session[h]
  BY <1>1, SessionFacts, FieldTypes DEF Commit
<1>3. /\ task' = TaskAfter(s) /\ record' = RecordAfter(s)
      /\ alive' = IF s.kind = "delete" THEN alive \ {s.run} ELSE alive
  BY <1>1, <1>2 DEF Commit
<1>4. record \in [Keys -> Tasks \cup {NoTask, NoRow}] /\ task \in [Tasks -> Runs \cup {NoRun}]
  BY DEF HistoryInv, TypeOK
<1>5. CASE s.kind = "plan"
  BY <1>3, <1>5 DEF RecordAfter
<1>6. CASE s.kind = "append"
  <2>1. record[Key(s)] = NoRow
    BY <1>1, <1>2, <1>6 DEF HistoryInv, KeysExclude, PastKey, Commit
  <2> QED
    BY <1>3, <1>4, <1>6, <2>1 DEF RecordAfter
<1>7. CASE s.kind = "drop"
  <2>1. record[k] = s.task /\ record'[k] = NoTask
    BY <1>3, <1>7 DEF RecordAfter
  <2>2. s.task \in Tasks
    BY <1>2, <1>7 DEF HistoryInv, Shape, InFlight
  <2> QED
    BY <1>3, <1>4, <1>7, <2>1, <2>2 DEF TaskAfter
<1>8. CASE s.kind = "delete"
  <2>1. k[1] # s.run
    BY <1>3, <1>8
  <2> QED
    BY <1>3, <1>8, <2>1 DEF RecordAfter
<1> QED
  BY <1>5, <1>6, <1>7, <1>8 DEF InFlight

\* "Append-only": a committed record of a run that lives is written again by
\* one thing only, the deletion of its task, which leaves it without one.
THEOREM HistoryStays == Spec => HistoryIsKept
<1>1. HistoryInv /\ [Next]_vars => [HistoryStep]_vars
  BY HistoryStepHolds
<1> QED
  BY <1>1, HistoryInvariance, PTL DEF Spec, HistoryIsKept

=============================================================================
