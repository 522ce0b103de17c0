----------------------------- MODULE Migrations -----------------------------
(***************************************************************************)
(* The five revisions under migrations/versions and the way env.py runs    *)
(* them, `alembic upgrade` and `alembic downgrade`, against a database the *)
(* API serves requests from meanwhile.                                     *)
(*                                                                         *)
(* A migration reads the version of the database, plans the statements of  *)
(* the revisions between it and its target, and runs all of them in one    *)
(* transaction.  A request runs its statements in one transaction too; of  *)
(* what AgentsApi says of it there is here only which tables it touches    *)
(* and the values of `status` it reads and writes.  Transactions meet in   *)
(* the table locks of PostgreSQL, which each statement takes one by one.   *)
(***************************************************************************)
EXTENDS Integers, Sequences

CONSTANTS Agents,       \* the ids agents may be given
          Migrators,    \* alembic processes
          Requests,     \* requests in flight
          Targets,      \* Targets[m]: the revisions m may be asked for
          NoRow,        \* a row that is not there
          Same,         \* what a migration has not touched
          NoTable       \* a transaction that waits for no lock

\* The revisions by their place in the chain: 0 is `base`, 1 to 5 are
\* e21152998394, d87365651814, a017971fe447, c66309a8006e and 223032a0fa79.
Latest == 5

ASSUME TargetsAssumption == Targets \in [Migrators -> SUBSET (0..Latest)]
ASSUME ProcessesAssumption == Migrators \cap Requests = {}

VARIABLES
    schema,     \* schema[t]: table t in the committed catalog
    version,    \* the row of alembic_version, 0 without one
    row,        \* row[t][a]: the committed row of agent a in table t
    tx          \* tx[x]: the transaction x runs

vars == <<schema, version, row, tx>>

Transactions == Migrators \cup Requests

\* The tables a table refers to by foreign keys.
Refs == [agent            |-> {},
         run              |-> {"agent"},
         task             |-> {"agent", "run"},
         event            |-> {"agent", "run"},
         message          |-> {"agent", "run"},
         artifact         |-> {"agent", "run"},
         iteration_record |-> {"agent", "run", "task"}]

Tables == DOMAIN Refs
Stored == {"agent", "run"}      \* the tables whose rows are modelled
Spellings == {"upper", "lower"}
Lockable == Tables \cup {"alembic_version"}

\* Of a table: the spelling its status constraint asks for, and the index it
\* has, on (agent_id, seq).  Nothing is a table that is not there.
Plain == [check |-> "none", index |-> "none"]
Nothing == [check |-> "no_table", index |-> "none"]

\* NoRow, Same and NoTable are none of the values they stand beside.
MarksAreNew ==
    /\ NoRow \notin Agents \cup [status : {"created", "starting"}, spelling : Spellings]
    /\ Same \notin 0..Latest
    /\ Same \notin [check : {"upper", "lower", "none", "no_table"}, index : {"none", "seq"}]
    /\ NoTable \notin Lockable

ASSUME MarksAssumption == MarksAreNew

-----------------------------------------------------------------------------
(* The revisions: a sequence of statements for each way.                   *)

Statement(do, on, spelling) == [do |-> do, on |-> on, spelling |-> spelling]

CreateTable(t)    == Statement("create_table", t, "none")
CreateChecked(t)  == Statement("create_table", t, "upper")
DropTable(t)      == Statement("drop_table", t, "none")
CreateIndex(t)    == Statement("create_index", t, "none")
DropIndex(t)      == Statement("drop_index", t, "none")
DropCheck(t)      == Statement("drop_check", t, "none")
Rewrite(t, c)     == Statement("rewrite", t, c)
CreateCheck(t, c) == Statement("create_check", t, c)

\* The UPDATE of run left out.
RespellingAgentsOnly(c) ==
    <<DropCheck("agent"), DropCheck("run"), Rewrite("agent", c),
      CreateCheck("agent", c), CreateCheck("run", c)>>

\* The constraints are not put back.
RespellingUnchecked(c) ==
    <<DropCheck("agent"), DropCheck("run"), Rewrite("agent", c), Rewrite("run", c)>>

\* The runs are not rewritten but their table made anew.
RespellingRebuilt(c) ==
    <<DropCheck("agent"), Rewrite("agent", c), CreateCheck("agent", c),
      DropTable("task"), DropTable("run"), Statement("create_table", "run", c),
      CreateTable("task")>>

\* The constraints are lifted, the rows rewritten, the constraints put back.
Respelling(c) ==
    <<DropCheck("agent"), DropCheck("run"),
      Rewrite("agent", c), Rewrite("run", c),
      CreateCheck("agent", c), CreateCheck("run", c)>>

\* The lower and the upper spelling swapped.
UpgradeToUpper == Respelling("upper")

\* An index added to an older table is not dropped.
DowngradeKeepsIndex == <<DropTable("iteration_record"), DropTable("artifact")>>

Upgrade_e211 == <<CreateChecked("agent"), CreateChecked("run")>>

Upgrade_d873 == <<CreateTable("task")>>

Upgrade_a017 == Respelling("lower")

Upgrade_c663 == <<CreateTable("event"), CreateIndex("event"), CreateTable("message")>>

Upgrade_2230 ==
    <<CreateTable("artifact"), CreateTable("iteration_record"), CreateIndex("message")>>

Downgrade_e211 == <<DropTable("run"), DropTable("agent")>>

Downgrade_d873 == <<DropTable("task")>>

Downgrade_a017 == Respelling("upper")

Downgrade_c663 == <<DropTable("message"), DropIndex("event"), DropTable("event")>>

Downgrade_2230 ==
    <<DropIndex("message"), DropTable("iteration_record"), DropTable("artifact")>>

Upgrade == <<Upgrade_e211, Upgrade_d873, Upgrade_a017, Upgrade_c663, Upgrade_2230>>
Downgrade ==
    <<Downgrade_e211, Downgrade_d873, Downgrade_a017, Downgrade_c663, Downgrade_2230>>

\* After each revision alembic writes the version it has reached, where the
\* one it left is.
Stamp(i, j) == [do |-> "stamp", on |-> "alembic_version", from |-> i, to |-> j]

\* The next step on the way from revision i to revision `to`.
Revision(i, to) ==
    CASE i < to -> Append(Upgrade[i + 1], Stamp(i, i + 1))
      [] i > to -> Append(Downgrade[i], Stamp(i, i - 1))
      [] OTHER  -> <<>>

\* Table t as statement s leaves it.
TableAfter(s, t) ==
    CASE s.do = "create_table" -> [Plain EXCEPT !.check = s.spelling]
      [] s.do = "drop_table"   -> Nothing
      [] s.do = "create_index" -> [t EXCEPT !.index = "seq"]
      [] s.do = "drop_index"   -> [t EXCEPT !.index = "none"]
      [] s.do = "drop_check"   -> [t EXCEPT !.check = "none"]
      [] s.do = "create_check" -> [t EXCEPT !.check = s.spelling]
      [] OTHER                 -> t

\* The revision that creates each table, and the schema at each revision: what
\* the chain's upgrades add up to, and where every downgrade must come back to.
Since == [agent |-> 1, run |-> 1, task |-> 2, event |-> 4, message |-> 4,
          artifact |-> 5, iteration_record |-> 5]

SchemaAt == [i \in 0..Latest |-> [t \in Tables |->
    IF i < Since[t] THEN Nothing
    ELSE [check |-> IF t \notin Stored THEN "none" ELSE IF i < 3 THEN "upper" ELSE "lower",
          index |-> IF t = "event" \/ (t = "message" /\ i = 5) THEN "seq" ELSE "none"]]]

\* What the models of src/juicebox/persistence declare.
Models ==
    [t \in Tables |->
        CASE t \in {"agent", "run"}     -> [check |-> "lower", index |-> "none"]
          [] t \in {"event", "message"} -> [check |-> "none", index |-> "seq"]
          [] OTHER                      -> Plain]

-----------------------------------------------------------------------------
(* The state.                                                              *)

\* A transaction at rest.  In flight it has statements `left`, a
\* migration those of its current revision on the way `to` another; `held` is
\* the strength of its lock on each table and `wants` the table whose lock it
\* waits for; a request is about agent `id`.  A migration sees the tables it
\* has changed in `view`, the rows it has rewritten as `spelt`, those of a table
\* it has dropped not at all (`gone`: a new table of the name has none), the
\* version it has stamped; it is `stale` if another has committed since it began.
Idle == [kind |-> "none", id |-> NoRow, to |-> 0, left |-> <<>>,
         held |-> [t \in Lockable |-> 0], wants |-> NoTable,
         view |-> [t \in Tables |-> Same], spelt |-> [t \in Stored |-> "same"],
         gone |-> {}, version |-> Same, stale |-> FALSE]

\* An empty database.
Init ==
    /\ version = 0
    /\ schema = [t \in Tables |-> Nothing]
    /\ row = [t \in Stored |-> [a \in Agents |-> NoRow]]
    /\ tx = [x \in Transactions |-> Idle]

Running(x) == tx[x].kind # "none"

\* The catalog and the version as x sees them.
Sees(x, t) == IF tx[x].view[t] = Same THEN schema[t] ELSE tx[x].view[t]

-----------------------------------------------------------------------------
(* PostgreSQL's table locks.                                               *)

\* A statement's lock on a table by strength: 1 to read, 2 to write rows, 3
\* to be referred to or indexed, 4 to be altered.  Two locks on a table
\* conflict if their strengths add up to 5.
Demand(x) ==
    LET s == Head(tx[x].left)
        Levels(own, others, level) ==
            [t \in Lockable |-> IF t = s.on THEN own
                                ELSE IF t \in others THEN level ELSE 0]
        present == {t \in Tables : schema[t] # Nothing}
    IN  CASE s.do = "create_table" -> Levels(4, Refs[s.on], 3)
          [] s.do = "drop_table"   -> Levels(4, Refs[s.on], 4)
          [] s.do = "create_index" -> Levels(3, {}, 0)
          [] s.do = "rewrite"      -> Levels(2, {}, 0)
          [] s.do = "select"       -> Levels(1, {}, 0)
          [] s.do \in {"insert", "update"} -> Levels(2, Refs[s.on], 1)
          [] s.do = "delete" ->
                Levels(2, IF row.agent[tx[x].id] = NoRow THEN {} ELSE present, 2)
          [] OTHER                 -> Levels(4, {}, 0)

\* The locks the statement still needs, its own table's first; the order of the
\* others, which for a dropped table is the server's own, is left open.
Missing(x) ==
    LET s == Head(tx[x].left)
        lacks == {t \in Lockable : tx[x].held[t] < Demand(x)[t]}
    IN  IF s.on \in lacks THEN {s.on} ELSE lacks

\* The transactions that hold a lock x waits for.
Blockers(x, t) ==
    {y \in Transactions \ {x} : Demand(x)[t] + tx[y].held[t] >= 5}

WaitsFor(x) ==
    IF tx[x].wants = NoTable THEN {} ELSE Blockers(x, tx[x].wants)

\* x is in a ring of transactions each of which waits for another.
Deadlocked(x) ==
    \E ring \in SUBSET Transactions :
        /\ x \in ring
        /\ \A y \in ring : /\ WaitsFor(y) \cap ring # {}
                           /\ \E z \in ring : y \in WaitsFor(z)

\* x asks for one lock: it has it, or it waits.
TakeLock(x) ==
    /\ tx[x].left # <<>>
    /\ \E t \in Missing(x) :
        /\ tx[x].wants \in {NoTable, t}
        /\ IF Blockers(x, t) = {}
           THEN tx' = [tx EXCEPT ![x].held[t] = Demand(x)[t], ![x].wants = NoTable]
           ELSE tx[x].wants = NoTable /\ tx' = [tx EXCEPT ![x].wants = t]
    /\ UNCHANGED <<schema, version, row>>

-----------------------------------------------------------------------------
(* How a transaction begins and ends.                                      *)

\* `alembic upgrade` or `downgrade`: the plan is made from the version read.
BeginMigration(m) ==
    /\ ~Running(m)
    /\ \E target \in Targets[m] \ {version} :
        tx' = [tx EXCEPT ![m] = [Idle EXCEPT
            !.kind = "migration", !.to = target, !.left = Revision(version, target)]]
    /\ UNCHANGED <<schema, version, row>>

Program(kind) ==
    CASE kind = "create" -> <<Statement("insert", "agent", "lower")>>
      [] kind = "start"  -> <<Statement("select", "agent", "none"),
                              Statement("update", "agent", "lower"),
                              Statement("insert", "run", "lower")>>
      [] kind = "delete" -> <<Statement("delete", "agent", "none")>>

\* A request of the API.  Two requests about one agent are AgentsApi's
\* subject, and a create chooses an id of its own.
BeginRequest(h) ==
    /\ ~Running(h)
    /\ \E kind \in {"create", "start", "delete"}, a \in Agents :
        /\ \A o \in Requests : tx[o].id # a
        /\ kind = "create" => row.agent[a] = NoRow
        /\ tx' = [tx EXCEPT ![h] = [Idle EXCEPT
              !.kind = kind, !.id = a, !.left = Program(kind)]]
    /\ UNCHANGED <<schema, version, row>>

Finish(x) == tx' = [tx EXCEPT ![x] = Idle]

\* Nothing of a transaction that fails stays.
Abort(x) ==
    /\ Running(x)
    /\ Finish(x)
    /\ UNCHANGED <<schema, version, row>>

LoseSession(x) == Abort(x)

\* The server ends a deadlock by failing the statement of one of the ring.
AbortDeadlocked(x) == Deadlocked(x) /\ Abort(x)

\* The row of agent a in t as migration m leaves it.
Respelt(m, t, a) ==
    IF row[t][a] = NoRow \/ t \in tx[m].gone THEN NoRow
    ELSE IF tx[m].spelt[t] = "same" THEN row[t][a]
    ELSE [row[t][a] EXCEPT !.spelling = tx[m].spelt[t]]

\* The one transaction of a migration commits.
CommitMigration(m) ==
    /\ tx[m].kind = "migration"
    /\ tx[m].left = <<>>
    /\ schema' = [t \in Tables |-> Sees(m, t)]
    /\ version' = tx[m].version
    /\ row' = [t \in Stored |-> [a \in Agents |-> Respelt(m, t, a)]]
    /\ tx' = [x \in Transactions |->
          IF x = m THEN Idle
          ELSE IF tx[x].kind = "migration" THEN [tx[x] EXCEPT !.stale = TRUE]
          ELSE tx[x]]

Row(status) == [status |-> status, spelling |-> "lower"]

\* session_scope commits.
CommitRequest(h) ==
    LET a == tx[h].id IN
    /\ tx[h].kind \notin {"none", "migration"}
    /\ tx[h].left = <<>>
    /\ row' = CASE tx[h].kind = "create" -> [row EXCEPT !.agent[a] = Row("created")]
                [] tx[h].kind = "start"  -> [row EXCEPT !.agent[a] = Row("starting"),
                                                       !.run[a] = Row("starting")]
                [] OTHER -> [row EXCEPT !.agent[a] = NoRow, !.run[a] = NoRow]
    /\ Finish(h)
    /\ UNCHANGED <<schema, version>>

-----------------------------------------------------------------------------
(* The statements.                                                         *)

\* What the catalog, the rows or the version refuse.  A migration sees its own
\* changes; of the version, only the row it expects to find is written over.
Breaks(x) ==
    LET s == Head(tx[x].left)
        t == Sees(x, s.on)
    IN  CASE s.do = "create_table" ->
                t # Nothing \/ \E r \in Refs[s.on] : Sees(x, r) = Nothing
          [] s.do = "drop_table" ->
                \/ t = Nothing
                \/ \E r \in Tables : s.on \in Refs[r] /\ Sees(x, r) # Nothing
          [] s.do = "create_index" -> t = Nothing \/ t.index = "seq"
          [] s.do = "drop_index"   -> t.index = "none"
          [] s.do = "drop_check"   -> t.check \notin Spellings
          [] s.do = "create_check" ->
                \/ t.check # "none"
                \/ \E a \in Agents : LET r == Respelt(x, s.on, a) IN
                                       r # NoRow /\ r.spelling # s.spelling
          [] s.do = "stamp" ->
                /\ s.from # 0
                /\ (IF tx[x].version = Same THEN version ELSE tx[x].version) # s.from
          [] s.do \in {"insert", "update"} ->
                t.check \notin {s.spelling, "none"}
          [] OTHER -> t = Nothing

\* The next statement of x is refused.
Refused(x) ==
    /\ tx[x].left # <<>>
    /\ tx[x].wants = NoTable
    /\ Breaks(x)

\* It fails: alembic gives up, a request is answered 500.
Fail(x) == Refused(x) /\ Abort(x)

\* A start finds no agent (404), or one its transition table has no edge for
\* (409), which any status in upper case is.
Turned(x) ==
    /\ Head(tx[x].left).do = "select"
    /\ row.agent[tx[x].id] # Row("created")

Executable(x) ==
    /\ tx[x].left # <<>>
    /\ Missing(x) = {}
    /\ ~Breaks(x)

TurnAway(h) ==
    /\ Executable(h)
    /\ Turned(h)
    /\ Abort(h)

\* A statement of a request: what it writes is seen at the commit.
RunStatement(h) ==
    /\ tx[h].kind # "migration"
    /\ Executable(h)
    /\ ~Turned(h)
    /\ tx' = [tx EXCEPT ![h].left = Tail(@)]
    /\ UNCHANGED <<schema, version, row>>

\* An operation of a revision, or alembic's stamp after its last one, with which
\* the next revision begins.
RunOperation(m) ==
    LET s == Head(tx[m].left)
        rest == Tail(tx[m].left)
    IN
    /\ tx[m].kind = "migration"
    /\ Executable(m)
    /\ tx' =
          CASE s.do = "stamp" ->
                [tx EXCEPT ![m].left = Revision(s.to, tx[m].to), ![m].version = s.to]
            [] s.do = "rewrite" ->
                [tx EXCEPT ![m].left = rest, ![m].spelt[s.on] = s.spelling]
            [] OTHER ->
                [tx EXCEPT ![m].left = rest, ![m].view[s.on] = TableAfter(s, Sees(m, s.on)),
                           ![m].gone = IF s.do = "drop_table"
                                       THEN @ \cup ({s.on} \cap Stored) ELSE @]
    /\ UNCHANGED <<schema, version, row>>

Step(x) ==
    \/ TakeLock(x) \/ Fail(x) \/ TurnAway(x) \/ RunStatement(x)
    \/ RunOperation(x) \/ CommitMigration(x) \/ CommitRequest(x)

Next ==
    \/ \E m \in Migrators : BeginMigration(m)
    \/ \E h \in Requests : BeginRequest(h)
    \/ \E x \in Transactions : Step(x) \/ AbortDeadlocked(x) \/ LoseSession(x)

Spec == Init /\ [][Next]_vars

-----------------------------------------------------------------------------
(* Properties.                                                             *)

RowsOf(t) == {row[t][a] : a \in Agents} \ {NoRow}

\* The rows are those of tables that are there and satisfy the constraint in
\* force on them; a run belongs to an agent; a version is one of the chain.
TypeOK ==
    /\ version \in 0..Latest
    /\ DOMAIN schema = Tables
    /\ \A t \in Stored : \A r \in RowsOf(t) :
          /\ schema[t] # Nothing
          /\ r.spelling = schema[t].check
          /\ r.status \in {"created", "starting"}
    /\ \A a \in Agents : row.run[a] # NoRow => row.agent[a] # NoRow
    /\ \A x \in Transactions : /\ \A t \in Lockable : tx[x].held[t] \in 0..4
                                /\ tx[x].wants \in Lockable \cup {NoTable}

\* "Check that it rolls back and re-applies cleanly": whatever upgrades and
\* downgrades ran, finished or not, one after the other or together, the
\* catalog is what the version says, and at the head what the models declare.
SchemaMatchesVersion ==
    /\ schema = SchemaAt[version]
    /\ version = Latest => schema = Models

\* No statement of a revision is ever refused, whatever rows it meets and
\* whatever requests run, unless another migration has committed since this
\* one made its plan.
OnlyStalePlansFail == \A m \in Migrators : Refused(m) => tx[m].stale

\* At the head the API finds every table, value and constraint as the models
\* declare them: no request fails on the schema, and none reads a status it
\* has no edge for, however its statements interleave with a migration's.
HeadServes ==
    version = Latest =>
        /\ \A h \in Requests : ~Refused(h)
        /\ \A r \in RowsOf("agent") : r.spelling = "lower"

\* Every agent and run outlives every migration but one to base, with the
\* status it had, and a migration brings none back: on its way, whichever
\* revisions that leads over and whatever requests commit meanwhile, no
\* statement takes rows along that a later one does not restore.
RowsOutliveMigrations ==
    [][version' \notin {version, 0} =>
          \A t \in Stored, a \in Agents :
              /\ row'[t][a] = NoRow <=> row[t][a] = NoRow
              /\ row[t][a] # NoRow => row'[t][a].status = row[t][a].status]_vars

=============================================================================
