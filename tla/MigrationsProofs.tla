-------------------------- MODULE MigrationsProofs --------------------------
(***************************************************************************)
(* Machine-checked proofs about Migrations for every number of alembic     *)
(* processes, requests and agents: whatever overlaps, the catalog is that  *)
(* of the version, and only a stale plan is refused.                       *)
(***************************************************************************)
EXTENDS Migrations, SequenceTheorems, TLAPS

-----------------------------------------------------------------------------
(* What a catalog and a statement can be.                                  *)

Indexed == {"event", "message"}
Checks == {"upper", "lower", "none", "no_table"}
Indexes == {"none", "seq"}
Cells == [check : Checks, index : Indexes]

\* Only the stored tables have a status constraint, only two others an index.
ProperCell(t, c) ==
    /\ c \in Cells
    /\ c.check = "no_table" => c.index = "none"
    /\ t \notin Stored => c.check \in {"none", "no_table"}
    /\ t \notin Indexed => c.index = "none"

Catalogs == [Tables -> Cells]
Proper(cat) == cat \in Catalogs /\ \A t \in Tables : ProperCell(t, cat[t])

Operations == [do : {"create_table", "drop_table", "create_index", "drop_index",
                     "drop_check", "rewrite", "create_check"},
               on : Tables, spelling : {"upper", "lower", "none"}]
Queries == [do : {"select", "insert", "update", "delete"},
            on : Stored, spelling : {"lower", "none"}]
Stamps == [do : {"stamp"}, on : {"alembic_version"}, from : 0..Latest, to : 0..Latest]
Statements == Operations \cup Queries \cup Stamps

\* An operation is on a table that can have what it is about.
ProperOperation(s) ==
    /\ s.do = "create_table" =>
          IF s.on \in Stored THEN s.spelling \in Spellings ELSE s.spelling = "none"
    /\ s.do \in {"create_index", "drop_index"} => s.on \in Indexed
    /\ s.do \in {"drop_check", "rewrite", "create_check"} => s.on \in Stored
    /\ s.do \in {"rewrite", "create_check"} => s.spelling \in Spellings

-----------------------------------------------------------------------------
(* Where the statements of a revision lead.                                *)

\* How the rows of a stored table are spelt, if it has any.
RowSpellings == [Stored -> {"upper", "lower", "none", "any"}]

There(c) == c.check # "no_table"

\* The catalog `cat` and the rows let operation s run.
Fits(cat, rows, s) ==
    LET c == cat[s.on] IN
    /\ s.do = "create_table" => ~There(c) /\ \A r \in Refs[s.on] : There(cat[r])
    /\ s.do = "drop_table" => There(c) /\ \A r \in Tables : s.on \in Refs[r] => ~There(cat[r])
    /\ s.do = "create_index" => There(c) /\ c.index = "none"
    /\ s.do = "drop_index"   => c.index = "seq"
    /\ s.do = "drop_check"   => c.check \in Spellings
    /\ s.do = "create_check" => c.check = "none" /\ rows[s.on] \in {"any", s.spelling}
    /\ s.do = "rewrite"      => There(c)

CatalogAfter(cat, s) == [cat EXCEPT ![s.on] = TableAfter(s, cat[s.on])]
RowsAfter(rows, s) ==
    IF s.do = "rewrite" THEN [rows EXCEPT ![s.on] = s.spelling] ELSE rows

\* The catalog is that of revision j and the rows fit it.
Arrived(cat, rows, j) ==
    /\ cat = SchemaAt[j]
    /\ \A t \in Stored : There(cat[t]) => rows[t] \in {"any", cat[t].check}

\* The statements `left` are those of a revision that are left, and run from
\* `cat` and `rows` one after the other they are never refused and arrive at
\* the revision the last of them stamps.
Leads(cat, rows, left) ==
    \E path \in [1..Len(left) -> Catalogs], spelt \in [1..Len(left) -> RowSpellings] :
        /\ path[1] = cat /\ spelt[1] = rows
        /\ \A k \in 1..(Len(left) - 1) :
              /\ left[k] \in Operations /\ ProperOperation(left[k])
              /\ Proper(path[k])
              /\ Fits(path[k], spelt[k], left[k])
              /\ path[k + 1] = CatalogAfter(path[k], left[k])
              /\ spelt[k + 1] = RowsAfter(spelt[k], left[k])
        /\ left[Len(left)] \in Stamps
        /\ Arrived(path[Len(left)], spelt[Len(left)], left[Len(left)].to)

-----------------------------------------------------------------------------
(* Why no overlap of migrations and requests harms the schema.             *)

Tx == [kind : {"none", "migration", "create", "start", "delete"},
       id : Agents \cup {NoRow}, to : 0..Latest, left : Seq(Statements),
       held : [Lockable -> 0..4], wants : Lockable \cup {NoTable},
       view : [Tables -> Cells \cup {Same}], spelt : [Stored -> {"upper", "lower", "same"}],
       gone : SUBSET Stored, version : 0..Latest \cup {Same}, stale : BOOLEAN]

Rows == [status : {"created", "starting"}, spelling : Spellings]

\* The stamp a revision ends with.
Last(s) == s.left[Len(s.left)]

\* The version a migration at hand takes the database to be at: with v the
\* version committed, the one it planned from, or once it has stamped, v itself.
Base(s, v) == IF s.version = Same THEN Last(s).from ELSE v

\* The catalog and the rows as a migration has them if nothing changed since.
Expected(s, v) ==
    [t \in Tables |-> IF s.view[t] = Same THEN SchemaAt[Base(s, v)][t] ELSE s.view[t]]

ExpectedRows(s, v) ==
    [t \in Stored |-> IF s.spelt[t] # "same" THEN s.spelt[t]
                      ELSE IF There(SchemaAt[Base(s, v)][t]) THEN SchemaAt[Base(s, v)][t].check
                      ELSE "any"]

NextTo(i, j, to) == (i < to /\ j = i + 1) \/ (i > to /\ j = i - 1)
Between(i, j, k) == (i <= j /\ j <= k) \/ (k <= j /\ j <= i)

\* What a migration has left takes what it expects to where it is going.
OnTheWay(s, v) ==
    /\ s.left = <<>> => s.version = s.to /\ Arrived(Expected(s, v), ExpectedRows(s, v), s.to)
    /\ s.left # <<>> =>
          /\ Last(s) \in Stamps
          /\ NextTo(Last(s).from, Last(s).to, s.to)
          /\ s.version \in {Same, Last(s).from}
          /\ Between(Base(s, v), Last(s).from, s.to)
          /\ Leads(Expected(s, v), ExpectedRows(s, v), s.left)

\* A migration that planned from base and has created the table of agents did
\* so where there was none, and there is none still.
FromBase(s, cat) ==
    s.left # <<>> /\ s.version = Same /\ Last(s).from = 0 /\ s.view["agent"] # Same =>
        cat["agent"] = Nothing

\* Of a migration, with v and cat what is committed.
Sound(s, v, cat) ==
    /\ OnTheWay(s, v)
    /\ FromBase(s, cat)
    /\ ~s.stale => v = Base(s, v)

\* What is left to a request.
RequestShape(s) ==
    /\ s.id \in Agents
    /\ s.view = [t \in Tables |-> Same]
    /\ s.kind = "create" => s.left \in {Program("create"), <<>>}
    /\ s.kind = "start"  => s.left \in {Program("start"), Tail(Program("start")),
                                         Tail(Tail(Program("start"))), <<>>}
    /\ s.kind = "delete" => s.left \in {Program("delete"), <<>>}

Shape(x, s) ==
    /\ s.kind = "none" => s = Idle
    /\ x \in Migrators => s.kind \in {"none", "migration"}
    /\ x \in Requests => s.kind # "migration"
    /\ x \in Requests /\ s.kind # "none" => RequestShape(s)

\* Conflicting locks are not held together.
Compatible(held, others) == \A t \in Lockable : held[t] + others[t] <= 4
LocksExclude ==
    \A x, y \in Transactions : x # y => Compatible(tx[x].held, tx[y].held)

\* What a migration has changed it holds a lock on, and keeps from others.
ChangesAreLocked(s) ==
    /\ \A t \in Tables : s.view[t] # Same => s.held[t] >= 3
    /\ s.version # Same => s.held["alembic_version"] = 4

\* A request that has written to a table holds a lock on it, and found it to
\* take the lower spelling, which it goes on to do.
Wrote(s, cat, t) == s.held[t] >= 2 /\ cat[t].check = "lower"
WritesFit(s, cat) ==
    /\ s.kind = "create" /\ s.left = <<>> => Wrote(s, cat, "agent")
    /\ s.kind = "start" /\ s.left \in {<<>>, Tail(Tail(Program("start")))} => Wrote(s, cat, "agent")
    /\ s.kind = "start" /\ s.left = <<>> => Wrote(s, cat, "run")

\* The rows fit the constraint on them, and a run has its agent.
RowsFit ==
    /\ \A t \in Stored : \A a \in Agents : row[t][a] # NoRow =>
          There(schema[t]) /\ row[t][a].spelling = schema[t].check
    /\ \A a \in Agents : row.run[a] # NoRow => row.agent[a] # NoRow

MigrationsInv ==
    /\ tx \in [Transactions -> Tx]
    /\ row \in [Stored -> [Agents -> Rows \cup {NoRow}]]
    /\ version \in 0..Latest
    /\ schema = SchemaAt[version]
    /\ RowsFit
    /\ LocksExclude
    /\ \A x \in Transactions : Shape(x, tx[x]) /\ ChangesAreLocked(tx[x])
    /\ \A m \in Migrators : tx[m].kind = "migration" => Sound(tx[m], version, schema)
    /\ \A h \in Requests : WritesFit(tx[h], schema)

\* Among statements: one that drops a table whose rows are modelled, one that
\* creates a table.
Drops(left) == \E k \in 1..Len(left) : left[k].do = "drop_table" /\ left[k].on \in Stored
Creates(left) == \E k \in 1..Len(left) : left[k].do = "create_table"

\* The rows a migration takes along are those of the tables it sees no more:
\* only on its way to base does it drop such a table, and on that way it creates
\* none.
Gone(s) ==
    /\ \A t \in Stored : t \in s.gone <=> s.view[t] = Nothing
    /\ s.gone # {} \/ Drops(s.left) => s.to = 0
    /\ s.to = 0 => ~Creates(s.left)

RowsGoWithTables == \A m \in Migrators : tx[m].kind = "migration" => Gone(tx[m])

-----------------------------------------------------------------------------
(* Tables and statements.                                                  *)

\* The tables by name, and that a stored table can be locked.
LEMMA TablesAre ==
    /\ Tables = {"agent", "run", "task", "event", "message", "artifact", "iteration_record"}
    /\ Stored \subseteq Tables /\ Tables \subseteq Lockable
    /\ "alembic_version" \in Lockable /\ "alembic_version" \notin Tables
BY DEF Tables, Refs, Stored, Lockable

\* A table as CREATE TABLE leaves it, and one that is not there.
LEMMA PlainIs ==
    /\ Plain \in Cells /\ Plain.check = "none" /\ Plain.index = "none"
    /\ Nothing \in Cells /\ Nothing.check = "no_table" /\ Nothing.index = "none"
BY DEF Cells, Checks, Indexes, Plain, Nothing

\* What the catalog keeps of a table is its constraint and its index.
LEMMA CellsAre ==
    /\ Same \notin Cells
    /\ \A c, d \in Cells : c.check = d.check /\ c.index = d.index => c = d
    /\ \A c \in Cells : /\ c.check \in {"upper", "lower", "none", "no_table"}
                        /\ c.index \in {"none", "seq"}
<1>1. Same \notin Cells
  BY MarksAssumption DEF MarksAreNew, Cells, Checks, Indexes
<1>2. \A c, d \in Cells : c.check = d.check /\ c.index = d.index => c = d
  BY DEF Cells
<1>3. \A c \in Cells : /\ c.check \in {"upper", "lower", "none", "no_table"}
                      /\ c.index \in {"none", "seq"}
  BY DEF Cells, Checks, Indexes
<1> QED
  BY <1>1, <1>2, <1>3

\* A table is not there exactly if its cell says so.
LEMMA NothingIs ==
    ASSUME NEW t, NEW c \in Cells, ProperCell(t, c)
    PROVE  c = Nothing <=> c.check = "no_table"
BY PlainIs, CellsAre DEF ProperCell

\* The schema of each revision, table by table.
CheckAt(i, t) ==
    IF i < Since[t] THEN "no_table"
    ELSE IF t \notin Stored THEN "none" ELSE IF i < 3 THEN "upper" ELSE "lower"
IndexAt(i, t) ==
    IF i < Since[t] THEN "none"
    ELSE IF t = "event" \/ (t = "message" /\ i = 5) THEN "seq" ELSE "none"

\* The catalog of revision i, table by table.
LEMMA SchemaIs ==
    ASSUME NEW i \in 0..Latest, NEW t \in Tables
    PROVE  /\ Since[t] \in Nat /\ i \in Nat
           /\ SchemaAt[i][t] \in Cells
           /\ SchemaAt[i][t].check = CheckAt(i, t)
           /\ SchemaAt[i][t].index = IndexAt(i, t)
<1> USE DEF CheckAt, IndexAt
<1>1. Since[t] \in Nat /\ i \in Nat
  BY TablesAre DEF Since, Latest
<1>2. SchemaAt[i][t] =
         IF i < Since[t] THEN Nothing
         ELSE [check |-> IF t \notin Stored THEN "none" ELSE IF i < 3 THEN "upper" ELSE "lower",
               index |-> IF t = "event" \/ (t = "message" /\ i = 5) THEN "seq" ELSE "none"]
  BY DEF SchemaAt
<1>3. CASE i < Since[t]
  BY <1>1, <1>2, <1>3, PlainIs
<1>4. CASE i >= Since[t]
  <2>1. PICK c \in Checks :
           c = IF t \notin Stored THEN "none" ELSE IF i < 3 THEN "upper" ELSE "lower"
    BY DEF Checks
  <2>2. PICK x \in Indexes :
           x = IF t = "event" \/ (t = "message" /\ i = 5) THEN "seq" ELSE "none"
    BY DEF Indexes
  <2>3. SchemaAt[i][t] = [check |-> c, index |-> x]
    BY <1>1, <1>2, <1>4, <2>1, <2>2
  <2>4. SchemaAt[i][t] \in Cells /\ SchemaAt[i][t].check = c /\ SchemaAt[i][t].index = x
    <3>1. PICK r : r = SchemaAt[i][t]
      OBVIOUS
    <3>2. r \in Cells /\ r.check = c /\ r.index = x
      BY <2>3, <3>1 DEF Cells
    <3> QED
      BY <3>1, <3>2
  <2>5. SchemaAt[i][t].check =
           IF t \notin Stored THEN "none" ELSE IF i < 3 THEN "upper" ELSE "lower"
    BY <2>1, <2>4
  <2>6. SchemaAt[i][t].index =
           IF t = "event" \/ (t = "message" /\ i = 5) THEN "seq" ELSE "none"
    BY <2>2, <2>4
  <2>7. ~(i < Since[t])
    <3>1. \A m, n \in Nat : m >= n => ~(m < n)
      OBVIOUS
    <3> QED
      BY <1>1, <1>4, <3>1, Zenon
  <2> QED
    BY <1>1, <2>4, <2>5, <2>6, <2>7
<1>5. i < Since[t] \/ i >= Since[t]
  BY <1>1
<1> QED
  BY <1>3, <1>4, <1>5

\* Every revision has its constraints and indexes where they belong.
LEMMA SchemaProper == \A i \in 0..Latest : Proper(SchemaAt[i])
<1> SUFFICES ASSUME NEW i \in 0..Latest PROVE Proper(SchemaAt[i])
  OBVIOUS
<1>1. \A t \in Tables : ProperCell(t, SchemaAt[i][t])
  BY SchemaIs DEF CheckAt, IndexAt, ProperCell, Stored, Indexed
<1>2. SchemaAt[i] \in Catalogs
  <2> DEFINE C(u) ==
        IF i < Since[u] THEN Nothing
        ELSE [check |-> IF u \notin Stored THEN "none" ELSE IF i < 3 THEN "upper" ELSE "lower",
              index |-> IF u = "event" \/ (u = "message" /\ i = 5) THEN "seq" ELSE "none"]
  <2>1. SchemaAt[i] = [u \in Tables |-> C(u)]
    BY DEF SchemaAt
  <2> HIDE DEF C
  <2>2. \A u \in Tables : C(u) \in Cells
    BY <1>1, <2>1 DEF ProperCell
  <2> QED
    BY <2>1, <2>2 DEF Catalogs
<1> QED
  BY <1>1, <1>2 DEF Proper

\* What an operation leaves of its table.
LEMMA TableAfterType ==
    ASSUME NEW s \in Operations, NEW c \in Cells
    PROVE  TableAfter(s, c) \in Cells
<1> USE DEF TableAfter
<1>2. CASE s.do = "create_table"
  BY <1>2 DEF Plain, Cells, Operations, Checks, Indexes
<1>3. CASE s.do = "drop_table"
  BY <1>3, PlainIs
<1>4. CASE s.do \in {"create_index", "drop_index"}
  BY <1>4 DEF Cells, Indexes
<1>5. CASE s.do \in {"drop_check", "create_check"}
  BY <1>5 DEF Cells, Operations, Checks
<1>6. CASE s.do = "rewrite"
  BY <1>6
<1> QED
  BY <1>2, <1>3, <1>4, <1>5, <1>6 DEF Operations

\* What each kind of operation makes of its table.
LEMMA TableAfterIs ==
    ASSUME NEW s \in Operations, NEW c \in Cells, NEW d \in Cells, d = TableAfter(s, c)
    PROVE  /\ s.do = "create_table" => d.check = s.spelling /\ d.index = "none"
           /\ s.do = "drop_table"   => d = Nothing
           /\ s.do = "create_index" => d.check = c.check /\ d.index = "seq"
           /\ s.do = "drop_index"   => d.check = c.check /\ d.index = "none"
           /\ s.do = "drop_check"   => d.check = "none" /\ d.index = c.index
           /\ s.do = "create_check" => d.check = s.spelling /\ d.index = c.index
           /\ s.do = "rewrite"      => d = c
<1> USE DEF TableAfter
<1>2. CASE s.do = "create_table"
  BY <1>2 DEF Plain, Cells, Operations, Checks, Indexes
<1>3. CASE s.do = "drop_table"
  BY <1>3, PlainIs
<1>4. CASE s.do \in {"create_index", "drop_index"}
  BY <1>4 DEF Cells, Indexes
<1>5. CASE s.do \in {"drop_check", "create_check"}
  BY <1>5 DEF Cells, Operations, Checks
<1>6. CASE s.do = "rewrite"
  BY <1>6
<1> QED
  BY <1>2, <1>3, <1>4, <1>5, <1>6 DEF Operations

\* It is what the table can be.
LEMMA TableAfterProper ==
    ASSUME NEW s \in Operations, ProperOperation(s), NEW c \in Cells, ProperCell(s.on, c),
           s.do \in {"create_index", "drop_check", "create_check", "rewrite"} => c # Nothing
    PROVE  ProperCell(s.on, TableAfter(s, c))
<1>1. PICK d \in Cells : d = TableAfter(s, c)
  BY TableAfterType
<1>2. s.do \in {"create_table", "drop_table", "create_index", "drop_index",
              "drop_check", "rewrite", "create_check"}
  BY DEF ProperOperation, Operations
<1>3. c \in Cells /\ d \in Cells
  OBVIOUS
<1>4. CASE s.do = "create_table"
  <2>1. d.check = s.spelling /\ d.index = "none"
    BY <1>1, <1>3, <1>4, TableAfterIs
  <2>2. s.spelling # "no_table" /\ (s.on \notin Stored => s.spelling = "none")
    BY <1>4 DEF ProperOperation, Spellings
  <2> QED
    BY <1>1, <1>3, <2>1, <2>2 DEF ProperCell
<1>5. CASE s.do = "drop_table"
  BY <1>1, <1>3, <1>5, TableAfterIs, PlainIs DEF ProperCell
<1>6. CASE s.do \in {"create_index", "drop_index"}
  <2>1. d.check = c.check /\ s.on \in Indexed
    <3>1. d.check = c.check
      <4>1. CASE s.do = "create_index"
        BY <1>1, <4>1 DEF TableAfter, Cells
      <4>2. CASE s.do = "drop_index"
        BY <1>1, <4>2, TableAfterIs
      <4> QED
        BY <1>6, <4>1, <4>2
    <3>2. s.on \in Indexed
      BY <1>6 DEF ProperOperation
    <3> QED
      BY <3>1, <3>2
  <2>2. s.do = "create_index" => c.check # "no_table"
    BY NothingIs
  <2>3. s.do = "drop_index" => d.index = "none"
    BY <1>1, <1>3, TableAfterIs
  <2> QED
    BY <1>1, <1>3, <1>6, <2>1, <2>2, <2>3 DEF ProperCell
<1>7. CASE s.do \in {"drop_check", "create_check"}
  <2>1. d.index = c.index /\ s.on \in Stored
    BY <1>1, <1>3, <1>7, TableAfterIs DEF ProperOperation
  <2>2. d.check \in Spellings \cup {"none"}
    <3>1. s.do = "drop_check" => d.check = "none"
      BY <1>1, TableAfterIs
    <3>2. s.do = "create_check" => d.check = s.spelling
      BY <1>1, TableAfterIs
    <3>3. s.do = "create_check" => s.spelling \in Spellings
      BY DEF ProperOperation
    <3> QED
      BY <1>7, <3>1, <3>2, <3>3
  <2> QED
    BY <1>1, <1>3, <2>1, <2>2 DEF ProperCell, Spellings
<1>8. CASE s.do = "rewrite"
  <2>1. d = c
    BY <1>1, <1>8, TableAfterIs
  <2> QED
    BY <1>1, <2>1
<1> QED
  BY <1>1, <1>2, <1>4, <1>5, <1>6, <1>7, <1>8

\* An operation that fits changes one table, and leaves a proper catalog.
LEMMA AfterProper ==
    ASSUME NEW cat, Proper(cat), NEW rows,
           NEW s \in Operations, ProperOperation(s), Fits(cat, rows, s)
    PROVE  /\ Proper(CatalogAfter(cat, s))
           /\ \A t \in Tables : CatalogAfter(cat, s)[t] =
                 IF t = s.on THEN TableAfter(s, cat[t]) ELSE cat[t]
<1>1. s.on \in Tables
  BY DEF ProperOperation, Operations
<1>2. s.do \in {"create_index", "drop_check", "create_check", "rewrite"} => cat[s.on] # Nothing
  BY PlainIs DEF Fits, There, Spellings
<1>6. cat[s.on] \in Cells /\ ProperCell(s.on, cat[s.on])
  BY <1>1 DEF Proper, Catalogs
<1>3. ProperCell(s.on, TableAfter(s, cat[s.on]))
  BY <1>2, <1>6, TableAfterProper
<1>4. \A t \in Tables : CatalogAfter(cat, s)[t] =
         IF t = s.on THEN TableAfter(s, cat[t]) ELSE cat[t]
  BY <1>1 DEF CatalogAfter, Proper, Catalogs
<1>5. CatalogAfter(cat, s) \in Catalogs
  BY <1>1, <1>3 DEF CatalogAfter, Proper, Catalogs, ProperCell
<1> QED
  BY <1>3, <1>4, <1>5 DEF Proper

\* A rewrite leaves the rows in one of the spellings.
LEMMA RowsAfterType ==
    ASSUME NEW rows \in RowSpellings, NEW s \in Operations, ProperOperation(s)
    PROVE  RowsAfter(rows, s) \in RowSpellings
<1>1. CASE s.do = "rewrite"
  <2>1. s.on \in Stored /\ s.spelling \in {"upper", "lower", "none", "any"}
    BY <1>1 DEF ProperOperation, Spellings
  <2> QED
    BY <1>1, <2>1 DEF RowsAfter, RowSpellings
<1>2. CASE s.do # "rewrite"
  BY <1>2 DEF RowsAfter
<1> QED
  BY <1>1, <1>2

-----------------------------------------------------------------------------
(* Paths through what is left of a revision.                               *)

\* The statements left when the first has run.
LEMMA TailIs ==
    ASSUME NEW S, NEW left \in Seq(S), NEW n \in Nat, n = Len(left), n > 1
    PROVE  /\ Tail(left) \in Seq(S) /\ Len(Tail(left)) = n - 1
           /\ \A k \in 1..(n - 1) : Tail(left)[k] = left[k + 1]
           /\ Head(left) = left[1]
           /\ Tail(left) # <<>> /\ left # <<>>
<1>1. left # <<>>
  OBVIOUS
<1>2. Tail(left) \in Seq(S) /\ Len(Tail(left)) = n - 1
  BY <1>1
<1>3. \A k \in 1..(n - 1) : Tail(left)[k] = left[k + 1]
  BY <1>1
<1>4. Head(left) = left[1]
  BY <1>1
<1>5. Tail(left) # <<>>
  <2>1. \A q \in Seq(S) : Len(q) # 0 => q # <<>>
    OBVIOUS
  <2>2. n - 1 # 0
    OBVIOUS
  <2> QED
    BY <1>2, <2>1, <2>2, Zenon
<1> QED
  BY <1>1, <1>2, <1>3, <1>4, <1>5

\* A stamp leads to where the catalog is.
LEMMA LeadsEnd ==
    ASSUME NEW cat \in Catalogs, NEW rows \in RowSpellings, NEW stamp \in Stamps,
           Arrived(cat, rows, stamp.to), NEW left, left = <<stamp>>
    PROVE  Leads(cat, rows, left)
<1>1. Len(left) = 1 /\ left[1] = stamp
  OBVIOUS
<1> DEFINE path == [k \in 1..Len(left) |-> cat]
           spelt == [k \in 1..Len(left) |-> rows]
<1>2. path \in [1..Len(left) -> Catalogs] /\ spelt \in [1..Len(left) -> RowSpellings]
  OBVIOUS
<1>3. path[1] = cat /\ spelt[1] = rows /\ 1..(Len(left) - 1) = {}
  BY <1>1
<1> HIDE DEF path, spelt
<1> QED
  BY <1>1, <1>2, <1>3 DEF Leads

\* An operation that fits, before what leads on from what it leaves.
LEMMA LeadsBack ==
    ASSUME NEW cat, Proper(cat), NEW rows \in RowSpellings,
           NEW S, NEW left \in Seq(S), Len(left) > 1,
           Head(left) \in Operations, ProperOperation(Head(left)), Fits(cat, rows, Head(left)),
           Leads(CatalogAfter(cat, Head(left)), RowsAfter(rows, Head(left)), Tail(left))
    PROVE  Leads(cat, rows, left)
<1>1. PICK n \in Nat : n = Len(left)
  OBVIOUS
<1>2. PICK s, q : s = Head(left) /\ q = Tail(left)
  OBVIOUS
<1>3. /\ n > 1 /\ Len(q) = n - 1 /\ s = left[1]
      /\ \A k \in 1..(n - 1) : q[k] = left[k + 1]
  BY <1>1, <1>2, TailIs
<1>4. PICK path \in [1..(n - 1) -> Catalogs], spelt \in [1..(n - 1) -> RowSpellings] :
        /\ path[1] = CatalogAfter(cat, s) /\ spelt[1] = RowsAfter(rows, s)
        /\ \A k \in 1..(n - 1 - 1) :
              /\ q[k] \in Operations /\ ProperOperation(q[k])
              /\ Proper(path[k])
              /\ Fits(path[k], spelt[k], q[k])
              /\ path[k + 1] = CatalogAfter(path[k], q[k])
              /\ spelt[k + 1] = RowsAfter(spelt[k], q[k])
        /\ q[n - 1] \in Stamps
        /\ Arrived(path[n - 1], spelt[n - 1], q[n - 1].to)
  BY <1>2, <1>3 DEF Leads
<1> DEFINE P == [k \in 1..n |-> IF k = 1 THEN cat ELSE path[k - 1]]
           R == [k \in 1..n |-> IF k = 1 THEN rows ELSE spelt[k - 1]]
<1>5. P \in [1..n -> Catalogs] /\ R \in [1..n -> RowSpellings]
  BY <1>3 DEF Proper
<1>6. P[1] = cat /\ R[1] = rows /\ \A k \in 1..(n - 1) : P[k + 1] = path[k] /\ R[k + 1] = spelt[k]
  BY <1>3
<1> HIDE DEF P, R
<1>7. ASSUME NEW k \in 1..(n - 1)
      PROVE  /\ left[k] \in Operations /\ ProperOperation(left[k])
             /\ Proper(P[k])
             /\ Fits(P[k], R[k], left[k])
             /\ P[k + 1] = CatalogAfter(P[k], left[k])
             /\ R[k + 1] = RowsAfter(R[k], left[k])
  <2>1. CASE k = 1
    <3>1. P[k + 1] = path[1] /\ R[k + 1] = spelt[1] /\ P[k] = cat /\ R[k] = rows /\ left[k] = s
      BY <1>3, <1>6, <2>1
    <3> QED
      BY <1>2, <1>4, <3>1
  <2>2. CASE k # 1
    <3>1. PICK j \in 1..(n - 1 - 1) : k = j + 1
      BY <2>2
    <3>2. /\ P[k] = path[j] /\ R[k] = spelt[j] /\ left[k] = q[j]
          /\ P[k + 1] = path[j + 1] /\ R[k + 1] = spelt[j + 1]
      <4>1. j \in 1..(n - 1) /\ j + 1 \in 1..(n - 1)
        BY <3>1
      <4> QED
        BY <1>3, <1>6, <3>1, <4>1
    <3> QED
      BY <1>4, <3>2
  <2> QED
    BY <2>1, <2>2
<1>8. left[n] = q[n - 1] /\ P[n] = path[n - 1] /\ R[n] = spelt[n - 1]
  <2>1. PICK m \in 1..(n - 1) : n = m + 1 /\ m = n - 1
    BY <1>3
  <2> QED
    BY <1>3, <1>6, <2>1
<1>9. left[n] \in Stamps /\ Arrived(P[n], R[n], left[n].to)
  BY <1>4, <1>8
<1> QED
  BY <1>1, <1>5, <1>6, <1>7, <1>9 DEF Leads

\* The statement a path begins with, and the path from there.
LEMMA LeadsOn ==
    ASSUME NEW cat, NEW rows, NEW S, NEW left \in Seq(S), Len(left) > 1, Leads(cat, rows, left)
    PROVE  /\ Proper(cat) /\ rows \in RowSpellings
           /\ Head(left) \in Operations /\ ProperOperation(Head(left))
           /\ Fits(cat, rows, Head(left))
           /\ Leads(CatalogAfter(cat, Head(left)), RowsAfter(rows, Head(left)), Tail(left))
<1>1. PICK n \in Nat : n = Len(left)
  OBVIOUS
<1>2. PICK s, q : s = Head(left) /\ q = Tail(left)
  OBVIOUS
<1>3. /\ n > 1 /\ Len(q) = n - 1 /\ s = left[1]
      /\ \A k \in 1..(n - 1) : q[k] = left[k + 1]
  BY <1>1, <1>2, TailIs
<1>4. PICK path \in [1..n -> Catalogs], spelt \in [1..n -> RowSpellings] :
        /\ path[1] = cat /\ spelt[1] = rows
        /\ \A k \in 1..(n - 1) :
              /\ left[k] \in Operations /\ ProperOperation(left[k])
              /\ Proper(path[k])
              /\ Fits(path[k], spelt[k], left[k])
              /\ path[k + 1] = CatalogAfter(path[k], left[k])
              /\ spelt[k + 1] = RowsAfter(spelt[k], left[k])
        /\ left[n] \in Stamps
        /\ Arrived(path[n], spelt[n], left[n].to)
  BY <1>1 DEF Leads
<1>5. /\ Proper(cat) /\ rows \in RowSpellings /\ s \in Operations /\ ProperOperation(s)
      /\ Fits(cat, rows, s)
      /\ path[2] = CatalogAfter(cat, s) /\ spelt[2] = RowsAfter(rows, s)
  <2>1. 1 \in 1..(n - 1) /\ 1 \in 1..n /\ 1 + 1 = 2
    BY <1>3
  <2> QED
    BY <1>3, <1>4, <2>1
<1> DEFINE P == [k \in 1..(n - 1) |-> path[k + 1]]
           R == [k \in 1..(n - 1) |-> spelt[k + 1]]
<1>6. P \in [1..(n - 1) -> Catalogs] /\ R \in [1..(n - 1) -> RowSpellings]
  BY <1>3
<1>7. \A k \in 1..(n - 1) : P[k] = path[k + 1] /\ R[k] = spelt[k + 1]
  OBVIOUS
<1> HIDE DEF P, R
<1>8. P[1] = CatalogAfter(cat, s) /\ R[1] = RowsAfter(rows, s)
  <2>1. 1 \in 1..(n - 1) /\ 1 + 1 = 2
    BY <1>3
  <2> QED
    BY <1>5, <1>7, <2>1
<1>9. ASSUME NEW k \in 1..(n - 1 - 1)
      PROVE  /\ q[k] \in Operations /\ ProperOperation(q[k])
             /\ Proper(P[k])
             /\ Fits(P[k], R[k], q[k])
             /\ P[k + 1] = CatalogAfter(P[k], q[k])
             /\ R[k + 1] = RowsAfter(R[k], q[k])
  <2>1. k \in 1..(n - 1) /\ k + 1 \in 1..(n - 1)
    BY <1>3
  <2>2. P[k] = path[k + 1] /\ R[k] = spelt[k + 1] /\ q[k] = left[k + 1]
    BY <1>3, <1>7, <2>1
  <2>3. P[k + 1] = path[k + 1 + 1] /\ R[k + 1] = spelt[k + 1 + 1]
    BY <1>7, <2>1
  <2> QED
    BY <1>4, <2>1, <2>2, <2>3
<1>10. q[n - 1] \in Stamps /\ Arrived(P[n - 1], R[n - 1], q[n - 1].to)
  <2>1. PICK m \in 1..(n - 1) : n = m + 1 /\ m = n - 1
    BY <1>3
  <2>2. q[m] = left[n] /\ P[m] = path[n] /\ R[m] = spelt[n]
    BY <1>3, <1>7, <2>1
  <2> QED
    BY <1>4, <2>1, <2>2
<1>11. Leads(CatalogAfter(cat, s), RowsAfter(rows, s), q)
  BY <1>3, <1>6, <1>8, <1>9, <1>10 DEF Leads
<1> QED
  BY <1>2, <1>5, <1>11

\* With only the stamp left, the migration has arrived.
LEMMA LeadsToStamp ==
    ASSUME NEW cat, NEW rows, NEW left, Len(left) = 1, Leads(cat, rows, left)
    PROVE  /\ left[1] \in Stamps /\ Arrived(cat, rows, left[1].to)
           /\ cat \in Catalogs /\ rows \in RowSpellings
<1>1. PICK path \in [1..1 -> Catalogs], spelt \in [1..1 -> RowSpellings] :
        /\ path[1] = cat /\ spelt[1] = rows
        /\ left[1] \in Stamps
        /\ Arrived(path[1], spelt[1], left[1].to)
  BY DEF Leads
<1> QED
  BY <1>1

-----------------------------------------------------------------------------
(* Where each revision leads.                                              *)

\* The operations of the revisions.
LEMMA OperationsAre ==
    /\ \A t \in Tables : CreateTable(t) \in Operations /\ DropTable(t) \in Operations
    /\ \A t \in Tables : /\ CreateTable(t).do = "create_table" /\ CreateTable(t).on = t
                         /\ CreateTable(t).spelling = "none"
                         /\ DropTable(t).do = "drop_table" /\ DropTable(t).on = t
    /\ \A t \in Stored : /\ CreateChecked(t) \in Operations
                         /\ CreateChecked(t).do = "create_table" /\ CreateChecked(t).on = t
                         /\ CreateChecked(t).spelling = "upper"
    /\ \A t \in Indexed : CreateIndex(t) \in Operations /\ DropIndex(t) \in Operations
    /\ \A t \in Indexed : /\ CreateIndex(t).do = "create_index" /\ CreateIndex(t).on = t
                          /\ DropIndex(t).do = "drop_index" /\ DropIndex(t).on = t
    /\ \A t \in Stored : DropCheck(t) \in Operations
    /\ \A t \in Stored : DropCheck(t).do = "drop_check" /\ DropCheck(t).on = t
    /\ \A t \in Stored, c \in Spellings :
          Rewrite(t, c) \in Operations /\ CreateCheck(t, c) \in Operations
    /\ \A t \in Stored, c \in Spellings :
          /\ Rewrite(t, c).do = "rewrite" /\ Rewrite(t, c).on = t /\ Rewrite(t, c).spelling = c
          /\ CreateCheck(t, c).do = "create_check" /\ CreateCheck(t, c).on = t
          /\ CreateCheck(t, c).spelling = c
BY TablesAre DEF CreateTable, DropTable, CreateChecked, CreateIndex, DropIndex, DropCheck,
   Rewrite, CreateCheck, Statement, Operations, Indexed, Stored, Spellings

\* The operations the revisions are written with are on tables that can take
\* them.
LEMMA OperationsAreProper ==
    /\ \A t \in Tables \ Stored : ProperOperation(CreateTable(t))
    /\ \A t \in Tables : ProperOperation(DropTable(t))
    /\ \A t \in Stored : ProperOperation(CreateChecked(t)) /\ ProperOperation(DropCheck(t))
    /\ \A t \in Indexed : ProperOperation(CreateIndex(t)) /\ ProperOperation(DropIndex(t))
    /\ \A t \in Stored, c \in Spellings :
          ProperOperation(Rewrite(t, c)) /\ ProperOperation(CreateCheck(t, c))
<1>1. \A t \in Tables \ Stored : ProperOperation(CreateTable(t))
  BY OperationsAre DEF ProperOperation
<1>2. \A t \in Tables : ProperOperation(DropTable(t))
  BY OperationsAre DEF ProperOperation
<1>3. \A t \in Stored : ProperOperation(CreateChecked(t)) /\ ProperOperation(DropCheck(t))
  <2> SUFFICES ASSUME NEW t \in Stored
               PROVE  ProperOperation(CreateChecked(t)) /\ ProperOperation(DropCheck(t))
    OBVIOUS
  <2>1. PICK s \in Operations : s = CreateChecked(t)
    BY OperationsAre
  <2>2. PICK d \in Operations : d = DropCheck(t)
    BY OperationsAre
  <2>3. s.do = "create_table" /\ s.on = t /\ s.spelling = "upper"
    BY <2>1, OperationsAre
  <2>4. d.do = "drop_check" /\ d.on = t
    BY <2>2, OperationsAre
  <2> QED
    BY <2>1, <2>2, <2>3, <2>4 DEF ProperOperation, Spellings
<1>4. \A t \in Indexed : ProperOperation(CreateIndex(t)) /\ ProperOperation(DropIndex(t))
  BY OperationsAre DEF ProperOperation
<1>5. \A t \in Stored, c \in Spellings :
         ProperOperation(Rewrite(t, c)) /\ ProperOperation(CreateCheck(t, c))
  <2> SUFFICES ASSUME NEW t \in Stored, NEW c \in Spellings
               PROVE  ProperOperation(Rewrite(t, c)) /\ ProperOperation(CreateCheck(t, c))
    OBVIOUS
  <2>1. PICK s \in Operations : s = Rewrite(t, c)
    BY OperationsAre
  <2>2. PICK d \in Operations : d = CreateCheck(t, c)
    BY OperationsAre
  <2>3. s.do = "rewrite" /\ s.on = t /\ s.spelling = c
    BY <2>1 DEF Rewrite, Statement
  <2>4. d.do = "create_check" /\ d.on = t /\ d.spelling = c
    BY <2>2 DEF CreateCheck, Statement
  <2> QED
    BY <2>1, <2>2, <2>3, <2>4 DEF ProperOperation
<1> QED
  BY <1>1, <1>2, <1>3, <1>4, <1>5

\* The catalogs differ in table t at most.
Elsewhere(cat, next, t) == \A u \in Tables : u # t => next[u] = cat[u]

\* An operation that fits leaves every other table alone.
LEMMA Onward ==
    ASSUME NEW cat, Proper(cat), NEW rows, NEW s \in Operations, ProperOperation(s),
           Fits(cat, rows, s), NEW next, next = CatalogAfter(cat, s), NEW t \in Tables, s.on = t
    PROVE  /\ Proper(next) /\ Elsewhere(cat, next, t)
           /\ cat[t] \in Cells
           /\ next[t] \in Cells /\ next[t] = TableAfter(s, cat[t])
<1>1. Proper(next) /\ Elsewhere(cat, next, t) /\ next[t] = TableAfter(s, cat[t])
  BY AfterProper DEF Elsewhere
<1>2. next[t] \in Cells /\ cat[t] \in Cells
  BY <1>1 DEF Proper, Catalogs
<1> QED
  BY <1>1, <1>2

\* Operation s takes one catalog and the spellings of the rows to others.
Runs(cat, rows, s, next, rest) ==
    /\ Proper(cat) /\ rows \in RowSpellings
    /\ s \in Operations /\ ProperOperation(s) /\ Fits(cat, rows, s)
    /\ next = CatalogAfter(cat, s) /\ rest = RowsAfter(rows, s)
    /\ Proper(next) /\ rest \in RowSpellings

\* CREATE TABLE runs if the table is not there and those it refers to are.
LEMMA Created ==
    ASSUME NEW cat, Proper(cat), NEW rows \in RowSpellings,
           NEW t \in Tables, t \notin Stored,
           cat[t].check = "no_table",
           \A r \in Refs[t] : cat[r].check # "no_table"
    PROVE  \E next : /\ Proper(next) /\ Runs(cat, rows, CreateTable(t), next, rows)
                     /\ Elsewhere(cat, next, t)
                     /\ next[t].check = "none" /\ next[t].index = "none"
<1>1. PICK s \in Operations : s = CreateTable(t)
  BY OperationsAre
<1>2. s.do = "create_table" /\ s.on = t /\ s.spelling = "none" /\ ProperOperation(s)
  BY <1>1, OperationsAre, OperationsAreProper
<1>3. Fits(cat, rows, s)
  BY <1>2 DEF Fits, There
<1>4. PICK next : next = CatalogAfter(cat, s)
  OBVIOUS
<1>5. t \in Tables
  BY TablesAre DEF Indexed
<1>6. /\ Proper(next) /\ Elsewhere(cat, next, t)
      /\ cat[t] \in Cells /\ next[t] \in Cells /\ next[t] = TableAfter(s, cat[t])
  BY <1>2, <1>3, <1>4, <1>5, Onward
<1>7. PICK d \in Cells : d = next[t] /\ d = TableAfter(s, cat[t])
  BY <1>6
<1>8. d.check = "none" /\ d.index = "none"
  BY <1>2, <1>6, <1>7, TableAfterIs
<1>9. Runs(cat, rows, s, next, rows)
  BY <1>2, <1>3, <1>4, <1>6 DEF Runs, RowsAfter
<1> QED
  BY <1>1, <1>6, <1>7, <1>8, <1>9

\* CREATE TABLE with a constraint on status leaves it at the upper spelling.
LEMMA CheckedCreated ==
    ASSUME NEW cat, Proper(cat), NEW rows \in RowSpellings,
           NEW t \in Stored,
           cat[t].check = "no_table",
           \A r \in Refs[t] : cat[r].check # "no_table"
    PROVE  \E next : /\ Proper(next) /\ Runs(cat, rows, CreateChecked(t), next, rows)
                     /\ Elsewhere(cat, next, t)
                     /\ next[t].check = "upper" /\ next[t].index = "none"
<1>1. PICK s \in Operations : s = CreateChecked(t)
  BY OperationsAre
<1>2. s.do = "create_table" /\ s.on = t /\ s.spelling = "upper" /\ ProperOperation(s)
  BY <1>1, OperationsAre, OperationsAreProper
<1>3. Fits(cat, rows, s)
  BY <1>2 DEF Fits, There
<1>4. PICK next : next = CatalogAfter(cat, s)
  OBVIOUS
<1>5. t \in Tables
  BY TablesAre DEF Indexed
<1>6. /\ Proper(next) /\ Elsewhere(cat, next, t)
      /\ cat[t] \in Cells /\ next[t] \in Cells /\ next[t] = TableAfter(s, cat[t])
  BY <1>2, <1>3, <1>4, <1>5, Onward
<1>7. PICK d \in Cells : d = next[t] /\ d = TableAfter(s, cat[t])
  BY <1>6
<1>8. d.check = "upper" /\ d.index = "none"
  BY <1>2, <1>6, <1>7, TableAfterIs
<1>9. Runs(cat, rows, s, next, rows)
  BY <1>2, <1>3, <1>4, <1>6 DEF Runs, RowsAfter
<1> QED
  BY <1>1, <1>6, <1>7, <1>8, <1>9

\* DROP TABLE runs once no table that is there refers to the table.
LEMMA Dropped ==
    ASSUME NEW cat, Proper(cat), NEW rows \in RowSpellings,
           NEW t \in Tables,
           cat[t].check # "no_table",
           \A r \in Tables : t \in Refs[r] => cat[r].check = "no_table"
    PROVE  \E next : /\ Proper(next) /\ Runs(cat, rows, DropTable(t), next, rows)
                     /\ Elsewhere(cat, next, t)
                     /\ next[t].check = "no_table" /\ next[t].index = "none"
<1>1. PICK s \in Operations : s = DropTable(t)
  BY OperationsAre
<1>2. s.do = "drop_table" /\ s.on = t /\ ProperOperation(s)
  BY <1>1, OperationsAre, OperationsAreProper
<1>3. Fits(cat, rows, s)
  BY <1>2 DEF Fits, There
<1>4. PICK next : next = CatalogAfter(cat, s)
  OBVIOUS
<1>5. t \in Tables
  BY TablesAre DEF Indexed
<1>6. /\ Proper(next) /\ Elsewhere(cat, next, t)
      /\ cat[t] \in Cells /\ next[t] \in Cells /\ next[t] = TableAfter(s, cat[t])
  BY <1>2, <1>3, <1>4, <1>5, Onward
<1>7. PICK d \in Cells : d = next[t] /\ d = TableAfter(s, cat[t])
  BY <1>6
<1>8. d.check = "no_table" /\ d.index = "none"
  BY <1>2, <1>7, PlainIs DEF TableAfter
<1>9. Runs(cat, rows, s, next, rows)
  BY <1>2, <1>3, <1>4, <1>6 DEF Runs, RowsAfter
<1> QED
  BY <1>1, <1>6, <1>7, <1>8, <1>9

\* CREATE INDEX runs where there is none.
LEMMA IndexCreated ==
    ASSUME NEW cat, Proper(cat), NEW rows \in RowSpellings,
           NEW t \in Indexed,
           cat[t].check = "none",
           cat[t].index = "none"
    PROVE  \E next : /\ Proper(next) /\ Runs(cat, rows, CreateIndex(t), next, rows)
                     /\ Elsewhere(cat, next, t)
                     /\ next[t].check = "none" /\ next[t].index = "seq"
<1>1. PICK s \in Operations : s = CreateIndex(t)
  BY OperationsAre
<1>2. s.do = "create_index" /\ s.on = t /\ ProperOperation(s)
  BY <1>1, OperationsAre, OperationsAreProper
<1>3. Fits(cat, rows, s)
  BY <1>2 DEF Fits, There
<1>4. PICK next : next = CatalogAfter(cat, s)
  OBVIOUS
<1>5. t \in Tables
  BY TablesAre DEF Indexed
<1>6. /\ Proper(next) /\ Elsewhere(cat, next, t)
      /\ cat[t] \in Cells /\ next[t] \in Cells /\ next[t] = TableAfter(s, cat[t])
  BY <1>2, <1>3, <1>4, <1>5, Onward
<1>7. PICK d \in Cells : d = next[t] /\ d = TableAfter(s, cat[t])
  BY <1>6
<1>8. d.check = "none" /\ d.index = "seq"
  BY <1>2, <1>6, <1>7, TableAfterIs
<1>9. Runs(cat, rows, s, next, rows)
  BY <1>2, <1>3, <1>4, <1>6 DEF Runs, RowsAfter
<1> QED
  BY <1>1, <1>6, <1>7, <1>8, <1>9

\* DROP INDEX runs where there is one.
LEMMA IndexDropped ==
    ASSUME NEW cat, Proper(cat), NEW rows \in RowSpellings,
           NEW t \in Indexed,
           cat[t].check = "none",
           cat[t].index = "seq"
    PROVE  \E next : /\ Proper(next) /\ Runs(cat, rows, DropIndex(t), next, rows)
                     /\ Elsewhere(cat, next, t)
                     /\ next[t].check = "none" /\ next[t].index = "none"
<1>1. PICK s \in Operations : s = DropIndex(t)
  BY OperationsAre
<1>2. s.do = "drop_index" /\ s.on = t /\ ProperOperation(s)
  BY <1>1, OperationsAre, OperationsAreProper
<1>3. Fits(cat, rows, s)
  BY <1>2 DEF Fits, There
<1>4. PICK next : next = CatalogAfter(cat, s)
  OBVIOUS
<1>5. t \in Tables
  BY TablesAre DEF Indexed
<1>6. /\ Proper(next) /\ Elsewhere(cat, next, t)
      /\ cat[t] \in Cells /\ next[t] \in Cells /\ next[t] = TableAfter(s, cat[t])
  BY <1>2, <1>3, <1>4, <1>5, Onward
<1>7. PICK d \in Cells : d = next[t] /\ d = TableAfter(s, cat[t])
  BY <1>6
<1>8. d.check = "none" /\ d.index = "none"
  BY <1>2, <1>6, <1>7, TableAfterIs
<1>9. Runs(cat, rows, s, next, rows)
  BY <1>2, <1>3, <1>4, <1>6 DEF Runs, RowsAfter
<1> QED
  BY <1>1, <1>6, <1>7, <1>8, <1>9

\* A constraint that is there can be dropped.
LEMMA CheckDropped ==
    ASSUME NEW cat, Proper(cat), NEW rows \in RowSpellings,
           NEW t \in Stored,
           cat[t].check \in Spellings
    PROVE  \E next : /\ Proper(next) /\ Runs(cat, rows, DropCheck(t), next, rows)
                     /\ Elsewhere(cat, next, t)
                     /\ next[t].check = "none" /\ next[t].index = cat[t].index
<1>1. PICK s \in Operations : s = DropCheck(t)
  BY OperationsAre
<1>2. s.do = "drop_check" /\ s.on = t /\ ProperOperation(s)
  BY <1>1, OperationsAre, OperationsAreProper
<1>3. Fits(cat, rows, s)
  BY <1>2 DEF Fits, There
<1>4. PICK next : next = CatalogAfter(cat, s)
  OBVIOUS
<1>5. t \in Tables
  BY TablesAre DEF Indexed
<1>6. /\ Proper(next) /\ Elsewhere(cat, next, t)
      /\ cat[t] \in Cells /\ next[t] \in Cells /\ next[t] = TableAfter(s, cat[t])
  BY <1>2, <1>3, <1>4, <1>5, Onward
<1>7. PICK d \in Cells : d = next[t] /\ d = TableAfter(s, cat[t])
  BY <1>6
<1>8. d.check = "none" /\ d.index = cat[t].index
  BY <1>2, <1>6, <1>7, TableAfterIs
<1>9. Runs(cat, rows, s, next, rows)
  BY <1>2, <1>3, <1>4, <1>6 DEF Runs, RowsAfter
<1> QED
  BY <1>1, <1>6, <1>7, <1>8, <1>9

\* A constraint can be put back once the rows are spelt its way.
LEMMA CheckCreated ==
    ASSUME NEW cat, Proper(cat), NEW rows \in RowSpellings,
           NEW t \in Stored, NEW c \in Spellings, cat[t].check = "none", rows[t] = c
    PROVE  \E next : /\ Proper(next) /\ Runs(cat, rows, CreateCheck(t, c), next, rows)
                     /\ Elsewhere(cat, next, t)
                     /\ next[t].check = c /\ next[t].index = cat[t].index
<1>1. PICK s \in Operations : s = CreateCheck(t, c)
  BY OperationsAre
<1>2. s.do = "create_check" /\ s.on = t /\ s.spelling = c /\ ProperOperation(s)
  <2>1. s.do = "create_check" /\ s.on = t /\ s.spelling = c
    BY <1>1 DEF CreateCheck, Statement
  <2> QED
    BY <1>1, <2>1, OperationsAreProper
<1>3. Fits(cat, rows, s)
  BY <1>2 DEF Fits, There
<1>4. PICK next : next = CatalogAfter(cat, s)
  OBVIOUS
<1>5. t \in Tables
  BY TablesAre
<1>6. /\ Proper(next) /\ Elsewhere(cat, next, t)
      /\ cat[t] \in Cells /\ next[t] \in Cells /\ next[t] = TableAfter(s, cat[t])
  BY <1>2, <1>3, <1>4, <1>5, Onward
<1>7. PICK d \in Cells : d = next[t] /\ d = TableAfter(s, cat[t])
  BY <1>6
<1>8. d.check = c /\ d.index = cat[t].index
  BY <1>2, <1>6, <1>7, TableAfterIs
<1>9. Runs(cat, rows, s, next, rows)
  BY <1>2, <1>3, <1>4, <1>6 DEF Runs, RowsAfter
<1> QED
  BY <1>1, <1>6, <1>7, <1>8, <1>9

\* The rows of table t are spelt c, the others as before.
Rewrote(rows, rest, t, c) == rest[t] = c /\ \A u \in Stored : u # t => rest[u] = rows[u]

\* The UPDATE respells all rows of a table, and the catalog stays.
LEMMA Rewritten ==
    ASSUME NEW cat, Proper(cat), NEW rows \in RowSpellings,
           NEW t \in Stored, NEW c \in Spellings, cat[t].check # "no_table"
    PROVE  \E rest : /\ Runs(cat, rows, Rewrite(t, c), cat, rest)
                     /\ rest \in RowSpellings /\ Rewrote(rows, rest, t, c)
<1>1. PICK s \in Operations : s = Rewrite(t, c)
  BY OperationsAre
<1>2. s.do = "rewrite" /\ s.on = t /\ s.spelling = c /\ ProperOperation(s)
  <2>1. s.do = "rewrite" /\ s.on = t /\ s.spelling = c
    BY <1>1 DEF Rewrite, Statement
  <2> QED
    BY <1>1, <2>1, OperationsAreProper
<1>3. Fits(cat, rows, s)
  BY <1>2 DEF Fits, There
<1>4. cat = CatalogAfter(cat, s)
  <2>1. t \in Tables
    BY TablesAre
  <2>2. TableAfter(s, cat[t]) = cat[t]
    BY <1>2 DEF TableAfter
  <2> QED
    BY <1>2, <2>1, <2>2 DEF CatalogAfter, Proper, Catalogs
<1>5. PICK rest : rest = RowsAfter(rows, s)
  OBVIOUS
<1>6. rest \in RowSpellings
  BY <1>2, <1>5, RowsAfterType
<1>7. Rewrote(rows, rest, t, c)
  BY <1>2, <1>5 DEF Rewrote, RowsAfter, RowSpellings
<1>8. Runs(cat, rows, s, cat, rest)
  BY <1>2, <1>3, <1>4, <1>5, <1>6 DEF Runs
<1> QED
  BY <1>1, <1>6, <1>7, <1>8

\* The foreign keys, table by table.
LEMMA RefsAre ==
    /\ Refs["agent"] = {} /\ Refs["run"] = {"agent"} /\ Refs["task"] = {"agent", "run"}
    /\ Refs["event"] = {"agent", "run"} /\ Refs["message"] = {"agent", "run"}
    /\ Refs["artifact"] = {"agent", "run"}
    /\ Refs["iteration_record"] = {"agent", "run", "task"}
BY DEF Refs

\* What a catalog has of each table: the constraint, and of two the index.
Has(cat, t, check, index) == cat[t].check = check /\ cat[t].index = index
Columns(cat, agent, run, task, event, onEvent, message, onMessage, artifact, record) ==
    /\ Has(cat, "agent", agent, "none") /\ Has(cat, "run", run, "none")
    /\ Has(cat, "task", task, "none")
    /\ Has(cat, "event", event, onEvent) /\ Has(cat, "message", message, onMessage)
    /\ Has(cat, "artifact", artifact, "none") /\ Has(cat, "iteration_record", record, "none")

\* The catalog of each revision written out.
LEMMA SchemaColumns ==
    /\ Columns(SchemaAt[0], "no_table", "no_table", "no_table",
               "no_table", "none", "no_table", "none", "no_table", "no_table")
    /\ Columns(SchemaAt[1], "upper", "upper", "no_table",
               "no_table", "none", "no_table", "none", "no_table", "no_table")
    /\ Columns(SchemaAt[2], "upper", "upper", "none",
               "no_table", "none", "no_table", "none", "no_table", "no_table")
    /\ Columns(SchemaAt[3], "lower", "lower", "none",
               "no_table", "none", "no_table", "none", "no_table", "no_table")
    /\ Columns(SchemaAt[4], "lower", "lower", "none",
               "none", "seq", "none", "none", "no_table", "no_table")
    /\ Columns(SchemaAt[5], "lower", "lower", "none",
               "none", "seq", "none", "seq", "none", "none")
<1>0. \A i \in 0..Latest, t \in Tables : Has(SchemaAt[i], t, CheckAt(i, t), IndexAt(i, t))
  BY SchemaIs DEF Has
<1>1. Columns(SchemaAt[0], "no_table", "no_table", "no_table",
              "no_table", "none", "no_table", "none", "no_table", "no_table")
  <2>1. \A t \in Tables : Has(SchemaAt[0], t, CheckAt(0, t), IndexAt(0, t))
    BY <1>0 DEF Latest
  <2>2. /\ CheckAt(0, "agent") = "no_table" /\ CheckAt(0, "run") = "no_table"
        /\ CheckAt(0, "task") = "no_table" /\ CheckAt(0, "event") = "no_table"
        /\ CheckAt(0, "message") = "no_table" /\ CheckAt(0, "artifact") = "no_table"
        /\ CheckAt(0, "iteration_record") = "no_table"
    BY DEF CheckAt, Since, Stored
  <2>3. /\ IndexAt(0, "agent") = "none" /\ IndexAt(0, "run") = "none"
        /\ IndexAt(0, "task") = "none" /\ IndexAt(0, "event") = "none"
        /\ IndexAt(0, "message") = "none" /\ IndexAt(0, "artifact") = "none"
        /\ IndexAt(0, "iteration_record") = "none"
    BY DEF IndexAt, Since
  <2> QED
    BY <2>1, <2>2, <2>3, TablesAre DEF Columns
<1>2. Columns(SchemaAt[1], "upper", "upper", "no_table",
              "no_table", "none", "no_table", "none", "no_table", "no_table")
  <2>1. \A t \in Tables : Has(SchemaAt[1], t, CheckAt(1, t), IndexAt(1, t))
    BY <1>0 DEF Latest
  <2>2. /\ CheckAt(1, "agent") = "upper" /\ CheckAt(1, "run") = "upper"
        /\ CheckAt(1, "task") = "no_table" /\ CheckAt(1, "event") = "no_table"
        /\ CheckAt(1, "message") = "no_table" /\ CheckAt(1, "artifact") = "no_table"
        /\ CheckAt(1, "iteration_record") = "no_table"
    BY DEF CheckAt, Since, Stored
  <2>3. /\ IndexAt(1, "agent") = "none" /\ IndexAt(1, "run") = "none"
        /\ IndexAt(1, "task") = "none" /\ IndexAt(1, "event") = "none"
        /\ IndexAt(1, "message") = "none" /\ IndexAt(1, "artifact") = "none"
        /\ IndexAt(1, "iteration_record") = "none"
    BY DEF IndexAt, Since
  <2> QED
    BY <2>1, <2>2, <2>3, TablesAre DEF Columns
<1>3. Columns(SchemaAt[2], "upper", "upper", "none",
              "no_table", "none", "no_table", "none", "no_table", "no_table")
  <2>1. \A t \in Tables : Has(SchemaAt[2], t, CheckAt(2, t), IndexAt(2, t))
    BY <1>0 DEF Latest
  <2>2. /\ CheckAt(2, "agent") = "upper" /\ CheckAt(2, "run") = "upper"
        /\ CheckAt(2, "task") = "none" /\ CheckAt(2, "event") = "no_table"
        /\ CheckAt(2, "message") = "no_table" /\ CheckAt(2, "artifact") = "no_table"
        /\ CheckAt(2, "iteration_record") = "no_table"
    BY DEF CheckAt, Since, Stored
  <2>3. /\ IndexAt(2, "agent") = "none" /\ IndexAt(2, "run") = "none"
        /\ IndexAt(2, "task") = "none" /\ IndexAt(2, "event") = "none"
        /\ IndexAt(2, "message") = "none" /\ IndexAt(2, "artifact") = "none"
        /\ IndexAt(2, "iteration_record") = "none"
    BY DEF IndexAt, Since
  <2> QED
    BY <2>1, <2>2, <2>3, TablesAre DEF Columns
<1>4. Columns(SchemaAt[3], "lower", "lower", "none",
              "no_table", "none", "no_table", "none", "no_table", "no_table")
  <2>1. \A t \in Tables : Has(SchemaAt[3], t, CheckAt(3, t), IndexAt(3, t))
    BY <1>0 DEF Latest
  <2>2. /\ CheckAt(3, "agent") = "lower" /\ CheckAt(3, "run") = "lower"
        /\ CheckAt(3, "task") = "none" /\ CheckAt(3, "event") = "no_table"
        /\ CheckAt(3, "message") = "no_table" /\ CheckAt(3, "artifact") = "no_table"
        /\ CheckAt(3, "iteration_record") = "no_table"
    BY DEF CheckAt, Since, Stored
  <2>3. /\ IndexAt(3, "agent") = "none" /\ IndexAt(3, "run") = "none"
        /\ IndexAt(3, "task") = "none" /\ IndexAt(3, "event") = "none"
        /\ IndexAt(3, "message") = "none" /\ IndexAt(3, "artifact") = "none"
        /\ IndexAt(3, "iteration_record") = "none"
    BY DEF IndexAt, Since
  <2> QED
    BY <2>1, <2>2, <2>3, TablesAre DEF Columns
<1>5. Columns(SchemaAt[4], "lower", "lower", "none",
              "none", "seq", "none", "none", "no_table", "no_table")
  <2>1. \A t \in Tables : Has(SchemaAt[4], t, CheckAt(4, t), IndexAt(4, t))
    BY <1>0 DEF Latest
  <2>2. /\ CheckAt(4, "agent") = "lower" /\ CheckAt(4, "run") = "lower"
        /\ CheckAt(4, "task") = "none" /\ CheckAt(4, "event") = "none"
        /\ CheckAt(4, "message") = "none" /\ CheckAt(4, "artifact") = "no_table"
        /\ CheckAt(4, "iteration_record") = "no_table"
    BY DEF CheckAt, Since, Stored
  <2>3. /\ IndexAt(4, "agent") = "none" /\ IndexAt(4, "run") = "none"
        /\ IndexAt(4, "task") = "none" /\ IndexAt(4, "event") = "seq"
        /\ IndexAt(4, "message") = "none" /\ IndexAt(4, "artifact") = "none"
        /\ IndexAt(4, "iteration_record") = "none"
    BY DEF IndexAt, Since
  <2> QED
    BY <2>1, <2>2, <2>3, TablesAre DEF Columns
<1>6. Columns(SchemaAt[5], "lower", "lower", "none",
              "none", "seq", "none", "seq", "none", "none")
  <2>1. \A t \in Tables : Has(SchemaAt[5], t, CheckAt(5, t), IndexAt(5, t))
    BY <1>0 DEF Latest
  <2>2. /\ CheckAt(5, "agent") = "lower" /\ CheckAt(5, "run") = "lower"
        /\ CheckAt(5, "task") = "none" /\ CheckAt(5, "event") = "none"
        /\ CheckAt(5, "message") = "none" /\ CheckAt(5, "artifact") = "none"
        /\ CheckAt(5, "iteration_record") = "none"
    BY DEF CheckAt, Since, Stored
  <2>3. /\ IndexAt(5, "agent") = "none" /\ IndexAt(5, "run") = "none"
        /\ IndexAt(5, "task") = "none" /\ IndexAt(5, "event") = "seq"
        /\ IndexAt(5, "message") = "seq" /\ IndexAt(5, "artifact") = "none"
        /\ IndexAt(5, "iteration_record") = "none"
    BY DEF IndexAt, Since
  <2> QED
    BY <2>1, <2>2, <2>3, TablesAre DEF Columns
<1> QED
  BY <1>1, <1>2, <1>3, <1>4, <1>5, <1>6

\* Two proper catalogs with the same columns are the same.
LEMMA SameColumns ==
    ASSUME NEW cat, Proper(cat), NEW new, Proper(new),
           NEW agent, NEW run, NEW task, NEW event, NEW onEvent, NEW message, NEW onMessage,
           NEW artifact, NEW record,
           Columns(cat, agent, run, task, event, onEvent, message, onMessage, artifact, record),
           Columns(new, agent, run, task, event, onEvent, message, onMessage, artifact, record)
    PROVE  cat = new
<1>1. ASSUME NEW t \in Tables PROVE cat[t] = new[t]
  <2>1. PICK c \in Cells : c = cat[t]
    BY DEF Proper, Catalogs
  <2>2. PICK d \in Cells : d = new[t]
    BY DEF Proper, Catalogs
  <2>3. c.check = d.check /\ c.index = d.index
    BY <2>1, <2>2, TablesAre DEF Columns, Has
  <2>4. c = d
    BY <2>3, CellsAre
  <2> QED
    BY <2>1, <2>2, <2>4
<1> QED
  BY <1>1 DEF Proper, Catalogs

\* A statement that runs, put before statements that lead on from there.
LEMMA Before ==
    ASSUME NEW cat, NEW rows, NEW s, NEW next, NEW rest, Runs(cat, rows, s, next, rest),
           NEW left \in Seq(Statements), NEW q, Len(left) > 1, Head(left) = s, Tail(left) = q,
           Leads(next, rest, q)
    PROVE  Leads(cat, rows, left)
BY LeadsBack DEF Runs

\* One operation that arrives makes a revision.
LEMMA OneOperation ==
    ASSUME NEW c0, NEW c1,
           NEW r0, NEW r1,
           NEW s1 \in Operations,
           NEW e \in Stamps,
           Runs(c0, r0, s1, c1, r1),
           Arrived(c1, r1, e.to)
    PROVE  Leads(c0, r0, <<s1, e>>)
<1>1. PICK q1, q2 :
         /\ q1 = <<s1, e>>
         /\ q2 = <<e>>
  OBVIOUS
<1>2. Leads(c1, r1, q2)
  BY <1>1, LeadsEnd DEF Proper, Runs
<1>3. Leads(c0, r0, q1)
  <2>1. q1 \in Seq(Statements) /\ Len(q1) > 1 /\ Head(q1) = s1 /\ Tail(q1) = q2
    BY <1>1 DEF Statements
  <2> QED
    BY <1>2, <2>1, Before
<1> QED
  BY <1>1, <1>3

\* Two operations that run one after the other and arrive make a revision.
LEMMA TwoOperations ==
    ASSUME NEW c0, NEW c1, NEW c2,
           NEW r0, NEW r1, NEW r2,
           NEW s1 \in Operations, NEW s2 \in Operations,
           NEW e \in Stamps,
           Runs(c0, r0, s1, c1, r1), Runs(c1, r1, s2, c2, r2),
           Arrived(c2, r2, e.to)
    PROVE  Leads(c0, r0, <<s1, s2, e>>)
<1>1. PICK q1, q2, q3 :
         /\ q1 = <<s1, s2, e>>
         /\ q2 = <<s2, e>>
         /\ q3 = <<e>>
  OBVIOUS
<1>2. Leads(c2, r2, q3)
  BY <1>1, LeadsEnd DEF Proper, Runs
<1>3. Leads(c1, r1, q2)
  <2>1. q2 \in Seq(Statements) /\ Len(q2) > 1 /\ Head(q2) = s2 /\ Tail(q2) = q3
    BY <1>1 DEF Statements
  <2> QED
    BY <1>2, <2>1, Before
<1>4. Leads(c0, r0, q1)
  <2>1. q1 \in Seq(Statements) /\ Len(q1) > 1 /\ Head(q1) = s1 /\ Tail(q1) = q2
    BY <1>1 DEF Statements
  <2> QED
    BY <1>3, <2>1, Before
<1> QED
  BY <1>1, <1>4

\* Three operations that run one after the other and arrive make a revision.
LEMMA ThreeOperations ==
    ASSUME NEW c0, NEW c1, NEW c2, NEW c3,
           NEW r0, NEW r1, NEW r2, NEW r3,
           NEW s1 \in Operations, NEW s2 \in Operations, NEW s3 \in Operations,
           NEW e \in Stamps,
           Runs(c0, r0, s1, c1, r1), Runs(c1, r1, s2, c2, r2),
           Runs(c2, r2, s3, c3, r3),
           Arrived(c3, r3, e.to)
    PROVE  Leads(c0, r0, <<s1, s2, s3, e>>)
<1>1. PICK q1, q2, q3, q4 :
         /\ q1 = <<s1, s2, s3, e>>
         /\ q2 = <<s2, s3, e>>
         /\ q3 = <<s3, e>>
         /\ q4 = <<e>>
  OBVIOUS
<1>2. Leads(c3, r3, q4)
  BY <1>1, LeadsEnd DEF Proper, Runs
<1>3. Leads(c2, r2, q3)
  <2>1. q3 \in Seq(Statements) /\ Len(q3) > 1 /\ Head(q3) = s3 /\ Tail(q3) = q4
    BY <1>1 DEF Statements
  <2> QED
    BY <1>2, <2>1, Before
<1>4. Leads(c1, r1, q2)
  <2>1. q2 \in Seq(Statements) /\ Len(q2) > 1 /\ Head(q2) = s2 /\ Tail(q2) = q3
    BY <1>1 DEF Statements
  <2> QED
    BY <1>3, <2>1, Before
<1>5. Leads(c0, r0, q1)
  <2>1. q1 \in Seq(Statements) /\ Len(q1) > 1 /\ Head(q1) = s1 /\ Tail(q1) = q2
    BY <1>1 DEF Statements
  <2> QED
    BY <1>4, <2>1, Before
<1> QED
  BY <1>1, <1>5

\* Six operations that run one after the other and arrive make a revision.
LEMMA SixOperations ==
    ASSUME NEW c0, NEW c1, NEW c2, NEW c3, NEW c4, NEW c5, NEW c6,
           NEW r0, NEW r1, NEW r2, NEW r3, NEW r4, NEW r5, NEW r6,
           NEW s1 \in Operations, NEW s2 \in Operations, NEW s3 \in Operations,
           NEW s4 \in Operations, NEW s5 \in Operations, NEW s6 \in Operations,
           NEW e \in Stamps,
           Runs(c0, r0, s1, c1, r1), Runs(c1, r1, s2, c2, r2),
           Runs(c2, r2, s3, c3, r3), Runs(c3, r3, s4, c4, r4),
           Runs(c4, r4, s5, c5, r5), Runs(c5, r5, s6, c6, r6),
           Arrived(c6, r6, e.to)
    PROVE  Leads(c0, r0, <<s1, s2, s3, s4, s5, s6, e>>)
<1>1. PICK q1, q2, q3, q4, q5, q6, q7 :
         /\ q1 = <<s1, s2, s3, s4, s5, s6, e>>
         /\ q2 = <<s2, s3, s4, s5, s6, e>>
         /\ q3 = <<s3, s4, s5, s6, e>>
         /\ q4 = <<s4, s5, s6, e>>
         /\ q5 = <<s5, s6, e>>
         /\ q6 = <<s6, e>>
         /\ q7 = <<e>>
  OBVIOUS
<1>2. Leads(c6, r6, q7)
  BY <1>1, LeadsEnd DEF Proper, Runs
<1>3. Leads(c5, r5, q6)
  <2>1. q6 \in Seq(Statements) /\ Len(q6) > 1 /\ Head(q6) = s6 /\ Tail(q6) = q7
    BY <1>1 DEF Statements
  <2> QED
    BY <1>2, <2>1, Before
<1>4. Leads(c4, r4, q5)
  <2>1. q5 \in Seq(Statements) /\ Len(q5) > 1 /\ Head(q5) = s5 /\ Tail(q5) = q6
    BY <1>1 DEF Statements
  <2> QED
    BY <1>3, <2>1, Before
<1>5. Leads(c3, r3, q4)
  <2>1. q4 \in Seq(Statements) /\ Len(q4) > 1 /\ Head(q4) = s4 /\ Tail(q4) = q5
    BY <1>1 DEF Statements
  <2> QED
    BY <1>4, <2>1, Before
<1>6. Leads(c2, r2, q3)
  <2>1. q3 \in Seq(Statements) /\ Len(q3) > 1 /\ Head(q3) = s3 /\ Tail(q3) = q4
    BY <1>1 DEF Statements
  <2> QED
    BY <1>5, <2>1, Before
<1>7. Leads(c1, r1, q2)
  <2>1. q2 \in Seq(Statements) /\ Len(q2) > 1 /\ Head(q2) = s2 /\ Tail(q2) = q3
    BY <1>1 DEF Statements
  <2> QED
    BY <1>6, <2>1, Before
<1>8. Leads(c0, r0, q1)
  <2>1. q1 \in Seq(Statements) /\ Len(q1) > 1 /\ Head(q1) = s1 /\ Tail(q1) = q2
    BY <1>1 DEF Statements
  <2> QED
    BY <1>7, <2>1, Before
<1> QED
  BY <1>1, <1>8

\* e21152998394 upgrades base.
LEMMA Upgrade_e211_Leads ==
    ASSUME NEW rows \in RowSpellings, \A t \in Stored : rows[t] = "any"
    PROVE  \A e \in Stamps : e.to = 1 =>
              Leads(SchemaAt[0], rows, <<CreateChecked("agent"), CreateChecked("run"), e>>)
<1>1. Proper(SchemaAt[0]) /\ Proper(SchemaAt[1])
  BY SchemaProper DEF Latest
<1>2. /\ Columns(SchemaAt[0], "no_table", "no_table", "no_table",
                 "no_table", "none", "no_table", "none", "no_table", "no_table")
      /\ Columns(SchemaAt[1], "upper", "upper", "no_table",
                 "no_table", "none", "no_table", "none", "no_table", "no_table")
  BY SchemaColumns
<1>3. PICK c0 : /\ c0 = SchemaAt[0] /\ Proper(c0)
                /\ Columns(c0, "no_table", "no_table", "no_table",
                           "no_table", "none", "no_table", "none", "no_table", "no_table")
  BY <1>1, <1>2
<1>4. PICK c1 : /\ Proper(c1) /\ Runs(c0, rows, CreateChecked("agent"), c1, rows)
                /\ Elsewhere(c0, c1, "agent")
                /\ c1["agent"].check = "upper" /\ c1["agent"].index = "none"
  <2>1. c0["agent"].check = "no_table"
    BY <1>3 DEF Columns, Has
  <2>2. \A r \in Refs["agent"] : c0[r].check # "no_table"
    BY <1>3, RefsAre DEF Columns, Has
  <2>3. "agent" \in Stored
    BY TablesAre DEF Stored, Indexed
  <2> QED
    BY <1>3, <2>1, <2>2, <2>3, CheckedCreated
<1>5. Columns(c1, "upper", "no_table", "no_table",
              "no_table", "none", "no_table", "none", "no_table", "no_table")
  BY <1>3, <1>4, TablesAre DEF Columns, Has, Elsewhere
<1>6. PICK c2 : /\ Proper(c2) /\ Runs(c1, rows, CreateChecked("run"), c2, rows)
                /\ Elsewhere(c1, c2, "run")
                /\ c2["run"].check = "upper" /\ c2["run"].index = "none"
  <2>1. c1["run"].check = "no_table"
    BY <1>5 DEF Columns, Has
  <2>2. \A r \in Refs["run"] : c1[r].check # "no_table"
    BY <1>5, RefsAre DEF Columns, Has
  <2>3. "run" \in Stored
    BY TablesAre DEF Stored, Indexed
  <2> QED
    BY <1>4, <2>1, <2>2, <2>3, CheckedCreated
<1>7. Columns(c2, "upper", "upper", "no_table",
              "no_table", "none", "no_table", "none", "no_table", "no_table")
  BY <1>5, <1>6, TablesAre DEF Columns, Has, Elsewhere
<1>8. c2 = SchemaAt[1]
  BY <1>1, <1>2, <1>6, <1>7, SameColumns
<1>9. Arrived(c2, rows, 1)
  BY <1>8 DEF Arrived, There
<1>10. /\ CreateChecked("agent") \in Operations
      /\ CreateChecked("run") \in Operations
  BY OperationsAre, TablesAre DEF Stored, Indexed
<1> QED
  BY <1>3, <1>4, <1>6, <1>9, <1>10, TwoOperations

\* d87365651814 upgrades what e21152998394 leaves.
LEMMA Upgrade_d873_Leads ==
    ASSUME NEW rows \in RowSpellings, Arrived(SchemaAt[1], rows, 1)
    PROVE  \A e \in Stamps : e.to = 2 =>
              Leads(SchemaAt[1], rows, <<CreateTable("task"), e>>)
<1>1. Proper(SchemaAt[1]) /\ Proper(SchemaAt[2])
  BY SchemaProper DEF Latest
<1>2. /\ Columns(SchemaAt[1], "upper", "upper", "no_table",
                 "no_table", "none", "no_table", "none", "no_table", "no_table")
      /\ Columns(SchemaAt[2], "upper", "upper", "none",
                 "no_table", "none", "no_table", "none", "no_table", "no_table")
  BY SchemaColumns
<1>3. PICK c0 : /\ c0 = SchemaAt[1] /\ Proper(c0)
                /\ Columns(c0, "upper", "upper", "no_table",
                           "no_table", "none", "no_table", "none", "no_table", "no_table")
  BY <1>1, <1>2
<1>4. PICK c1 : /\ Proper(c1) /\ Runs(c0, rows, CreateTable("task"), c1, rows)
                /\ Elsewhere(c0, c1, "task")
                /\ c1["task"].check = "none" /\ c1["task"].index = "none"
  <2>1. c0["task"].check = "no_table"
    BY <1>3 DEF Columns, Has
  <2>2. \A r \in Refs["task"] : c0[r].check # "no_table"
    BY <1>3, RefsAre DEF Columns, Has
  <2>3. "task" \in Tables \ Stored
    BY TablesAre DEF Stored, Indexed
  <2> QED
    BY <1>3, <2>1, <2>2, <2>3, Created
<1>5. Columns(c1, "upper", "upper", "none",
              "no_table", "none", "no_table", "none", "no_table", "no_table")
  BY <1>3, <1>4, TablesAre DEF Columns, Has, Elsewhere
<1>6. c1 = SchemaAt[2]
  BY <1>1, <1>2, <1>4, <1>5, SameColumns
<1>7. Arrived(c1, rows, 2)
  <2>1. \A t \in Stored : c1[t].check = c0[t].check
    BY <1>3, <1>5 DEF Columns, Has, Stored
  <2> QED
    BY <1>3, <1>6, <2>1 DEF Arrived, There
<1>8. /\ CreateTable("task") \in Operations
  BY OperationsAre, TablesAre DEF Stored, Indexed
<1> QED
  BY <1>3, <1>4, <1>7, <1>8, OneOperation

\* c66309a8006e upgrades what a017971fe447 leaves.
LEMMA Upgrade_c663_Leads ==
    ASSUME NEW rows \in RowSpellings, Arrived(SchemaAt[3], rows, 3)
    PROVE  \A e \in Stamps : e.to = 4 =>
              Leads(SchemaAt[3], rows,
                  <<CreateTable("event"), CreateIndex("event"), CreateTable("message"), e>>)
<1>1. Proper(SchemaAt[3]) /\ Proper(SchemaAt[4])
  BY SchemaProper DEF Latest
<1>2. /\ Columns(SchemaAt[3], "lower", "lower", "none",
                 "no_table", "none", "no_table", "none", "no_table", "no_table")
      /\ Columns(SchemaAt[4], "lower", "lower", "none",
                 "none", "seq", "none", "none", "no_table", "no_table")
  BY SchemaColumns
<1>3. PICK c0 : /\ c0 = SchemaAt[3] /\ Proper(c0)
                /\ Columns(c0, "lower", "lower", "none",
                           "no_table", "none", "no_table", "none", "no_table", "no_table")
  BY <1>1, <1>2
<1>4. PICK c1 : /\ Proper(c1) /\ Runs(c0, rows, CreateTable("event"), c1, rows)
                /\ Elsewhere(c0, c1, "event")
                /\ c1["event"].check = "none" /\ c1["event"].index = "none"
  <2>1. c0["event"].check = "no_table"
    BY <1>3 DEF Columns, Has
  <2>2. \A r \in Refs["event"] : c0[r].check # "no_table"
    BY <1>3, RefsAre DEF Columns, Has
  <2>3. "event" \in Tables \ Stored
    BY TablesAre DEF Stored, Indexed
  <2> QED
    BY <1>3, <2>1, <2>2, <2>3, Created
<1>5. Columns(c1, "lower", "lower", "none",
              "none", "none", "no_table", "none", "no_table", "no_table")
  BY <1>3, <1>4, TablesAre DEF Columns, Has, Elsewhere
<1>6. PICK c2 : /\ Proper(c2) /\ Runs(c1, rows, CreateIndex("event"), c2, rows)
                /\ Elsewhere(c1, c2, "event")
                /\ c2["event"].check = "none" /\ c2["event"].index = "seq"
  <2>1. c1["event"].check = "none" /\ c1["event"].index = "none"
    BY <1>5 DEF Columns, Has
  <2>3. "event" \in Indexed
    BY TablesAre DEF Stored, Indexed
  <2> QED
    BY <1>4, <2>1, <2>3, IndexCreated
<1>7. Columns(c2, "lower", "lower", "none",
              "none", "seq", "no_table", "none", "no_table", "no_table")
  BY <1>5, <1>6, TablesAre DEF Columns, Has, Elsewhere
<1>8. PICK c3 : /\ Proper(c3) /\ Runs(c2, rows, CreateTable("message"), c3, rows)
                /\ Elsewhere(c2, c3, "message")
                /\ c3["message"].check = "none" /\ c3["message"].index = "none"
  <2>1. c2["message"].check = "no_table"
    BY <1>7 DEF Columns, Has
  <2>2. \A r \in Refs["message"] : c2[r].check # "no_table"
    BY <1>7, RefsAre DEF Columns, Has
  <2>3. "message" \in Tables \ Stored
    BY TablesAre DEF Stored, Indexed
  <2> QED
    BY <1>6, <2>1, <2>2, <2>3, Created
<1>9. Columns(c3, "lower", "lower", "none",
              "none", "seq", "none", "none", "no_table", "no_table")
  BY <1>7, <1>8, TablesAre DEF Columns, Has, Elsewhere
<1>10. c3 = SchemaAt[4]
  BY <1>1, <1>2, <1>8, <1>9, SameColumns
<1>11. Arrived(c3, rows, 4)
  <2>1. \A t \in Stored : c3[t].check = c0[t].check
    BY <1>3, <1>9 DEF Columns, Has, Stored
  <2> QED
    BY <1>3, <1>10, <2>1 DEF Arrived, There
<1>12. /\ CreateIndex("event") \in Operations
      /\ CreateTable("event") \in Operations
      /\ CreateTable("message") \in Operations
  BY OperationsAre, TablesAre DEF Stored, Indexed
<1> QED
  BY <1>3, <1>4, <1>6, <1>8, <1>11, <1>12, ThreeOperations

\* 223032a0fa79 upgrades what c66309a8006e leaves.
LEMMA Upgrade_2230_Leads ==
    ASSUME NEW rows \in RowSpellings, Arrived(SchemaAt[4], rows, 4)
    PROVE  \A e \in Stamps : e.to = 5 =>
              Leads(SchemaAt[4], rows,
                  <<CreateTable("artifact"), CreateTable("iteration_record"), CreateIndex("message"), e>>)
<1>1. Proper(SchemaAt[4]) /\ Proper(SchemaAt[5])
  BY SchemaProper DEF Latest
<1>2. /\ Columns(SchemaAt[4], "lower", "lower", "none",
                 "none", "seq", "none", "none", "no_table", "no_table")
      /\ Columns(SchemaAt[5], "lower", "lower", "none",
                 "none", "seq", "none", "seq", "none", "none")
  BY SchemaColumns
<1>3. PICK c0 : /\ c0 = SchemaAt[4] /\ Proper(c0)
                /\ Columns(c0, "lower", "lower", "none",
                           "none", "seq", "none", "none", "no_table", "no_table")
  BY <1>1, <1>2
<1>4. PICK c1 : /\ Proper(c1) /\ Runs(c0, rows, CreateTable("artifact"), c1, rows)
                /\ Elsewhere(c0, c1, "artifact")
                /\ c1["artifact"].check = "none" /\ c1["artifact"].index = "none"
  <2>1. c0["artifact"].check = "no_table"
    BY <1>3 DEF Columns, Has
  <2>2. \A r \in Refs["artifact"] : c0[r].check # "no_table"
    BY <1>3, RefsAre DEF Columns, Has
  <2>3. "artifact" \in Tables \ Stored
    BY TablesAre DEF Stored, Indexed
  <2> QED
    BY <1>3, <2>1, <2>2, <2>3, Created
<1>5. Columns(c1, "lower", "lower", "none", "none", "seq", "none", "none", "none", "no_table")
  BY <1>3, <1>4, TablesAre DEF Columns, Has, Elsewhere
<1>6. PICK c2 : /\ Proper(c2) /\ Runs(c1, rows, CreateTable("iteration_record"), c2, rows)
                /\ Elsewhere(c1, c2, "iteration_record")
                /\ c2["iteration_record"].check = "none" /\ c2["iteration_record"].index = "none"
  <2>1. c1["iteration_record"].check = "no_table"
    BY <1>5 DEF Columns, Has
  <2>2. \A r \in Refs["iteration_record"] : c1[r].check # "no_table"
    BY <1>5, RefsAre DEF Columns, Has
  <2>3. "iteration_record" \in Tables \ Stored
    BY TablesAre DEF Stored, Indexed
  <2> QED
    BY <1>4, <2>1, <2>2, <2>3, Created
<1>7. Columns(c2, "lower", "lower", "none", "none", "seq", "none", "none", "none", "none")
  BY <1>5, <1>6, TablesAre DEF Columns, Has, Elsewhere
<1>8. PICK c3 : /\ Proper(c3) /\ Runs(c2, rows, CreateIndex("message"), c3, rows)
                /\ Elsewhere(c2, c3, "message")
                /\ c3["message"].check = "none" /\ c3["message"].index = "seq"
  <2>1. c2["message"].check = "none" /\ c2["message"].index = "none"
    BY <1>7 DEF Columns, Has
  <2>3. "message" \in Indexed
    BY TablesAre DEF Stored, Indexed
  <2> QED
    BY <1>6, <2>1, <2>3, IndexCreated
<1>9. Columns(c3, "lower", "lower", "none", "none", "seq", "none", "seq", "none", "none")
  BY <1>7, <1>8, TablesAre DEF Columns, Has, Elsewhere
<1>10. c3 = SchemaAt[5]
  BY <1>1, <1>2, <1>8, <1>9, SameColumns
<1>11. Arrived(c3, rows, 5)
  <2>1. \A t \in Stored : c3[t].check = c0[t].check
    BY <1>3, <1>9 DEF Columns, Has, Stored
  <2> QED
    BY <1>3, <1>10, <2>1 DEF Arrived, There
<1>12. /\ CreateIndex("message") \in Operations
      /\ CreateTable("artifact") \in Operations
      /\ CreateTable("iteration_record") \in Operations
  BY OperationsAre, TablesAre DEF Stored, Indexed
<1> QED
  BY <1>3, <1>4, <1>6, <1>8, <1>11, <1>12, ThreeOperations

\* The downgrade of e21152998394 drops runs, then agents: base.
LEMMA Downgrade_e211_Leads ==
    ASSUME NEW rows \in RowSpellings, Arrived(SchemaAt[1], rows, 1)
    PROVE  \A e \in Stamps : e.to = 0 =>
              Leads(SchemaAt[1], rows, <<DropTable("run"), DropTable("agent"), e>>)
<1>1. Proper(SchemaAt[1]) /\ Proper(SchemaAt[0])
  BY SchemaProper DEF Latest
<1>2. /\ Columns(SchemaAt[1], "upper", "upper", "no_table",
                 "no_table", "none", "no_table", "none", "no_table", "no_table")
      /\ Columns(SchemaAt[0], "no_table", "no_table", "no_table",
                 "no_table", "none", "no_table", "none", "no_table", "no_table")
  BY SchemaColumns
<1>3. PICK c0 : /\ c0 = SchemaAt[1] /\ Proper(c0)
                /\ Columns(c0, "upper", "upper", "no_table",
                           "no_table", "none", "no_table", "none", "no_table", "no_table")
  BY <1>1, <1>2
<1>4. PICK c1 : /\ Proper(c1) /\ Runs(c0, rows, DropTable("run"), c1, rows)
                /\ Elsewhere(c0, c1, "run")
                /\ c1["run"].check = "no_table" /\ c1["run"].index = "none"
  <2>1. c0["run"].check # "no_table"
    BY <1>3 DEF Columns, Has
  <2>2. \A r \in Tables : "run" \in Refs[r] =>
            r \in {"task", "event", "message", "artifact", "iteration_record"}
    BY RefsAre, TablesAre
  <2>3. \A r \in Tables : "run" \in Refs[r] => c0[r].check = "no_table"
    BY <1>3, <2>2 DEF Columns, Has
  <2>4. "run" \in Tables
    BY TablesAre DEF Stored, Indexed
  <2> QED
    BY <1>3, <2>1, <2>3, <2>4, Dropped
<1>5. Columns(c1, "upper", "no_table", "no_table",
              "no_table", "none", "no_table", "none", "no_table", "no_table")
  BY <1>3, <1>4, TablesAre DEF Columns, Has, Elsewhere
<1>6. PICK c2 : /\ Proper(c2) /\ Runs(c1, rows, DropTable("agent"), c2, rows)
                /\ Elsewhere(c1, c2, "agent")
                /\ c2["agent"].check = "no_table" /\ c2["agent"].index = "none"
  <2>1. c1["agent"].check # "no_table"
    BY <1>5 DEF Columns, Has
  <2>2. \A r \in Tables : "agent" \in Refs[r] =>
            r \in {"run", "task", "event", "message", "artifact", "iteration_record"}
    BY RefsAre, TablesAre
  <2>3. \A r \in Tables : "agent" \in Refs[r] => c1[r].check = "no_table"
    BY <1>5, <2>2 DEF Columns, Has
  <2>4. "agent" \in Tables
    BY TablesAre DEF Stored, Indexed
  <2> QED
    BY <1>4, <2>1, <2>3, <2>4, Dropped
<1>7. Columns(c2, "no_table", "no_table", "no_table",
              "no_table", "none", "no_table", "none", "no_table", "no_table")
  BY <1>5, <1>6, TablesAre DEF Columns, Has, Elsewhere
<1>8. c2 = SchemaAt[0]
  BY <1>1, <1>2, <1>6, <1>7, SameColumns
<1>9. Arrived(c2, rows, 0)
  <2>1. \A t \in Stored : c2[t].check = "no_table"
    BY <1>7 DEF Columns, Has, Stored
  <2> QED
    BY <1>8, <2>1 DEF Arrived, There
<1>10. /\ DropTable("agent") \in Operations
      /\ DropTable("run") \in Operations
  BY OperationsAre, TablesAre DEF Stored, Indexed
<1> QED
  BY <1>3, <1>4, <1>6, <1>9, <1>10, TwoOperations

\* The downgrade of d87365651814 undoes its upgrade.
LEMMA Downgrade_d873_Leads ==
    ASSUME NEW rows \in RowSpellings, Arrived(SchemaAt[2], rows, 2)
    PROVE  \A e \in Stamps : e.to = 1 =>
              Leads(SchemaAt[2], rows, <<DropTable("task"), e>>)
<1>1. Proper(SchemaAt[2]) /\ Proper(SchemaAt[1])
  BY SchemaProper DEF Latest
<1>2. /\ Columns(SchemaAt[2], "upper", "upper", "none",
                 "no_table", "none", "no_table", "none", "no_table", "no_table")
      /\ Columns(SchemaAt[1], "upper", "upper", "no_table",
                 "no_table", "none", "no_table", "none", "no_table", "no_table")
  BY SchemaColumns
<1>3. PICK c0 : /\ c0 = SchemaAt[2] /\ Proper(c0)
                /\ Columns(c0, "upper", "upper", "none",
                           "no_table", "none", "no_table", "none", "no_table", "no_table")
  BY <1>1, <1>2
<1>4. PICK c1 : /\ Proper(c1) /\ Runs(c0, rows, DropTable("task"), c1, rows)
                /\ Elsewhere(c0, c1, "task")
                /\ c1["task"].check = "no_table" /\ c1["task"].index = "none"
  <2>1. c0["task"].check # "no_table"
    BY <1>3 DEF Columns, Has
  <2>2. \A r \in Tables : "task" \in Refs[r] => r \in {"iteration_record"}
    BY RefsAre, TablesAre
  <2>3. \A r \in Tables : "task" \in Refs[r] => c0[r].check = "no_table"
    BY <1>3, <2>2 DEF Columns, Has
  <2>4. "task" \in Tables
    BY TablesAre DEF Stored, Indexed
  <2> QED
    BY <1>3, <2>1, <2>3, <2>4, Dropped
<1>5. Columns(c1, "upper", "upper", "no_table",
              "no_table", "none", "no_table", "none", "no_table", "no_table")
  BY <1>3, <1>4, TablesAre DEF Columns, Has, Elsewhere
<1>6. c1 = SchemaAt[1]
  BY <1>1, <1>2, <1>4, <1>5, SameColumns
<1>7. Arrived(c1, rows, 1)
  <2>1. \A t \in Stored : c1[t].check = c0[t].check
    BY <1>3, <1>5 DEF Columns, Has, Stored
  <2> QED
    BY <1>3, <1>6, <2>1 DEF Arrived, There
<1>8. /\ DropTable("task") \in Operations
  BY OperationsAre, TablesAre DEF Stored, Indexed
<1> QED
  BY <1>3, <1>4, <1>7, <1>8, OneOperation

\* The downgrade of c66309a8006e undoes its upgrade.
LEMMA Downgrade_c663_Leads ==
    ASSUME NEW rows \in RowSpellings, Arrived(SchemaAt[4], rows, 4)
    PROVE  \A e \in Stamps : e.to = 3 =>
              Leads(SchemaAt[4], rows,
                  <<DropTable("message"), DropIndex("event"), DropTable("event"), e>>)
<1>1. Proper(SchemaAt[4]) /\ Proper(SchemaAt[3])
  BY SchemaProper DEF Latest
<1>2. /\ Columns(SchemaAt[4], "lower", "lower", "none",
                 "none", "seq", "none", "none", "no_table", "no_table")
      /\ Columns(SchemaAt[3], "lower", "lower", "none",
                 "no_table", "none", "no_table", "none", "no_table", "no_table")
  BY SchemaColumns
<1>3. PICK c0 : /\ c0 = SchemaAt[4] /\ Proper(c0)
                /\ Columns(c0, "lower", "lower", "none",
                           "none", "seq", "none", "none", "no_table", "no_table")
  BY <1>1, <1>2
<1>4. PICK c1 : /\ Proper(c1) /\ Runs(c0, rows, DropTable("message"), c1, rows)
                /\ Elsewhere(c0, c1, "message")
                /\ c1["message"].check = "no_table" /\ c1["message"].index = "none"
  <2>1. c0["message"].check # "no_table"
    BY <1>3 DEF Columns, Has
  <2>2. \A r \in Tables : "message" \in Refs[r] => FALSE
    BY RefsAre, TablesAre
  <2>3. \A r \in Tables : "message" \in Refs[r] => c0[r].check = "no_table"
    BY <1>3, <2>2 DEF Columns, Has
  <2>4. "message" \in Tables
    BY TablesAre DEF Stored, Indexed
  <2> QED
    BY <1>3, <2>1, <2>3, <2>4, Dropped
<1>5. Columns(c1, "lower", "lower", "none",
              "none", "seq", "no_table", "none", "no_table", "no_table")
  BY <1>3, <1>4, TablesAre DEF Columns, Has, Elsewhere
<1>6. PICK c2 : /\ Proper(c2) /\ Runs(c1, rows, DropIndex("event"), c2, rows)
                /\ Elsewhere(c1, c2, "event")
                /\ c2["event"].check = "none" /\ c2["event"].index = "none"
  <2>1. c1["event"].check = "none" /\ c1["event"].index = "seq"
    BY <1>5 DEF Columns, Has
  <2>3. "event" \in Indexed
    BY TablesAre DEF Stored, Indexed
  <2> QED
    BY <1>4, <2>1, <2>3, IndexDropped
<1>7. Columns(c2, "lower", "lower", "none",
              "none", "none", "no_table", "none", "no_table", "no_table")
  BY <1>5, <1>6, TablesAre DEF Columns, Has, Elsewhere
<1>8. PICK c3 : /\ Proper(c3) /\ Runs(c2, rows, DropTable("event"), c3, rows)
                /\ Elsewhere(c2, c3, "event")
                /\ c3["event"].check = "no_table" /\ c3["event"].index = "none"
  <2>1. c2["event"].check # "no_table"
    BY <1>7 DEF Columns, Has
  <2>2. \A r \in Tables : "event" \in Refs[r] => FALSE
    BY RefsAre, TablesAre
  <2>3. \A r \in Tables : "event" \in Refs[r] => c2[r].check = "no_table"
    BY <1>7, <2>2 DEF Columns, Has
  <2>4. "event" \in Tables
    BY TablesAre DEF Stored, Indexed
  <2> QED
    BY <1>6, <2>1, <2>3, <2>4, Dropped
<1>9. Columns(c3, "lower", "lower", "none",
              "no_table", "none", "no_table", "none", "no_table", "no_table")
  BY <1>7, <1>8, TablesAre DEF Columns, Has, Elsewhere
<1>10. c3 = SchemaAt[3]
  BY <1>1, <1>2, <1>8, <1>9, SameColumns
<1>11. Arrived(c3, rows, 3)
  <2>1. \A t \in Stored : c3[t].check = c0[t].check
    BY <1>3, <1>9 DEF Columns, Has, Stored
  <2> QED
    BY <1>3, <1>10, <2>1 DEF Arrived, There
<1>12. /\ DropIndex("event") \in Operations
      /\ DropTable("event") \in Operations
      /\ DropTable("message") \in Operations
  BY OperationsAre, TablesAre DEF Stored, Indexed
<1> QED
  BY <1>3, <1>4, <1>6, <1>8, <1>11, <1>12, ThreeOperations

\* The downgrade of 223032a0fa79 undoes its upgrade, the index on the older
\* table included.
LEMMA Downgrade_2230_Leads ==
    ASSUME NEW rows \in RowSpellings, Arrived(SchemaAt[5], rows, 5)
    PROVE  \A e \in Stamps : e.to = 4 =>
              Leads(SchemaAt[5], rows,
                  <<DropIndex("message"), DropTable("iteration_record"), DropTable("artifact"), e>>)
<1>1. Proper(SchemaAt[5]) /\ Proper(SchemaAt[4])
  BY SchemaProper DEF Latest
<1>2. /\ Columns(SchemaAt[5], "lower", "lower", "none",
                 "none", "seq", "none", "seq", "none", "none")
      /\ Columns(SchemaAt[4], "lower", "lower", "none",
                 "none", "seq", "none", "none", "no_table", "no_table")
  BY SchemaColumns
<1>3. PICK c0 : /\ c0 = SchemaAt[5] /\ Proper(c0)
                /\ Columns(c0, "lower", "lower", "none",
                           "none", "seq", "none", "seq", "none", "none")
  BY <1>1, <1>2
<1>4. PICK c1 : /\ Proper(c1) /\ Runs(c0, rows, DropIndex("message"), c1, rows)
                /\ Elsewhere(c0, c1, "message")
                /\ c1["message"].check = "none" /\ c1["message"].index = "none"
  <2>1. c0["message"].check = "none" /\ c0["message"].index = "seq"
    BY <1>3 DEF Columns, Has
  <2>3. "message" \in Indexed
    BY TablesAre DEF Stored, Indexed
  <2> QED
    BY <1>3, <2>1, <2>3, IndexDropped
<1>5. Columns(c1, "lower", "lower", "none", "none", "seq", "none", "none", "none", "none")
  BY <1>3, <1>4, TablesAre DEF Columns, Has, Elsewhere
<1>6. PICK c2 : /\ Proper(c2) /\ Runs(c1, rows, DropTable("iteration_record"), c2, rows)
                /\ Elsewhere(c1, c2, "iteration_record")
                /\ c2["iteration_record"].check = "no_table" /\ c2["iteration_record"].index = "none"
  <2>1. c1["iteration_record"].check # "no_table"
    BY <1>5 DEF Columns, Has
  <2>2. \A r \in Tables : "iteration_record" \in Refs[r] => FALSE
    BY RefsAre, TablesAre
  <2>3. \A r \in Tables : "iteration_record" \in Refs[r] => c1[r].check = "no_table"
    BY <1>5, <2>2 DEF Columns, Has
  <2>4. "iteration_record" \in Tables
    BY TablesAre DEF Stored, Indexed
  <2> QED
    BY <1>4, <2>1, <2>3, <2>4, Dropped
<1>7. Columns(c2, "lower", "lower", "none", "none", "seq", "none", "none", "none", "no_table")
  BY <1>5, <1>6, TablesAre DEF Columns, Has, Elsewhere
<1>8. PICK c3 : /\ Proper(c3) /\ Runs(c2, rows, DropTable("artifact"), c3, rows)
                /\ Elsewhere(c2, c3, "artifact")
                /\ c3["artifact"].check = "no_table" /\ c3["artifact"].index = "none"
  <2>1. c2["artifact"].check # "no_table"
    BY <1>7 DEF Columns, Has
  <2>2. \A r \in Tables : "artifact" \in Refs[r] => FALSE
    BY RefsAre, TablesAre
  <2>3. \A r \in Tables : "artifact" \in Refs[r] => c2[r].check = "no_table"
    BY <1>7, <2>2 DEF Columns, Has
  <2>4. "artifact" \in Tables
    BY TablesAre DEF Stored, Indexed
  <2> QED
    BY <1>6, <2>1, <2>3, <2>4, Dropped
<1>9. Columns(c3, "lower", "lower", "none",
              "none", "seq", "none", "none", "no_table", "no_table")
  BY <1>7, <1>8, TablesAre DEF Columns, Has, Elsewhere
<1>10. c3 = SchemaAt[4]
  BY <1>1, <1>2, <1>8, <1>9, SameColumns
<1>11. Arrived(c3, rows, 4)
  <2>1. \A t \in Stored : c3[t].check = c0[t].check
    BY <1>3, <1>9 DEF Columns, Has, Stored
  <2> QED
    BY <1>3, <1>10, <2>1 DEF Arrived, There
<1>12. /\ DropIndex("message") \in Operations
      /\ DropTable("artifact") \in Operations
      /\ DropTable("iteration_record") \in Operations
  BY OperationsAre, TablesAre DEF Stored, Indexed
<1> QED
  BY <1>3, <1>4, <1>6, <1>8, <1>11, <1>12, ThreeOperations

\* a017971fe447 makes rows and constraints lower case, however the rows were
\* spelt.
LEMMA Upgrade_a017_Leads ==
    ASSUME NEW rows \in RowSpellings
    PROVE  \A e \in Stamps : e.to = 3 =>
              Leads(SchemaAt[2], rows, <<DropCheck("agent"), DropCheck("run"),
                  Rewrite("agent", "lower"), Rewrite("run", "lower"),
                  CreateCheck("agent", "lower"), CreateCheck("run", "lower"), e>>)
<1>1. Proper(SchemaAt[2]) /\ Proper(SchemaAt[3])
  BY SchemaProper DEF Latest
<1>2. /\ Columns(SchemaAt[2], "upper", "upper", "none",
                 "no_table", "none", "no_table", "none", "no_table", "no_table")
      /\ Columns(SchemaAt[3], "lower", "lower", "none",
                 "no_table", "none", "no_table", "none", "no_table", "no_table")
  BY SchemaColumns
<1>3. PICK c0 : /\ c0 = SchemaAt[2] /\ Proper(c0)
                /\ Columns(c0, "upper", "upper", "none",
                           "no_table", "none", "no_table", "none", "no_table", "no_table")
  BY <1>1, <1>2
<1>4. "agent" \in Stored /\ "run" \in Stored /\ "lower" \in Spellings
  BY DEF Stored, Spellings
<1>5. PICK c1 : /\ Proper(c1) /\ Runs(c0, rows, DropCheck("agent"), c1, rows)
                /\ Elsewhere(c0, c1, "agent")
                /\ c1["agent"].check = "none" /\ c1["agent"].index = "none"
  <2>1. c0["agent"].index = "none" /\ c0["agent"].check \in Spellings
    BY <1>3 DEF Columns, Has, Spellings
  <2>2. Proper(c0)
    BY <1>3
  <2> QED
    BY <1>4, <2>1, <2>2, CheckDropped
<1>6. Columns(c1, "none", "upper", "none",
              "no_table", "none", "no_table", "none", "no_table", "no_table")
  BY <1>3, <1>5, TablesAre DEF Columns, Has, Elsewhere
<1>7. PICK c2 : /\ Proper(c2) /\ Runs(c1, rows, DropCheck("run"), c2, rows)
                /\ Elsewhere(c1, c2, "run")
                /\ c2["run"].check = "none" /\ c2["run"].index = "none"
  <2>1. c1["run"].index = "none" /\ c1["run"].check \in Spellings
    BY <1>6 DEF Columns, Has, Spellings
  <2>2. Proper(c1)
    BY <1>5
  <2> QED
    BY <1>4, <2>1, <2>2, CheckDropped
<1>8. Columns(c2, "none", "none", "none",
              "no_table", "none", "no_table", "none", "no_table", "no_table")
  BY <1>6, <1>7, TablesAre DEF Columns, Has, Elsewhere
<1>9. c2["agent"].check # "no_table" /\ c2["run"].check # "no_table"
  BY <1>8 DEF Columns, Has
<1>10. PICK r1 : /\ Runs(c2, rows, Rewrite("agent", "lower"), c2, r1)
                 /\ r1 \in RowSpellings /\ Rewrote(rows, r1, "agent", "lower")
  <2>1. Proper(c2)
    BY <1>7
  <2> QED
    BY <1>4, <1>9, <2>1, Rewritten
<1>11. PICK r2 : /\ Runs(c2, r1, Rewrite("run", "lower"), c2, r2)
                 /\ r2 \in RowSpellings /\ Rewrote(r1, r2, "run", "lower")
  <2>1. Proper(c2) /\ r1 \in RowSpellings
    BY <1>7, <1>10
  <2> QED
    BY <1>4, <1>9, <2>1, Rewritten
<1>12. r2["run"] = "lower" /\ r2["agent"] = "lower"
  BY <1>4, <1>10, <1>11 DEF Rewrote
<1>13. PICK c3 : /\ Proper(c3) /\ Runs(c2, r2, CreateCheck("agent", "lower"), c3, r2)
                /\ Elsewhere(c2, c3, "agent")
                /\ c3["agent"].check = "lower" /\ c3["agent"].index = "none"
  <2>1. c2["agent"].index = "none" /\ c2["agent"].check = "none"
    BY <1>8 DEF Columns, Has
  <2>2. Proper(c2)
    BY <1>7
  <2> QED
    BY <1>4, <1>11, <1>12, <2>1, <2>2, CheckCreated
<1>14. Columns(c3, "lower", "none", "none",
               "no_table", "none", "no_table", "none", "no_table", "no_table")
  BY <1>8, <1>13, TablesAre DEF Columns, Has, Elsewhere
<1>15. PICK c4 : /\ Proper(c4) /\ Runs(c3, r2, CreateCheck("run", "lower"), c4, r2)
                /\ Elsewhere(c3, c4, "run")
                /\ c4["run"].check = "lower" /\ c4["run"].index = "none"
  <2>1. c3["run"].index = "none" /\ c3["run"].check = "none"
    BY <1>14 DEF Columns, Has
  <2>2. Proper(c3)
    BY <1>13
  <2> QED
    BY <1>4, <1>11, <1>12, <2>1, <2>2, CheckCreated
<1>16. Columns(c4, "lower", "lower", "none",
               "no_table", "none", "no_table", "none", "no_table", "no_table")
  BY <1>14, <1>15, TablesAre DEF Columns, Has, Elsewhere
<1>17. c4 = SchemaAt[3]
  BY <1>1, <1>2, <1>15, <1>16, SameColumns
<1>18. Arrived(c4, r2, 3)
  <2>1. \A t \in Stored : r2[t] = c4[t].check
    BY <1>12, <1>16 DEF Columns, Has, Stored
  <2> QED
    BY <1>17, <2>1 DEF Arrived
<1>19. /\ DropCheck("agent") \in Operations /\ DropCheck("run") \in Operations
       /\ Rewrite("agent", "lower") \in Operations /\ Rewrite("run", "lower") \in Operations
       /\ CreateCheck("agent", "lower") \in Operations
       /\ CreateCheck("run", "lower") \in Operations
  BY <1>4, OperationsAre
<1> QED
  BY <1>3, <1>5, <1>7, <1>10, <1>11, <1>13, <1>15, <1>18, <1>19, SixOperations

\* The downgrade of a017971fe447 makes rows and constraints upper case again.
LEMMA Downgrade_a017_Leads ==
    ASSUME NEW rows \in RowSpellings
    PROVE  \A e \in Stamps : e.to = 2 =>
              Leads(SchemaAt[3], rows, <<DropCheck("agent"), DropCheck("run"),
                  Rewrite("agent", "upper"), Rewrite("run", "upper"),
                  CreateCheck("agent", "upper"), CreateCheck("run", "upper"), e>>)
<1>1. Proper(SchemaAt[3]) /\ Proper(SchemaAt[2])
  BY SchemaProper DEF Latest
<1>2. /\ Columns(SchemaAt[3], "lower", "lower", "none",
                 "no_table", "none", "no_table", "none", "no_table", "no_table")
      /\ Columns(SchemaAt[2], "upper", "upper", "none",
                 "no_table", "none", "no_table", "none", "no_table", "no_table")
  BY SchemaColumns
<1>3. PICK c0 : /\ c0 = SchemaAt[3] /\ Proper(c0)
                /\ Columns(c0, "lower", "lower", "none",
                           "no_table", "none", "no_table", "none", "no_table", "no_table")
  BY <1>1, <1>2
<1>4. "agent" \in Stored /\ "run" \in Stored /\ "upper" \in Spellings
  BY DEF Stored, Spellings
<1>5. PICK c1 : /\ Proper(c1) /\ Runs(c0, rows, DropCheck("agent"), c1, rows)
                /\ Elsewhere(c0, c1, "agent")
                /\ c1["agent"].check = "none" /\ c1["agent"].index = "none"
  <2>1. c0["agent"].index = "none" /\ c0["agent"].check \in Spellings
    BY <1>3 DEF Columns, Has, Spellings
  <2>2. Proper(c0)
    BY <1>3
  <2> QED
    BY <1>4, <2>1, <2>2, CheckDropped
<1>6. Columns(c1, "none", "lower", "none",
              "no_table", "none", "no_table", "none", "no_table", "no_table")
  BY <1>3, <1>5, TablesAre DEF Columns, Has, Elsewhere
<1>7. PICK c2 : /\ Proper(c2) /\ Runs(c1, rows, DropCheck("run"), c2, rows)
                /\ Elsewhere(c1, c2, "run")
                /\ c2["run"].check = "none" /\ c2["run"].index = "none"
  <2>1. c1["run"].index = "none" /\ c1["run"].check \in Spellings
    BY <1>6 DEF Columns, Has, Spellings
  <2>2. Proper(c1)
    BY <1>5
  <2> QED
    BY <1>4, <2>1, <2>2, CheckDropped
<1>8. Columns(c2, "none", "none", "none",
              "no_table", "none", "no_table", "none", "no_table", "no_table")
  BY <1>6, <1>7, TablesAre DEF Columns, Has, Elsewhere
<1>9. c2["agent"].check # "no_table" /\ c2["run"].check # "no_table"
  BY <1>8 DEF Columns, Has
<1>10. PICK r1 : /\ Runs(c2, rows, Rewrite("agent", "upper"), c2, r1)
                 /\ r1 \in RowSpellings /\ Rewrote(rows, r1, "agent", "upper")
  <2>1. Proper(c2)
    BY <1>7
  <2> QED
    BY <1>4, <1>9, <2>1, Rewritten
<1>11. PICK r2 : /\ Runs(c2, r1, Rewrite("run", "upper"), c2, r2)
                 /\ r2 \in RowSpellings /\ Rewrote(r1, r2, "run", "upper")
  <2>1. Proper(c2) /\ r1 \in RowSpellings
    BY <1>7, <1>10
  <2> QED
    BY <1>4, <1>9, <2>1, Rewritten
<1>12. r2["run"] = "upper" /\ r2["agent"] = "upper"
  BY <1>4, <1>10, <1>11 DEF Rewrote
<1>13. PICK c3 : /\ Proper(c3) /\ Runs(c2, r2, CreateCheck("agent", "upper"), c3, r2)
                /\ Elsewhere(c2, c3, "agent")
                /\ c3["agent"].check = "upper" /\ c3["agent"].index = "none"
  <2>1. c2["agent"].index = "none" /\ c2["agent"].check = "none"
    BY <1>8 DEF Columns, Has
  <2>2. Proper(c2)
    BY <1>7
  <2> QED
    BY <1>4, <1>11, <1>12, <2>1, <2>2, CheckCreated
<1>14. Columns(c3, "upper", "none", "none",
               "no_table", "none", "no_table", "none", "no_table", "no_table")
  BY <1>8, <1>13, TablesAre DEF Columns, Has, Elsewhere
<1>15. PICK c4 : /\ Proper(c4) /\ Runs(c3, r2, CreateCheck("run", "upper"), c4, r2)
                /\ Elsewhere(c3, c4, "run")
                /\ c4["run"].check = "upper" /\ c4["run"].index = "none"
  <2>1. c3["run"].index = "none" /\ c3["run"].check = "none"
    BY <1>14 DEF Columns, Has
  <2>2. Proper(c3)
    BY <1>13
  <2> QED
    BY <1>4, <1>11, <1>12, <2>1, <2>2, CheckCreated
<1>16. Columns(c4, "upper", "upper", "none",
               "no_table", "none", "no_table", "none", "no_table", "no_table")
  BY <1>14, <1>15, TablesAre DEF Columns, Has, Elsewhere
<1>17. c4 = SchemaAt[2]
  BY <1>1, <1>2, <1>15, <1>16, SameColumns
<1>18. Arrived(c4, r2, 2)
  <2>1. \A t \in Stored : r2[t] = c4[t].check
    BY <1>12, <1>16 DEF Columns, Has, Stored
  <2> QED
    BY <1>17, <2>1 DEF Arrived
<1>19. /\ DropCheck("agent") \in Operations /\ DropCheck("run") \in Operations
       /\ Rewrite("agent", "upper") \in Operations /\ Rewrite("run", "upper") \in Operations
       /\ CreateCheck("agent", "upper") \in Operations
       /\ CreateCheck("run", "upper") \in Operations
  BY <1>4, OperationsAre
<1> QED
  BY <1>3, <1>5, <1>7, <1>10, <1>11, <1>13, <1>15, <1>18, <1>19, SixOperations

\* A sequence with one more element, element by element.
LEMMA AppendIs ==
    ASSUME NEW q \in Seq(Statements), NEW left \in Seq(Statements), Len(left) = Len(q) + 1,
           \A i \in 1..Len(q) : q[i] = left[i], NEW e \in Statements, left[Len(left)] = e
    PROVE  Append(q, e) = left
<1>1. PICK n \in Nat : n = Len(q)
  OBVIOUS
<1>2. /\ Append(q, e) \in Seq(Statements) /\ Len(Append(q, e)) = n + 1
      /\ \A i \in 1..n : Append(q, e)[i] = q[i]
      /\ Append(q, e)[n + 1] = e
  BY <1>1, AppendProperties
<1>3. \A i \in 1..(n + 1) : Append(q, e)[i] = left[i]
  BY <1>1, <1>2
<1> QED
  BY <1>1, <1>2, <1>3, SeqEqual

\* The stamp from one revision to another.
LEMMA StampIs ==
    ASSUME NEW i \in 0..Latest, NEW j \in 0..Latest
    PROVE  Stamp(i, j) \in Stamps /\ Stamp(i, j).from = i /\ Stamp(i, j).to = j
BY DEF Stamp, Stamps

\* What is known of the statements of a revision from i to j.
RevisionIs(left, rows, i, j) ==
    /\ left \in Seq(Statements) /\ Len(left) > 1
    /\ left[Len(left)] \in Stamps
    /\ left[Len(left)].from = i /\ left[Len(left)].to = j
    /\ Leads(SchemaAt[i], rows, left)

\* The file of e21152998394 and the stamp alembic adds upgrade base.
LEMMA Upgrade_e211_Is ==
    ASSUME NEW rows \in RowSpellings, \A t \in Stored : rows[t] = "any"
    PROVE  RevisionIs(Append(Upgrade[1], Stamp(0, 1)), rows, 0, 1)
<1>1. PICK e \in Stamps : e = Stamp(0, 1) /\ e.from = 0 /\ e.to = 1
  BY StampIs DEF Latest
<1>2. PICK left, q :
         /\ left = <<CreateChecked("agent"), CreateChecked("run"), e>>
         /\ q = <<CreateChecked("agent"), CreateChecked("run")>>
  OBVIOUS
<1>3. /\ CreateChecked("agent") \in Operations
      /\ CreateChecked("run") \in Operations
  BY OperationsAre, TablesAre DEF Stored, Indexed, Spellings
<1>4. /\ left \in Seq(Statements) /\ Len(left) = 3 /\ left[3] = e
      /\ q \in Seq(Statements) /\ Len(q) = 2
  BY <1>2, <1>3 DEF Statements
<1>5. \A i \in 1..2 : q[i] = left[i]
  BY <1>2
<1>6. Append(Upgrade[1], Stamp(0, 1)) = left
  <2>1. Append(q, e) = left
    <3>1. e \in Statements
      BY DEF Statements
    <3>2. Len(left) = Len(q) + 1 /\ left[Len(left)] = e /\ \A i \in 1..Len(q) : q[i] = left[i]
      BY <1>4, <1>5
    <3> QED
      BY <1>4, <3>1, <3>2, AppendIs
  <2>2. Upgrade[1] = Upgrade_e211
    BY DEF Upgrade
  <2>3. Upgrade_e211 = q
    BY <1>2 DEF Upgrade_e211
  <2> QED
    BY <1>1, <2>1, <2>2, <2>3, Zenon
<1>7. Leads(SchemaAt[0], rows, left)
  BY <1>1, <1>2, Upgrade_e211_Leads
<1>8. RevisionIs(left, rows, 0, 1)
  BY <1>1, <1>4, <1>7 DEF RevisionIs
<1> QED
  BY <1>6, <1>8

\* The file of d87365651814 and its stamp upgrade revision 1.
LEMMA Upgrade_d873_Is ==
    ASSUME NEW rows \in RowSpellings, Arrived(SchemaAt[1], rows, 1)
    PROVE  RevisionIs(Append(Upgrade[2], Stamp(1, 2)), rows, 1, 2)
<1>1. PICK e \in Stamps : e = Stamp(1, 2) /\ e.from = 1 /\ e.to = 2
  BY StampIs DEF Latest
<1>2. PICK left, q :
         /\ left = <<CreateTable("task"), e>>
         /\ q = <<CreateTable("task")>>
  OBVIOUS
<1>3. /\ CreateTable("task") \in Operations
  BY OperationsAre, TablesAre DEF Stored, Indexed, Spellings
<1>4. /\ left \in Seq(Statements) /\ Len(left) = 2 /\ left[2] = e
      /\ q \in Seq(Statements) /\ Len(q) = 1
  BY <1>2, <1>3 DEF Statements
<1>5. \A i \in 1..1 : q[i] = left[i]
  BY <1>2
<1>6. Append(Upgrade[2], Stamp(1, 2)) = left
  <2>1. Append(q, e) = left
    <3>1. e \in Statements
      BY DEF Statements
    <3>2. Len(left) = Len(q) + 1 /\ left[Len(left)] = e /\ \A i \in 1..Len(q) : q[i] = left[i]
      BY <1>4, <1>5
    <3> QED
      BY <1>4, <3>1, <3>2, AppendIs
  <2>2. Upgrade[2] = Upgrade_d873
    BY DEF Upgrade
  <2>3. Upgrade_d873 = q
    BY <1>2 DEF Upgrade_d873
  <2> QED
    BY <1>1, <2>1, <2>2, <2>3, Zenon
<1>7. Leads(SchemaAt[1], rows, left)
  BY <1>1, <1>2, Upgrade_d873_Leads
<1>8. RevisionIs(left, rows, 1, 2)
  BY <1>1, <1>4, <1>7 DEF RevisionIs
<1> QED
  BY <1>6, <1>8

\* The file of a017971fe447 and its stamp upgrade revision 2.
LEMMA Upgrade_a017_Is ==
    ASSUME NEW rows \in RowSpellings
    PROVE  RevisionIs(Append(Upgrade[3], Stamp(2, 3)), rows, 2, 3)
<1>1. PICK e \in Stamps : e = Stamp(2, 3) /\ e.from = 2 /\ e.to = 3
  BY StampIs DEF Latest
<1>2. PICK left, q :
         /\ left = <<DropCheck("agent"), DropCheck("run"), Rewrite("agent", "lower"),
                      Rewrite("run", "lower"), CreateCheck("agent", "lower"),
                      CreateCheck("run", "lower"), e>>
         /\ q = <<DropCheck("agent"), DropCheck("run"), Rewrite("agent", "lower"),
                      Rewrite("run", "lower"), CreateCheck("agent", "lower"),
                      CreateCheck("run", "lower")>>
  OBVIOUS
<1>3. /\ DropCheck("agent") \in Operations
      /\ DropCheck("run") \in Operations
      /\ Rewrite("agent", "lower") \in Operations
      /\ Rewrite("run", "lower") \in Operations
      /\ CreateCheck("agent", "lower") \in Operations
      /\ CreateCheck("run", "lower") \in Operations
  BY OperationsAre, TablesAre DEF Stored, Indexed, Spellings
<1>4. /\ left \in Seq(Statements) /\ Len(left) = 7 /\ left[7] = e
      /\ q \in Seq(Statements) /\ Len(q) = 6
  BY <1>2, <1>3 DEF Statements
<1>5. \A i \in 1..6 : q[i] = left[i]
  BY <1>2
<1>6. Append(Upgrade[3], Stamp(2, 3)) = left
  <2>1. Append(q, e) = left
    <3>1. e \in Statements
      BY DEF Statements
    <3>2. Len(left) = Len(q) + 1 /\ left[Len(left)] = e /\ \A i \in 1..Len(q) : q[i] = left[i]
      BY <1>4, <1>5
    <3> QED
      BY <1>4, <3>1, <3>2, AppendIs
  <2>2. Upgrade[3] = Upgrade_a017
    BY DEF Upgrade
  <2>3. Upgrade_a017 = q
    BY <1>2 DEF Upgrade_a017, Respelling
  <2> QED
    BY <1>1, <2>1, <2>2, <2>3, Zenon
<1>7. Leads(SchemaAt[2], rows, left)
  BY <1>1, <1>2, Upgrade_a017_Leads
<1>8. RevisionIs(left, rows, 2, 3)
  BY <1>1, <1>4, <1>7 DEF RevisionIs
<1> QED
  BY <1>6, <1>8

\* The file of c66309a8006e and its stamp upgrade revision 3.
LEMMA Upgrade_c663_Is ==
    ASSUME NEW rows \in RowSpellings, Arrived(SchemaAt[3], rows, 3)
    PROVE  RevisionIs(Append(Upgrade[4], Stamp(3, 4)), rows, 3, 4)
<1>1. PICK e \in Stamps : e = Stamp(3, 4) /\ e.from = 3 /\ e.to = 4
  BY StampIs DEF Latest
<1>2. PICK left, q :
         /\ left = <<CreateTable("event"), CreateIndex("event"), CreateTable("message"),
                      e>>
         /\ q = <<CreateTable("event"), CreateIndex("event"), CreateTable("message")>>
  OBVIOUS
<1>3. /\ CreateTable("event") \in Operations
      /\ CreateIndex("event") \in Operations
      /\ CreateTable("message") \in Operations
  BY OperationsAre, TablesAre DEF Stored, Indexed, Spellings
<1>4. /\ left \in Seq(Statements) /\ Len(left) = 4 /\ left[4] = e
      /\ q \in Seq(Statements) /\ Len(q) = 3
  BY <1>2, <1>3 DEF Statements
<1>5. \A i \in 1..3 : q[i] = left[i]
  BY <1>2
<1>6. Append(Upgrade[4], Stamp(3, 4)) = left
  <2>1. Append(q, e) = left
    <3>1. e \in Statements
      BY DEF Statements
    <3>2. Len(left) = Len(q) + 1 /\ left[Len(left)] = e /\ \A i \in 1..Len(q) : q[i] = left[i]
      BY <1>4, <1>5
    <3> QED
      BY <1>4, <3>1, <3>2, AppendIs
  <2>2. Upgrade[4] = Upgrade_c663
    BY DEF Upgrade
  <2>3. Upgrade_c663 = q
    BY <1>2 DEF Upgrade_c663
  <2> QED
    BY <1>1, <2>1, <2>2, <2>3, Zenon
<1>7. Leads(SchemaAt[3], rows, left)
  BY <1>1, <1>2, Upgrade_c663_Leads
<1>8. RevisionIs(left, rows, 3, 4)
  BY <1>1, <1>4, <1>7 DEF RevisionIs
<1> QED
  BY <1>6, <1>8

\* The file of 223032a0fa79 and its stamp upgrade revision 4.
LEMMA Upgrade_2230_Is ==
    ASSUME NEW rows \in RowSpellings, Arrived(SchemaAt[4], rows, 4)
    PROVE  RevisionIs(Append(Upgrade[5], Stamp(4, 5)), rows, 4, 5)
<1>1. PICK e \in Stamps : e = Stamp(4, 5) /\ e.from = 4 /\ e.to = 5
  BY StampIs DEF Latest
<1>2. PICK left, q :
         /\ left = <<CreateTable("artifact"), CreateTable("iteration_record"),
                      CreateIndex("message"), e>>
         /\ q = <<CreateTable("artifact"), CreateTable("iteration_record"),
                      CreateIndex("message")>>
  OBVIOUS
<1>3. /\ CreateTable("artifact") \in Operations
      /\ CreateTable("iteration_record") \in Operations
      /\ CreateIndex("message") \in Operations
  BY OperationsAre, TablesAre DEF Stored, Indexed, Spellings
<1>4. /\ left \in Seq(Statements) /\ Len(left) = 4 /\ left[4] = e
      /\ q \in Seq(Statements) /\ Len(q) = 3
  BY <1>2, <1>3 DEF Statements
<1>5. \A i \in 1..3 : q[i] = left[i]
  BY <1>2
<1>6. Append(Upgrade[5], Stamp(4, 5)) = left
  <2>1. Append(q, e) = left
    <3>1. e \in Statements
      BY DEF Statements
    <3>2. Len(left) = Len(q) + 1 /\ left[Len(left)] = e /\ \A i \in 1..Len(q) : q[i] = left[i]
      BY <1>4, <1>5
    <3> QED
      BY <1>4, <3>1, <3>2, AppendIs
  <2>2. Upgrade[5] = Upgrade_2230
    BY DEF Upgrade
  <2>3. Upgrade_2230 = q
    BY <1>2 DEF Upgrade_2230
  <2> QED
    BY <1>1, <2>1, <2>2, <2>3, Zenon
<1>7. Leads(SchemaAt[4], rows, left)
  BY <1>1, <1>2, Upgrade_2230_Leads
<1>8. RevisionIs(left, rows, 4, 5)
  BY <1>1, <1>4, <1>7 DEF RevisionIs
<1> QED
  BY <1>6, <1>8

\* The file of e21152998394 and its stamp downgrade revision 1.
LEMMA Downgrade_e211_Is ==
    ASSUME NEW rows \in RowSpellings, Arrived(SchemaAt[1], rows, 1)
    PROVE  RevisionIs(Append(Downgrade[1], Stamp(1, 0)), rows, 1, 0)
<1>1. PICK e \in Stamps : e = Stamp(1, 0) /\ e.from = 1 /\ e.to = 0
  BY StampIs DEF Latest
<1>2. PICK left, q :
         /\ left = <<DropTable("run"), DropTable("agent"), e>>
         /\ q = <<DropTable("run"), DropTable("agent")>>
  OBVIOUS
<1>3. /\ DropTable("run") \in Operations
      /\ DropTable("agent") \in Operations
  BY OperationsAre, TablesAre DEF Stored, Indexed, Spellings
<1>4. /\ left \in Seq(Statements) /\ Len(left) = 3 /\ left[3] = e
      /\ q \in Seq(Statements) /\ Len(q) = 2
  BY <1>2, <1>3 DEF Statements
<1>5. \A i \in 1..2 : q[i] = left[i]
  BY <1>2
<1>6. Append(Downgrade[1], Stamp(1, 0)) = left
  <2>1. Append(q, e) = left
    <3>1. e \in Statements
      BY DEF Statements
    <3>2. Len(left) = Len(q) + 1 /\ left[Len(left)] = e /\ \A i \in 1..Len(q) : q[i] = left[i]
      BY <1>4, <1>5
    <3> QED
      BY <1>4, <3>1, <3>2, AppendIs
  <2>2. Downgrade[1] = Downgrade_e211
    BY DEF Downgrade
  <2>3. Downgrade_e211 = q
    BY <1>2 DEF Downgrade_e211
  <2> QED
    BY <1>1, <2>1, <2>2, <2>3, Zenon
<1>7. Leads(SchemaAt[1], rows, left)
  BY <1>1, <1>2, Downgrade_e211_Leads
<1>8. RevisionIs(left, rows, 1, 0)
  BY <1>1, <1>4, <1>7 DEF RevisionIs
<1> QED
  BY <1>6, <1>8

\* The file of d87365651814 and its stamp downgrade revision 2.
LEMMA Downgrade_d873_Is ==
    ASSUME NEW rows \in RowSpellings, Arrived(SchemaAt[2], rows, 2)
    PROVE  RevisionIs(Append(Downgrade[2], Stamp(2, 1)), rows, 2, 1)
<1>1. PICK e \in Stamps : e = Stamp(2, 1) /\ e.from = 2 /\ e.to = 1
  BY StampIs DEF Latest
<1>2. PICK left, q :
         /\ left = <<DropTable("task"), e>>
         /\ q = <<DropTable("task")>>
  OBVIOUS
<1>3. /\ DropTable("task") \in Operations
  BY OperationsAre, TablesAre DEF Stored, Indexed, Spellings
<1>4. /\ left \in Seq(Statements) /\ Len(left) = 2 /\ left[2] = e
      /\ q \in Seq(Statements) /\ Len(q) = 1
  BY <1>2, <1>3 DEF Statements
<1>5. \A i \in 1..1 : q[i] = left[i]
  BY <1>2
<1>6. Append(Downgrade[2], Stamp(2, 1)) = left
  <2>1. Append(q, e) = left
    <3>1. e \in Statements
      BY DEF Statements
    <3>2. Len(left) = Len(q) + 1 /\ left[Len(left)] = e /\ \A i \in 1..Len(q) : q[i] = left[i]
      BY <1>4, <1>5
    <3> QED
      BY <1>4, <3>1, <3>2, AppendIs
  <2>2. Downgrade[2] = Downgrade_d873
    BY DEF Downgrade
  <2>3. Downgrade_d873 = q
    BY <1>2 DEF Downgrade_d873
  <2> QED
    BY <1>1, <2>1, <2>2, <2>3, Zenon
<1>7. Leads(SchemaAt[2], rows, left)
  BY <1>1, <1>2, Downgrade_d873_Leads
<1>8. RevisionIs(left, rows, 2, 1)
  BY <1>1, <1>4, <1>7 DEF RevisionIs
<1> QED
  BY <1>6, <1>8

\* The file of a017971fe447 and its stamp downgrade revision 3.
LEMMA Downgrade_a017_Is ==
    ASSUME NEW rows \in RowSpellings
    PROVE  RevisionIs(Append(Downgrade[3], Stamp(3, 2)), rows, 3, 2)
<1>1. PICK e \in Stamps : e = Stamp(3, 2) /\ e.from = 3 /\ e.to = 2
  BY StampIs DEF Latest
<1>2. PICK left, q :
         /\ left = <<DropCheck("agent"), DropCheck("run"), Rewrite("agent", "upper"),
                      Rewrite("run", "upper"), CreateCheck("agent", "upper"),
                      CreateCheck("run", "upper"), e>>
         /\ q = <<DropCheck("agent"), DropCheck("run"), Rewrite("agent", "upper"),
                      Rewrite("run", "upper"), CreateCheck("agent", "upper"),
                      CreateCheck("run", "upper")>>
  OBVIOUS
<1>3. /\ DropCheck("agent") \in Operations
      /\ DropCheck("run") \in Operations
      /\ Rewrite("agent", "upper") \in Operations
      /\ Rewrite("run", "upper") \in Operations
      /\ CreateCheck("agent", "upper") \in Operations
      /\ CreateCheck("run", "upper") \in Operations
  BY OperationsAre, TablesAre DEF Stored, Indexed, Spellings
<1>4. /\ left \in Seq(Statements) /\ Len(left) = 7 /\ left[7] = e
      /\ q \in Seq(Statements) /\ Len(q) = 6
  BY <1>2, <1>3 DEF Statements
<1>5. \A i \in 1..6 : q[i] = left[i]
  BY <1>2
<1>6. Append(Downgrade[3], Stamp(3, 2)) = left
  <2>1. Append(q, e) = left
    <3>1. e \in Statements
      BY DEF Statements
    <3>2. Len(left) = Len(q) + 1 /\ left[Len(left)] = e /\ \A i \in 1..Len(q) : q[i] = left[i]
      BY <1>4, <1>5
    <3> QED
      BY <1>4, <3>1, <3>2, AppendIs
  <2>2. Downgrade[3] = Downgrade_a017
    BY DEF Downgrade
  <2>3. Downgrade_a017 = q
    BY <1>2 DEF Downgrade_a017, Respelling
  <2> QED
    BY <1>1, <2>1, <2>2, <2>3, Zenon
<1>7. Leads(SchemaAt[3], rows, left)
  BY <1>1, <1>2, Downgrade_a017_Leads
<1>8. RevisionIs(left, rows, 3, 2)
  BY <1>1, <1>4, <1>7 DEF RevisionIs
<1> QED
  BY <1>6, <1>8

\* The file of c66309a8006e and its stamp downgrade revision 4.
LEMMA Downgrade_c663_Is ==
    ASSUME NEW rows \in RowSpellings, Arrived(SchemaAt[4], rows, 4)
    PROVE  RevisionIs(Append(Downgrade[4], Stamp(4, 3)), rows, 4, 3)
<1>1. PICK e \in Stamps : e = Stamp(4, 3) /\ e.from = 4 /\ e.to = 3
  BY StampIs DEF Latest
<1>2. PICK left, q :
         /\ left = <<DropTable("message"), DropIndex("event"), DropTable("event"), e>>
         /\ q = <<DropTable("message"), DropIndex("event"), DropTable("event")>>
  OBVIOUS
<1>3. /\ DropTable("message") \in Operations
      /\ DropIndex("event") \in Operations
      /\ DropTable("event") \in Operations
  BY OperationsAre, TablesAre DEF Stored, Indexed, Spellings
<1>4. /\ left \in Seq(Statements) /\ Len(left) = 4 /\ left[4] = e
      /\ q \in Seq(Statements) /\ Len(q) = 3
  BY <1>2, <1>3 DEF Statements
<1>5. \A i \in 1..3 : q[i] = left[i]
  BY <1>2
<1>6. Append(Downgrade[4], Stamp(4, 3)) = left
  <2>1. Append(q, e) = left
    <3>1. e \in Statements
      BY DEF Statements
    <3>2. Len(left) = Len(q) + 1 /\ left[Len(left)] = e /\ \A i \in 1..Len(q) : q[i] = left[i]
      BY <1>4, <1>5
    <3> QED
      BY <1>4, <3>1, <3>2, AppendIs
  <2>2. Downgrade[4] = Downgrade_c663
    BY DEF Downgrade
  <2>3. Downgrade_c663 = q
    BY <1>2 DEF Downgrade_c663
  <2> QED
    BY <1>1, <2>1, <2>2, <2>3, Zenon
<1>7. Leads(SchemaAt[4], rows, left)
  BY <1>1, <1>2, Downgrade_c663_Leads
<1>8. RevisionIs(left, rows, 4, 3)
  BY <1>1, <1>4, <1>7 DEF RevisionIs
<1> QED
  BY <1>6, <1>8

\* The file of 223032a0fa79 and its stamp downgrade revision 5.
LEMMA Downgrade_2230_Is ==
    ASSUME NEW rows \in RowSpellings, Arrived(SchemaAt[5], rows, 5)
    PROVE  RevisionIs(Append(Downgrade[5], Stamp(5, 4)), rows, 5, 4)
<1>1. PICK e \in Stamps : e = Stamp(5, 4) /\ e.from = 5 /\ e.to = 4
  BY StampIs DEF Latest
<1>2. PICK left, q :
         /\ left = <<DropIndex("message"), DropTable("iteration_record"),
                      DropTable("artifact"), e>>
         /\ q = <<DropIndex("message"), DropTable("iteration_record"),
                      DropTable("artifact")>>
  OBVIOUS
<1>3. /\ DropIndex("message") \in Operations
      /\ DropTable("iteration_record") \in Operations
      /\ DropTable("artifact") \in Operations
  BY OperationsAre, TablesAre DEF Stored, Indexed, Spellings
<1>4. /\ left \in Seq(Statements) /\ Len(left) = 4 /\ left[4] = e
      /\ q \in Seq(Statements) /\ Len(q) = 3
  BY <1>2, <1>3 DEF Statements
<1>5. \A i \in 1..3 : q[i] = left[i]
  BY <1>2
<1>6. Append(Downgrade[5], Stamp(5, 4)) = left
  <2>1. Append(q, e) = left
    <3>1. e \in Statements
      BY DEF Statements
    <3>2. Len(left) = Len(q) + 1 /\ left[Len(left)] = e /\ \A i \in 1..Len(q) : q[i] = left[i]
      BY <1>4, <1>5
    <3> QED
      BY <1>4, <3>1, <3>2, AppendIs
  <2>2. Downgrade[5] = Downgrade_2230
    BY DEF Downgrade
  <2>3. Downgrade_2230 = q
    BY <1>2 DEF Downgrade_2230
  <2> QED
    BY <1>1, <2>1, <2>2, <2>3, Zenon
<1>7. Leads(SchemaAt[5], rows, left)
  BY <1>1, <1>2, Downgrade_2230_Leads
<1>8. RevisionIs(left, rows, 5, 4)
  BY <1>1, <1>4, <1>7 DEF RevisionIs
<1> QED
  BY <1>6, <1>8

\* The next revision on the way starts where the last one left off.
LEMMA RevisionLeads ==
    ASSUME NEW i \in 0..Latest, NEW to \in 0..Latest, i # to, NEW rows \in RowSpellings,
           Arrived(SchemaAt[i], rows, i), i = 0 => \A t \in Stored : rows[t] = "any"
    PROVE  \E j \in 0..Latest : NextTo(i, j, to) /\ RevisionIs(Revision(i, to), rows, i, j)
<1>1. CASE i < to
  <2>1. Revision(i, to) = Append(Upgrade[i + 1], Stamp(i, i + 1))
    BY <1>1 DEF Revision
  <2>2. i + 1 \in 0..Latest /\ NextTo(i, i + 1, to)
    BY <1>1 DEF NextTo, Latest
  <2>3. RevisionIs(Append(Upgrade[i + 1], Stamp(i, i + 1)), rows, i, i + 1)
    <3>1. i = 0 \/ i = 1 \/ i = 2 \/ i = 3 \/ i = 4
      BY <1>1 DEF Latest
    <3>2. CASE i = 0
      BY <3>2, Upgrade_e211_Is
    <3>3. CASE i = 1
      BY <3>3, Upgrade_d873_Is
    <3>4. CASE i = 2
      BY <3>4, Upgrade_a017_Is
    <3>5. CASE i = 3
      BY <3>5, Upgrade_c663_Is
    <3>6. CASE i = 4
      BY <3>6, Upgrade_2230_Is
    <3> QED
      BY <3>1, <3>2, <3>3, <3>4, <3>5, <3>6
  <2> QED
    BY <2>1, <2>2, <2>3
<1>2. CASE i > to
  <2>1. Revision(i, to) = Append(Downgrade[i], Stamp(i, i - 1))
    <3>1. ~(i < to)
      BY <1>2 DEF Latest
    <3> QED
      BY <1>2, <3>1 DEF Revision
  <2>2. i - 1 \in 0..Latest /\ NextTo(i, i - 1, to)
    BY <1>2 DEF NextTo, Latest
  <2>3. RevisionIs(Append(Downgrade[i], Stamp(i, i - 1)), rows, i, i - 1)
    <3>1. i = 1 \/ i = 2 \/ i = 3 \/ i = 4 \/ i = 5
      BY <1>2 DEF Latest
    <3>2. CASE i = 1
      BY <3>2, Downgrade_e211_Is
    <3>3. CASE i = 2
      BY <3>3, Downgrade_d873_Is
    <3>4. CASE i = 3
      BY <3>4, Downgrade_a017_Is
    <3>5. CASE i = 4
      BY <3>5, Downgrade_c663_Is
    <3>6. CASE i = 5
      BY <3>6, Downgrade_2230_Is
    <3> QED
      BY <3>1, <3>2, <3>3, <3>4, <3>5, <3>6
  <2> QED
    BY <2>1, <2>2, <2>3
<1> QED
  BY <1>1, <1>2 DEF Latest

-----------------------------------------------------------------------------
(* The steps of one transaction, and the start.                            *)

\* One transaction moves, and if it writes rows they fit.
LEMMA OneMoves ==
    ASSUME MigrationsInv, NEW x \in Transactions, NEW r \in Tx, tx' = [tx EXCEPT ![x] = r],
           schema' = schema, version' = version,
           row' \in [Stored -> [Agents -> Rows \cup {NoRow}]], RowsFit',
           \A y \in Transactions \ {x} : Compatible(r.held, tx[y].held),
           Shape(x, r), ChangesAreLocked(r),
           x \in Migrators /\ r.kind = "migration" => Sound(r, version, schema),
           x \in Requests => WritesFit(r, schema)
    PROVE  MigrationsInv'
<1>1. tx' \in [Transactions -> Tx]
  BY DEF MigrationsInv
<1>2. tx'[x] = r /\ \A y \in Transactions : y # x => tx'[y] = tx[y]
  BY DEF MigrationsInv
<1>4. LocksExclude'
  <2> SUFFICES ASSUME NEW y \in Transactions, NEW z \in Transactions, y # z
               PROVE  Compatible(tx'[y].held, tx'[z].held)
    BY DEF LocksExclude
  <2>1. CASE y = x
    BY <1>2, <2>1
  <2>2. CASE z = x
    <3>1. Compatible(tx'[z].held, tx'[y].held)
      BY <1>2, <2>2
    <3>2. tx'[z].held \in [Lockable -> 0..4] /\ tx'[y].held \in [Lockable -> 0..4]
      BY <1>1 DEF Tx
    <3> QED
      BY <3>1, <3>2 DEF Compatible
  <2>3. CASE y # x /\ z # x
    BY <1>2, <2>3 DEF MigrationsInv, LocksExclude
  <2> QED
    BY <2>1, <2>2, <2>3
<1>5. \A y \in Transactions : Shape(y, tx'[y]) /\ ChangesAreLocked(tx'[y])
  BY <1>2 DEF MigrationsInv
<1>6. \A m \in Migrators : tx'[m].kind = "migration" => Sound(tx'[m], version', schema')
  BY <1>2 DEF MigrationsInv, Transactions
<1>7. \A h \in Requests : WritesFit(tx'[h], schema')
  BY <1>2 DEF MigrationsInv, Transactions
<1> QED
  BY <1>1, <1>4, <1>5, <1>6, <1>7 DEF MigrationsInv

\* A step on transactions alone leaves the rows fitting.
LEMMA RowsStay ==
    ASSUME MigrationsInv, UNCHANGED <<schema, row>>
    PROVE  row' \in [Stored -> [Agents -> Rows \cup {NoRow}]] /\ RowsFit'
BY DEF MigrationsInv, RowsFit

\* A transaction at rest holds, wants and has changed nothing.
LEMMA IdleIs ==
    /\ Idle \in Tx
    /\ Idle.kind = "none" /\ Idle.id = NoRow /\ Idle.to = 0 /\ Idle.left = <<>> /\ Idle.wants = NoTable
    /\ \A t \in Lockable : Idle.held[t] = 0
    /\ Idle.view = [t \in Tables |-> Same]
    /\ \A t \in Stored : Idle.spelt[t] = "same"
    /\ Idle.gone = {}
    /\ Idle.version = Same /\ Idle.stale = FALSE
<1>1. [t \in Lockable |-> 0] \in [Lockable -> 0..4]
  OBVIOUS
<1>2. [t \in Tables |-> Same] \in [Tables -> Cells \cup {Same}]
  OBVIOUS
<1>3. [t \in Stored |-> "same"] \in [Stored -> {"upper", "lower", "same"}]
  OBVIOUS
<1>4. <<>> \in Seq(Statements) /\ 0 \in 0..Latest
  BY DEF Latest
<1>5. Idle \in Tx
  BY <1>1, <1>2, <1>3, <1>4, Zenon DEF Idle, Tx
<1> QED
  BY <1>5 DEF Idle

\* A transaction that ends.
LEMMA Finished ==
    ASSUME MigrationsInv, NEW x \in Transactions, Finish(x), UNCHANGED <<schema, version>>,
           row' \in [Stored -> [Agents -> Rows \cup {NoRow}]], RowsFit'
    PROVE  MigrationsInv'
<1>1. Idle \in Tx /\ tx' = [tx EXCEPT ![x] = Idle]
  BY IdleIs DEF Finish
<1>2. \A y \in Transactions \ {x} : Compatible(Idle.held, tx[y].held)
  <2> SUFFICES ASSUME NEW y \in Transactions, NEW t \in Lockable
               PROVE  Idle.held[t] + tx[y].held[t] <= 4
    BY DEF Compatible
  <2>1. tx[y].held[t] \in 0..4
    BY DEF MigrationsInv, Tx
  <2> QED
    BY <2>1, IdleIs
<1>3. Shape(x, Idle) /\ ChangesAreLocked(Idle) /\ WritesFit(Idle, schema)
  <2>1. \A t \in Tables : Idle.view[t] = Same
    BY IdleIs
  <2> QED
    BY <2>1, IdleIs DEF Shape, ChangesAreLocked, WritesFit
<1>4. Idle.kind # "migration"
  BY IdleIs
<1> QED
  BY <1>1, <1>2, <1>3, <1>4, OneMoves

\* The invariant holds of the empty database.
LEMMA InitIsSound == Init => MigrationsInv
<1> SUFFICES ASSUME Init PROVE MigrationsInv
  OBVIOUS
<1>1. tx \in [Transactions -> Tx] /\ \A x \in Transactions : tx[x] = Idle
  BY IdleIs DEF Init
<1>2. row \in [Stored -> [Agents -> Rows \cup {NoRow}]]
  BY DEF Init
<1>3. version \in 0..Latest
  BY DEF Init, Latest
<1>4. schema = SchemaAt[version]
  <2>1. \A t \in Tables : SchemaAt[0][t] = Nothing
    <3> SUFFICES ASSUME NEW t \in Tables PROVE SchemaAt[0][t] = Nothing
      OBVIOUS
    <3>1. 0 < Since[t]
      BY TablesAre DEF Since
    <3> QED
      BY <3>1 DEF SchemaAt, Latest
  <2>2. SchemaAt[0] \in Catalogs
    BY SchemaProper DEF Latest, Proper
  <2> QED
    BY <2>1, <2>2 DEF Init, Catalogs
<1>5. RowsFit
  BY DEF Init, RowsFit, Stored
<1>6. LocksExclude
  <2> SUFFICES ASSUME NEW x \in Transactions, NEW y \in Transactions, NEW t \in Lockable
               PROVE  tx[x].held[t] + tx[y].held[t] <= 4
    BY DEF LocksExclude, Compatible
  <2>1. tx[x].held[t] = 0 /\ tx[y].held[t] = 0
    BY <1>1, IdleIs
  <2> QED
    BY <2>1
<1>7. \A x \in Transactions : Shape(x, tx[x]) /\ ChangesAreLocked(tx[x])
  <2>1. \A t \in Tables : Idle.view[t] = Same
    BY IdleIs
  <2> QED
    BY <1>1, <2>1, IdleIs DEF Shape, ChangesAreLocked
<1>8. \A m \in Migrators : tx[m].kind = "migration" => Sound(tx[m], version, schema)
  BY <1>1, IdleIs DEF Transactions
<1>9. \A h \in Requests : WritesFit(tx[h], schema)
  BY <1>1, IdleIs DEF Transactions, WritesFit
<1> QED
  BY <1>1, <1>2, <1>3, <1>4, <1>5, <1>6, <1>7, <1>8, <1>9 DEF MigrationsInv

-----------------------------------------------------------------------------
(* Statements and their locks.                                             *)

\* A transaction with statements left is in flight, and the first of them is a
\* statement.
LEMMA NextStatement ==
    ASSUME MigrationsInv, NEW x \in Transactions, tx[x].left # <<>>
    PROVE  /\ tx[x] \in Tx /\ tx[x].kind # "none"
           /\ tx[x].left \in Seq(Statements)
           /\ Head(tx[x].left) \in Statements
           /\ x \in Migrators <=> tx[x].kind = "migration"
           /\ x \in Requests <=> tx[x].kind # "migration"
<1>1. tx[x] \in Tx /\ Shape(x, tx[x])
  BY DEF MigrationsInv
<1>2. tx[x].left \in Seq(Statements) /\ Head(tx[x].left) \in Statements
  BY <1>1 DEF Tx
<1>3. tx[x].kind # "none"
  BY <1>1, IdleIs DEF Shape
<1> QED
  BY <1>1, <1>2, <1>3 DEF Shape, Transactions

\* A statement is an operation, a query or a stamp by what it does.
LEMMA StatementIs ==
    ASSUME NEW s \in Statements
    PROVE  /\ s \in Operations => s.on \in Tables
           /\ s.do \in {"create_table", "drop_table", "create_index", "drop_index",
                        "drop_check", "rewrite", "create_check"} <=> s \in Operations
           /\ s.do \in {"select", "insert", "update", "delete"} <=> s \in Queries
           /\ s.do = "stamp" <=> s \in Stamps
           /\ s.on \in Lockable
           /\ s \in Queries => s.on \in Stored
           /\ s \in Stamps => s.on = "alembic_version" /\ s.from \in 0..Latest /\ s.to \in 0..Latest
<1>1. CASE s \in Operations
  BY <1>1, TablesAre DEF Operations, Queries, Stamps
<1>2. CASE s \in Queries
  BY <1>2, TablesAre DEF Operations, Queries, Stamps
<1>3. CASE s \in Stamps
  BY <1>3, TablesAre DEF Operations, Queries, Stamps
<1> QED
  BY <1>1, <1>2, <1>3 DEF Statements

\* A demand that gives one level to the table of a statement and another to the
\* rest.
LEMMA LevelsAre ==
    ASSUME NEW on \in Lockable, NEW own \in 0..4, NEW others, NEW level \in 0..4, NEW d,
           d = [t \in Lockable |-> IF t = on THEN own ELSE IF t \in others THEN level ELSE 0]
    PROVE  (\A t \in Lockable : d[t] \in 0..4) /\ d[on] = own
OBVIOUS

\* How strong a lock a statement asks for on its own table.
Strong(s, k) ==
    /\ s.do \in {"insert", "update"} => k >= 2
    /\ s.do = "create_index" => k >= 3
    /\ s.do \in {"create_table", "drop_table", "drop_index", "drop_check", "create_check",
                 "stamp"} => k >= 4

\* A statement demands at least the lock that keeps others from its table.
LEMMA DemandIs ==
    ASSUME NEW x, NEW s \in Statements, s = Head(tx[x].left)
    PROVE  /\ \A t \in Lockable : Demand(x)[t] \in 0..4
           /\ Strong(s, Demand(x)[s.on])
<1>1. s.on \in Lockable
  BY StatementIs
<1>3. CASE s.do = "create_table"
  <2>1. Demand(x) = [t \in Lockable |-> IF t = s.on THEN 4 ELSE IF t \in Refs[s.on] THEN 3 ELSE 0]
    BY <1>3 DEF Demand
  <2>2. (\A t \in Lockable : Demand(x)[t] \in 0..4) /\ Demand(x)[s.on] = 4
    BY <1>1, <2>1, LevelsAre
  <2>3. Strong(s, 4)
    BY <1>3 DEF Strong
  <2> QED
    BY <2>2, <2>3
<1>4. CASE s.do = "drop_table"
  <2>1. Demand(x) = [t \in Lockable |-> IF t = s.on THEN 4 ELSE IF t \in Refs[s.on] THEN 4 ELSE 0]
    BY <1>4 DEF Demand
  <2>2. (\A t \in Lockable : Demand(x)[t] \in 0..4) /\ Demand(x)[s.on] = 4
    BY <1>1, <2>1, LevelsAre
  <2>3. Strong(s, 4)
    BY <1>4 DEF Strong
  <2> QED
    BY <2>2, <2>3
<1>5. CASE s.do = "create_index"
  <2>1. Demand(x) = [t \in Lockable |-> IF t = s.on THEN 3 ELSE IF t \in {} THEN 0 ELSE 0]
    BY <1>5 DEF Demand
  <2>2. (\A t \in Lockable : Demand(x)[t] \in 0..4) /\ Demand(x)[s.on] = 3
    BY <1>1, <2>1, LevelsAre
  <2>3. Strong(s, 3)
    BY <1>5 DEF Strong
  <2> QED
    BY <2>2, <2>3
<1>6. CASE s.do = "rewrite"
  <2>1. Demand(x) = [t \in Lockable |-> IF t = s.on THEN 2 ELSE IF t \in {} THEN 0 ELSE 0]
    BY <1>6 DEF Demand
  <2>2. (\A t \in Lockable : Demand(x)[t] \in 0..4) /\ Demand(x)[s.on] = 2
    BY <1>1, <2>1, LevelsAre
  <2>3. Strong(s, 2)
    BY <1>6 DEF Strong
  <2> QED
    BY <2>2, <2>3
<1>7. CASE s.do = "select"
  <2>1. Demand(x) = [t \in Lockable |-> IF t = s.on THEN 1 ELSE IF t \in {} THEN 0 ELSE 0]
    BY <1>7 DEF Demand
  <2>2. (\A t \in Lockable : Demand(x)[t] \in 0..4) /\ Demand(x)[s.on] = 1
    BY <1>1, <2>1, LevelsAre
  <2>3. Strong(s, 1)
    BY <1>7 DEF Strong
  <2> QED
    BY <2>2, <2>3
<1>8. CASE s.do \in {"insert", "update"}
  <2>1. Demand(x) = [t \in Lockable |-> IF t = s.on THEN 2 ELSE IF t \in Refs[s.on] THEN 1 ELSE 0]
    BY <1>8 DEF Demand
  <2>2. (\A t \in Lockable : Demand(x)[t] \in 0..4) /\ Demand(x)[s.on] = 2
    BY <1>1, <2>1, LevelsAre
  <2>3. Strong(s, 2)
    BY <1>8 DEF Strong
  <2> QED
    BY <2>2, <2>3
<1>9. CASE s.do = "delete"
  <2>1. Demand(x) = [t \in Lockable |-> IF t = s.on THEN 2
                             ELSE IF t \in IF row.agent[tx[x].id] = NoRow THEN {}
                                          ELSE {u \in Tables : schema[u] # Nothing}
                             THEN 2 ELSE 0]
    BY <1>9 DEF Demand
  <2>2. (\A t \in Lockable : Demand(x)[t] \in 0..4) /\ Demand(x)[s.on] = 2
    BY <1>1, <2>1, LevelsAre
  <2>3. Strong(s, 2)
    BY <1>9 DEF Strong
  <2> QED
    BY <2>2, <2>3
<1>10. CASE s.do \in {"drop_index", "drop_check", "create_check", "stamp"}
  <2>1. Demand(x) = [t \in Lockable |-> IF t = s.on THEN 4 ELSE IF t \in {} THEN 0 ELSE 0]
    BY <1>10 DEF Demand
  <2>2. (\A t \in Lockable : Demand(x)[t] \in 0..4) /\ Demand(x)[s.on] = 4
    BY <1>1, <2>1, LevelsAre
  <2>3. Strong(s, 4)
    BY <1>10 DEF Strong
  <2> QED
    BY <2>2, <2>3
<1>11. s.do \in {"create_table", "drop_table", "create_index", "drop_index", "drop_check",
               "rewrite", "create_check", "select", "insert", "update", "delete", "stamp"}
  BY StatementIs DEF Statements
<1> QED
  BY <1>11, <1>3, <1>4, <1>5, <1>6, <1>7, <1>8, <1>9, <1>10

\* Before it runs a statement has every lock it asks for.
LEMMA HasLocks ==
    ASSUME MigrationsInv, NEW x \in Transactions, tx[x].left # <<>>, Missing(x) = {},
           NEW s, s = Head(tx[x].left)
    PROVE  /\ s.on \in Lockable
           /\ tx[x].held[s.on] \in 0..4
           /\ Strong(s, tx[x].held[s.on])
<1>1. s \in Statements
  BY NextStatement
<1>2. s.on \in Lockable /\ Strong(s, Demand(x)[s.on]) /\ Demand(x)[s.on] \in 0..4
  BY <1>1, DemandIs, StatementIs
<1>3. tx[x].held[s.on] \in 0..4
  <2>1. PICK q \in Tx : q = tx[x]
    BY DEF MigrationsInv
  <2>2. q.held[s.on] \in 0..4
    BY <1>2 DEF Tx
  <2> QED
    BY <2>1, <2>2
<1>4. ~(tx[x].held[s.on] < Demand(x)[s.on])
  BY <1>2 DEF Missing
<1>5. PICK k \in 0..4, l \in 0..4 : k = Demand(x)[s.on] /\ l = tx[x].held[s.on]
  BY <1>2, <1>3
<1>6. Strong(s, k) /\ ~(l < k)
  BY <1>2, <1>4, <1>5
<1>7. Strong(s, l)
  BY <1>6 DEF Strong
<1> QED
  BY <1>2, <1>3, <1>5, <1>7

\* A lock that is missing is stronger than the one held.
LEMMA MissingIs ==
    ASSUME MigrationsInv, NEW x \in Transactions, tx[x].left # <<>>, NEW t \in Missing(x)
    PROVE  t \in Lockable /\ Demand(x)[t] \in 0..4 /\ tx[x].held[t] < Demand(x)[t]
<1>1. PICK s \in Statements : s = Head(tx[x].left)
  BY NextStatement
<1>2. t \in Lockable /\ tx[x].held[t] < Demand(x)[t]
  BY DEF Missing
<1> QED
  BY <1>1, <1>2, DemandIs

\* What is sound of a migration does not depend on its locks.
LEMMA SameSound ==
    ASSUME NEW s \in Tx, NEW r \in Tx, NEW v, NEW cat, Sound(s, v, cat),
           r.version = s.version, r.left = s.left, r.view = s.view, r.spelt = s.spelt,
           r.to = s.to, r.stale = s.stale
    PROVE  Sound(r, v, cat)
<1>1. Last(r) = Last(s) /\ Base(r, v) = Base(s, v)
  BY DEF Last, Base
<1>2. Expected(r, v) = Expected(s, v) /\ ExpectedRows(r, v) = ExpectedRows(s, v)
  BY <1>1 DEF Expected, ExpectedRows
<1>3. OnTheWay(r, v)
  BY <1>1, <1>2 DEF OnTheWay, Sound
<1>4. FromBase(r, cat)
  BY <1>1 DEF FromBase, Sound
<1> QED
  BY <1>1, <1>3, <1>4 DEF Sound

\* A lock is granted only where it conflicts with none.
LEMMA TakesLock ==
    ASSUME MigrationsInv, NEW x \in Transactions, TakeLock(x)
    PROVE  MigrationsInv'
<1>1. tx[x].left # <<>> /\ UNCHANGED <<schema, version, row>>
  BY DEF TakeLock
<1>2. PICK t \in Missing(x) :
        IF Blockers(x, t) = {}
        THEN tx' = [tx EXCEPT ![x].held[t] = Demand(x)[t], ![x].wants = NoTable]
        ELSE tx[x].wants = NoTable /\ tx' = [tx EXCEPT ![x].wants = t]
  BY DEF TakeLock
<1>3. /\ tx[x] \in Tx /\ tx[x].kind # "none"
      /\ t \in Lockable /\ Demand(x)[t] \in 0..4 /\ tx[x].held[t] < Demand(x)[t]
  BY <1>1, MissingIs, NextStatement
<1>4. PICK k \in 0..4 : k = Demand(x)[t]
  BY <1>3
<1>5. PICK s \in Tx : s = tx[x]
  BY <1>3
<1>6. /\ Shape(x, s) /\ ChangesAreLocked(s)
      /\ \A y \in Transactions \ {x} : Compatible(s.held, tx[y].held)
      /\ x \in Migrators /\ s.kind = "migration" => Sound(s, version, schema)
      /\ x \in Requests => WritesFit(s, schema)
  BY <1>5 DEF MigrationsInv, LocksExclude
<1>7. CASE Blockers(x, t) = {}
  <2>1. PICK r : r = [s EXCEPT !.held[t] = k, !.wants = NoTable]
    OBVIOUS
  <2>2. /\ r \in Tx /\ r.held = [s.held EXCEPT ![t] = k]
        /\ r.kind = s.kind /\ r.id = s.id /\ r.to = s.to /\ r.left = s.left /\ r.view = s.view
        /\ r.spelt = s.spelt /\ r.version = s.version /\ r.stale = s.stale
    BY <1>3, <2>1 DEF Tx
  <2>3. tx' = [tx EXCEPT ![x] = r]
    BY <1>2, <1>4, <1>5, <1>7, <2>1
  <2>4. \A u \in Lockable : r.held[u] = IF u = t THEN k ELSE s.held[u]
    BY <1>3, <2>2 DEF Tx
  <2>5. ASSUME NEW u \in Lockable PROVE r.held[u] \in 0..4 /\ s.held[u] \in 0..4 /\ r.held[u] >= s.held[u]
    BY <1>3, <1>4, <1>5, <2>2, <2>4 DEF Tx
  <2>6. ASSUME NEW y \in Transactions \ {x} PROVE Compatible(r.held, tx[y].held)
    <3> SUFFICES ASSUME NEW u \in Lockable PROVE r.held[u] + tx[y].held[u] <= 4
      BY DEF Compatible
    <3>1. tx[y].held[u] \in 0..4
      BY DEF MigrationsInv, Tx
    <3>2. CASE u = t
      <4>1. ~(k + tx[y].held[u] >= 5)
        BY <1>4, <1>7, <3>2 DEF Blockers
      <4> QED
        BY <2>4, <3>1, <3>2, <4>1
    <3>3. CASE u # t
      BY <1>6, <2>4, <3>3 DEF Compatible
    <3> QED
      BY <3>2, <3>3
  <2>7. Shape(x, r)
    BY <1>3, <1>5, <1>6, <2>2 DEF Shape, RequestShape
  <2>8. ChangesAreLocked(r)
    <3>1. ASSUME NEW u \in Tables, r.view[u] # Same PROVE r.held[u] >= 3
      BY <1>6, <2>2, <2>5, <3>1, TablesAre DEF ChangesAreLocked
    <3>2. r.version # Same => r.held["alembic_version"] = 4
      BY <1>6, <2>2, <2>5, TablesAre DEF ChangesAreLocked
    <3> QED
      BY <3>1, <3>2 DEF ChangesAreLocked
  <2>9. x \in Migrators /\ r.kind = "migration" => Sound(r, version, schema)
    BY <1>6, <2>2, SameSound
  <2>10. x \in Requests => WritesFit(r, schema)
    <3>1. \A u \in Stored : Wrote(s, schema, u) => Wrote(r, schema, u)
      BY <2>5, TablesAre DEF Wrote
    <3>2. "agent" \in Stored /\ "run" \in Stored
      BY DEF Stored
    <3> QED
      BY <1>6, <2>2, <3>1, <3>2 DEF WritesFit
  <2> QED
    BY <1>1, <2>2, <2>3, <2>6, <2>7, <2>8, <2>9, <2>10, OneMoves, RowsStay
<1>8. CASE Blockers(x, t) # {}
  <2>1. PICK r : r = [s EXCEPT !.wants = t]
    OBVIOUS
  <2>2. /\ r \in Tx /\ r.held = s.held
        /\ r.kind = s.kind /\ r.id = s.id /\ r.to = s.to /\ r.left = s.left /\ r.view = s.view
        /\ r.spelt = s.spelt /\ r.version = s.version /\ r.stale = s.stale
    BY <1>3, <2>1 DEF Tx
  <2>3. tx' = [tx EXCEPT ![x] = r]
    BY <1>2, <1>5, <1>8, <2>1
  <2>4. Shape(x, r)
    BY <1>3, <1>5, <1>6, <2>2 DEF Shape, RequestShape
  <2>5. ChangesAreLocked(r)
    BY <1>6, <2>2 DEF ChangesAreLocked
  <2>6. x \in Migrators /\ r.kind = "migration" => Sound(r, version, schema)
    BY <1>6, <2>2, SameSound
  <2>7. x \in Requests => WritesFit(r, schema)
    BY <1>6, <2>2 DEF WritesFit, Wrote
  <2>8. \A y \in Transactions \ {x} : Compatible(r.held, tx[y].held)
    BY <1>6, <2>2
  <2> QED
    BY <1>1, <2>2, <2>3, <2>4, <2>5, <2>6, <2>7, <2>8, OneMoves, RowsStay
<1> QED
  BY <1>7, <1>8

\* Nothing locked, nothing in the way of others.
LEMMA UnlockedIsCompatible ==
    ASSUME MigrationsInv, NEW r \in Tx, \A t \in Lockable : r.held[t] = 0
    PROVE  \A y \in Transactions : Compatible(r.held, tx[y].held)
<1> SUFFICES ASSUME NEW y \in Transactions, NEW t \in Lockable
             PROVE  r.held[t] + tx[y].held[t] <= 4
  BY DEF Compatible
<1>1. tx[y].held[t] \in 0..4
  BY DEF MigrationsInv, Tx
<1> QED
  BY <1>1

\* The spellings a migration that has rewritten nothing expects of the rows are
\* those the constraints ask for.
RowsAt(i) == [t \in Stored |-> IF There(SchemaAt[i][t]) THEN SchemaAt[i][t].check ELSE "any"]

\* The rows of a schema at rest fit it.
LEMMA RowsAtArrived ==
    ASSUME NEW i \in 0..Latest
    PROVE  /\ RowsAt(i) \in RowSpellings /\ Arrived(SchemaAt[i], RowsAt(i), i)
           /\ i = 0 => \A t \in Stored : RowsAt(i)[t] = "any"
<1>1. \A t \in Stored : SchemaAt[i][t] \in Cells
  BY SchemaIs, TablesAre
<1>2. RowsAt(i) \in RowSpellings
  BY <1>1, CellsAre DEF RowsAt, RowSpellings, There
<1>3. Arrived(SchemaAt[i], RowsAt(i), i)
  BY DEF Arrived, RowsAt
<1>4. i = 0 => \A t \in Stored : RowsAt(i)[t] = "any"
  <2> SUFFICES ASSUME i = 0, NEW t \in Stored PROVE RowsAt(i)[t] = "any"
    OBVIOUS
  <2>1. 0 < Since[t]
    BY DEF Since, Stored
  <2>2. SchemaAt[0][t].check = CheckAt(0, t)
    BY SchemaIs, TablesAre DEF Latest
  <2> QED
    BY <2>1, <2>2 DEF RowsAt, There, CheckAt
<1> QED
  BY <1>2, <1>3, <1>4

\* What a migration plans leads from the version it read to the next on its
\* way.
LEMMA MigrationBegins ==
    ASSUME MigrationsInv, NEW m \in Migrators, BeginMigration(m)
    PROVE  MigrationsInv'
<1>1. m \in Transactions /\ version \in 0..Latest /\ schema = SchemaAt[version]
      /\ UNCHANGED <<schema, version, row>>
  BY DEF Transactions, MigrationsInv, BeginMigration
<1>2. PICK target \in Targets[m] \ {version} :
        tx' = [tx EXCEPT ![m] = [Idle EXCEPT
            !.kind = "migration", !.to = target, !.left = Revision(version, target)]]
  BY DEF BeginMigration
<1>3. target \in 0..Latest /\ target # version
  BY TargetsAssumption
<1>4. PICK j \in 0..Latest :
        /\ NextTo(version, j, target)
        /\ RevisionIs(Revision(version, target), RowsAt(version), version, j)
  BY <1>1, <1>3, RowsAtArrived, RevisionLeads
<1>5. PICK left \in Seq(Statements) : left = Revision(version, target)
  BY <1>4 DEF RevisionIs
<1>6. /\ Len(left) > 1 /\ left[Len(left)] \in Stamps
      /\ left[Len(left)].from = version /\ left[Len(left)].to = j
      /\ Leads(SchemaAt[version], RowsAt(version), left)
  BY <1>4, <1>5 DEF RevisionIs
<1>7. PICK r : r = [Idle EXCEPT !.kind = "migration", !.to = target, !.left = left]
  OBVIOUS
<1>8. /\ r \in Tx /\ r.kind = "migration" /\ r.to = target /\ r.left = left
      /\ r.view = Idle.view /\ r.spelt = Idle.spelt /\ r.version = Same /\ r.stale = FALSE
      /\ r.held = Idle.held
  BY <1>3, <1>7, IdleIs DEF Tx
<1>9. tx' = [tx EXCEPT ![m] = r]
  BY <1>2, <1>5, <1>7
<1>10. \A y \in Transactions : Compatible(r.held, tx[y].held)
  BY <1>8, IdleIs, UnlockedIsCompatible
<1>11. \A t \in Tables : r.view[t] = Same
  BY <1>8, IdleIs
<1>12. Shape(m, r) /\ ChangesAreLocked(r)
  BY <1>8, <1>11, ProcessesAssumption DEF Shape, ChangesAreLocked
<1>13. Base(r, version) = version /\ Last(r) = left[Len(left)]
  BY <1>6, <1>8 DEF Base, Last
<1>14. Expected(r, version) = SchemaAt[version]
  <2>1. SchemaAt[version] \in Catalogs
    BY <1>1, SchemaProper DEF Proper
  <2> QED
    BY <1>11, <1>13, <2>1 DEF Expected, Catalogs
<1>15. ExpectedRows(r, version) = RowsAt(version)
  <2>1. \A t \in Stored : r.spelt[t] = "same"
    BY <1>8, IdleIs
  <2> QED
    BY <1>13, <2>1 DEF ExpectedRows, RowsAt
<1>16. Between(version, version, target)
  BY <1>1, <1>3 DEF Between, Latest
<1>17. r.left # <<>>
  BY <1>6, <1>8
<1>18. OnTheWay(r, version)
  BY <1>4, <1>6, <1>8, <1>13, <1>14, <1>15, <1>16, <1>17 DEF OnTheWay
<1>19. Sound(r, version, schema)
  BY <1>8, <1>11, <1>13, <1>18 DEF Sound, FromBase, Tables, Refs
<1> QED
  BY <1>1, <1>8, <1>9, <1>10, <1>12, <1>19, ProcessesAssumption, OneMoves, RowsStay

\* The statements of the requests.
LEMMA ProgramsAre ==
    /\ \A kind \in {"create", "start", "delete"} : Program(kind) \in Seq(Statements) /\ Program(kind) # <<>>
    /\ Len(Program("create")) = 1 /\ Len(Program("delete")) = 1 /\ Len(Program("start")) = 3
    /\ Tail(Program("create")) = <<>> /\ Tail(Program("delete")) = <<>>
    /\ Tail(Tail(Program("start"))) \in Seq(Statements) /\ Len(Tail(Tail(Program("start")))) = 1
    /\ Tail(Tail(Tail(Program("start")))) = <<>>
    /\ Tail(Program("start")) \in Seq(Statements) /\ Len(Tail(Program("start"))) = 2
    /\ Tail(Program("start")) # <<>> /\ Tail(Tail(Program("start"))) # <<>>
    /\ Tail(Program("start")) # Tail(Tail(Program("start")))
    /\ Head(Program("create")) = Statement("insert", "agent", "lower")
    /\ Head(Program("start")) = Statement("select", "agent", "none")
    /\ Head(Tail(Program("start"))) = Statement("update", "agent", "lower")
    /\ Head(Tail(Tail(Program("start")))) = Statement("insert", "run", "lower")
    /\ Head(Program("delete")) = Statement("delete", "agent", "none")
<1>1. PICK i, s, u, n, d \in Statements :
        /\ i = Statement("insert", "agent", "lower") /\ s = Statement("select", "agent", "none")
        /\ u = Statement("update", "agent", "lower") /\ n = Statement("insert", "run", "lower")
        /\ d = Statement("delete", "agent", "none")
  BY DEF Statement, Statements, Queries, Stored
<1>2. Program("create") = <<i>> /\ Program("start") = <<s, u, n>> /\ Program("delete") = <<d>>
  BY <1>1 DEF Program
<1>3. /\ <<i>> \in Seq(Statements) /\ <<i>> # <<>> /\ <<d>> \in Seq(Statements) /\ <<d>> # <<>>
      /\ <<s, u, n>> \in Seq(Statements) /\ <<s, u, n>> # <<>>
      /\ Len(<<i>>) = 1 /\ Len(<<d>>) = 1 /\ Len(<<s, u, n>>) = 3
      /\ Tail(<<i>>) = <<>> /\ Tail(<<d>>) = <<>>
      /\ Head(<<i>>) = i /\ Head(<<d>>) = d /\ Head(<<s, u, n>>) = s
  OBVIOUS
<1>4. Tail(<<s, u, n>>) = <<u, n>> /\ Tail(<<u, n>>) = <<n>> /\ Tail(<<n>>) = <<>>
  OBVIOUS
<1>5. /\ <<u, n>> \in Seq(Statements) /\ <<n>> \in Seq(Statements)
      /\ Len(<<u, n>>) = 2 /\ Len(<<n>>) = 1 /\ Head(<<u, n>>) = u /\ Head(<<n>>) = n
      /\ <<u, n>> # <<>> /\ <<n>> # <<>> /\ <<u, n>> # <<n>>
  OBVIOUS
<1> QED
  BY <1>1, <1>2, <1>3, <1>4, <1>5

\* A request begins with the statements of its route.
LEMMA RequestBegins ==
    ASSUME MigrationsInv, NEW h \in Requests, BeginRequest(h)
    PROVE  MigrationsInv'
<1>1. h \in Transactions /\ UNCHANGED <<schema, version, row>>
  BY DEF Transactions, BeginRequest
<1>2. PICK kind \in {"create", "start", "delete"}, a \in Agents :
        tx' = [tx EXCEPT ![h] = [Idle EXCEPT
              !.kind = kind, !.id = a, !.left = Program(kind)]]
  BY DEF BeginRequest
<1>3. PICK left \in Seq(Statements) : left = Program(kind) /\ left # <<>>
  BY ProgramsAre
<1>4. PICK r : r = [Idle EXCEPT !.kind = kind, !.id = a, !.left = left]
  OBVIOUS
<1>5. /\ r \in Tx /\ r.kind = kind /\ r.id = a /\ r.left = left
      /\ r.view = Idle.view /\ r.version = Same /\ r.held = Idle.held
  BY <1>4, IdleIs DEF Tx
<1>6. tx' = [tx EXCEPT ![h] = r]
  BY <1>2, <1>3, <1>4
<1>7. \A y \in Transactions : Compatible(r.held, tx[y].held)
  BY <1>5, IdleIs, UnlockedIsCompatible
<1>8. \A t \in Tables : r.view[t] = Same
  BY <1>5, IdleIs
<1>9. RequestShape(r)
  BY <1>3, <1>5, IdleIs DEF RequestShape
<1>10. Shape(h, r) /\ ChangesAreLocked(r)
  BY <1>5, <1>8, <1>9, ProcessesAssumption DEF Shape, ChangesAreLocked
<1>11. WritesFit(r, schema)
  <2>1. kind = "start" => Len(left) = 3 /\ Len(Tail(Tail(Program("start")))) = 1
    BY <1>3, ProgramsAre
  <2>2. kind = "start" => left # Tail(Tail(Program("start")))
    BY <2>1, SMTT(30)
  <2> QED
    BY <1>3, <1>5, <2>2 DEF WritesFit
<1> QED
  BY <1>1, <1>5, <1>6, <1>7, <1>10, <1>11, ProcessesAssumption, OneMoves, RowsStay

\* A write of a request that the catalog does not refuse finds the lower
\* spelling in force, and the request has locked the table.
LEMMA WriteFits ==
    ASSUME MigrationsInv, NEW h \in Requests, Executable(h),
           NEW s, s = Head(tx[h].left), s.do \in {"insert", "update"}, s.spelling = "lower",
           s.on \in Stored
    PROVE  Wrote(tx[h], schema, s.on)
<1>1. h \in Transactions /\ tx[h].left # <<>> /\ Missing(h) = {} /\ ~Breaks(h)
  BY DEF Executable, Transactions
<1>2. PICK k \in 0..4 : k = tx[h].held[s.on]
  BY <1>1, HasLocks
<1>3. k >= 2
  <2>1. Strong(s, k)
    BY <1>1, <1>2, HasLocks
  <2> QED
    BY <2>1 DEF Strong
<1>4. tx[h].view[s.on] = Same
  <2>1. tx[h].kind # "none" /\ Shape(h, tx[h])
    BY <1>1, NextStatement DEF MigrationsInv
  <2> QED
    BY <2>1, TablesAre DEF Shape, RequestShape
<1>5. schema[s.on].check \in {"lower", "none"}
  BY <1>1, <1>4 DEF Breaks, Sees
<1>6. version \in 0..Latest /\ schema = SchemaAt[version]
  BY DEF MigrationsInv
<1>7. schema[s.on].check # "none"
  <2>1. schema[s.on].check = CheckAt(version, s.on)
    BY <1>6, SchemaIs, TablesAre
  <2> QED
    BY <2>1 DEF CheckAt
<1> QED
  BY <1>2, <1>3, <1>5, <1>7 DEF Wrote

\* A write of a request finds the constraint at the lower spelling.
LEMMA StatementRuns ==
    ASSUME MigrationsInv, NEW h \in Transactions, RunStatement(h)
    PROVE  MigrationsInv'
<1>1. /\ tx[h].kind # "migration" /\ Executable(h) /\ tx[h].left # <<>>
      /\ tx' = [tx EXCEPT ![h].left = Tail(@)]
      /\ UNCHANGED <<schema, version, row>>
  BY DEF RunStatement, Executable
<1>2. /\ tx[h] \in Tx /\ tx[h].kind # "none" /\ h \in Requests
  BY <1>1, NextStatement
<1>3. PICK s \in Tx : s = tx[h]
  BY <1>2
<1>4. /\ Shape(h, s) /\ ChangesAreLocked(s) /\ WritesFit(s, schema)
      /\ \A y \in Transactions \ {h} : Compatible(s.held, tx[y].held)
  BY <1>2, <1>3 DEF MigrationsInv, LocksExclude
<1>5. RequestShape(s) /\ s.kind \in {"create", "start", "delete"} /\ s.left # <<>>
  BY <1>1, <1>2, <1>3, <1>4 DEF Shape, Tx
<1>6. PICK left \in Seq(Statements) : left = Tail(s.left)
  <2>1. PICK q \in Seq(Statements) : q = s.left
    BY DEF Tx
  <2>2. Tail(q) \in Seq(Statements)
    BY <1>5, <2>1
  <2> QED
    BY <2>1, <2>2
<1>7. PICK r : r = [s EXCEPT !.left = left]
  OBVIOUS
<1>8. /\ r \in Tx /\ r.left = left /\ r.held = s.held
      /\ r.kind = s.kind /\ r.id = s.id /\ r.to = s.to /\ r.view = s.view
      /\ r.spelt = s.spelt /\ r.version = s.version /\ r.stale = s.stale
  BY <1>7 DEF Tx
<1>9. tx' = [tx EXCEPT ![h] = r]
  BY <1>1, <1>3, <1>6, <1>7
<1>10. /\ s.kind = "create" => s.left = Program("create") /\ left = <<>>
       /\ s.kind = "delete" => s.left = Program("delete") /\ left = <<>>
       /\ s.kind = "start" =>
             \/ s.left = Program("start") /\ left = Tail(Program("start"))
             \/ s.left = Tail(Program("start")) /\ left = Tail(Tail(Program("start")))
             \/ s.left = Tail(Tail(Program("start"))) /\ left = <<>>
  BY <1>5, <1>6, ProgramsAre DEF RequestShape
<1>11. RequestShape(r)
  BY <1>4, <1>5, <1>8, <1>10 DEF RequestShape
<1>12. Shape(h, r) /\ ChangesAreLocked(r)
  BY <1>2, <1>4, <1>5, <1>8, <1>11, ProcessesAssumption DEF Shape, ChangesAreLocked
<1>13. WritesFit(r, schema)
  <2>1. \A t \in Stored : Wrote(s, schema, t) => Wrote(r, schema, t)
    BY <1>8 DEF Wrote
  <2>2. "agent" \in Stored /\ "run" \in Stored
    BY DEF Stored
  <2>3. s.kind = "create" => Wrote(s, schema, "agent")
    <3> SUFFICES ASSUME s.kind = "create" PROVE Wrote(s, schema, "agent")
      OBVIOUS
    <3>1. Head(tx[h].left) = Statement("insert", "agent", "lower")
      BY <1>3, <1>10, ProgramsAre
    <3> QED
      BY <1>1, <1>2, <1>3, <2>2, <3>1, WriteFits DEF Statement
  <2>4. s.kind = "start" /\ s.left = Tail(Program("start")) => Wrote(s, schema, "agent")
    <3> SUFFICES ASSUME s.kind = "start", s.left = Tail(Program("start"))
                 PROVE  Wrote(s, schema, "agent")
      OBVIOUS
    <3>1. Head(tx[h].left) = Statement("update", "agent", "lower")
      BY <1>3, ProgramsAre
    <3> QED
      BY <1>1, <1>2, <1>3, <2>2, <3>1, WriteFits DEF Statement
  <2>5. s.kind = "start" /\ s.left = Tail(Tail(Program("start"))) =>
           Wrote(s, schema, "agent") /\ Wrote(s, schema, "run")
    <3> SUFFICES ASSUME s.kind = "start", s.left = Tail(Tail(Program("start")))
                 PROVE  Wrote(s, schema, "agent") /\ Wrote(s, schema, "run")
      OBVIOUS
    <3>1. Head(tx[h].left) = Statement("insert", "run", "lower")
      BY <1>3, ProgramsAre
    <3>2. Wrote(s, schema, "run")
      BY <1>1, <1>2, <1>3, <2>2, <3>1, WriteFits DEF Statement
    <3> QED
      BY <1>4, <3>2 DEF WritesFit
  <2>6. s.kind = "start" /\ s.left = Program("start") => left # <<>> /\ left # Tail(Tail(Program("start")))
    <3> SUFFICES ASSUME s.kind = "start", s.left = Program("start")
                 PROVE  left # <<>> /\ left # Tail(Tail(Program("start")))
      OBVIOUS
    <3>1. left = Tail(Program("start"))
      BY <1>6
    <3> QED
      BY <3>1, ProgramsAre
  <2>7. s.kind = "start" /\ left \in {<<>>, Tail(Tail(Program("start")))} => Wrote(r, schema, "agent")
    BY <1>10, <2>1, <2>2, <2>4, <2>5, <2>6
  <2>8. s.kind = "start" /\ left = <<>> => Wrote(r, schema, "run")
    BY <1>10, <2>1, <2>2, <2>5, ProgramsAre
  <2> QED
    BY <1>8, <2>1, <2>2, <2>3, <2>7, <2>8 DEF WritesFit
<1>14. h \notin Migrators
  BY <1>2, ProcessesAssumption
<1> QED
  BY <1>1, <1>4, <1>8, <1>9, <1>12, <1>13, <1>14, OneMoves, RowsStay

-----------------------------------------------------------------------------
(* An operation of a revision.                                             *)

\* An operation that is not refused leaves its table the same whether it was
\* as expected before or not.
LEMMA ActsAlike ==
    ASSUME NEW s \in Operations, ProperOperation(s), s.do # "rewrite",
           NEW c \in Cells, NEW d \in Cells, ProperCell(s.on, c), ProperCell(s.on, d),
           s.do = "create_index" => c # Nothing /\ There(d),
           s.do = "drop_index" => c.index # "none" /\ d.index # "none"
    PROVE  TableAfter(s, c) = TableAfter(s, d)
<1>1. CASE s.do \in {"create_table", "drop_table"}
  BY <1>1 DEF TableAfter
<1>2. CASE s.do \in {"create_index", "drop_index"}
  <2>1. s.on \in Indexed /\ s.on \notin Stored
    BY <1>2 DEF ProperOperation, Indexed, Stored
  <2>2. c.check = "none" /\ d.check = "none"
    BY <1>2, <2>1, NothingIs DEF ProperCell, There
  <2>3. PICK a \in Cells, b \in Cells : a = TableAfter(s, c) /\ b = TableAfter(s, d)
    BY TableAfterType
  <2>4. a.check = c.check /\ b.check = d.check /\ a.index = b.index
    BY <1>2, <2>3, TableAfterIs
  <2> QED
    BY <2>2, <2>3, <2>4, CellsAre
<1>3. CASE s.do \in {"drop_check", "create_check"}
  <2>1. s.on \in Stored /\ s.on \notin Indexed
    BY <1>3 DEF ProperOperation, Indexed, Stored
  <2>2. c.index = "none" /\ d.index = "none"
    BY <2>1 DEF ProperCell
  <2>3. PICK a \in Cells, b \in Cells : a = TableAfter(s, c) /\ b = TableAfter(s, d)
    BY TableAfterType
  <2>4. a.check = b.check /\ a.index = c.index /\ b.index = d.index
    BY <1>3, <2>3, TableAfterIs
  <2> QED
    BY <2>2, <2>3, <2>4, CellsAre
<1> QED
  BY <1>1, <1>2, <1>3 DEF Operations

\* What is known of the next operation of a migration.
LEMMA NextOperation ==
    ASSUME NEW s \in Tx, NEW v, NEW cat, Sound(s, v, cat), Len(s.left) > 1,
           NEW op, op = Head(s.left)
    PROVE  /\ op \in Operations /\ ProperOperation(op) /\ op.on \in Tables
           /\ Proper(Expected(s, v)) /\ ExpectedRows(s, v) \in RowSpellings
           /\ Fits(Expected(s, v), ExpectedRows(s, v), op)
           /\ Leads(CatalogAfter(Expected(s, v), op), RowsAfter(ExpectedRows(s, v), op), Tail(s.left))
           /\ Tail(s.left) \in Seq(Statements) /\ Tail(s.left) # <<>> /\ s.left # <<>>
           /\ Tail(s.left)[Len(Tail(s.left))] = Last(s)
<1>1. PICK left \in Seq(Statements), n \in Nat : left = s.left /\ n = Len(left) /\ n > 1
  BY DEF Tx
<1>2. /\ Tail(left) \in Seq(Statements) /\ Len(Tail(left)) = n - 1
      /\ \A k \in 1..(n - 1) : Tail(left)[k] = left[k + 1]
      /\ Tail(left) # <<>> /\ left # <<>>
  BY <1>1, TailIs
<1>3. Leads(Expected(s, v), ExpectedRows(s, v), left)
  BY <1>1, <1>2 DEF Sound, OnTheWay
<1>4. /\ Proper(Expected(s, v)) /\ ExpectedRows(s, v) \in RowSpellings
      /\ op \in Operations /\ ProperOperation(op)
      /\ Fits(Expected(s, v), ExpectedRows(s, v), op)
      /\ Leads(CatalogAfter(Expected(s, v), op), RowsAfter(ExpectedRows(s, v), op), Tail(left))
  BY <1>1, <1>3, LeadsOn
<1>5. Tail(left)[n - 1] = left[n]
  <2>1. n - 1 \in 1..(n - 1) /\ n - 1 + 1 = n
    BY <1>1
  <2> QED
    BY <1>2, <2>1
<1>6. op.on \in Tables
  BY <1>4 DEF Operations
<1> QED
  BY <1>1, <1>2, <1>4, <1>5, <1>6 DEF Last

\* What operation op makes of migration s: it finds its table to be c and is not
\* refused.
Finds(s, cat, op, c) ==
    /\ c = IF s.view[op.on] = Same THEN cat[op.on] ELSE s.view[op.on]
    /\ op.do = "create_table" => c = Nothing
    /\ op.do = "create_index" => c # Nothing
    /\ op.do = "drop_index" => c.index # "none"
Becomes(s, op, c, r) ==
    /\ r.gone = IF op.do = "drop_table" THEN s.gone \cup ({op.on} \cap Stored) ELSE s.gone
    /\ r.left = Tail(s.left) /\ r.to = s.to /\ r.version = s.version /\ r.stale = s.stale
    /\ op.do = "rewrite" => r.view = s.view /\ r.spelt = [s.spelt EXCEPT ![op.on] = op.spelling]
    /\ op.do # "rewrite" => r.view = [s.view EXCEPT ![op.on] = TableAfter(op, c)] /\ r.spelt = s.spelt

\* A migration that runs an operation has one less to go on the same way.
LEMMA OperationKeepsSound ==
    ASSUME NEW s \in Tx, NEW v \in 0..Latest, NEW cat, cat = SchemaAt[v], Sound(s, v, cat),
           Len(s.left) > 1, NEW op \in Operations, op = Head(s.left), NEW r \in Tx,
           NEW c \in Cells, Finds(s, cat, op, c), Becomes(s, op, c, r)
    PROVE  Sound(r, v, cat)
<1> DEFINE E == Expected(s, v)
           R == ExpectedRows(s, v)
<1>0. r.left = Tail(s.left) /\ r.to = s.to /\ r.version = s.version /\ r.stale = s.stale
  BY DEF Becomes
<1>1. /\ op \in Operations /\ ProperOperation(op) /\ op.on \in Tables
      /\ Proper(E) /\ R \in RowSpellings /\ Fits(E, R, op)
      /\ Leads(CatalogAfter(E, op), RowsAfter(R, op), r.left)
      /\ r.left # <<>> /\ s.left # <<>> /\ Last(r) = Last(s)
  BY <1>0, NextOperation DEF Last
<1>2. Base(r, v) = Base(s, v)
  BY <1>0, <1>1 DEF Base
<1>3. PICK b \in 0..Latest : b = Base(s, v)
  BY <1>1 DEF Base, Sound, OnTheWay, Stamps
<1>4. \A t \in Tables : E[t] = IF s.view[t] = Same THEN SchemaAt[b][t] ELSE s.view[t]
  BY <1>3 DEF Expected
<1>5. ProperCell(op.on, c)
  <2>1. CASE s.view[op.on] = Same
    BY <1>1, <2>1, SchemaProper DEF Proper, ProperCell, Finds
  <2>2. CASE s.view[op.on] # Same
    <3>1. c = E[op.on]
      BY <1>1, <1>4, <2>2 DEF Finds
    <3> QED
      BY <1>1, <3>1 DEF Proper, ProperCell
  <2> QED
    BY <2>1, <2>2
<1>6. E[op.on] \in Cells /\ ProperCell(op.on, E[op.on])
  BY <1>1 DEF Proper, ProperCell
<1>7. op.do # "rewrite" => TableAfter(op, c) = TableAfter(op, E[op.on])
  <2>1. op.do = "create_index" => There(E[op.on])
    BY <1>1 DEF Fits
  <2>2. op.do = "drop_index" => E[op.on].index # "none"
    BY <1>1 DEF Fits
  <2>3. PICK e \in Cells : e = E[op.on]
    BY <1>6
  <2>4. /\ ProperOperation(op) /\ ProperCell(op.on, c) /\ ProperCell(op.on, e)
        /\ op.do = "create_index" => c # Nothing /\ There(e)
        /\ op.do = "drop_index" => c.index # "none" /\ e.index # "none"
    BY <1>1, <1>5, <1>6, <2>1, <2>2, <2>3 DEF Finds
  <2>5. op.do # "rewrite" => TableAfter(op, c) = TableAfter(op, e)
    BY <2>4, ActsAlike
  <2> QED
    BY <2>3, <2>5
<1>8. op.do = "rewrite" => TableAfter(op, E[op.on]) = E[op.on]
  BY DEF TableAfter
<1>9. \A t \in Tables : CatalogAfter(E, op)[t] = IF t = op.on THEN TableAfter(op, E[t]) ELSE E[t]
  BY <1>1, AfterProper
<1>10. CatalogAfter(E, op) \in Catalogs
  BY <1>1, AfterProper DEF Proper
<1>11. TableAfter(op, c) # Same
  <2>1. TableAfter(op, c) \in Cells
    BY <1>1, TableAfterType
  <2> QED
    BY <2>1, CellsAre
<1>12. Expected(r, v) = CatalogAfter(E, op)
  <2>1. ASSUME NEW t \in Tables
        PROVE  (IF r.view[t] = Same THEN SchemaAt[b][t] ELSE r.view[t]) = CatalogAfter(E, op)[t]
    <3>1. CASE op.do = "rewrite"
      BY <1>4, <1>8, <1>9, <3>1 DEF Becomes
    <3>2. CASE op.do # "rewrite" /\ t = op.on
      <4>1. r.view[t] = TableAfter(op, c)
        BY <1>1, <3>2 DEF Tx, Becomes
      <4> QED
        BY <1>7, <1>9, <1>11, <3>2, <4>1
    <3>3. CASE op.do # "rewrite" /\ t # op.on
      <4>1. r.view[t] = s.view[t]
        BY <1>1, <3>3 DEF Tx, Becomes
      <4> QED
        BY <1>4, <1>9, <3>3, <4>1
    <3> QED
      BY <3>1, <3>2, <3>3
  <2>2. Expected(r, v) = [t \in Tables |-> CatalogAfter(E, op)[t]]
    BY <1>2, <1>3, <2>1 DEF Expected
  <2> QED
    BY <1>10, <2>2 DEF Catalogs
<1>13. ExpectedRows(r, v) = RowsAfter(R, op)
  <2>1. CASE op.do # "rewrite"
    BY <1>2, <2>1 DEF ExpectedRows, RowsAfter, Becomes
  <2>2. CASE op.do = "rewrite"
    <3>1. op.on \in Stored /\ op.spelling # "same"
      BY <1>1, <2>2 DEF ProperOperation, Spellings
    <3>2. \A t \in Stored : r.spelt[t] = IF t = op.on THEN op.spelling ELSE s.spelt[t]
      BY <2>2, <3>1 DEF Tx, Becomes
    <3>3. RowsAfter(R, op) = [R EXCEPT ![op.on] = op.spelling]
      BY <2>2 DEF RowsAfter
    <3>4. \A t \in Stored : RowsAfter(R, op)[t] = IF t = op.on THEN op.spelling ELSE R[t]
      BY <1>1, <3>3 DEF RowSpellings
    <3>5. RowsAfter(R, op) \in RowSpellings
      BY <1>1, RowsAfterType
    <3>6. ASSUME NEW t \in Stored PROVE ExpectedRows(r, v)[t] = RowsAfter(R, op)[t]
      BY <1>2, <3>1, <3>2, <3>4 DEF ExpectedRows
    <3>7. DOMAIN ExpectedRows(r, v) = Stored /\ ExpectedRows(r, v) = [t \in Stored |-> ExpectedRows(r, v)[t]]
      BY DEF ExpectedRows
    <3> QED
      BY <3>5, <3>6, <3>7 DEF RowSpellings
  <2> QED
    BY <2>1, <2>2
<1>14. OnTheWay(r, v)
  <2>1. Leads(Expected(r, v), ExpectedRows(r, v), r.left)
    BY <1>1, <1>12, <1>13
  <2> QED
    BY <1>0, <1>1, <1>2, <2>1 DEF OnTheWay, Sound
<1>15. FromBase(r, cat)
  <2> SUFFICES ASSUME r.version = Same, Last(r).from = 0, r.view["agent"] # Same
               PROVE  cat["agent"] = Nothing
    BY DEF FromBase
  <2>1. CASE s.view["agent"] # Same
    BY <1>0, <1>1, <2>1 DEF Sound, FromBase
  <2>2. CASE s.view["agent"] = Same
    <3>1. op.do # "rewrite" /\ op.on = "agent"
      BY <1>1, <2>2, TablesAre DEF Tx, Becomes
    <3>2. b = 0
      BY <1>0, <1>1, <1>3 DEF Base
    <3>3. E["agent"].check = "no_table" /\ E["agent"].index = "none"
      <4>1. E["agent"] = SchemaAt[0]["agent"]
        BY <1>4, <2>2, <3>2, TablesAre
      <4> QED
        BY <4>1, SchemaColumns DEF Columns, Has
    <3>4. op.do = "create_table"
      BY <1>1, <3>1, <3>3 DEF Fits, There, Spellings, Operations
    <3> QED
      BY <2>2, <3>1, <3>4 DEF Finds
  <2> QED
    BY <2>1, <2>2
<1> QED
  BY <1>0, <1>2, <1>14, <1>15 DEF Sound

-----------------------------------------------------------------------------
(* The stamp at the end of a revision.                                     *)

\* The stamp finds the version the revision was planned from.
LEMMA StampFindsBase ==
    ASSUME NEW s \in Tx, NEW v \in 0..Latest, NEW cat, cat = SchemaAt[v], Sound(s, v, cat),
           Len(s.left) = 1, NEW e \in Stamps, e = Head(s.left),
           e.from # 0 => (IF s.version = Same THEN v ELSE s.version) = e.from
    PROVE  /\ s.left # <<>> /\ e = Last(s) /\ Base(s, v) = v
           /\ Arrived(Expected(s, v), ExpectedRows(s, v), e.to)
           /\ ExpectedRows(s, v) \in RowSpellings
<1>1. s.left # <<>> /\ e = s.left[1] /\ e = Last(s)
  <2>1. PICK left \in Seq(Statements) : left = s.left
    BY DEF Tx
  <2>2. left # <<>> /\ Head(left) = left[1]
    BY <2>1
  <2> QED
    BY <2>1, <2>2 DEF Last
<1>2. Leads(Expected(s, v), ExpectedRows(s, v), s.left) /\ NextTo(e.from, e.to, s.to)
  BY <1>1 DEF Sound, OnTheWay
<1>3. Arrived(Expected(s, v), ExpectedRows(s, v), e.to) /\ ExpectedRows(s, v) \in RowSpellings
  BY <1>1, <1>2, LeadsToStamp
<1>4. Base(s, v) = v
  <2>1. CASE s.version # Same
    BY <2>1 DEF Base
  <2>2. CASE s.version = Same /\ e.from # 0
    BY <1>1, <2>2 DEF Base
  <2>3. CASE s.version = Same /\ e.from = 0
    <3>1. e.to \in 0..Latest /\ s.to \in 0..Latest
      BY DEF Stamps, Tx
    <3>2. e.to = 1
      BY <1>2, <2>3, <3>1 DEF NextTo, Latest
    <3>3. Expected(s, v) = SchemaAt[1]
      BY <1>3, <3>2 DEF Arrived
    <3>4. Base(s, v) = 0
      BY <1>1, <2>3 DEF Base
    <3>5. s.view["agent"] # Same
      <4> SUFFICES ASSUME s.view["agent"] = Same PROVE FALSE
        OBVIOUS
      <4>1. Expected(s, v)["agent"] = SchemaAt[0]["agent"]
        BY <3>4, TablesAre DEF Expected
      <4>2. SchemaAt[0]["agent"].check = "no_table" /\ SchemaAt[1]["agent"].check = "upper"
        BY SchemaColumns DEF Columns, Has
      <4> QED
        BY <3>3, <4>1, <4>2
    <3>6. cat["agent"] = Nothing
      BY <1>1, <2>3, <3>5 DEF Sound, FromBase
    <3>7. v = 0
      <4>1. SchemaAt[v]["agent"].check = CheckAt(v, "agent") /\ "agent" \in Stored /\ Since["agent"] = 1
        BY SchemaIs, TablesAre DEF Stored, Since
      <4>2. SchemaAt[v]["agent"].check = "no_table"
        BY <3>6, PlainIs
      <4>3. v < 1
        BY <4>1, <4>2 DEF CheckAt
      <4> QED
        BY <4>3
    <3> QED
      BY <3>4, <3>7
  <2> QED
    BY <2>1, <2>2, <2>3
<1> QED
  BY <1>1, <1>3, <1>4

\* At its stamp a migration has arrived, and plans on from there.
LEMMA StampKeepsSound ==
    ASSUME NEW s \in Tx, NEW v \in 0..Latest, NEW cat, cat = SchemaAt[v], Sound(s, v, cat),
           Len(s.left) = 1, NEW e \in Stamps, e = Head(s.left),
           e.from # 0 => (IF s.version = Same THEN v ELSE s.version) = e.from,
           NEW r, r = [s EXCEPT !.left = Revision(e.to, s.to), !.version = e.to]
    PROVE  r \in Tx /\ Sound(r, v, cat)
<1>1. /\ s.left # <<>> /\ e = Last(s) /\ Base(s, v) = v
      /\ Arrived(Expected(s, v), ExpectedRows(s, v), e.to)
      /\ ExpectedRows(s, v) \in RowSpellings
  BY StampFindsBase
<1>2. /\ NextTo(e.from, e.to, s.to) /\ Between(v, e.from, s.to)
      /\ e.from \in 0..Latest /\ e.to \in 0..Latest /\ s.to \in 0..Latest
  BY <1>1 DEF Sound, OnTheWay, Stamps, Tx
<1>3. e.to # Same
  BY <1>2, MarksAssumption DEF MarksAreNew
<1>4. CASE e.to = s.to
  <2>1. PICK left : left = <<>>
    OBVIOUS
  <2>2. left \in Seq(Statements)
    BY <2>1
  <2>3. Revision(e.to, s.to) = left
    <3>1. PICK i \in 0..Latest : i = e.to /\ i = s.to
      BY <1>2, <1>4
    <3>2. ~(i < i) /\ ~(i > i)
      BY DEF Latest
    <3>3. Revision(i, i) = left
      BY <2>1, <3>2 DEF Revision
    <3> QED
      BY <3>1, <3>3
  <2>4. /\ r \in Tx /\ r.left = <<>> /\ r.version = e.to /\ r.to = s.to /\ r.view = s.view
        /\ r.spelt = s.spelt /\ r.stale = s.stale
    BY <1>2, <2>3, <2>1, <2>2 DEF Tx
  <2>5. Base(r, v) = v
    BY <1>3, <2>4 DEF Base
  <2>6. Expected(r, v) = Expected(s, v) /\ ExpectedRows(r, v) = ExpectedRows(s, v)
    <3>1. r.view = s.view /\ r.spelt = s.spelt /\ Base(r, v) = Base(s, v)
      BY <1>1, <2>4, <2>5
    <3>2. Expected(r, v) = Expected(s, v)
      BY <3>1 DEF Expected
    <3>3. ExpectedRows(r, v) = ExpectedRows(s, v)
      BY <3>1 DEF ExpectedRows
    <3> QED
      BY <3>2, <3>3
  <2>7. OnTheWay(r, v)
    BY <1>1, <1>4, <2>4, <2>6 DEF OnTheWay
  <2> QED
    BY <2>4, <2>5, <2>7 DEF Sound, FromBase
<1>5. CASE e.to # s.to
  <2>1. e.to # 0
    BY <1>2, <1>5 DEF NextTo, Latest
  <2>2. Expected(s, v) = SchemaAt[e.to]
    BY <1>1 DEF Arrived
  <2>3. Arrived(SchemaAt[e.to], ExpectedRows(s, v), e.to)
    BY <1>1, <2>2
  <2>4. PICK j \in 0..Latest :
          NextTo(e.to, j, s.to) /\ RevisionIs(Revision(e.to, s.to), ExpectedRows(s, v), e.to, j)
    BY <1>1, <1>2, <1>5, <2>1, <2>3, RevisionLeads
  <2>5. PICK left \in Seq(Statements) : left = Revision(e.to, s.to)
    BY <2>4 DEF RevisionIs
  <2>6. /\ Len(left) > 1 /\ left[Len(left)] \in Stamps
        /\ left[Len(left)].from = e.to /\ left[Len(left)].to = j
        /\ Leads(SchemaAt[e.to], ExpectedRows(s, v), left)
    BY <2>4, <2>5 DEF RevisionIs
  <2>7. /\ r \in Tx /\ r.left = left /\ r.version = e.to /\ r.to = s.to /\ r.view = s.view
        /\ r.spelt = s.spelt /\ r.stale = s.stale
    BY <1>2, <2>5 DEF Tx
  <2>8. Base(r, v) = v
    BY <1>3, <2>7 DEF Base
  <2>9. Expected(r, v) = SchemaAt[e.to] /\ ExpectedRows(r, v) = ExpectedRows(s, v)
    <3>1. r.view = s.view /\ r.spelt = s.spelt /\ Base(r, v) = Base(s, v)
      BY <1>1, <2>7, <2>8
    <3>2. Expected(r, v) = Expected(s, v)
      BY <3>1 DEF Expected
    <3>3. ExpectedRows(r, v) = ExpectedRows(s, v)
      BY <3>1 DEF ExpectedRows
    <3> QED
      BY <2>2, <3>2, <3>3
  <2>10. Between(v, e.to, s.to)
    BY <1>2 DEF Between, NextTo, Latest
  <2>11. r.left # <<>> /\ Last(r) = left[Len(left)]
    BY <2>6, <2>7 DEF Last
  <2>12. OnTheWay(r, v)
    BY <2>4, <2>6, <2>7, <2>8, <2>9, <2>10, <2>11 DEF OnTheWay
  <2> QED
    BY <1>3, <2>7, <2>8, <2>12, <1>1 DEF Sound, FromBase
<1> QED
  BY <1>4, <1>5

-----------------------------------------------------------------------------
(* A migration's statement runs.                                           *)

\* What a migration has changed after an operation it had the locks for.
LEMMA OperationLocks ==
    ASSUME NEW s \in Tx, ChangesAreLocked(s), NEW op \in Operations, op.on \in Tables,
           NEW c, NEW r \in Tx, r.held = s.held, Becomes(s, op, c, r),
           NEW k \in 0..4, k = s.held[op.on], Strong(op, k)
    PROVE  ChangesAreLocked(r)
<1>1. r.version # Same => r.held["alembic_version"] = 4
  BY DEF ChangesAreLocked, Becomes
<1>2. ASSUME NEW t \in Tables, r.view[t] # Same PROVE r.held[t] >= 3
  <2>1. CASE s.view[t] # Same
    BY <2>1 DEF ChangesAreLocked
  <2>2. CASE s.view[t] = Same
    <3>1. op.do # "rewrite" /\ t = op.on
      BY <1>2, <2>2 DEF Becomes, Tx
    <3>2. k >= 3
      BY <3>1 DEF Strong, Operations
    <3> QED
      BY <3>1, <3>2
  <2> QED
    BY <2>1, <2>2
<1> QED
  BY <1>1, <1>2 DEF ChangesAreLocked

\* The facts both kinds of statement start from.
LEMMA OperationBegins ==
    ASSUME MigrationsInv, NEW m \in Transactions, RunOperation(m),
           NEW s, s = tx[m], NEW op, op = Head(s.left)
    PROVE  /\ m \in Migrators /\ m \notin Requests /\ s \in Tx /\ s.kind = "migration" /\ s.left # <<>>
           /\ Sound(s, version, schema) /\ ChangesAreLocked(s)
           /\ version \in 0..Latest /\ schema = SchemaAt[version]
           /\ \A y \in Transactions \ {m} : Compatible(s.held, tx[y].held)
           /\ op.on \in Lockable /\ s.held[op.on] \in 0..4 /\ Strong(op, s.held[op.on])
           /\ Last(s) \in Stamps /\ s.left \in Seq(Statements)
<1>1. tx[m].kind = "migration" /\ tx[m].left # <<>> /\ Missing(m) = {}
  BY DEF RunOperation, Executable
<1>2. m \in Migrators /\ tx[m] \in Tx
  BY <1>1, NextStatement
<1>3. op.on \in Lockable /\ s.held[op.on] \in 0..4 /\ Strong(op, s.held[op.on])
  BY <1>1, HasLocks
<1>4. /\ Sound(s, version, schema) /\ ChangesAreLocked(s)
      /\ version \in 0..Latest /\ schema = SchemaAt[version]
      /\ \A y \in Transactions \ {m} : Compatible(s.held, tx[y].held)
  BY <1>1, <1>2 DEF MigrationsInv, LocksExclude
<1>5. Last(s) \in Stamps
  BY <1>1, <1>4 DEF Sound, OnTheWay
<1>6. s.left \in Seq(Statements)
  BY <1>2 DEF Tx
<1> QED
  BY <1>1, <1>2, <1>3, <1>4, <1>5, <1>6, ProcessesAssumption

\* How an operation moves a migration.
LEMMA OperationMoves ==
    ASSUME MigrationsInv, NEW m \in Transactions, RunOperation(m),
           NEW s \in Tx, s = tx[m], NEW op, op = Head(s.left), Len(s.left) > 1
    PROVE  /\ op \in Operations /\ ProperOperation(op) /\ op.on \in Tables
           /\ \E c \in Cells, r \in Tx :
                 /\ Finds(s, schema, op, c) /\ Becomes(s, op, c, r)
                 /\ tx' = [tx EXCEPT ![m] = r]
                 /\ r.kind = s.kind /\ r.held = s.held
<1>1. /\ s.left # <<>> /\ Sound(s, version, schema)
      /\ version \in 0..Latest /\ schema = SchemaAt[version]
      /\ s.left \in Seq(Statements) /\ ~Breaks(m)
  BY OperationBegins DEF RunOperation, Executable
<1>2. op \in Operations /\ ProperOperation(op) /\ op.on \in Tables
  BY <1>1, NextOperation
<1>3. PICK c : c = Sees(m, op.on)
  OBVIOUS
<1>4. c \in Cells
  <2>1. schema[op.on] \in Cells
    BY <1>1, <1>2, SchemaIs
  <2> QED
    BY <1>2, <1>3, <2>1 DEF Sees, Tx
<1>5. Finds(s, schema, op, c)
  BY <1>1, <1>3 DEF Breaks, Finds, Sees
<1>6. PICK left \in Seq(Statements) : left = Tail(s.left)
  BY <1>1, NextOperation
<1>7. PICK d \in Cells : d = TableAfter(op, c)
  BY <1>2, <1>4, TableAfterType
<1>8. PICK g \in SUBSET Stored :
         g = IF op.do = "drop_table" THEN s.gone \cup ({op.on} \cap Stored) ELSE s.gone
  BY DEF Tx
<1>9. op.do = "rewrite" =>
         tx' = [tx EXCEPT ![m].left = Tail(s.left), ![m].spelt[op.on] = op.spelling]
  BY DEF RunOperation
<1>10. op.do # "stamp" /\ op.do # "rewrite" =>
         tx' = [tx EXCEPT ![m].left = Tail(s.left), ![m].view[op.on] = TableAfter(op, Sees(m, op.on)),
                          ![m].gone = IF op.do = "drop_table"
                                      THEN @ \cup ({op.on} \cap Stored) ELSE @]
  BY DEF RunOperation
<1>11. CASE op.do = "rewrite"
  <2>1. PICK r : r = [s EXCEPT !.left = left, !.spelt[op.on] = op.spelling]
    OBVIOUS
  <2>2. op.spelling \in {"upper", "lower", "same"}
    BY <1>2, <1>11 DEF ProperOperation, Spellings
  <2>3. r \in Tx /\ r.kind = s.kind /\ r.held = s.held /\ Becomes(s, op, c, r)
    BY <1>6, <1>11, <2>1, <2>2 DEF Tx, Becomes
  <2>4. tx' = [tx EXCEPT ![m] = r]
    BY <1>6, <1>9, <1>11, <2>1
  <2> QED
    BY <1>2, <1>4, <1>5, <2>3, <2>4
<1>12. CASE op.do # "rewrite"
  <2>1. PICK r : r = [s EXCEPT !.left = left, !.view[op.on] = d, !.gone = g]
    OBVIOUS
  <2>2. r \in Tx /\ r.kind = s.kind /\ r.held = s.held /\ Becomes(s, op, c, r)
    BY <1>6, <1>7, <1>8, <1>12, <2>1 DEF Tx, Becomes
  <2>3. op.do # "stamp"
    BY <1>2 DEF Operations
  <2>4. tx' = [tx EXCEPT ![m] = r]
    BY <1>3, <1>6, <1>7, <1>8, <1>10, <1>12, <2>1, <2>3
  <2> QED
    BY <1>2, <1>4, <1>5, <2>2, <2>4
<1> QED
  BY <1>11, <1>12

\* A migration's operation on the database as its locks keep it for it.
LEMMA OperationRuns ==
    ASSUME MigrationsInv, NEW m \in Transactions, RunOperation(m)
    PROVE  MigrationsInv'
<1>1. PICK s, op : s = tx[m] /\ op = Head(s.left)
  OBVIOUS
<1>2. /\ m \in Migrators /\ m \notin Requests /\ s \in Tx /\ s.kind = "migration" /\ s.left # <<>>
      /\ Sound(s, version, schema) /\ ChangesAreLocked(s)
      /\ version \in 0..Latest /\ schema = SchemaAt[version]
      /\ \A y \in Transactions \ {m} : Compatible(s.held, tx[y].held)
      /\ op.on \in Lockable /\ s.held[op.on] \in 0..4 /\ Strong(op, s.held[op.on])
      /\ Last(s) \in Stamps /\ s.left \in Seq(Statements)
  BY <1>1, OperationBegins
<1>3. UNCHANGED <<schema, version, row>> /\ ~Breaks(m)
  BY DEF RunOperation, Executable
<1>7. op.do = "stamp" =>
         tx' = [tx EXCEPT ![m].left = Revision(op.to, s.to), ![m].version = op.to]
  BY <1>1 DEF RunOperation
<1>4. CASE Len(s.left) > 1
  <2>1. op \in Operations /\ ProperOperation(op) /\ op.on \in Tables
    BY <1>1, <1>2, <1>4, OperationMoves
  <2>2. PICK c \in Cells, r \in Tx :
          /\ Finds(s, schema, op, c) /\ Becomes(s, op, c, r)
          /\ tx' = [tx EXCEPT ![m] = r]
          /\ r.kind = s.kind /\ r.held = s.held
    BY <1>1, <1>2, <1>4, OperationMoves
  <2>3. Sound(r, version, schema)
    BY <1>1, <1>2, <1>4, <2>1, <2>2, OperationKeepsSound
  <2>4. ChangesAreLocked(r)
    <3>1. PICK k \in 0..4 : k = s.held[op.on] /\ Strong(op, k)
      BY <1>2
    <3> QED
      BY <1>2, <2>1, <2>2, <3>1, OperationLocks
  <2>5. Shape(m, r)
    BY <1>2, <2>2 DEF Shape
  <2> QED
    BY <1>2, <1>3, <2>2, <2>3, <2>4, <2>5, OneMoves, RowsStay
<1>5. CASE Len(s.left) = 1
  <2>1. op \in Stamps
    <3>1. PICK left \in Seq(Statements) : left = s.left
      BY <1>2
    <3>2. Head(left) = left[1]
      BY <1>2, <3>1
    <3> QED
      BY <1>1, <1>2, <1>5, <3>1, <3>2 DEF Last
  <2>2. op.do = "stamp" /\ op.on = "alembic_version"
    BY <2>1 DEF Stamps
  <2>3. op.from # 0 => (IF s.version = Same THEN version ELSE s.version) = op.from
    BY <1>1, <1>3, <2>2 DEF Breaks
  <2>4. PICK r : r = [s EXCEPT !.left = Revision(op.to, s.to), !.version = op.to]
    OBVIOUS
  <2>5. r \in Tx /\ Sound(r, version, schema)
    <3>1. PICK e \in Stamps, t \in Tx, v \in 0..Latest : e = op /\ t = s /\ v = version
      BY <1>2, <2>1
    <3>2. /\ schema = SchemaAt[v] /\ Sound(t, v, schema) /\ Len(t.left) = 1 /\ e = Head(t.left)
          /\ r = [t EXCEPT !.left = Revision(e.to, t.to), !.version = e.to]
      BY <1>1, <1>2, <1>5, <2>4, <3>1
    <3>3. e.from # 0 => (IF t.version = Same THEN v ELSE t.version) = e.from
      BY <2>3, <3>1
    <3>4. PICK cat : cat = schema
      OBVIOUS
    <3>5. cat = SchemaAt[v] /\ Sound(t, v, cat)
      BY <3>2, <3>4
    <3>6. r \in Tx /\ Sound(r, v, cat)
      BY <3>2, <3>3, <3>5, StampKeepsSound
    <3> QED
      BY <3>1, <3>4, <3>6
  <2>6. tx' = [tx EXCEPT ![m] = r]
    BY <1>1, <1>7, <2>2, <2>4
  <2>7. r.kind = s.kind /\ r.held = s.held /\ r.view = s.view
    BY <1>2, <2>4 DEF Tx
  <2>8. ChangesAreLocked(r)
    <3>1. PICK k \in 0..4 : k = s.held["alembic_version"] /\ Strong(op, k)
      BY <1>2, <2>2
    <3>2. k = 4
      BY <2>2, <3>1 DEF Strong
    <3> QED
      BY <1>2, <2>7, <3>1, <3>2 DEF ChangesAreLocked
  <2>9. Shape(m, r)
    BY <1>2, <2>7 DEF Shape
  <2> QED
    BY <1>2, <1>3, <2>5, <2>6, <2>7, <2>8, <2>9, OneMoves, RowsStay
<1>6. Len(s.left) > 1 \/ Len(s.left) = 1
  <2>1. PICK left \in Seq(Statements), n \in Nat : left = s.left /\ n = Len(left)
    BY <1>2
  <2>2. left # <<>>
    BY <1>2, <2>1
  <2>3. n # 0
    BY <2>1, <2>2
  <2>4. n > 1 \/ n = 1
    BY <2>3
  <2> QED
    BY <2>1, <2>4
<1> QED
  BY <1>4, <1>5, <1>6

-----------------------------------------------------------------------------
(* Commits.                                                                *)

\* The API writes statuses in lower case.
LEMMA RowIs ==
    ASSUME NEW status \in {"created", "starting"}
    PROVE  Row(status) \in Rows /\ Row(status).spelling = "lower" /\ Row(status) # NoRow
<1>1. Row(status) \in Rows /\ Row(status).spelling = "lower"
  BY DEF Row, Rows, Spellings
<1> QED
  BY <1>1, MarksAssumption DEF MarksAreNew, Rows

\* The rows a request commits fit the constraints it found.
LEMMA RequestCommits ==
    ASSUME MigrationsInv, NEW h \in Transactions, CommitRequest(h)
    PROVE  MigrationsInv'
<1>1. /\ tx[h].kind \notin {"none", "migration"} /\ tx[h].left = <<>>
      /\ Finish(h) /\ UNCHANGED <<schema, version>>
      /\ row' = CASE tx[h].kind = "create" -> [row EXCEPT !.agent[tx[h].id] = Row("created")]
                  [] tx[h].kind = "start"  -> [row EXCEPT !.agent[tx[h].id] = Row("starting"),
                                                         !.run[tx[h].id] = Row("starting")]
                  [] OTHER -> [row EXCEPT !.agent[tx[h].id] = NoRow, !.run[tx[h].id] = NoRow]
  BY DEF CommitRequest
<1>2. PICK s \in Tx : s = tx[h]
  BY DEF MigrationsInv
<1>3. Shape(h, s) /\ h \in Requests /\ WritesFit(s, schema)
  BY <1>1, <1>2 DEF MigrationsInv, Shape, Transactions
<1>4. s.id \in Agents /\ s.kind \in {"create", "start", "delete"}
  BY <1>1, <1>2, <1>3 DEF Shape, RequestShape, Tx
<1>5. PICK a \in Agents : a = s.id
  BY <1>4
<1>6. row \in [Stored -> [Agents -> Rows \cup {NoRow}]] /\ RowsFit
  BY DEF MigrationsInv
<1>7. \E ag \in Rows \cup {NoRow}, rn \in Rows \cup {NoRow} :
         /\ row' = [row EXCEPT !.agent[a] = ag, !.run[a] = rn]
         /\ ag # NoRow => There(schema["agent"]) /\ ag.spelling = schema["agent"].check
         /\ rn # NoRow => There(schema["run"]) /\ rn.spelling = schema["run"].check
         /\ rn # NoRow => ag # NoRow
  <2>1. CASE s.kind = "create"
    <3>1. row' = [row EXCEPT !.agent[a] = Row("created")]
      BY <1>1, <1>2, <1>5, <2>1
    <3>2. row' = [row EXCEPT !.agent[a] = Row("created"), !.run[a] = row.run[a]]
      BY <1>6, <3>1 DEF Stored
    <3>3. schema["agent"].check = "lower"
      BY <1>1, <1>2, <1>3, <2>1 DEF WritesFit, Wrote
    <3>4. Row("created") \in Rows /\ Row("created").spelling = "lower" /\ Row("created") # NoRow
      BY RowIs
    <3>5. /\ row.run[a] \in Rows \cup {NoRow}
          /\ row.run[a] # NoRow => There(schema["run"]) /\ row.run[a].spelling = schema["run"].check
      BY <1>6 DEF RowsFit, Stored
    <3> QED
      BY <3>2, <3>3, <3>4, <3>5 DEF There
  <2>2. CASE s.kind = "start"
    <3>1. row' = [row EXCEPT !.agent[a] = Row("starting"), !.run[a] = Row("starting")]
      BY <1>1, <1>2, <1>5, <2>2
    <3>2. schema["agent"].check = "lower" /\ schema["run"].check = "lower"
      BY <1>1, <1>2, <1>3, <2>2 DEF WritesFit, Wrote
    <3>3. Row("starting") \in Rows /\ Row("starting").spelling = "lower" /\ Row("starting") # NoRow
      BY RowIs
    <3> QED
      BY <3>1, <3>2, <3>3 DEF There
  <2>3. CASE s.kind = "delete"
    <3>1. row' = [row EXCEPT !.agent[a] = NoRow, !.run[a] = NoRow]
      BY <1>1, <1>2, <1>5, <2>3
    <3> QED
      BY <3>1
  <2> QED
    BY <1>4, <2>1, <2>2, <2>3
<1>8. PICK ag \in Rows \cup {NoRow}, rn \in Rows \cup {NoRow} :
         /\ row' = [row EXCEPT !.agent[a] = ag, !.run[a] = rn]
         /\ ag # NoRow => There(schema["agent"]) /\ ag.spelling = schema["agent"].check
         /\ rn # NoRow => There(schema["run"]) /\ rn.spelling = schema["run"].check
         /\ rn # NoRow => ag # NoRow
  BY <1>7
<1>9. /\ row' \in [Stored -> [Agents -> Rows \cup {NoRow}]]
      /\ row'["agent"][a] = ag /\ row'["run"][a] = rn
      /\ \A t \in Stored, b \in Agents : b # a => row'[t][b] = row[t][b]
  <2>1. PICK S : S = Rows \cup {NoRow}
    OBVIOUS
  <2>2. PICK rows \in [Stored -> [Agents -> S]] : rows = row
    BY <1>6, <2>1
  <2>3. PICK next : next = row'
    OBVIOUS
  <2>4. ag \in S /\ rn \in S /\ next = [rows EXCEPT !.agent[a] = ag, !.run[a] = rn]
    BY <1>8, <2>1, <2>2, <2>3
  <2>5. "agent" \in Stored /\ "run" \in Stored
    BY DEF Stored
  <2>6. next \in [Stored -> [Agents -> S]]
    BY <2>4, <2>5
  <2>7. next["agent"][a] = ag /\ next["run"][a] = rn
    BY <2>4, <2>5
  <2>8. \A t \in Stored, b \in Agents : b # a => next[t][b] = rows[t][b]
    BY <2>4, <2>5
  <2> QED
    BY <2>1, <2>2, <2>3, <2>6, <2>7, <2>8
<1>10. RowsFit'
  <2>1. ASSUME NEW t \in Stored, NEW b \in Agents, row'[t][b] # NoRow
        PROVE  There(schema[t]) /\ row'[t][b].spelling = schema[t].check
    <3>1. CASE b # a
      BY <1>6, <1>9, <2>1, <3>1 DEF RowsFit
    <3>2. CASE b = a
      BY <1>8, <1>9, <2>1, <3>2 DEF Stored
    <3> QED
      BY <3>1, <3>2
  <2>2. ASSUME NEW b \in Agents, row'["run"][b] # NoRow PROVE row'["agent"][b] # NoRow
    <3>1. CASE b # a
      BY <1>6, <1>9, <2>2, <3>1 DEF RowsFit, Stored
    <3>2. CASE b = a
      BY <1>8, <1>9, <2>2, <3>2
    <3> QED
      BY <3>1, <3>2
  <2> QED
    BY <1>1, <2>1, <2>2 DEF RowsFit
<1> QED
  BY <1>1, <1>9, <1>10, Finished

\* Two transactions do not both hold the strong lock on a table.
LEMMA OneChanges ==
    ASSUME MigrationsInv, NEW x \in Transactions, NEW y \in Transactions, x # y,
           NEW t \in Lockable, NEW n \in {2, 3}, tx[x].held[t] >= 3, tx[y].held[t] >= n
    PROVE  FALSE
<1>1. PICK k \in 0..4, l \in 0..4 : k = tx[x].held[t] /\ l = tx[y].held[t]
  BY DEF MigrationsInv, Tx
<1>2. k + l <= 4
  BY <1>1 DEF MigrationsInv, LocksExclude, Compatible
<1>3. k >= 3 /\ l >= 2
  BY <1>1
<1> QED
  BY <1>2, <1>3

\* What the database is when migration m commits.
LEMMA CommitsExpected ==
    ASSUME MigrationsInv, NEW m \in Migrators, tx[m].kind = "migration", tx[m].left = <<>>,
           NEW s \in Tx, s = tx[m], NEW v \in 0..Latest, v = version
    PROVE  /\ s.version = s.to /\ s.to \in 0..Latest /\ s.version # Same
           /\ Base(s, v) = v /\ Expected(s, v) = SchemaAt[s.to]
           /\ \A t \in Tables : Sees(m, t) = SchemaAt[s.to][t]
           /\ \A t \in Stored : There(SchemaAt[s.to][t]) =>
                 ExpectedRows(s, v)[t] \in {"any", SchemaAt[s.to][t].check}
<1>1. Sound(s, v, schema) /\ schema = SchemaAt[v]
  BY DEF MigrationsInv
<1>2. s.version = s.to /\ Arrived(Expected(s, v), ExpectedRows(s, v), s.to)
  BY <1>1 DEF Sound, OnTheWay
<1>3. s.to \in 0..Latest /\ s.version # Same
  BY <1>2, MarksAssumption DEF Tx, MarksAreNew
<1>4. Base(s, v) = v
  BY <1>3 DEF Base
<1>5. Expected(s, v) = SchemaAt[s.to]
  BY <1>2 DEF Arrived
<1>6. ASSUME NEW t \in Tables PROVE Sees(m, t) = SchemaAt[s.to][t]
  <2>1. Expected(s, v)[t] = IF s.view[t] = Same THEN SchemaAt[v][t] ELSE s.view[t]
    BY <1>4 DEF Expected
  <2> QED
    BY <1>1, <1>5, <2>1 DEF Sees
<1>7. \A t \in Stored : There(SchemaAt[s.to][t]) =>
         ExpectedRows(s, v)[t] \in {"any", SchemaAt[s.to][t].check}
  BY <1>2 DEF Arrived
<1> QED
  BY <1>2, <1>3, <1>4, <1>5, <1>6, <1>7

\* The rows it leaves.
LEMMA CommitsRows ==
    ASSUME MigrationsInv, RowsGoWithTables, NEW m \in Migrators, CommitMigration(m)
    PROVE  row' \in [Stored -> [Agents -> Rows \cup {NoRow}]] /\ RowsFit'
<1>1. /\ tx[m].kind = "migration" /\ tx[m].left = <<>>
      /\ schema' = [t \in Tables |-> Sees(m, t)]
      /\ row' = [t \in Stored |-> [a \in Agents |-> Respelt(m, t, a)]]
  BY DEF CommitMigration
<1>2. PICK s \in Tx, v \in 0..Latest : s = tx[m] /\ v = version
  BY DEF MigrationsInv, Transactions
<1>3. /\ s.version = s.to /\ s.to \in 0..Latest
      /\ Base(s, v) = v
      /\ \A t \in Tables : Sees(m, t) = SchemaAt[s.to][t]
      /\ \A t \in Stored : There(SchemaAt[s.to][t]) =>
            ExpectedRows(s, v)[t] \in {"any", SchemaAt[s.to][t].check}
  BY <1>1, <1>2, CommitsExpected
<1>4. row \in [Stored -> [Agents -> Rows \cup {NoRow}]] /\ RowsFit /\ schema = SchemaAt[v]
  BY <1>2 DEF MigrationsInv
<1>5. \A r \in Rows : r # NoRow
  BY MarksAssumption DEF MarksAreNew, Rows
<1>11. \A t \in Stored : t \in s.gone <=> s.view[t] = Nothing
  BY <1>1, <1>2 DEF RowsGoWithTables, Gone
<1>6. ASSUME NEW t \in Stored, NEW a \in Agents
      PROVE  /\ Respelt(m, t, a) \in Rows \cup {NoRow}
             /\ Respelt(m, t, a) # NoRow =>
                   /\ row[t][a] # NoRow /\ s.view[t] # Nothing
                   /\ Respelt(m, t, a).spelling = IF s.spelt[t] = "same" THEN row[t][a].spelling
                                                  ELSE s.spelt[t]
  <2>1. CASE row[t][a] = NoRow \/ s.view[t] = Nothing
    <3>1. Respelt(m, t, a) = NoRow
      BY <1>2, <1>11, <2>1 DEF Respelt
    <3> QED
      BY <3>1
  <2>2. CASE row[t][a] # NoRow /\ s.view[t] # Nothing /\ s.spelt[t] = "same"
    <3>1. Respelt(m, t, a) = row[t][a]
      BY <1>2, <1>11, <2>2 DEF Respelt
    <3> QED
      BY <1>4, <2>2, <3>1
  <2>3. CASE row[t][a] # NoRow /\ s.view[t] # Nothing /\ s.spelt[t] # "same"
    <3>1. PICK r \in Rows : r = row[t][a]
      BY <1>4, <2>3
    <3>2. Respelt(m, t, a) = [r EXCEPT !.spelling = s.spelt[t]]
      BY <1>2, <1>11, <2>3, <3>1 DEF Respelt
    <3>3. s.spelt[t] \in Spellings
      BY <2>3 DEF Tx, Spellings
    <3>4. [r EXCEPT !.spelling = s.spelt[t]] \in Rows
      BY <3>3 DEF Rows
    <3>5. [r EXCEPT !.spelling = s.spelt[t]].spelling = s.spelt[t]
      BY DEF Rows
    <3> QED
      BY <2>3, <3>2, <3>4, <3>5
  <2> QED
    BY <2>1, <2>2, <2>3
<1>7. row' \in [Stored -> [Agents -> Rows \cup {NoRow}]]
  BY <1>1, <1>6
<1>8. ASSUME NEW t \in Stored, NEW a \in Agents, row'[t][a] # NoRow
      PROVE  There(schema'[t]) /\ row'[t][a].spelling = schema'[t].check
  <2>1. /\ row'[t][a] = Respelt(m, t, a) /\ row[t][a] # NoRow /\ s.view[t] # Nothing
        /\ row'[t][a].spelling = IF s.spelt[t] = "same" THEN row[t][a].spelling ELSE s.spelt[t]
    BY <1>1, <1>6, <1>8
  <2>2. PICK c \in Cells : c = schema'[t] /\ c = SchemaAt[s.to][t] /\ c = Sees(m, t) /\ ProperCell(t, c)
    <3>1. t \in Tables /\ schema'[t] = Sees(m, t) /\ Sees(m, t) = SchemaAt[s.to][t]
      BY <1>1, <1>3, TablesAre
    <3>2. SchemaAt[s.to][t] \in Cells /\ ProperCell(t, SchemaAt[s.to][t])
      BY <1>3, <3>1, SchemaProper DEF Proper, ProperCell
    <3> QED
      BY <3>1, <3>2
  <2>3. There(schema[t]) /\ row[t][a].spelling = schema[t].check
    BY <1>4, <2>1 DEF RowsFit
  <2>4. There(c)
    <3>1. CASE s.view[t] = Same
      BY <1>2, <2>2, <2>3, <3>1 DEF Sees
    <3>2. CASE s.view[t] # Same
      <4>1. c # Nothing
        BY <1>2, <2>1, <2>2, <3>2 DEF Sees
      <4> QED
        BY <2>2, <4>1, NothingIs DEF There
    <3> QED
      BY <3>1, <3>2
  <2>5. ExpectedRows(s, v)[t] = row'[t][a].spelling
    <3>1. There(SchemaAt[Base(s, v)][t]) /\ SchemaAt[Base(s, v)][t].check = row[t][a].spelling
      BY <1>3, <1>4, <2>3
    <3> QED
      BY <2>1, <3>1 DEF ExpectedRows
  <2>6. row'[t][a].spelling # "any"
    BY <1>7, <1>8 DEF Rows, Spellings
  <2> QED
    BY <1>3, <2>2, <2>4, <2>5, <2>6
<1>9. ASSUME NEW a \in Agents, row'["run"][a] # NoRow PROVE row'["agent"][a] # NoRow
  <2>1. "run" \in Stored /\ "agent" \in Stored /\ "agent" \in Tables
    BY DEF Stored, Tables, Refs
  <2>2. There(schema'["run"]) /\ row["run"][a] # NoRow
    BY <1>1, <1>6, <1>8, <1>9, <2>1
  <2>3. row["agent"][a] # NoRow
    BY <1>4, <2>2 DEF RowsFit
  <2>4. There(schema'["agent"])
    <3>1. schema'["run"] = SchemaAt[s.to]["run"] /\ schema'["agent"] = SchemaAt[s.to]["agent"]
      BY <1>1, <1>3, TablesAre
    <3>2. /\ SchemaAt[s.to]["run"].check = CheckAt(s.to, "run")
          /\ SchemaAt[s.to]["agent"].check = CheckAt(s.to, "agent")
      BY <1>3, SchemaIs, TablesAre
    <3>3. Since["agent"] = 1 /\ Since["run"] = 1
      BY DEF Since
    <3> QED
      BY <2>1, <2>2, <3>1, <3>2, <3>3 DEF There, CheckAt
  <2>5. s.view["agent"] # Nothing
    <3> SUFFICES ASSUME s.view["agent"] = Nothing PROVE FALSE
      OBVIOUS
    <3>1. Nothing # Same
      BY PlainIs, CellsAre
    <3>2. schema'["agent"] = Nothing
      BY <1>1, <1>2, <2>1, <3>1 DEF Sees
    <3> QED
      BY <2>4, <3>2, PlainIs DEF There
  <2>6. row'["agent"][a] = Respelt(m, "agent", a)
    BY <1>1, <2>1
  <2>7. PICK r \in Rows : r = row["agent"][a]
    BY <1>4, <2>1, <2>3
  <2>8. CASE s.spelt["agent"] = "same"
    BY <1>2, <1>11, <2>1, <2>3, <2>5, <2>6, <2>8 DEF Respelt
  <2>9. CASE s.spelt["agent"] # "same"
    <3>1. Respelt(m, "agent", a) = [r EXCEPT !.spelling = s.spelt["agent"]]
      BY <1>2, <1>11, <2>1, <2>3, <2>5, <2>7, <2>9 DEF Respelt
    <3>2. s.spelt["agent"] \in Spellings
      BY <2>1, <2>9 DEF Tx, Spellings
    <3>3. [r EXCEPT !.spelling = s.spelt["agent"]] \in Rows
      BY <3>2 DEF Rows
    <3> QED
      BY <1>5, <2>6, <3>1, <3>3
  <2> QED
    BY <2>8, <2>9
<1>10. RowsFit'
  BY <1>8, <1>9 DEF RowsFit
<1> QED
  BY <1>7, <1>10

\* What another migration can still count on after a commit.
LEMMA OthersStaySound ==
    ASSUME MigrationsInv, NEW m \in Migrators, CommitMigration(m),
           NEW y \in Migrators, y # m, tx[y].kind = "migration", tx'[y] = [tx[y] EXCEPT !.stale = TRUE]
    PROVE  Sound(tx'[y], version', schema')
<1>1. /\ tx[m].kind = "migration" /\ tx[m].left = <<>>
      /\ schema' = [t \in Tables |-> Sees(m, t)] /\ version' = tx[m].version
      /\ m \in Transactions /\ y \in Transactions
  BY DEF CommitMigration, Transactions
<1>2. PICK s \in Tx, q \in Tx, v \in 0..Latest : s = tx[m] /\ q = tx[y] /\ v = version
  BY <1>1 DEF MigrationsInv
<1>3. s.version # Same
  BY <1>1, <1>2, CommitsExpected
<1>4. ChangesAreLocked(s) /\ ChangesAreLocked(q) /\ Sound(q, v, schema)
  BY <1>1, <1>2 DEF MigrationsInv
<1>5. q.version = Same
  <2> SUFFICES ASSUME q.version # Same PROVE FALSE
    OBVIOUS
  <2>1. tx[m].held["alembic_version"] >= 3 /\ tx[y].held["alembic_version"] >= 3
    BY <1>2, <1>3, <1>4 DEF ChangesAreLocked
  <2> QED
    BY <1>1, <2>1, OneChanges, TablesAre
<1>6. PICK r \in Tx : r = tx'[y] /\ r = [q EXCEPT !.stale = TRUE]
  <2>1. [q EXCEPT !.stale = TRUE] \in Tx
    BY DEF Tx
  <2>2. tx'[y] = [q EXCEPT !.stale = TRUE]
    BY <1>2
  <2> QED
    BY <2>1, <2>2
<1>7. /\ r.left = q.left /\ r.to = q.to /\ r.version = q.version /\ r.view = q.view
      /\ r.spelt = q.spelt /\ r.stale
  BY <1>6 DEF Tx
<1>8. q.left # <<>>
  <2>1. q.left = <<>> => q.version = q.to
    BY <1>4 DEF Sound, OnTheWay
  <2>2. q.to # Same
    BY MarksAssumption DEF MarksAreNew, Tx
  <2> QED
    BY <1>5, <2>1, <2>2
<1>9. Base(r, version') = Base(q, v) /\ Last(r) = Last(q)
  BY <1>5, <1>7 DEF Base, Last
<1>10. Expected(r, version') = Expected(q, v) /\ ExpectedRows(r, version') = ExpectedRows(q, v)
  BY <1>7, <1>9 DEF Expected, ExpectedRows
<1>11. OnTheWay(r, version')
  BY <1>4, <1>7, <1>8, <1>9, <1>10 DEF Sound, OnTheWay
<1>12. FromBase(r, schema')
  <2> SUFFICES ASSUME q.view["agent"] # Same, Last(q).from = 0 PROVE schema'["agent"] = Nothing
    BY <1>7, <1>9 DEF FromBase
  <2>1. schema["agent"] = Nothing
    BY <1>4, <1>5, <1>8 DEF Sound, FromBase
  <2>2. s.view["agent"] = Same
    <3> SUFFICES ASSUME s.view["agent"] # Same PROVE FALSE
      OBVIOUS
    <3>1. tx[m].held["agent"] >= 3 /\ tx[y].held["agent"] >= 3
      BY <1>2, <1>4, TablesAre DEF ChangesAreLocked
    <3> QED
      BY <1>1, <3>1, OneChanges, TablesAre
  <2>3. schema'["agent"] = Sees(m, "agent")
    BY <1>1, TablesAre
  <2> QED
    BY <1>2, <2>1, <2>2, <2>3 DEF Sees
<1> QED
  BY <1>6, <1>7, <1>11, <1>12 DEF Sound

\* What a migration commits is a revision, and rows that fit it.
LEMMA MigrationCommits ==
    ASSUME MigrationsInv, RowsGoWithTables, NEW m \in Transactions, CommitMigration(m)
    PROVE  MigrationsInv'
<1>1. /\ tx[m].kind = "migration" /\ tx[m].left = <<>>
      /\ schema' = [t \in Tables |-> Sees(m, t)] /\ version' = tx[m].version
      /\ tx' = [x \in Transactions |->
          IF x = m THEN Idle
          ELSE IF tx[x].kind = "migration" THEN [tx[x] EXCEPT !.stale = TRUE]
          ELSE tx[x]]
  BY DEF CommitMigration
<1>2. PICK s \in Tx, v \in 0..Latest : s = tx[m] /\ v = version
  BY DEF MigrationsInv
<1>3. m \in Migrators /\ Shape(m, s) /\ ChangesAreLocked(s)
  BY <1>1, <1>2 DEF MigrationsInv, Shape, Transactions
<1>4. row' \in [Stored -> [Agents -> Rows \cup {NoRow}]] /\ RowsFit'
  BY <1>3, CommitsRows
<1>5. /\ s.version = s.to /\ s.to \in 0..Latest
      /\ \A t \in Tables : Sees(m, t) = SchemaAt[s.to][t]
  BY <1>1, <1>2, <1>3, CommitsExpected
<1>6. version' \in 0..Latest /\ schema' = SchemaAt[version']
  <2>1. SchemaAt[s.to] \in Catalogs
    BY <1>5, SchemaProper DEF Proper
  <2> QED
    BY <1>1, <1>2, <1>5, <2>1 DEF Catalogs
<1>7. ASSUME NEW x \in Transactions
      PROVE  /\ tx'[x] \in Tx
             /\ x = m => tx'[x] = Idle
             /\ x # m /\ tx[x].kind = "migration" => tx'[x] = [tx[x] EXCEPT !.stale = TRUE]
             /\ x # m /\ tx[x].kind # "migration" => tx'[x] = tx[x]
             /\ x # m => tx'[x].held = tx[x].held /\ tx'[x].view = tx[x].view
                         /\ tx'[x].version = tx[x].version /\ tx'[x].kind = tx[x].kind
  <2>1. PICK q \in Tx : q = tx[x]
    BY DEF MigrationsInv
  <2>2. CASE x = m
    BY <1>1, <2>2, IdleIs
  <2>3. CASE x # m /\ q.kind = "migration"
    <3>1. PICK r : r = [q EXCEPT !.stale = TRUE]
      OBVIOUS
    <3>2. r \in Tx /\ r.held = q.held /\ r.view = q.view /\ r.version = q.version /\ r.kind = q.kind
      BY <3>1 DEF Tx
    <3>3. tx'[x] = r
      BY <1>1, <2>1, <2>3, <3>1
    <3> QED
      BY <2>1, <2>3, <3>1, <3>2, <3>3
  <2>4. CASE x # m /\ q.kind # "migration"
    <3>1. tx'[x] = q
      BY <1>1, <2>1, <2>4
    <3> QED
      BY <2>1, <2>4, <3>1
  <2> QED
    BY <2>2, <2>3, <2>4
<1>8. tx' \in [Transactions -> Tx]
  <2>1. tx' = [x \in Transactions |-> tx'[x]]
    BY <1>1
  <2> QED
    BY <1>7, <2>1
<1>9. LocksExclude'
  <2> SUFFICES ASSUME NEW x \in Transactions, NEW y \in Transactions, x # y, NEW t \in Lockable
               PROVE  tx'[x].held[t] + tx'[y].held[t] <= 4
    BY DEF LocksExclude, Compatible
  <2>1. tx[x].held[t] \in 0..4 /\ tx[y].held[t] \in 0..4
    BY DEF MigrationsInv, Tx
  <2>2. CASE x = m
    <3>1. tx'[x].held[t] = 0 /\ tx'[y].held[t] = tx[y].held[t]
      BY <1>7, <2>2, IdleIs
    <3> QED
      BY <2>1, <3>1
  <2>3. CASE y = m
    <3>1. tx'[y].held[t] = 0 /\ tx'[x].held[t] = tx[x].held[t]
      BY <1>7, <2>3, IdleIs, ZenonT(30)
    <3> QED
      BY <2>1, <3>1
  <2>4. CASE x # m /\ y # m
    <3>1. tx'[x].held = tx[x].held /\ tx'[y].held = tx[y].held
      BY <1>7, <2>4
    <3> QED
      BY <3>1 DEF MigrationsInv, LocksExclude, Compatible
  <2> QED
    BY <2>2, <2>3, <2>4
<1>10. ASSUME NEW x \in Transactions PROVE Shape(x, tx'[x]) /\ ChangesAreLocked(tx'[x])
  <2>1. Shape(x, tx[x]) /\ ChangesAreLocked(tx[x])
    BY DEF MigrationsInv
  <2>2. CASE x = m
    <3>1. \A t \in Tables : Idle.view[t] = Same
      BY IdleIs
    <3>2. Shape(x, Idle) /\ ChangesAreLocked(Idle)
      BY <3>1, IdleIs DEF Shape, ChangesAreLocked
    <3> QED
      BY <1>7, <2>2, <3>2
  <2>3. CASE x # m /\ tx[x].kind = "migration"
    <3>1. tx'[x].kind = "migration" /\ x \notin Requests
      BY <1>7, <2>1, <2>3 DEF Shape
    <3>2. ChangesAreLocked(tx'[x])
      BY <1>7, <2>1, <2>3 DEF ChangesAreLocked
    <3> QED
      BY <3>1, <3>2 DEF Shape
  <2>4. CASE x # m /\ tx[x].kind # "migration"
    <3>1. tx'[x] = tx[x]
      BY <1>7, <2>4
    <3> QED
      BY <2>1, <3>1
  <2> QED
    BY <2>2, <2>3, <2>4
<1>11. ASSUME NEW y \in Migrators, tx'[y].kind = "migration" PROVE Sound(tx'[y], version', schema')
  <2>1. y \in Transactions
    BY DEF Transactions
  <2>2. y # m
    BY <1>7, <1>11, <2>1, IdleIs
  <2>3. tx[y].kind = "migration" /\ tx'[y] = [tx[y] EXCEPT !.stale = TRUE]
    BY <1>7, <1>11, <2>1, <2>2
  <2> QED
    BY <1>3, <2>2, <2>3, OthersStaySound
<1>12. ASSUME NEW h \in Requests PROVE WritesFit(tx'[h], schema')
  <2>1. h \in Transactions /\ h # m /\ tx[h].kind # "migration" /\ WritesFit(tx[h], schema)
    BY <1>3, ProcessesAssumption DEF MigrationsInv, Shape, Transactions
  <2>2. tx'[h] = tx[h]
    BY <1>7, <2>1
  <2>3. ASSUME NEW t \in Stored, Wrote(tx[h], schema, t) PROVE Wrote(tx[h], schema', t)
    <3>1. s.view[t] = Same
      <4> SUFFICES ASSUME s.view[t] # Same PROVE FALSE
        OBVIOUS
      <4>1. tx[m].held[t] >= 3 /\ tx[h].held[t] >= 2 /\ t \in Lockable
        BY <1>2, <1>3, <2>3, TablesAre DEF ChangesAreLocked, Wrote
      <4> QED
        BY <2>1, <4>1, OneChanges
    <3>2. schema'[t] = schema[t]
      BY <1>1, <1>2, <3>1, TablesAre DEF Sees
    <3> QED
      BY <2>3, <3>2 DEF Wrote
  <2>4. "agent" \in Stored /\ "run" \in Stored
    BY DEF Stored
  <2> QED
    BY <2>1, <2>2, <2>3, <2>4 DEF WritesFit
<1> QED
  BY <1>4, <1>6, <1>8, <1>9, <1>10, <1>11, <1>12 DEF MigrationsInv

-----------------------------------------------------------------------------
(* The rows a migration takes along.                                       *)

\* A stamp drops and creates nothing.
LEMMA StampedAdds ==
    ASSUME NEW q \in Seq(Statements), NEW i \in 0..Latest, NEW j \in 0..Latest
    PROVE  /\ Drops(Append(q, Stamp(i, j))) => Drops(q)
           /\ Creates(Append(q, Stamp(i, j))) => Creates(q)
<1>1. PICK e \in Statements : e = Stamp(i, j) /\ e.do = "stamp"
  BY StampIs DEF Statements, Stamps
<1>2. PICK n \in Nat : n = Len(q)
  OBVIOUS
<1>3. PICK left \in Seq(Statements) : left = Append(q, e)
  BY <1>1, AppendProperties
<1>4. Len(left) = n + 1 /\ left[n + 1] = e /\ \A k \in 1..n : left[k] = q[k]
  BY <1>1, <1>2, <1>3, AppendProperties
<1>5. ASSUME NEW k \in 1..(n + 1), left[k].do # "stamp" PROVE k \in 1..n /\ left[k] = q[k]
  BY <1>1, <1>4, <1>5
<1>6. Drops(left) => Drops(q)
  BY <1>2, <1>4, <1>5 DEF Drops
<1>7. Creates(left) => Creates(q)
  BY <1>2, <1>4, <1>5 DEF Creates
<1> QED
  BY <1>1, <1>3, <1>6, <1>7

\* A revision that respells neither drops nor creates a table.
LEMMA RespellingIs ==
    ASSUME NEW w \in Spellings
    PROVE  /\ Respelling(w) \in Seq(Statements)
           /\ ~Drops(Respelling(w)) /\ ~Creates(Respelling(w))
<1>1. PICK a \in Operations, b \in Operations, c \in Operations, d \in Operations,
           e \in Operations, f \in Operations :
        /\ a = DropCheck("agent") /\ b = DropCheck("run")
        /\ c = Rewrite("agent", w) /\ d = Rewrite("run", w)
        /\ e = CreateCheck("agent", w) /\ f = CreateCheck("run", w)
        /\ \A s \in {a, b, c, d, e, f} : s.do \notin {"drop_table", "create_table"}
  BY OperationsAre DEF Stored
<1>2. PICK left : left = <<a, b, c, d, e, f>>
  OBVIOUS
<1>3. left = Respelling(w)
  BY <1>1, <1>2 DEF Respelling
<1>4. left \in Seq(Statements) /\ Len(left) = 6
  BY <1>2 DEF Statements
<1>5. \A k \in 1..6 : left[k].do \notin {"drop_table", "create_table"}
  BY <1>1, <1>2
<1> QED
  BY <1>3, <1>4, <1>5 DEF Drops, Creates

\* An upgrade drops no table.
LEMMA UpgradesDropNothing ==
    ASSUME NEW i \in 1..Latest
    PROVE  Upgrade[i] \in Seq(Statements) /\ ~Drops(Upgrade[i])
<1>1. i = 1 \/ i = 2 \/ i = 3 \/ i = 4 \/ i = 5
  BY DEF Latest
<1>2. CASE i = 1
  <2>1. PICK a \in Operations, b \in Operations :
          /\ a = CreateChecked("agent") /\ b = CreateChecked("run")
          /\ a.do # "drop_table" /\ b.do # "drop_table"
    BY OperationsAre DEF Stored
  <2>2. Upgrade[i] = <<a, b>>
    BY <1>2, <2>1 DEF Upgrade, Upgrade_e211
  <2> QED
    BY <2>1, <2>2 DEF Drops, Statements
<1>3. CASE i = 2
  <2>1. PICK a \in Operations : a = CreateTable("task") /\ a.do # "drop_table"
    BY OperationsAre, TablesAre
  <2>2. Upgrade[i] = <<a>>
    BY <1>3, <2>1 DEF Upgrade, Upgrade_d873
  <2> QED
    BY <2>1, <2>2 DEF Drops, Statements
<1>4. CASE i = 3
  <2>1. Upgrade[i] = Respelling("lower")
    BY <1>4 DEF Upgrade, Upgrade_a017
  <2> QED
    BY <2>1, RespellingIs DEF Spellings
<1>5. CASE i = 4
  <2>1. PICK a \in Operations, b \in Operations, c \in Operations :
          /\ a = CreateTable("event") /\ b = CreateIndex("event") /\ c = CreateTable("message")
          /\ a.do # "drop_table" /\ b.do # "drop_table" /\ c.do # "drop_table"
    BY OperationsAre, TablesAre DEF Indexed
  <2>2. Upgrade[i] = <<a, b, c>>
    BY <1>5, <2>1 DEF Upgrade, Upgrade_c663
  <2> QED
    BY <2>1, <2>2 DEF Drops, Statements
<1>6. CASE i = 5
  <2>1. PICK a \in Operations, b \in Operations, c \in Operations :
          /\ a = CreateTable("artifact") /\ b = CreateTable("iteration_record")
          /\ c = CreateIndex("message")
          /\ a.do # "drop_table" /\ b.do # "drop_table" /\ c.do # "drop_table"
    BY OperationsAre, TablesAre DEF Indexed
  <2>2. Upgrade[i] = <<a, b, c>>
    BY <1>6, <2>1 DEF Upgrade, Upgrade_2230
  <2> QED
    BY <2>1, <2>2 DEF Drops, Statements
<1> QED
  BY <1>1, <1>2, <1>3, <1>4, <1>5, <1>6

\* A downgrade creates no table, and only the one to base drops one whose rows
\* are modelled.
LEMMA DowngradesCreateNothing ==
    ASSUME NEW i \in 1..Latest
    PROVE  Downgrade[i] \in Seq(Statements) /\ ~Creates(Downgrade[i]) /\ (i # 1 => ~Drops(Downgrade[i]))
<1>1. i = 1 \/ i = 2 \/ i = 3 \/ i = 4 \/ i = 5
  BY DEF Latest
<1>2. CASE i = 1
  <2>1. PICK a \in Operations, b \in Operations :
          /\ a = DropTable("run") /\ b = DropTable("agent")
          /\ a.do # "create_table" /\ b.do # "create_table"
    BY OperationsAre, TablesAre
  <2>2. Downgrade[i] = <<a, b>>
    BY <1>2, <2>1 DEF Downgrade, Downgrade_e211
  <2> QED
    BY <1>2, <2>1, <2>2 DEF Creates, Statements
<1>3. CASE i = 2
  <2>1. PICK a \in Operations :
          a = DropTable("task") /\ a.do # "create_table" /\ a.on \notin Stored
    BY OperationsAre, TablesAre DEF Stored
  <2>2. Downgrade[i] = <<a>>
    BY <1>3, <2>1 DEF Downgrade, Downgrade_d873
  <2> QED
    BY <2>1, <2>2 DEF Creates, Drops, Statements
<1>4. CASE i = 3
  <2>1. Downgrade[i] = Respelling("upper")
    BY <1>4 DEF Downgrade, Downgrade_a017
  <2> QED
    BY <2>1, RespellingIs DEF Spellings
<1>5. CASE i = 4
  <2>1. PICK a \in Operations, b \in Operations, c \in Operations :
          /\ a = DropTable("message") /\ b = DropIndex("event") /\ c = DropTable("event")
          /\ a.do # "create_table" /\ b.do # "create_table" /\ c.do # "create_table"
          /\ a.on \notin Stored /\ b.on \notin Stored /\ c.on \notin Stored
    BY OperationsAre, TablesAre DEF Indexed, Stored
  <2>2. Downgrade[i] = <<a, b, c>>
    BY <1>5, <2>1 DEF Downgrade, Downgrade_c663
  <2> QED
    BY <2>1, <2>2 DEF Creates, Drops, Statements
<1>6. CASE i = 5
  <2>1. PICK a \in Operations, b \in Operations, c \in Operations :
          /\ a = DropIndex("message") /\ b = DropTable("iteration_record") /\ c = DropTable("artifact")
          /\ a.do # "create_table" /\ b.do # "create_table" /\ c.do # "create_table"
          /\ a.on \notin Stored /\ b.on \notin Stored /\ c.on \notin Stored
    BY OperationsAre, TablesAre DEF Indexed, Stored
  <2>2. Downgrade[i] = <<a, b, c>>
    BY <1>6, <2>1 DEF Downgrade, Downgrade_2230
  <2> QED
    BY <2>1, <2>2 DEF Creates, Drops, Statements
<1> QED
  BY <1>1, <1>2, <1>3, <1>4, <1>5, <1>6

\* Only on the way to base is a table dropped whose rows are modelled, and on
\* that way none is created.
LEMMA RevisionFalls ==
    ASSUME NEW i \in 0..Latest, NEW to \in 0..Latest
    PROVE  /\ Drops(Revision(i, to)) => to = 0
           /\ to = 0 => ~Creates(Revision(i, to))
<1>1. CASE i < to
  <2>1. i + 1 \in 1..Latest /\ i + 1 \in 0..Latest /\ to # 0
    BY <1>1 DEF Latest
  <2>2. Revision(i, to) = Append(Upgrade[i + 1], Stamp(i, i + 1))
    BY <1>1 DEF Revision
  <2> QED
    BY <2>1, <2>2, UpgradesDropNothing, StampedAdds
<1>2. CASE i > to
  <2>1. i \in 1..Latest /\ i - 1 \in 0..Latest /\ ~(i < to) /\ (i = 1 => to = 0)
    BY <1>2 DEF Latest
  <2>2. Revision(i, to) = Append(Downgrade[i], Stamp(i, i - 1))
    BY <1>2, <2>1 DEF Revision
  <2> QED
    BY <2>1, <2>2, DowngradesCreateNothing, StampedAdds
<1>3. CASE i = to
  <2>1. Revision(i, to) = <<>>
    BY <1>3 DEF Revision, Latest
  <2> QED
    BY <2>1 DEF Drops, Creates
<1> QED
  BY <1>1, <1>2, <1>3 DEF Latest

\* An operation keeps the rows of the tables that stay, and takes along those of
\* the table that goes.
LEMMA OperationTakesRows ==
    ASSUME NEW s \in Tx, NEW v \in 0..Latest, NEW cat, cat = SchemaAt[v], Sound(s, v, cat), Gone(s),
           Len(s.left) > 1, NEW op \in Operations, op = Head(s.left), NEW r \in Tx,
           NEW c \in Cells, Becomes(s, op, c, r)
    PROVE  Gone(r)
<1>1. /\ ProperOperation(op) /\ op.on \in Tables
      /\ Fits(Expected(s, v), ExpectedRows(s, v), op)
  BY NextOperation
<1>2. PICK left \in Seq(Statements), n \in Nat : left = s.left /\ n = Len(left) /\ n > 1
  BY DEF Tx
<1>3. /\ r.left = Tail(left) /\ Len(r.left) = n - 1 /\ op = left[1]
      /\ \A k \in 1..(n - 1) : r.left[k] = left[k + 1]
  <2>1. r.left = Tail(left)
    BY <1>2 DEF Becomes
  <2> QED
    BY <1>2, <2>1, TailIs
<1>4. \A k \in 1..(n - 1) : k + 1 \in 1..n /\ r.left[k] = left[k + 1]
  BY <1>2, <1>3
<1>5. Drops(r.left) => Drops(left)
  BY <1>2, <1>3, <1>4 DEF Drops
<1>6. Creates(r.left) => Creates(left)
  BY <1>2, <1>3, <1>4 DEF Creates
<1>7. op.do = "create_table" => Creates(left)
  BY <1>2, <1>3 DEF Creates
<1>8. op.do = "drop_table" /\ op.on \in Stored => Drops(left)
  BY <1>2, <1>3 DEF Drops
<1>9. r.to = s.to
  BY DEF Becomes
<1>10. s.gone = {} \/ op.do # "create_table"
  BY <1>2, <1>7 DEF Gone
<1>11. r.gone # {} \/ Drops(r.left) => r.to = 0
  BY <1>2, <1>5, <1>8, <1>9 DEF Gone, Becomes
<1>12. r.to = 0 => ~Creates(r.left)
  BY <1>2, <1>6, <1>9 DEF Gone
<1>13. ASSUME NEW t \in Stored PROVE t \in r.gone <=> r.view[t] = Nothing
  <2>1. t \in Tables /\ (t \in s.gone <=> s.view[t] = Nothing)
    BY TablesAre DEF Gone
  <2>2. CASE op.do = "rewrite"
    BY <2>1, <2>2 DEF Becomes
  <2>3. CASE op.do # "rewrite" /\ t # op.on
    BY <1>1, <2>1, <2>3 DEF Becomes, Tx
  <2>4. CASE op.do = "drop_table" /\ t = op.on
    <3>1. r.view[t] = TableAfter(op, c) /\ t \in r.gone
      BY <1>1, <2>1, <2>4 DEF Becomes, Tx
    <3>2. TableAfter(op, c) = Nothing
      BY <2>4 DEF TableAfter
    <3> QED
      BY <3>1, <3>2
  <2>5. CASE op.do \notin {"rewrite", "drop_table"} /\ t = op.on
    <3>1. r.view[t] = TableAfter(op, c) /\ r.gone = s.gone
      BY <1>1, <2>1, <2>5 DEF Becomes, Tx
    <3>2. op.do \in {"create_table", "drop_check", "create_check"}
      BY <1>1, <2>5 DEF ProperOperation, Operations, Indexed, Stored
    <3>3. op.do # "drop_check" => op.spelling \in Spellings
      BY <1>1, <2>5, <3>2 DEF ProperOperation
    <3>4. TableAfter(op, c) # Nothing
      <4>1. PICK d \in Cells : d = TableAfter(op, c)
        BY <1>1, TableAfterType
      <4>2. d.check \in {"upper", "lower", "none"}
        BY <3>2, <3>3, <4>1, TableAfterIs DEF Spellings
      <4> QED
        BY <4>1, <4>2, PlainIs
    <3>5. t \notin s.gone
      <4>1. CASE op.do = "create_table"
        BY <1>10, <4>1
      <4>2. CASE op.do # "create_table"
        <5> SUFFICES ASSUME s.view[t] = Nothing PROVE FALSE
          BY <2>1
        <5>1. Expected(s, v)[t] = Nothing
          <6>1. Nothing # Same
            BY PlainIs, CellsAre
          <6> QED
            BY <2>1, <6>1 DEF Expected
        <5> QED
          BY <1>1, <2>5, <3>2, <4>2, <5>1, PlainIs DEF Fits, Spellings
      <4> QED
        BY <4>1, <4>2
    <3> QED
      BY <3>1, <3>4, <3>5
  <2> QED
    BY <2>2, <2>3, <2>4, <2>5
<1> QED
  BY <1>11, <1>12, <1>13 DEF Gone

\* Nothing is gone at the start.
LEMMA InitHasGoneNothing == Init => RowsGoWithTables
BY IdleIs DEF Init, RowsGoWithTables, Transactions

\* Every step keeps it so.
LEMMA NextKeepsGone ==
    ASSUME MigrationsInv, RowsGoWithTables, [Next]_vars
    PROVE  RowsGoWithTables'
<1> SUFFICES ASSUME NEW m \in Migrators, tx'[m].kind = "migration" PROVE Gone(tx'[m])
  BY DEF RowsGoWithTables
<1>1. PICK s \in Tx : s = tx[m] /\ m \in Transactions /\ tx \in [Transactions -> Tx]
  BY DEF MigrationsInv, Transactions
<1>2. s.kind = "migration" => Gone(s)
  BY <1>1 DEF RowsGoWithTables
<1>3. ASSUME NEW r, r.kind = s.kind, r.gone = s.gone, r.view = s.view, r.left = s.left, r.to = s.to,
             tx'[m] = r
      PROVE  Gone(tx'[m])
  BY <1>2, <1>3 DEF Gone
<1>4. CASE UNCHANGED vars
  BY <1>1, <1>3, <1>4 DEF vars
<1>5. ASSUME NEW x \in Transactions, x # m, NEW q, tx' = [tx EXCEPT ![x] = q] PROVE Gone(tx'[m])
  <2>1. tx'[m] = s
    BY <1>1, <1>5
  <2> QED
    BY <1>3, <2>1
<1>6. ASSUME NEW x \in Transactions, Finish(x) PROVE Gone(tx'[m])
  <2>1. tx' = [tx EXCEPT ![x] = Idle] /\ Idle.kind # "migration"
    BY <1>6, IdleIs DEF Finish
  <2>2. x # m
    BY <1>1, <2>1
  <2> QED
    BY <1>5, <2>1, <2>2
<1>7. ASSUME NEW x \in Migrators, BeginMigration(x) PROVE Gone(tx'[m])
  <2>1. PICK target \in Targets[x] : tx' = [tx EXCEPT ![x] = [Idle EXCEPT
            !.kind = "migration", !.to = target, !.left = Revision(version, target)]]
    BY <1>7 DEF BeginMigration
  <2>2. CASE x # m
    BY <1>5, <2>1, <2>2 DEF Transactions
  <2>3. CASE x = m
    <3>1. target \in 0..Latest /\ version \in 0..Latest
      BY TargetsAssumption DEF MigrationsInv
    <3>2. PICK left : left = Revision(version, target)
      OBVIOUS
    <3>3. tx'[m] = [Idle EXCEPT !.kind = "migration", !.to = target, !.left = left]
      BY <1>1, <2>1, <2>3, <3>2
    <3>4. PICK i \in Tx : i = Idle /\ i.gone = {} /\ \A t \in Tables : i.view[t] = Same
      BY IdleIs
    <3>5. PICK r : r = [i EXCEPT !.kind = "migration", !.to = target, !.left = left]
      OBVIOUS
    <3>6. r.gone = i.gone /\ r.view = i.view /\ r.to = target /\ r.left = left
      BY <3>5 DEF Tx
    <3>7. \A t \in Stored : i.view[t] # Nothing
      BY <3>4, TablesAre, PlainIs, CellsAre
    <3>8. (Drops(left) => target = 0) /\ (target = 0 => ~Creates(left))
      BY <3>1, <3>2, RevisionFalls
    <3>9. Gone(r)
      BY <3>4, <3>6, <3>7, <3>8 DEF Gone
    <3> QED
      BY <3>3, <3>4, <3>5, <3>9
  <2> QED
    BY <2>2, <2>3
<1>8. ASSUME NEW x \in Requests, BeginRequest(x) PROVE Gone(tx'[m])
  <2>1. x \in Transactions /\ x # m /\ \E q : tx' = [tx EXCEPT ![x] = q]
    BY <1>8, ProcessesAssumption DEF BeginRequest, Transactions
  <2> QED
    BY <1>5, <2>1
<1>9. ASSUME NEW x \in Transactions, Abort(x) PROVE Gone(tx'[m])
  BY <1>6, <1>9 DEF Abort
<1>10. ASSUME NEW x \in Transactions, TakeLock(x) PROVE Gone(tx'[m])
  <2>1. PICK t, k : \/ tx' = [tx EXCEPT ![x].held[t] = k, ![x].wants = NoTable]
                    \/ tx' = [tx EXCEPT ![x].wants = t]
    BY <1>10 DEF TakeLock
  <2>2. PICK q \in Tx : q = tx[x]
    BY <1>1
  <2>3. PICK w, u : w = [q EXCEPT !.held[t] = k, !.wants = NoTable] /\ u = [q EXCEPT !.wants = t]
    OBVIOUS
  <2>4. tx' = [tx EXCEPT ![x] = w] \/ tx' = [tx EXCEPT ![x] = u]
    BY <2>1, <2>2, <2>3
  <2>5. CASE x # m
    BY <1>5, <2>4, <2>5
  <2>6. CASE x = m
    <3>1. /\ w.kind = q.kind /\ w.gone = q.gone /\ w.view = q.view /\ w.left = q.left /\ w.to = q.to
          /\ u.kind = q.kind /\ u.gone = q.gone /\ u.view = q.view /\ u.left = q.left /\ u.to = q.to
      BY <2>3 DEF Tx
    <3>2. tx'[m] = w \/ tx'[m] = u
      BY <1>1, <2>4, <2>6
    <3> QED
      BY <1>1, <1>3, <2>2, <2>6, <3>1, <3>2
  <2> QED
    BY <2>5, <2>6
<1>11. ASSUME NEW x \in Transactions, RunStatement(x) PROVE Gone(tx'[m])
  <2>1. tx[x].kind # "migration" /\ tx' = [tx EXCEPT ![x].left = Tail(@)]
    BY <1>11 DEF RunStatement
  <2>2. PICK q \in Tx : q = tx[x]
    BY <1>1
  <2>3. PICK r : r = [q EXCEPT !.left = Tail(q.left)]
    OBVIOUS
  <2>4. tx' = [tx EXCEPT ![x] = r] /\ r.kind = q.kind
    BY <2>1, <2>2, <2>3 DEF Tx
  <2>5. x # m
    BY <1>1, <2>1, <2>2, <2>4
  <2> QED
    BY <1>5, <2>4, <2>5
<1>12. ASSUME NEW x \in Transactions, RunOperation(x) PROVE Gone(tx'[m])
  <2>0. PICK op : op = Head(tx[x].left)
    OBVIOUS
  <2>1. PICK q \in Tx : q = tx[x] /\ op = Head(q.left)
    BY <1>1, <2>0
  <2>2. /\ q.left # <<>> /\ q.left \in Seq(Statements) /\ q.kind = "migration"
        /\ Sound(q, version, schema) /\ version \in 0..Latest /\ schema = SchemaAt[version]
        /\ Last(q) \in Stamps
    BY <1>12, <2>1, OperationBegins
  <2>3. PICK left \in Seq(Statements), n \in Nat : left = q.left /\ n = Len(left) /\ n # 0
    BY <2>2
  <2>4. CASE n > 1
    <3>1. Len(q.left) > 1
      BY <2>3, <2>4
    <3>2. op \in Operations
      BY <1>12, <2>1, <3>1, OperationMoves
    <3>3. PICK c \in Cells, r \in Tx : Becomes(q, op, c, r) /\ tx' = [tx EXCEPT ![x] = r]
      BY <1>12, <2>1, <3>1, OperationMoves
    <3>4. CASE x # m
      BY <1>5, <3>3, <3>4
    <3>5. CASE x = m
      <4>1. tx'[m] = r
        BY <1>1, <3>3, <3>5
      <4>2. Gone(q)
        BY <1>1, <1>2, <2>1, <2>2, <3>5
      <4> QED
        BY <2>1, <2>2, <3>1, <3>2, <3>3, <4>1, <4>2, OperationTakesRows
    <3> QED
      BY <3>4, <3>5
  <2>5. CASE n = 1
    <3>1. op = Last(q) /\ op \in Stamps
      <4>1. Head(left) = left[1]
        BY <2>3, <2>5
      <4> QED
        BY <2>1, <2>2, <2>3, <2>5, <4>1 DEF Last
    <3>2. op.do = "stamp" /\ op.to \in 0..Latest
      BY <3>1 DEF Stamps
    <3>3. PICK r : r = [q EXCEPT !.left = Revision(op.to, q.to), !.version = op.to]
      OBVIOUS
    <3>4. tx' = [tx EXCEPT ![x] = r]
      BY <1>12, <2>1, <3>2, <3>3 DEF RunOperation
    <3>5. CASE x # m
      BY <1>5, <3>4, <3>5
    <3>6. CASE x = m
      <4>1. tx'[m] = r
        BY <1>1, <3>4, <3>6
      <4>2. Gone(q) /\ q.to \in 0..Latest
        BY <1>1, <1>2, <2>1, <2>2, <3>6 DEF Tx
      <4>3. PICK rest : rest = Revision(op.to, q.to)
        OBVIOUS
      <4>4. (Drops(rest) => q.to = 0) /\ (q.to = 0 => ~Creates(rest))
        BY <3>2, <4>2, <4>3, RevisionFalls
      <4>5. r.left = rest /\ r.to = q.to /\ r.gone = q.gone /\ r.view = q.view
        BY <3>3, <4>3 DEF Tx
      <4> QED
        BY <4>1, <4>2, <4>4, <4>5 DEF Gone
    <3> QED
      BY <3>5, <3>6
  <2>6. n # 0
    BY <2>3
  <2>7. n > 1 \/ n = 1
    BY <2>6
  <2> QED
    BY <2>4, <2>5, <2>7
<1>13. ASSUME NEW x \in Transactions, CommitMigration(x) PROVE Gone(tx'[m])
  <2>1. tx' = [y \in Transactions |->
          IF y = x THEN Idle
          ELSE IF tx[y].kind = "migration" THEN [tx[y] EXCEPT !.stale = TRUE]
          ELSE tx[y]]
    BY <1>13 DEF CommitMigration
  <2>2. x # m
    BY <1>1, <2>1, IdleIs
  <2>3. PICK r : r = [s EXCEPT !.stale = TRUE]
    OBVIOUS
  <2>4. /\ r.kind = s.kind /\ r.gone = s.gone /\ r.view = s.view /\ r.left = s.left /\ r.to = s.to
    BY <2>3 DEF Tx
  <2>5. tx'[m] = r \/ tx'[m] = s
    BY <1>1, <2>1, <2>2, <2>3
  <2> QED
    BY <1>3, <2>4, <2>5
<1>14. ASSUME NEW x \in Transactions, CommitRequest(x) PROVE Gone(tx'[m])
  BY <1>6, <1>14 DEF CommitRequest
<1>15. ASSUME NEW x \in Transactions, Step(x) PROVE Gone(tx'[m])
  BY <1>9, <1>10, <1>11, <1>12, <1>13, <1>14, <1>15 DEF Step, Fail, TurnAway
<1>16. ASSUME NEW x \in Transactions, AbortDeadlocked(x) \/ LoseSession(x) PROVE Gone(tx'[m])
  BY <1>9, <1>16 DEF AbortDeadlocked, LoseSession
<1> QED
  BY <1>4, <1>7, <1>8, <1>15, <1>16 DEF Next

-----------------------------------------------------------------------------
(* The invariant and what follows from it.                                 *)

\* A step that changes nothing preserves the invariant.
LEMMA StutteringIsSound ==
    ASSUME MigrationsInv, UNCHANGED vars
    PROVE  MigrationsInv'
BY DEF vars, MigrationsInv, RowsFit, LocksExclude

\* Every step preserves the invariant.
LEMMA NextIsSound ==
    ASSUME MigrationsInv, RowsGoWithTables, [Next]_vars
    PROVE  MigrationsInv'
<1>1. CASE UNCHANGED vars
  BY <1>1, StutteringIsSound
<1>2. ASSUME NEW m \in Migrators, BeginMigration(m) PROVE MigrationsInv'
  BY <1>2, MigrationBegins
<1>3. ASSUME NEW h \in Requests, BeginRequest(h) PROVE MigrationsInv'
  BY <1>3, RequestBegins
<1>4. ASSUME NEW x \in Transactions, Abort(x) PROVE MigrationsInv'
  <2>1. Finish(x) /\ UNCHANGED <<schema, version, row>>
    BY <1>4 DEF Abort
  <2> QED
    BY <2>1, Finished, RowsStay
<1>5. ASSUME NEW x \in Transactions, Step(x) PROVE MigrationsInv'
  <2>1. CASE TakeLock(x)
    BY <2>1, TakesLock
  <2>2. CASE Fail(x) \/ TurnAway(x)
    BY <1>4, <2>2 DEF Fail, TurnAway
  <2>3. CASE RunStatement(x)
    BY <2>3, StatementRuns
  <2>4. CASE RunOperation(x)
    BY <2>4, OperationRuns
  <2>5. CASE CommitMigration(x)
    BY <2>5, MigrationCommits
  <2>6. CASE CommitRequest(x)
    BY <2>6, RequestCommits
  <2> QED
    BY <1>5, <2>1, <2>2, <2>3, <2>4, <2>5, <2>6 DEF Step
<1>6. ASSUME NEW x \in Transactions, AbortDeadlocked(x) \/ LoseSession(x) PROVE MigrationsInv'
  BY <1>4, <1>6 DEF AbortDeadlocked, LoseSession
<1> QED
  BY <1>1, <1>2, <1>3, <1>5, <1>6 DEF Next

\* Whatever migrations and requests overlap, fail, deadlock or lose their
\* session: what each has still to run takes the catalog it goes by to the
\* revision it is going to, no two hold conflicting locks, and what one has
\* changed it has locked; and rows go with their table, on the way to base.
THEOREM MigrationsInvariance == Spec => [](MigrationsInv /\ RowsGoWithTables)
<1>1. Init => MigrationsInv /\ RowsGoWithTables
  BY InitIsSound, InitHasGoneNothing
<1>2. MigrationsInv /\ RowsGoWithTables /\ [Next]_vars => (MigrationsInv /\ RowsGoWithTables)'
  BY NextIsSound, NextKeepsGone
<1> QED
  BY <1>1, <1>2, PTL DEF Spec

\* A row fits the constraint in force on its table, a run has its agent, and
\* versions, locks and waits are what they can be.
THEOREM TypeCorrectness == Spec => []TypeOK
<1>1. MigrationsInv => TypeOK
  <2> SUFFICES ASSUME MigrationsInv PROVE TypeOK
    OBVIOUS
  <2>1. version \in 0..Latest /\ DOMAIN schema = Tables
    BY SchemaProper DEF MigrationsInv, Proper, Catalogs
  <2>2. ASSUME NEW t \in Stored, NEW r \in RowsOf(t)
        PROVE  /\ schema[t] # Nothing /\ r.spelling = schema[t].check
               /\ r.status \in {"created", "starting"}
    <3>1. PICK a \in Agents : r = row[t][a] /\ row[t][a] # NoRow
      BY DEF RowsOf
    <3>2. There(schema[t]) /\ r.spelling = schema[t].check
      BY <3>1 DEF MigrationsInv, RowsFit
    <3>3. r \in Rows
      BY <3>1 DEF MigrationsInv
    <3> QED
      BY <3>2, <3>3, PlainIs DEF There, Rows
  <2>3. \A a \in Agents : row.run[a] # NoRow => row.agent[a] # NoRow
    BY DEF MigrationsInv, RowsFit
  <2>4. ASSUME NEW x \in Transactions
        PROVE  (\A t \in Lockable : tx[x].held[t] \in 0..4) /\ tx[x].wants \in Lockable \cup {NoTable}
    BY DEF MigrationsInv, Tx
  <2> QED
    BY <2>1, <2>2, <2>3, <2>4 DEF TypeOK
<1> QED
  BY <1>1, MigrationsInvariance, PTL

\* Upgrades and downgrades by any number of processes, finished or not, leave
\* the catalog of the version the database says it is at, and at the head the
\* tables, constraints and indexes the models declare.
THEOREM CatalogIsTheVersions == Spec => []SchemaMatchesVersion
<1>1. MigrationsInv => SchemaMatchesVersion
  <2>1. SchemaAt[5] = Models
    <3>1. ASSUME NEW t \in Tables
          PROVE  SchemaAt[5][t] = Models[t]
      <4>1. SchemaAt[5][t] \in Cells /\ ~(5 < Since[t])
        BY SchemaIs, TablesAre DEF Since, Latest
      <4>2. SchemaAt[5][t].check = CheckAt(5, t) /\ SchemaAt[5][t].index = IndexAt(5, t)
        BY SchemaIs DEF Latest
      <4>3. CASE t \in Stored
        <5>1. SchemaAt[5][t].check = "lower" /\ SchemaAt[5][t].index = "none"
          BY <4>1, <4>2, <4>3 DEF CheckAt, IndexAt, Stored
        <5>2. Models[t] = [check |-> "lower", index |-> "none"]
          BY <4>3 DEF Models, Stored
        <5> QED
          BY <4>1, <5>1, <5>2 DEF Cells
      <4>4. CASE t \in Indexed
        <5>1. SchemaAt[5][t].check = "none" /\ SchemaAt[5][t].index = "seq"
          BY <4>1, <4>2, <4>4 DEF CheckAt, IndexAt, Stored, Indexed
        <5>2. Models[t] = [check |-> "none", index |-> "seq"]
          BY <4>4 DEF Models, Indexed
        <5> QED
          BY <4>1, <5>1, <5>2 DEF Cells
      <4>5. CASE t \notin Stored /\ t \notin Indexed
        <5>1. SchemaAt[5][t].check = "none" /\ SchemaAt[5][t].index = "none"
          BY <4>1, <4>2, <4>5 DEF CheckAt, IndexAt, Stored, Indexed
        <5>2. Models[t] = Plain
          BY <4>5 DEF Models, Stored, Indexed
        <5> QED
          BY <4>1, <5>1, <5>2 DEF Cells, Plain
      <4> QED
        BY <4>3, <4>4, <4>5
    <3>2. SchemaAt[5] = [t \in Tables |-> SchemaAt[5][t]] /\ Models = [t \in Tables |-> Models[t]]
      <4>1. SchemaAt[5] \in Catalogs
        BY SchemaProper DEF Proper, Latest
      <4>2. Models = [t \in Tables |-> Models[t]]
        BY DEF Models
      <4> QED
        BY <4>1, <4>2 DEF Catalogs
    <3> QED
      BY <3>1, <3>2
  <2> QED
    BY <2>1 DEF MigrationsInv, SchemaMatchesVersion, Latest
<1> QED
  BY <1>1, MigrationsInvariance, PTL

\* At the head no request is refused by the schema, and every agent's status
\* is spelt as the API reads it, however its statements interleave with a
\* migration's.
THEOREM RequestsAreServed == Spec => []HeadServes
<1>1. MigrationsInv => HeadServes
  <2> SUFFICES ASSUME MigrationsInv, version = Latest PROVE HeadServes
    BY DEF HeadServes
  <2>1. schema = SchemaAt[5]
    BY DEF MigrationsInv, Latest
  <2>2. \A t \in Stored : schema[t].check = "lower"
    <3>1. SchemaAt[5]["agent"].check = "lower" /\ SchemaAt[5]["run"].check = "lower"
      BY SchemaColumns DEF Columns, Has
    <3> QED
      BY <2>1, <3>1 DEF Stored
  <2>3. ASSUME NEW h \in Requests, Refused(h) PROVE FALSE
    <3>1. h \in Transactions /\ tx[h].left # <<>> /\ Breaks(h)
      BY <2>3 DEF Refused, Transactions
    <3>2. PICK s : s = Head(tx[h].left)
      OBVIOUS
    <3>3. tx[h] \in Tx /\ tx[h].kind # "none" /\ Shape(h, tx[h])
      BY <3>1, NextStatement DEF MigrationsInv
    <3>4. RequestShape(tx[h]) /\ tx[h].kind \in {"create", "start", "delete"}
      BY <3>3 DEF Shape, Tx
    <3>5. s \in {Statement("insert", "agent", "lower"), Statement("select", "agent", "none"),
                 Statement("update", "agent", "lower"), Statement("insert", "run", "lower"),
                 Statement("delete", "agent", "none")}
      BY <3>1, <3>2, <3>4, ProgramsAre DEF RequestShape
    <3>6. /\ s.on \in Stored /\ s.do \in {"select", "insert", "update", "delete"}
          /\ s.do \in {"insert", "update"} => s.spelling = "lower"
      BY <3>5 DEF Statement, Stored
    <3>7. Sees(h, s.on) = schema[s.on]
      BY <3>4, <3>6, TablesAre DEF Sees, RequestShape
    <3>8. Sees(h, s.on).check = "lower"
      BY <2>2, <3>6, <3>7
    <3>9. Sees(h, s.on) # Nothing
      BY <3>8, PlainIs
    <3> QED
      BY <3>1, <3>2, <3>6, <3>8, <3>9 DEF Breaks
  <2>4. ASSUME NEW r \in RowsOf("agent") PROVE r.spelling = "lower"
    <3>1. PICK a \in Agents : r = row["agent"][a] /\ row["agent"][a] # NoRow
      BY DEF RowsOf
    <3> QED
      BY <2>2, <3>1 DEF MigrationsInv, RowsFit, Stored
  <2> QED
    BY <2>3, <2>4 DEF HeadServes
<1> QED
  BY <1>1, MigrationsInvariance, PTL

\* Whatever way a migration takes, unless it is to base, every agent and run is
\* there after it as before, with the status it had: no revision on any way
\* drops a table and creates it again.
THEOREM RowsAreKept == Spec => RowsOutliveMigrations
<1>1. ASSUME MigrationsInv, RowsGoWithTables, [Next]_vars, version' \notin {version, 0},
             NEW t \in Stored, NEW a \in Agents
      PROVE  /\ row'[t][a] = NoRow <=> row[t][a] = NoRow
             /\ row[t][a] # NoRow => row'[t][a].status = row[t][a].status
  <2>1. PICK m \in Transactions : CommitMigration(m)
    BY <1>1 DEF vars, Next, Step, BeginMigration, BeginRequest, TakeLock, Fail, TurnAway, RunStatement,
       RunOperation, CommitRequest, AbortDeadlocked, LoseSession, Abort
  <2>2. PICK s \in Tx : s = tx[m]
    BY <1>1 DEF MigrationsInv
  <2>3. s.kind = "migration" /\ s.left = <<>> /\ version' = s.version /\ row'[t][a] = Respelt(m, t, a)
    BY <2>1, <2>2 DEF CommitMigration
  <2>4. m \in Migrators
    BY <1>1, <2>2, <2>3 DEF MigrationsInv, Shape, Transactions
  <2>5. t \notin s.gone
    <3>1. s.version = s.to
      BY <1>1, <2>2, <2>3, <2>4, CommitsExpected DEF MigrationsInv
    <3>2. Gone(s)
      BY <1>1, <2>2, <2>3, <2>4 DEF RowsGoWithTables
    <3> QED
      BY <1>1, <2>3, <3>1, <3>2 DEF Gone
  <2>6. CASE row[t][a] = NoRow
    BY <2>3, <2>6 DEF Respelt
  <2>7. CASE row[t][a] # NoRow /\ s.spelt[t] = "same"
    BY <2>2, <2>3, <2>5, <2>7 DEF Respelt
  <2>8. CASE row[t][a] # NoRow /\ s.spelt[t] # "same"
    <3>1. PICK r \in Rows : r = row[t][a]
      BY <1>1, <2>8 DEF MigrationsInv
    <3>2. row'[t][a] = [r EXCEPT !.spelling = s.spelt[t]]
      BY <2>2, <2>3, <2>5, <2>8, <3>1 DEF Respelt
    <3>3. s.spelt[t] \in Spellings
      BY <2>8 DEF Tx, Spellings
    <3>4. [r EXCEPT !.spelling = s.spelt[t]] \in Rows /\ [r EXCEPT !.spelling = s.spelt[t]].status = r.status
      BY <3>3 DEF Rows
    <3>5. \A q \in Rows : q # NoRow
      BY MarksAssumption DEF MarksAreNew, Rows
    <3> QED
      BY <2>8, <3>1, <3>2, <3>4, <3>5
  <2> QED
    BY <2>6, <2>7, <2>8
<1>2. MigrationsInv /\ RowsGoWithTables /\ [Next]_vars =>
         [version' \notin {version, 0} =>
             \A t \in Stored, a \in Agents :
                 /\ row'[t][a] = NoRow <=> row[t][a] = NoRow
                 /\ row[t][a] # NoRow => row'[t][a].status = row[t][a].status]_vars
  BY <1>1
<1> QED
  BY <1>2, MigrationsInvariance, PTL DEF Spec, RowsOutliveMigrations

\* What the rows of a table are spelt like as migration m leaves them, if it is
\* working from what is committed.
LEMMA RowsAsExpected ==
    ASSUME MigrationsInv, NEW m \in Transactions, NEW s \in Tx, s = tx[m], Gone(s), Base(s, version) = version,
           NEW t \in Stored, NEW a \in Agents, Respelt(m, t, a) # NoRow
    PROVE  Respelt(m, t, a).spelling = ExpectedRows(s, version)[t] /\ ExpectedRows(s, version)[t] # "any"
<1>1. row[t][a] # NoRow /\ s.view[t] # Nothing
  BY DEF Respelt, Gone
<1>2. PICK r \in Rows : r = row[t][a]
  BY <1>1 DEF MigrationsInv
<1>3. There(schema[t]) /\ r.spelling = schema[t].check /\ schema = SchemaAt[version]
  BY <1>1, <1>2 DEF MigrationsInv, RowsFit
<1>4. CASE s.spelt[t] = "same"
  <2>1. Respelt(m, t, a) = r
    BY <1>1, <1>2, <1>4 DEF Respelt, Gone
  <2>2. ExpectedRows(s, version)[t] = r.spelling
    BY <1>3, <1>4 DEF ExpectedRows
  <2> QED
    BY <2>1, <2>2 DEF Rows, Spellings
<1>5. CASE s.spelt[t] # "same"
  <2>1. Respelt(m, t, a) = [r EXCEPT !.spelling = s.spelt[t]]
    BY <1>1, <1>2, <1>5 DEF Respelt, Gone
  <2>2. [r EXCEPT !.spelling = s.spelt[t]].spelling = s.spelt[t]
    BY DEF Rows
  <2>3. ExpectedRows(s, version)[t] = s.spelt[t]
    BY <1>5 DEF ExpectedRows
  <2>4. s.spelt[t] # "any"
    BY DEF Tx
  <2> QED
    BY <2>1, <2>2, <2>3, <2>4
<1> QED
  BY <1>4, <1>5

\* No statement of a revision is refused, whatever rows it meets and whatever
\* requests run, unless another migration has committed since the plan.
THEOREM OnlyStaleFail == Spec => []OnlyStalePlansFail
<1>1. ASSUME MigrationsInv, RowsGoWithTables, NEW m \in Migrators, Refused(m), ~tx[m].stale PROVE FALSE
  <2>1. m \in Transactions /\ tx[m].left # <<>> /\ Breaks(m)
    BY <1>1 DEF Refused, Transactions
  <2>2. PICK s \in Tx, v \in 0..Latest : s = tx[m] /\ v = version
    BY <1>1 DEF MigrationsInv, Transactions
  <2>3. s.kind = "migration" /\ Sound(s, v, schema) /\ schema = SchemaAt[v] /\ s.left # <<>>
    BY <1>1, <2>1, <2>2, NextStatement DEF MigrationsInv
  <2>4. Base(s, v) = v
    BY <1>1, <2>2, <2>3 DEF Sound
  <2>5. \A t \in Tables : Sees(m, t) = Expected(s, v)[t]
    BY <2>2, <2>3, <2>4 DEF Sees, Expected
  <2>6. PICK op : op = Head(s.left)
    OBVIOUS
  <2>7. CASE Len(s.left) > 1
    <3>1. /\ op \in Operations /\ ProperOperation(op) /\ op.on \in Tables
          /\ Proper(Expected(s, v)) /\ Fits(Expected(s, v), ExpectedRows(s, v), op)
      BY <2>3, <2>6, <2>7, NextOperation
    <3>2. PICK E : E = Expected(s, v)
      OBVIOUS
    <3>3. \A t \in Tables : E[t] \in Cells /\ ProperCell(t, E[t]) /\ Sees(m, t) = E[t]
      BY <2>5, <3>1, <3>2 DEF Proper, ProperCell
    <3>4. \A t \in Tables : E[t] = Nothing <=> ~There(E[t])
      BY <3>3, NothingIs DEF There
    <3>5. Fits(E, ExpectedRows(s, v), op)
      BY <3>1, <3>2
    <3>6. CASE op.do = "create_table"
      <4>1. E[op.on] = Nothing /\ \A r \in Refs[op.on] : There(E[r])
        BY <3>1, <3>4, <3>5, <3>6 DEF Fits
      <4>2. Refs[op.on] \subseteq Tables
        BY <3>1, RefsAre, TablesAre
      <4> QED
        BY <2>1, <2>2, <2>6, <3>1, <3>3, <3>4, <3>6, <4>1, <4>2 DEF Breaks
    <3>7. CASE op.do = "drop_table"
      <4>1. E[op.on] # Nothing /\ \A r \in Tables : op.on \in Refs[r] => E[r] = Nothing
        BY <3>1, <3>4, <3>5, <3>7 DEF Fits
      <4> QED
        BY <2>1, <2>2, <2>6, <3>1, <3>3, <3>7, <4>1 DEF Breaks
    <3>8. CASE op.do = "create_index"
      <4>1. E[op.on] # Nothing /\ E[op.on].index = "none"
        BY <3>1, <3>4, <3>5, <3>8 DEF Fits
      <4> QED
        BY <2>1, <2>2, <2>6, <3>1, <3>3, <3>8, <4>1 DEF Breaks
    <3>9. CASE op.do = "drop_index"
      <4>1. E[op.on].index = "seq"
        BY <3>5, <3>9 DEF Fits
      <4> QED
        BY <2>1, <2>2, <2>6, <3>1, <3>3, <3>9, <4>1 DEF Breaks
    <3>10. CASE op.do = "drop_check"
      <4>1. E[op.on].check \in Spellings
        BY <3>5, <3>10 DEF Fits
      <4> QED
        BY <2>1, <2>2, <2>6, <3>1, <3>3, <3>10, <4>1 DEF Breaks
    <3>11. CASE op.do = "create_check"
      <4>1. E[op.on].check = "none" /\ ExpectedRows(s, v)[op.on] \in {"any", op.spelling}
        BY <3>5, <3>11 DEF Fits
      <4>2. op.on \in Stored
        BY <3>1, <3>11 DEF ProperOperation
      <4>3. ASSUME NEW a \in Agents, Respelt(m, op.on, a) # NoRow
            PROVE  Respelt(m, op.on, a).spelling = op.spelling
        <5>1. Gone(s)
          BY <1>1, <2>2, <2>3 DEF RowsGoWithTables
        <5> QED
          BY <1>1, <2>1, <2>2, <2>4, <4>1, <4>2, <4>3, <5>1, RowsAsExpected
      <4> QED
        BY <2>1, <2>2, <2>6, <3>1, <3>3, <3>11, <4>1, <4>3 DEF Breaks
    <3>12. CASE op.do = "rewrite"
      <4>1. E[op.on] # Nothing
        BY <3>1, <3>4, <3>5, <3>12 DEF Fits
      <4> QED
        BY <2>1, <2>2, <2>6, <3>1, <3>3, <3>12, <4>1 DEF Breaks
    <3> QED
      BY <3>1, <3>6, <3>7, <3>8, <3>9, <3>10, <3>11, <3>12 DEF Operations
  <2>8. CASE ~(Len(s.left) > 1)
    <3>1. PICK left \in Seq(Statements), n \in Nat : left = s.left /\ n = Len(left)
      BY DEF Tx
    <3>2. left # <<>>
      BY <2>3, <3>1
    <3>3. n = 1 /\ Head(left) = left[1]
      <4>1. ~(n > 1)
        BY <2>8, <3>1
      <4>2. n # 0 /\ Head(left) = left[1]
        BY <3>1, <3>2
      <4> QED
        BY <4>1, <4>2
    <3>4. op = Last(s)
      BY <2>6, <3>1, <3>3 DEF Last
    <3>5. op \in Stamps /\ s.version \in {Same, op.from}
      BY <2>3, <3>4 DEF Sound, OnTheWay
    <3>6. (IF s.version = Same THEN v ELSE s.version) = op.from
      BY <2>4, <3>4, <3>5 DEF Base
    <3>7. op.do = "stamp"
      BY <3>5 DEF Stamps
    <3> QED
      BY <2>1, <2>2, <2>6, <3>6, <3>7 DEF Breaks
  <2> QED
    BY <2>7, <2>8
<1>2. MigrationsInv /\ RowsGoWithTables => OnlyStalePlansFail
  BY <1>1 DEF OnlyStalePlansFail
<1> QED
  BY <1>2, MigrationsInvariance, PTL

=============================================================================
