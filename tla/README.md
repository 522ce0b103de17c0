# A verification project for juice-box

juice-box runs agents: a FastAPI service over PostgreSQL through which callers
create, start, stop, pause, resume, restart and delete agents, and a
persistence layer that an execution loop (work package W9, not in the
repository yet) will drive. What the code promises is spread over docstrings,
`docs/persistence.md`, the ADRs under `.dev-commander/design` and the tests.
This directory states those promises in TLA+, checks them with TLC on small
instances, and proves some of them for every instance with TLAPS. Source paths
below are relative to the root of the repository.

Almost every hard question about this code has one shape: several transactions
run statement by statement over the same few rows, at PostgreSQL's default
READ COMMITTED, and a commit, a rollback or a lost connection may fall
anywhere. Tests run one transaction at a time. The models here interleave them.

## 1. Inventory

| Component | State | Operations | What makes it correct |
| --- | --- | --- | --- |
| Lifecycle state machine, `src/juicebox/lifecycle/transitions.py` | none: two tables | `next_status`, `is_legal` | no live status is stranded, `completed` is terminal, every edge into `starting` is a new attempt |
| Agents API, `src/juicebox/api/agents.py`, `dependencies.py`, `persistence/database.py` | one transaction per request (`session_scope`), the reply | create, get, delete, five lifecycle actions | an illegal action is refused, a reply tells what was done, a failed request leaves nothing |
| Agent and run repositories, `persistence/repositories.py:29-135`, `models.py:125-168` | tables `agent`, `run`: status, `updated_at`, attempt numbers | `create`, `get`, `set_status`, `delete`, `create_attempt`, `get_current` | attempts 1..n without a gap, history never rewritten, no run without its agent |
| Messages and events, `repositories.py:182-242`, `models.py:198-234` | tables `message`, `event`, their identity columns `seq` | send, `list_unconsumed`, `mark_consumed`, `list_for_agent`, `append` | every message is consumed, once; events read in `seq` order miss none |
| Tasks and iteration records, `repositories.py:138-179, 245-295`, `models.py:171-195, 262-307` | tables `task`, `iteration_record` | `create`, `append`, lists | the history is append-only, outlives its tasks, and dies with its run |
| Schema migrations, `migrations/` | catalog, `alembic_version`, the rows' spelling of `status` | upgrade and downgrade of five revisions | any downgrade undoes its upgrade, no row is lost, the head is what the models declare |
| Agent listing, `agents.py:86-94`, `repositories.py:61-78` | the table `agent` as it moves, `created_at`; a client's limit and offset | `GET /agents` | a client that pages sees every agent, once, up to what changed under it |
| Declarative schemas, `src/juicebox/schemas` | none; the dumps in `agent.definition` and `agent.objective` | validation, defaults, dump | what is stored is what was asked for, reads back through the same model, and grants nothing unasked |
| Error mapping and application factory, `app.py`, `agents.py:44-82` | the registered handlers | the replies of `POST /agents` | a faulty body is a 422 that says where |
| Artifacts, `models.py:237-259` | table `artifact` | none yet | - |
| Health route, settings, entry point; image, compose, CI | constants | - | - |

How they meet. A route gets its session from the `get_session` dependency, which
wraps `session_scope`; every repository call is one or two statements of that
transaction; the foreign keys cascade from `agent` to everything else. Nothing
is shared in memory between requests: a session is per request and so is its
connection (`NullPool`). So all interaction is through row locks, key waits, foreign keys
and table locks of the database, and through the order of commits.

What is hard about it:

* *Stale reads.* A route reads the agent, computes the next status, and updates
  by id. `set_status` calls `session.get` again, but that is answered from the
  identity map: nothing looks at the row between the read and the write.
* *Late commit.* FastAPI, in the version `pdm.lock` pins, runs the code after
  the `yield` of a dependency once the reply has gone out. The commit is there.
* *Check then insert.* `create_attempt` reads `max(attempt)` and inserts one
  more.
* *Identity against commit order.* `seq` is drawn at the insert and seen at the
  commit.
* *Unconditional stamps.* `mark_consumed` sets `consumed_at` whatever it was.
* *Cascades* against inserts, stamps and drops that are under way.
* *Lock order*: requests, turns, cascades and migrations lock in different
  orders, and PostgreSQL aborts a transaction of each ring.
* *Paging by offset* over a table that grows, shrinks, and gains rows in its
  middle when a transaction that began earlier commits later.
* *One dump, read back later*: aliases, defaults and coerced values must
  survive `model_dump` and validate again.
* *Exceptions outside the two handlers*: decoding, YAML's constructors and the
  database raise more than `ValidationError` and `YAMLError`.
* *Lost sessions* at any statement and between reply and commit.

## 2. The modules

| Module | What it is | Specified by |
| --- | --- | --- |
| `Lifecycle` | the two transition tables as sets and operators | `transitions.py` |
| `AgentLifecycle` | abstract: each route one atomic step on status and attempts | `agents.py` read as a caller reads it |
| `AttemptLedger` | abstract: what the database keeps of attempts however requests overlap | the keys of `run` |
| `AgentsApi` | detailed: a request as a sequence of statements, replies, commits, losses | `agents.py`, `repositories.py`, `database.py` |
| `AgentsApiProofs` | theorems on `AgentsApi`: the ledger of attempts | |
| `AgentsApiRouteProofs` | extends it: statuses and attempts go together, routes never race for a number | |
| `AgentsApiRefinementProofs` | extends that: the two refinements, and what one request per agent adds | |
| `Messaging` | senders, turns of the loop, deletes, over `message` and `event` | `repositories.py`, `models.py` |
| `TaskHistory` | tasks planned and dropped, iterations appended, runs deleted | the same |
| `MessagingProofs` | theorems on `Messaging`: any overlap, then one turn per agent | |
| `TaskHistoryProofs` | theorems on `TaskHistory` | |
| `Migrations` | alembic's runs of the five revisions beside API requests | `migrations/` |
| `MigrationsProofs` | theorems on `Migrations`, each revision among them | |
| `Paging` | a client paging through `GET /agents` beside creates and deletes | `agents.py`, `repositories.py` |
| `PagingProofs` | theorems on `Paging`: what a page misses, repeats and adds | |
| `Documents` | `POST /agents` from the text of the body to the row | `agents.py`, `schemas/`, `app.py` |
| `DocumentsProofs` | theorems on `Documents`, the tables of fields first | |
| `MCAgentsApi`, `MCTaskHistory`, `MCMigrations` | instances for TLC: symmetry sets and the targets of migrations | |

The modules on transactions share one convention. A *session* (a *transaction* in `Migrations`)
is a record with a program counter, what its statements have locked, and what
it has read. A statement is an action, guarded by the locks it waits for; it
changes only the session. `Commit` makes everything the transaction wrote
visible in one step, and an exception or `LoseSession` returns the session to
rest with nothing written, which is what `session_scope` does
(`database.py:14-27`). A definition whose name is that of another one with a
word added (`SeqFromTwo`, `RaiseLeaky`, `BeforeNoTieBreak`) is the same code
with a plausible bug in it; nothing refers to it. It is there to be put in the
place of the right one, to see the property it is about fail.

### Lifecycle, AgentLifecycle, AttemptLedger

`TRANSITIONS` and `SystemEdges` are the two tables, `NextStatus` and `IsLegal`
the two functions. `AgentLifecycle` gives each route one step: `Create`,
`Apply` (start, stop, pause, resume, restart; the first and the last also add
an attempt), `Advance` (the system edges the loop will use), `Delete`. It has
no run of its own: `AgentsApi` is shown to implement it, and what it says of
statuses (`CallersCanStop`, `CompletedIsTerminal`) is checked there, on the
rows the statements commit.
`AttemptLedger` forgets statuses: ids are unborn, alive or gone, and an alive
one gains attempts one at a time.

### AgentsApi

A lifecycle route is `get -> update -> [max -> insert] -> respond -> commit`;
the two bracketed statements belong to start and restart. Every early return of
`_apply_lifecycle_action` is an action (`GetAbsent` 404, `RefuseIllegal` 409),
and so are the failures nothing catches: an UPDATE that matches no row
(`StaleDataError`), a duplicate attempt and a missing parent (`IntegrityError`)
end in a 500. Two callers that are not routes use the same repositories:
`advance`, the loop moving an agent along a system edge, and `attempt`, a bare
`create_attempt` such as the integration tests make. Row locks are those of the
PostgreSQL manual: `KEY SHARE` for the foreign key of an inserted run,
`NO KEY UPDATE` for an update of the agent, `UPDATE` for a delete; an insert
waits for an uncommitted insert of the same key. `now()` is the number of the
transaction. The verdict on a body is a choice here, a 422 or a 500
(`RejectBody`); `Documents` says which body gets which.

### Messaging

A *turn* lists the unconsumed messages of an agent, stamps them one by one, may
append an event and commits; it may also commit half way and go on in a fresh
session with the ids it has (`Renew`), since `mark_consumed` leaves the
transaction to its caller. A *send* inserts a message; `seq` is drawn at the
insert, and not given back by a rollback. A *delete* takes the agent's row and
then each message in any order. `Blockers` says who waits for whom, and
`AbortDeadlocked` is the server's deadlock detector. `mark_consumed` of a
message a cascade has deleted meanwhile takes the branch of the source: the
object is in the identity map, the UPDATE matches nothing, `StaleDataError`.

### TaskHistory

A run and its agent live and die together and are one value. `ClaimKey` is the
unique key `(run_id, iteration)`, `CheckParent` and `CheckTask` the foreign
keys of a record, with the row lock each takes; `DropTask` is a task deleted on
its own, which no code does yet and `IterationRecord`'s docstring foresees, so
it is marked external; the cascade of a delete takes the tasks one at a time.

### Migrations

The schema is, for each of the seven tables, whether it is there, which spelling
its `status` constraint asks for and whether it has its `(agent_id, seq)` index:
what the revisions change. Each revision is two sequences of statements,
`Upgrade_a017` and `Downgrade_a017` and so on, one per `op.` call of the file. A migration
reads `alembic_version`, plans (`Revision` by `Revision`), and runs everything in the one
transaction of `env.py`'s `begin_transaction`, stamping the version after each
revision. Beside it run other migrations and the API's create, start and
delete, of which only the tables they touch and the statuses they read and
write are kept. A migration's statements work on its view of the catalog, on the
spelling it gives the rows, and on `gone`, the tables of rows it has dropped; at
the commit these become the catalog's and the rows', and the rows of a table
that was dropped are gone even if a table of its name was created since. Statements take table locks one by one; strengths 1 to 4 stand
for PostgreSQL's lock modes so that two conflict when they add up to 5. The
order in which one statement locks several other tables is left open, which
allows a few rings the server's own order would not.

### Paging

`Insert` gives a row the time its transaction *began*: two rows of one
transaction share a `created_at`, and so may two transactions that begin in one
microsecond. `Commit` shows the rows, possibly behind newer ones. `ReadPage` is
one SELECT over what is committed then: `Orders` is every order the `ORDER BY`
leaves open, of which it takes one per query. The client goes on after what it
has read until a page is not full; this loop is the reader `limit` and `offset`
are for, and no client is in the repository. `RefuseBounds` is the 422 of
`Query`, `OffsetTooLarge` the error of a database whose offsets are bigints.

### Documents

A document is the mapping that YAML read, flattened to paths
`<<block, key>>`. Each pydantic model is a table of fields: the values
validation accepts, with what `model_dump` makes of each (a stripped prompt, a
flag from a quoted word, a float from an integer), samples of what it refuses,
and the default. Values are named for what validation tells apart. `Errors` is
`model_validate` (values refused or missing, keys no model has, the dependencies
of `completion_action`, which are looked at only when its keys are valid),
`Dump` is `model_dump(by_alias=True)`, `Unwrap` is `.objective`.

A client starts from the repository's own minimal or full example and makes up
to `MaxEdits` changes: set, drop or add any key, give a list for a document,
repeat or swap documents, garble the text. The request goes through the checks
in the order of `create_agent`, and `Raise` sends an exception through the
handlers `create_app` registers. Patterns are not spelled out character by
character, messages and error types are left out, and so is NaN, which equals
nothing, itself included.

## 3. What is checked

`NoRow`, `NoAgent` and the like are model values; agents, sessions, tasks and
so on are small sets of them, with symmetry in `overlap` and `exclusive`, whose
properties are about states and single steps.

| Run | Instance | Shows |
| --- | --- | --- |
| `overlap` | every kind of request, 2 agents, 2 sessions, 6 transactions | what survives *any* overlap: an agent has runs exactly if it has left `created`; entering `starting` and gaining an attempt are one step; routes never race for a number (`RoutesNeverCollide`); from every live status callers alone reach `stopped` (`CallersCanStop`), as the comment on `TRANSITIONS` promises; a route that got past its body fails with a 500 only because its agent was deleted under it (`UnhandledOnlyByDeletion`) |
| `ledger` | 1 agent, 3 sessions, 4 transactions | attempts are contiguous, no run is an orphan, the API implements `AttemptLedger`, every request ends, and the inductive invariant of the proofs holds |
| `exclusive` | `overlap` with one request per agent at a time | the statements implement `AgentLifecycle`; `updated_at` advances; nothing leaves `completed` |
| `messaging` | 1 agent, 3 sessions, 2 messages, 1 event | nothing outlives a deleted agent; every transaction ends though turns and cascades deadlock; the errors nothing catches are those of an agent deleted meanwhile (`ErrorsMeanDeleted`) |
| `single_orchestrator` | one turn per agent among sends and deletes, 1 agent, 3 sessions, 2 messages, 2 events, 1 loss | no message is stamped twice; events become visible in `seq` order; every message is consumed in the end, even one that was overtaken, unless its agent goes |
| `task_history` | 1 run, 2 tasks, 1 number, 3 sessions | references, no orphans, append-only history, every transaction ends |
| `migrations` | one migration between any revisions but the first, a `make migrate`, one request | the catalog is always that of the version, at the head that of the models; no statement is refused unless the plan is stale; at the head the API is never refused; every agent and run outlives, with its status, every migration but one to base (`RowsOutliveMigrations`) |
| `paging` | 4 agents, 2 writers, pages of at most 2 | a scan misses no more agents than were deleted under it, repeats no more than were committed, and undisturbed is the whole table, newest first |
| `documents` | every body within 2 edits of two examples | the stored documents are valid and mean what was sent; nothing is granted by leaving something out; no setting is lost; every fault is a 422 with its places but those listed in section 5 |
| `illegal_transition` | 1 agent, 2 sessions, 4 transactions | *violated*: an action that was legal when read is performed when it no longer is |
| `lost_create` | 1 agent, 1 session | *violated*: a client has a 201 for an agent that never exists |
| `seq_cursor` | 2 sends | *violated*: a message becomes visible behind a reader's cursor |

Deadlock checking is on except in `seq_cursor`, where the instance stops once
both messages are sent. `AgentsApi` ends by `Quiescent` when its transactions
are spent.

### Why the bounds are enough

Two sessions give every pair of statements in both orders; three are used
where a third party matters: a delete between two starters, a second sender
between a turn's list and its commit, a ring of three. Every property of
`AgentsApi` is about one agent or about two that must not disturb each other.
Four transactions (`ledger`) are a create and three that overlap; six
(`overlap`) reach every status, `completed` for instance after a create, a start and two steps
of the loop, and leave two requests to overlap there. Two messages are the least that can be out of order. `messaging` counts no
losses because it looks at what goes wrong without any;
`single_orchestrator` has one, at any statement of a turn, a send or a delete.
One agent is enough there: neither property relates two agents, and turns of
different agents share no row. One iteration number suffices for
`HistoryIsKept`, which is about writers of the *same* number, and two tasks for
a drop that must leave the other's records alone. The request beside the
migrations reaches each of create, start and delete at each revision.
Four agents in pages of two are three
pages, the last of them empty or not full, and two of the agents can share a
transaction. Two edits reach every pair of faults in one body: a block and a
key in it, a definition and an objective both wrong, one flag of a publication
without the flag it needs, documents swapped and one of them faulty.
`Migrations` leaves out stopping at revision 1 (base plus two tables), where
nothing is that is not at 2.

### Fairness

Liveness is claimed of transactions in flight and of messages that are
there. `AgentsApi` has weak
fairness of each session's next statement: the event loop runs a ready task,
and a row lock is granted once nobody holds it; the instance has finitely many
transactions, so no newcomer overtakes for ever. `Messaging` and `TaskHistory`
have no such bound on transactions, so they ask for strong fairness of each
session's statements: PostgreSQL queues the waiters of a lock and serves them
before later comers, and its detector ends a ring. `DiligentSpec` adds that the
loop of each agent keeps taking turns, one at a time, which is the contract of
`list_unconsumed`'s docstring (the loop drains everything outstanding as part
of each iteration) under the single orchestrator of `docs/persistence.md`. The
fairness of taking a turn is strong: deletes come and go, and a turn must not
wait for the day none is open. Nothing obliges a client to send, or a session
to be lost or not to be; losses that would have to end for a property to hold
are bounded by `MaxLosses`. `EveryMessageIsConsumed` supposes that deletes
cease: a delete takes the agent and then its messages, a turn its messages and
then the agent, so a turn and a delete that keeps coming back may be each
other's deadlock victims for ever, and TLC finds that behaviour when the
supposition is dropped. `Paging`, `Documents` and `Migrations` claim no liveness.

## 4. What is proved

Every theorem is about the specification TLC runs, for any sets of agents,
sessions, tasks and so on, any bound, and any values that satisfy the named
assumptions of the module that declares the constants (bounds are naturals;
`NoRow`, `NoAgent` and the like are not among the values they stand beside).
Where a theorem asks for more, the table says so. Each invariant below is
inductive: the initial states satisfy it, every step preserves it, and what the
run checks follows from it. Each was checked by TLC on small instances
before it was proved; only `LedgerInv` stayed among the runs' properties,
since the others are theorems now.

| Theorem | Statement | Also asks for |
| --- | --- | --- |
| *`AgentsApiProofs`* | | |
| `LedgerInvariance`, `TypeCorrectness` | `Spec => []LedgerInv`, `Spec => []TypeOK` | |
| `ContiguousAttempts`, `NoRunWithoutAgent` | `Spec => []AttemptsContiguous`, `Spec => []NoOrphanRuns` | |
| *`AgentsApiRouteProofs`* | | |
| `RouteShapes`, `StartMeansAttempt` | `Spec => []Shapes`, `Spec => StartingMeansNewAttempt` | |
| `RoutesInvariance`, `AttemptsWithStatus` | `Spec => []RoutesInv`, `Spec => []AttemptsMatchStatus` | routes only |
| `NoRouteCollision`, `OnlyDeletionIsUnhandled` | `Spec => []RoutesNeverCollide`, `Spec => UnhandledOnlyByDeletion` | routes only |
| *`AgentsApiRefinementProofs`* | | |
| `LedgerRefinement` | `Spec => ImplementsLedger` | |
| `CallersCanAlwaysStop` | `Spec => []CallersCanStop` | |
| `ExclusiveInvariance`, `UpdatesAdvance` | `ExclusiveSpec => []ExclusiveInv`, `ExclusiveSpec => UpdatedAtAdvances` | |
| `CompletedStays` | `ExclusiveSpec => CompletedIsTerminal` | |
| `LifecycleRefinement` | `ExclusiveSpec => ImplementsLifecycle` | routes only |
| *`TaskHistoryProofs`* | | |
| `HistoryInvariance`, `HistoryTypes` | `Spec => []HistoryInv`, `Spec => []TypeOK` | |
| `NothingOutlivesARun`, `NoRecordDangles` | `Spec => []NoOrphanRows`, `Spec => []NoDanglingTask` | |
| `HistoryStays` | `Spec => HistoryIsKept` | |
| *`MessagingProofs`* | | |
| `MessagingInvariance`, `MessagingTypes` | `Spec => []MessagingInv`, `Spec => []TypeOK` | |
| `NothingOutlivesAnAgent`, `OnlyDeletionIsAnError` | `Spec => []NoOrphanRows`, `Spec => ErrorsMeanDeleted` | |
| `TurnsInvariance`, `MessagesAreStampedOnce` | `ExclusiveSpec => []TurnsInv`, `ExclusiveSpec => []NoSecondStamp` | |
| `EventsAppearInOrder` | `ExclusiveSpec => EventCursorNeverSkips` | |
| *`MigrationsProofs`* | | |
| `MigrationsInvariance`, `TypeCorrectness` | `Spec => [](MigrationsInv /\ RowsGoWithTables)`, `Spec => []TypeOK` | |
| `CatalogIsTheVersions`, `RequestsAreServed` | `Spec => []SchemaMatchesVersion`, `Spec => []HeadServes` | |
| `OnlyStaleFail`, `RowsAreKept` | `Spec => []OnlyStalePlansFail`, `Spec => RowsOutliveMigrations` | |
| *`PagingProofs`* | | |
| `ListingInvariant`, `TypeCorrectness` | `Spec => []Inv`, `Spec => []TypeOK` | |
| `ScansSkipOnlyForDeletes`, `ScansRepeatOnlyForCreates` | `Spec => []SkipsNeedDeletes`, `Spec => []RepeatsNeedCreates` | |
| `QuietScansAreExact` | `Spec => []QuietScanIsTheTable` | |
| *`DocumentsProofs`* | | |
| `DocumentsInvariant`, `TypeCorrectness` | `Spec => []Inv`, `Spec => []TypeOK` | |
| `StoredDocumentsReadBack`, `SettingsAreKept` | `Spec => []DocumentsRoundTrip`, `Spec => []NoSettingDropped` | |
| `NoGrantByDefault`, `FaultsHaveAnswers` | `Spec => []NothingGrantedUnasked`, `Spec => []FaultsAreAnswered` | |

*Routes only* is `"attempt" \notin Kinds`: `create_attempt` is called by
`start` and `restart` and by nobody else, which is so of everything under
`src/`. A bare call, such as the integration tests make, counts attempts
without a lock on the agent, and the four statements are about what that lock
is worth: with bare calls two counts can meet on one number, and an agent can
have runs before it was started. `ExclusiveSpec` has one request, or one turn,
per agent at a time; that is the hypothesis of the promise, not of the proof.
So `ImplementsLifecycle`, `UpdatedAtAdvances`, `CompletedIsTerminal`, `NoSecondStamp` and
`EventCursorNeverSkips` do not speak of requests or turns of one agent that
overlap. Section 5 shows what becomes of them then: stale transitions in
`illegal_transition`, `seq` against commit order in `seq_cursor`; and
`EveryMessageIsConsumed` holds although sends overlap each other and the turn.

### The ledger of attempts

Neither `AttemptsContiguous` nor
`NoOrphanRuns` is inductive. A committing insert keeps the attempts contiguous
only if the number read by `SELECT max` is still the next one, which is false
as soon as somebody else committed, and true exactly when the key is not taken.
`LedgerInv` states why it goes well:

* `SessionShape`: what a session holds and knows at each statement; only a bare
  `create_attempt` counts runs without a lock on the agent.
* `LocksExclude`: a lock is on a row that is there, and conflicting ones are
  not held together. So an uncommitted run, whose session holds `KEY SHARE` or
  more, keeps deletes out until it is committed or gone.
* `UuidsFresh`: a row's id was issued first, and to one create only. So a
  deleted id never gets a second row that an old session might add runs to.
* `PendingAttempts`: a number that has been read is at most one above the
  highest committed one, and once inserted it is nobody else's and not yet
  committed. With contiguity this makes it exactly the next one.

The proof takes the actions one at a time; those
that change only the session share lemmas about a session being replaced, and
`Commit` is split by what the transaction did.

`LedgerRefinement` shows that every step is one of `AttemptLedger` or changes
nothing it sees, under the mapping `LifeOf`: an id is unborn until its create
commits, so issuing it is a stutter, a lost create kills an id that was never
born, and a commit is a `Birth`, an `Attempt` or a `Death`.

### The routes

`Shapes` adds to `SessionShape` where each kind of request can be, which status
it is about to write, and that a route into `starting` has its attempt by the
time it answers. That is enough for `StartMeansAttempt`: the commit that writes
`starting` is the one that adds a run. `RoutesInv` adds that a number a route
has counted *is* the next one (`RoutesCount`), which its `NO KEY UPDATE` lock
guarantees from the UPDATE to the commit, and that an agent has runs exactly if
it has left `created`. From it follow `NoRouteCollision`, against what
`create_attempt`'s docstring expects, and that a 500 behind a good body means a
delete (`OnlyDeletionIsUnhandled`).

`ExclusiveInv` is what one request per agent adds: nothing changed between a
request's read of its agent and its commit, so the target it computed is still
`NextStatus` of the row, and no row is younger than the transaction that is at
work on it. From the first follow `CompletedStays` and, with `RoutesInv`,
`LifecycleRefinement`, where `StatusOf` maps an agent to `absent` until its
create commits and each `Commit` to one step of `AgentLifecycle`; from the
second `UpdatesAdvance`. `CallersCanAlwaysStop` is about the table: `stopped`
is reached by callers' actions alone from `starting`, `running` and `paused`,
with the path written out.

### History and messages

`HistoryInv` says what the locks of `TaskHistory` exclude: a key a record was inserted
under is free until the commit and nobody else's; a task a record is about to
name stays, because whoever refers to it keeps others from dropping it; a run
whose row is locked is there. `HistoryStays` follows: a commit finds its key
free, so no record is written over.

`MessagingInv` says of the rows what `LocksExclude` says of agents: a message
that a transaction has stamped or is deleting is there and is nobody else's
(`RowsExclude`); the messages a turn has listed, loaded or stamped are of its
agent, and gone only if the agent is (`SeenOfTheAgent`), which is why an error
means a deleted agent; a `seq` that was drawn is nobody else's (`SeqsFresh`).
`TurnsInv` adds, for one turn per agent, that what a turn has yet to stamp is
unconsumed and none of it already stamped by itself, and that an event about to
be appended is above all of its agent's. `MessagesAreStampedOnce` is the first
of these at the commit, `EventsAppearInOrder` the second. A turn stamps the least
of the messages it has left; `MinIsLeast` shows that there is one, by
well-foundedness of the strict-subset order on a finite set, which needs no induction over an operator.

### Migrations

That the catalog is that of the version is not inductive: it says nothing of
what a running migration is about to commit. `MigrationsInv` says it of every
migration at every statement. It rests on one idea, `Leads(cat, rows, left)`:
run from the catalog `cat` and from rows spelt as `rows` has it, the statements
`left` are never refused and arrive at the revision the last of them stamps.

* `Sound`: what a migration has left to run leads from what it expects to the
  next revision on its way, where it expects (`Expected`, `ExpectedRows`) what
  it has done itself on top of the revision it planned from. Unless its plan is
  stale, that revision is the committed one.
* `ChangesAreLocked` and `LocksExclude`: what a migration has changed it keeps
  from all others, with its locks on the tables and, once it has stamped, on
  `alembic_version`; so what it expects of a table it has touched is still so
  when it commits.
* `FromBase`: a plan made from an empty database is the one nothing in
  `alembic_version` can refuse, since there is no row to find. Its own `CREATE
  TABLE agent` does it: while it is uncommitted nobody else creates one, and
  once somebody has, it is refused.
* `WritesFit` and `RowsFit`: a request that has written to a table holds a lock
  on it and found its constraint in lower case; rows fit the constraint in force.

The static half of the proof is about the files: ten lemmas, `Upgrade_e211_Leads` to
`Downgrade_a017_Leads`, run each `upgrade` and `downgrade` statement by
statement from the catalog of one revision to that of the next. The dynamic
half has one lemma for each action. `RunOperation` takes a statement off what is
left, or at a stamp puts the next revision there; `CommitMigration` makes its
catalog the committed one, and every other plan stale. The theorems hold for any
number of alembic processes, requests and agents, and any targets, revision 1
included, which the run leaves out.

That the schema is right says nothing of the rows: a revision that drops a
table and creates it again as it should be is `Sound` in every respect.
`RowsGoWithTables` says which tables of rows a migration can have dropped at each
statement: none on the way up, since no upgrade drops one; and on the way down
only those the catalog it has reached lacks, since no downgrade creates one. The
one revision whose catalog lacks `agent` or `run` is base, and `RowsAreKept`
follows. Both halves are again about the files (`UpgradesDropNothing`,
`DowngradesCreateNothing`). TLC checked `MigrationsInv` on the instance
of `migrations` with the path of `Leads` computed instead of quantified over.

### Paging

None of the three promises is inductive: each is about what a scan has seen,
when what the next page shows depends on where rows stand from the offset.
Call a set of listed agents a *front* (`Fronts`) when any listing shows it ahead
of all the others; whatever commits or is deleted, every number of first rows is
one. Besides types, and that a row's id and transaction were issued once (`Typed`,
`Fresh`), the invariant says while a client pages (`Paged`):

* `FewMissed`: of a front, however far it reaches beyond what was read, the
  agents that were listed at the start and have not been seen are no more than
  those deleted meanwhile and that reach together (`Beyond`).
* `FewRepeated`: the front up to what was read is covered by the rows that
  were added and the agents seen that are not listed behind it.
* `Undisturbed`: if nothing changed, what was seen is a front, in its order.
* `AtTheEnd`: the next page begins where the last ended.

A commit may put agents anywhere in the listing and a delete take one from
anywhere: either changes a front by them, and both sides of each bound with it
(`CommitPaged`, `DeleteAgentPaged`). A page is the stretch of the listing at the
offset, so one front less another; what `FewMissed` and `FewRepeated` say of the
two gives what it may skip and repeat (`PageMissesFew`, `PageRepeatsFew`,
`PageExtendsPrefix`). At the end the whole listing is a front with nothing
beyond what was read, and the bounds are the promises. All of it needs the
order to be total, which the `id` behind `created_at` in the `ORDER BY` is for:
without it two pages may cut rows of one `created_at` differently, and neither
is a front of the other's listing.

### Documents

That a stored document reads back is a fact about tables before it is one about
requests. `Sound` states what every field must do: what it makes of a value it
makes of itself again; its default is a value it keeps; it makes nothing
unstorable; only a key of `Blocks` holds a block. A lemma per model checks its
fields (`AgentDefinitionSound` and so on). From there on no field is looked at
again, but for the few a statement is about:

* `OpenByValues`: which blocks are open depends on the values at the paths only.
  So dumping, which changes no value, and forgetting the keys of blocks that are
  not open, open and close nothing.
* `DumpIsSettled`: the dump of a document without errors has none and is its own
  dump, for *any* sound model.
* `UnwrapIsSettled`: so is the objective taken out of its document, whose paths
  move from `objective` to the top.

`Inv` has the shapes of replies and rows and, of the body, that a client edits
within open blocks (`BodyOK`). The last matters for `SettingsAreKept`: an error
is reported for an unknown key of an *open* block only, so a key in a block no
model has could be lost unseen. It cannot be there: the top-level key of such a
block is itself unknown and refused. It also keeps `apiVersion` out of the objective and
`objective` out of the definition, so that swapped or repeated documents never
validate. `MaxEdits` is any natural number; the values that stand for what
validation tells apart are those of the model.

### Only model-checked

* `EveryRequestEnds`, `EveryTransactionEnds`, `EveryMessageIsConsumed`: they
  rest on fairness, and TLAPS reasons about neither `ENABLED` nor `WF_`/`SF_`.
  Every other property of a passing run is a theorem.
* The violated properties of section 5, which are counterexamples.

## 5. Where the code and what is said of it differ

With a run:

* `illegal_transition`. A start reads `created`; another start and a stop
  commit; the first start then writes `starting` over `stopped` and answers
  200. Plan 0004 says an illegal transition "is refused rather than performed".
  Under one request per agent (`exclusive`) it is.
* `lost_create`. The reply precedes the commit.
* `seq_cursor`. The lower `seq` commits last, and a reader paging on
  `seq > cursor` never sees it; the comment on `Seq` and `FEATURES.md` call it
  the cursor. `list_unconsumed` filters on `consumed_at` and is immune:
  `single_orchestrator`. Events are written by one turn at a time and are safe under that
  assumption.

Seen in the models, without a run of their own:

* `create_attempt`'s docstring says two racing starters make the unique
  constraint fail loudly. Between routes it cannot fire: `set_status` has
  locked the agent before `max(attempt)` is read (`RoutesNeverCollide`). The
  second start waits, reads 1, creates attempt 2 and answers 200, although
  `start_agent` says it creates the first attempt.
* An agent deleted between a route's read and its UPDATE gives a 500, not 404.
* A client that has its 201 may ask for the agent before the commit, and get a
  404.
* `mark_consumed` of a message deleted since it was listed raises
  `StaleDataError`; its docstring says it returns `None`.
* `updated_at` is the start of the transaction: when requests overlap it can
  go backwards.
* With two turns of one agent a message is stamped twice and events can be
  skipped; `docs/persistence.md` excludes this by its single orchestrator.
* The code at the head, run against a schema before `a017971fe447`, answers
  start with "cannot start an agent that is CREATED" (409) and create with 500.
* `FEATURES.md` says a body that fails schema or YAML validation gets a 422.
  A body that is not UTF-8 (`UnicodeDecodeError`) and a scalar that looks like
  a date and is none, such as `2024-02-30` (a `ValueError` of PyYAML's
  constructor), reach neither handler and are a 500. So is a *valid* document
  that JSONB does not take: `cpu: .inf`, or a NUL in a text.
* `FEATURES.md` says an out-of-range `offset` is a 422 rather than reaching
  PostgreSQL as an error. This holds of a negative one; one beyond a bigint
  reaches it (`OffsetTooLarge`).
* `docs/schemas.md` says an unknown key is an error and not a silently dropped
  setting. A *repeated* key is dropped: PyYAML keeps the last.
* Paging by `offset` can miss agents when others are deleted meanwhile, and
  repeat some when others are created; `paging` bounds how many.
* Two alembic processes, or a downgrade and a delete, can deadlock. One is
  rolled back as a whole.

## 6. What is not modelled

The list methods of the repositories other than `AgentRepository.list` and
`list_unconsumed` change nothing and are read by nobody yet. The health route,
settings, entry point, image, compose file and CI hold no behaviour a model
would add to; neither does the offline mode of `migrations/env.py`, which
prints SQL. Nothing reads or writes `artifact` yet. The execution loop,
the message route and the dropping of tasks are not in the repository: they
are modelled from the repositories' docstrings, and marked external. PostgreSQL
and SQLAlchemy's identity map are modelled as far as the code relies on them;
queues for a lock appear only as fairness. Some details are coarser than the
code, or left out:

* `InsertRun` of `AgentsApi` waits for the unique key and for the foreign key in
  one guard; PostgreSQL takes them one after the other within the statement.
* `now()` is strictly increasing in `AgentsApi`, so two transactions that begin
  in one microsecond and write the same `updated_at` are not represented, and
  `UpdatedAtAdvances` says nothing of them. `Paging` has equal times.
* `Program` of `Migrations` leaves out the SELECT of `create_attempt`, which
  changes nothing: the request has its lock on `agent` by then, which no
  migration that touches `run` can do without.
* `Documents` leaves out a NUL in `repository.url` (it has one in the free texts) and
  the `RecursionError` of YAML nested beyond the interpreter's limit; both would
  add to the bodies of section 5 that are a 500.

`memory_bytes` and `timeout_delta`
are evaluated by nothing under `src/`, `current_task_id` and `size_bytes` are
written by nothing, and no caller passes a run of another agent where agent and
run are both asked for, so what could go wrong there has no behaviour to be
checked on. Serialisation, JSON, timestamps
other than `updated_at`, and the columns no operation reads are left out.

## 7. Plan

Done: `Lifecycle`, `AgentLifecycle`, `AttemptLedger`, `AgentsApi` with its
first theorems, `Messaging`, `TaskHistory`, `Migrations`, `Paging`,
`Documents`. What is left of modelling is that migrations and requests end, on
a smaller instance of `Migrations`; and callers of the message, task and
iteration repositories, once the repository has some.

Theorems: every safety property, action property and refinement a run checks is
proved. What is left is liveness, which stays with TLC.
