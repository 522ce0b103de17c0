------------------------------ MODULE AgentsApi ------------------------------
(***************************************************************************)
(* The agents API of juicebox over PostgreSQL: every request is handled in *)
(* a transaction of its own (session_scope, one connection per request),   *)
(* statement by statement, while other requests do the same.               *)
(*                                                                         *)
(* A session is one request in flight.  A lifecycle route runs             *)
(*                                                                         *)
(*    get -> update -> [max -> insert] -> respond -> commit                *)
(*                                                                         *)
(* where the bracketed statements (RunRepository.create_attempt) belong to *)
(* start and restart.  FastAPI (the version pdm.lock pins) runs what       *)
(* follows the `yield` of get_session after it has sent the reply, hence   *)
(* `respond` before `commit`.                                              *)
(*                                                                         *)
(* PostgreSQL is external and modelled at READ COMMITTED, the engine's     *)
(* default: a statement sees what is committed when it runs, writes        *)
(* take the row locks of the manual's conflict table and hold them to the  *)
(* end of the transaction, and now() is the time the transaction began.    *)
(***************************************************************************)
EXTENDS Lifecycle, Integers, FiniteSetsExt

CONSTANTS Agents,       \* the uuids agents may be given
          Sessions,     \* requests that may be in flight together
          Kinds,        \* the kinds of request this instance receives
          MaxTx,        \* bound: transactions begun in a behaviour
          NoRow,        \* an agent row that is not there
          NoAgent       \* the id of a session that serves no request

\* Requests that arrive over HTTP; the other two are in-process callers of
\* the repositories under session_scope: `advance`, the execution loop (W9)
\* performing a system transition, and `attempt`, a bare create_attempt.
Routes == LifecycleAction \cup {"create", "get", "delete"}
AllKinds == Routes \cup {"advance", "attempt"}

Row == [status : AgentStatus, updated : Nat]

ASSUME KindsAssumption == Kinds \subseteq AllKinds
ASSUME MaxTxAssumption == MaxTx \in Nat
ASSUME NoRowAssumption == NoRow \notin Row
ASSUME NoStatusAssumption == NoRow \notin AgentStatus
ASSUME NoAgentAssumption == NoAgent \notin Agents

VARIABLES
    agent,      \* agent[a]: the committed row of agent a, or NoRow
    run,        \* run[a]: the committed attempt numbers of agent a's runs
    issued,     \* every uuid generated so far
    clock,      \* transactions begun so far, the reading of now()
    session     \* session[h]: the request h serves

vars == <<agent, run, issued, clock, session>>

Idle == [pc |-> "idle", kind |-> "none", id |-> NoAgent, target |-> "none",
         began |-> 0, attempt |-> 0, held |-> "none", code |-> "none"]

Init ==
    /\ agent = [a \in Agents |-> NoRow]
    /\ run = [a \in Agents |-> {}]
    /\ issued = {}
    /\ clock = 0
    /\ session = [h \in Sessions |-> Idle]

-----------------------------------------------------------------------------
(* PostgreSQL: row locks and visibility.                                   *)

\* The row-level lock modes that exclude one another: KEY SHARE is what the
\* foreign key of an inserted run takes on its agent, NO KEY UPDATE what an
\* UPDATE of the agent takes, UPDATE what a DELETE takes.
Conflicts == {{"keyshare", "update"}, {"nokeyupdate"},
              {"nokeyupdate", "update"}, {"update"}}

\* h may lock the row of agent a in `mode`; until then its statement waits.
Free(h, a, mode) ==
    \A o \in Sessions \ {h} :
        session[o].id = a => {session[o].held, mode} \notin Conflicts

\* The run row s inserts or has inserted and not yet committed.
Inserted(s) == s.attempt # 0 /\ s.pc # "insert"

\* Another transaction holds the unique key (id, n) uncommitted: an insert
\* of the same key waits for its outcome.
KeyInFlight(h, a, n) ==
    \E o \in Sessions \ {h} :
        session[o].id = a /\ session[o].attempt = n /\ Inserted(session[o])

-----------------------------------------------------------------------------
(* How a request moves from statement to statement.                        *)

AttemptActions == {"start", "restart"}

Closing(kind) == IF kind \in Routes THEN "respond" ELSE "commit"

\* After with the two repository calls of _apply_lifecycle_action swapped:
\* the attempt first, the status last.
AfterAttemptFirst(kind, step) ==
    CASE step = "get" -> IF kind \in AttemptActions THEN "max" ELSE
                         IF kind = "get" THEN "respond" ELSE "update"
      [] step = "max" -> "insert"
      [] step = "insert" /\ kind \in AttemptActions -> "update"
      [] OTHER -> Closing(kind)

\* After with the attempt made for a start only.
AfterStartOnly(kind, step) ==
    CASE step = "get" /\ kind # "get" -> "update"
      [] step = "update" /\ kind = "start" -> "max"
      [] step = "max" -> "insert"
      [] OTHER -> Closing(kind)

\* The statement that follows `step` in the handler of `kind`.
After(kind, step) ==
    CASE step = "get" /\ kind # "get" -> "update"
      [] step = "update" /\ kind \in AttemptActions -> "max"
      [] step = "max" -> "insert"
      [] OTHER -> Closing(kind)

Proceed(h) ==
    session' = [session EXCEPT ![h].pc = After(session[h].kind, session[h].pc)]

\* An exit from session_scope that neither commits nor rolls back: the
\* transaction stays open and keeps its locks.
FinishLeaky(h, code) ==
    session' = [session EXCEPT ![h].pc = "idle", ![h].code = code]

\* The request is over and its transaction ended, its locks with it.  Only
\* the reply is remembered.
Finish(h, code) == session' = [session EXCEPT ![h] = [Idle EXCEPT !.code = code]]

\* The handler raised: session_scope rolls back, then the caller is told.
Raise(h, code) ==
    /\ Finish(h, code)
    /\ UNCHANGED <<agent, run, issued, clock>>

Success(kind) ==
    CASE kind = "create" -> "201"
      [] kind = "delete" -> "204"
      [] OTHER -> "200"

-----------------------------------------------------------------------------
(* The statements, one action each.                                        *)

\* create_agent refuses the body before there is a row: a 422 for what it
\* validates, a 500 for what it cannot read or the INSERT cannot store (see
\* Documents).
RejectBody(h) ==
    /\ session[h].pc = "idle"
    /\ "create" \in Kinds
    /\ \E code \in {"422", "500"} : Finish(h, code)
    /\ UNCHANGED <<agent, run, issued, clock>>

\* The default of agent.status before migration a017971fe447.
InitialStatusUppercase == "CREATED"

\* The default of agent.status.
InitialStatus == "created"

\* create_agent with a valid body: AgentRepository.create flushes the INSERT
\* of a row with a fresh uuid, which no other transaction can see or wait for.
CreateAgent(h) ==
    /\ session[h].pc = "idle"
    /\ "create" \in Kinds
    /\ clock < MaxTx
    /\ \E a \in Agents \ issued :
          /\ issued' = issued \cup {a}
          /\ session' = [session EXCEPT ![h] =
                [Idle EXCEPT !.pc = Closing("create"), !.kind = "create", !.id = a,
                             !.target = InitialStatus, !.began = clock + 1]]
    /\ clock' = clock + 1
    /\ UNCHANGED <<agent, run>>

FirstStatement(kind) ==
    CASE kind = "delete" -> "delete"
      [] kind = "attempt" -> "max"
      [] OTHER -> "get"

\* An id a caller can name: a 201 has carried it, or was lost.  Whether there
\* is a row is another matter; an id whose row is gone, or never came to be,
\* stands for every id that names no agent.
Known(a) ==
    /\ a \in issued
    /\ ~\E h \in Sessions :
          session[h].id = a /\ session[h].kind = "create" /\ session[h].pc = "respond"

\* Any other request: BEGIN, ahead of its first statement.
Receive(h) ==
    /\ session[h].pc = "idle"
    /\ clock < MaxTx
    /\ \E kind \in Kinds \ {"create"}, a \in {b \in Agents : Known(b)} :
          session' = [session EXCEPT ![h] =
             [Idle EXCEPT !.pc = FirstStatement(kind), !.kind = kind, !.id = a,
                          !.began = clock + 1]]
    /\ clock' = clock + 1
    /\ UNCHANGED <<agent, run, issued>>

\* The statuses a request of this kind may move an agent to from `current`:
\* next_status for a caller's action, is_legal over the targets of the system
\* edges for the execution loop.
Targets(kind, current) ==
    IF kind = "advance"
    THEN {edge[2] : edge \in {e \in SystemEdges : IsLegal(current, e[2])}}
    ELSE NextStatus(current, kind)

\* AgentRepository.get finds no row: 404.
GetAbsent(h) ==
    /\ session[h].pc = "get"
    /\ agent[session[h].id] = NoRow
    /\ Raise(h, "404")

\* get_agent finds the row and only has to reply.
GetAgent(h) ==
    /\ session[h].pc = "get"
    /\ session[h].kind = "get"
    /\ agent[session[h].id] # NoRow
    /\ Proceed(h)
    /\ UNCHANGED <<agent, run, issued, clock>>

\* next_status raises IllegalTransition: 409.
RefuseIllegal(h) ==
    /\ session[h].pc = "get"
    /\ session[h].kind # "get"
    /\ agent[session[h].id] # NoRow
    /\ Targets(session[h].kind, agent[session[h].id].status) = {}
    /\ Raise(h, "409")

\* The status to write is computed from the row as it is now.  set_status's
\* own session.get returns this same object from the identity map, so nothing
\* reads the status again before the UPDATE.
ComputeStatus(h) ==
    /\ session[h].pc = "get"
    /\ session[h].kind # "get"
    /\ agent[session[h].id] # NoRow
    /\ \E target \in Targets(session[h].kind, agent[session[h].id].status) :
          session' = [session EXCEPT
             ![h].target = target,
             ![h].pc = After(session[h].kind, "get")]
    /\ UNCHANGED <<agent, run, issued, clock>>

\* session.merge in place of UPDATE: a row deleted meanwhile is written anew.
UpdateStatusUpsert(h) ==
    /\ session[h].pc = "update"
    /\ Free(h, session[h].id, "nokeyupdate")
    /\ session' = [session EXCEPT
          ![h].held = "nokeyupdate",
          ![h].pc = After(session[h].kind, "update")]
    /\ UNCHANGED <<agent, run, issued, clock>>

\* set_status: UPDATE agent SET status, updated_at WHERE id.  It waits for
\* the row, then writes over whatever status it finds; no row left to match
\* is a StaleDataError, which nothing catches.
UpdateStatus(h) ==
    /\ session[h].pc = "update"
    /\ Free(h, session[h].id, "nokeyupdate")
    /\ \/ /\ agent[session[h].id] = NoRow
          /\ Raise(h, "500")
       \/ /\ agent[session[h].id] # NoRow
          /\ session' = [session EXCEPT
                ![h].held = "nokeyupdate",
                ![h].pc = After(session[h].kind, "update")]
          /\ UNCHANGED <<agent, run, issued, clock>>

\* The highest committed attempt of a, 0 when there is none.
Last(a) == Max(run[a] \cup {0})

\* (current or 0) + 1, with the first number one too high.
NextAttemptFromOne(a) == (IF run[a] = {} THEN 1 ELSE Last(a)) + 1

\* (current or 0) + 1 over the committed runs of a.
NextAttempt(a) == Last(a) + 1

\* create_attempt: SELECT max(attempt).
ReadMaxAttempt(h) ==
    /\ session[h].pc = "max"
    /\ session' = [session EXCEPT
          ![h].attempt = NextAttempt(session[h].id),
          ![h].pc = After(session[h].kind, "max")]
    /\ UNCHANGED <<agent, run, issued, clock>>

\* run without its foreign key to agent.
InsertRunUnchecked(h) ==
    LET s == session[h] IN
    /\ s.pc = "insert"
    /\ ~KeyInFlight(h, s.id, s.attempt)
    /\ \/ /\ s.attempt \in run[s.id]
          /\ Raise(h, "500")
       \/ /\ s.attempt \notin run[s.id]
          /\ Proceed(h)
          /\ UNCHANGED <<agent, run, issued, clock>>

\* create_attempt: INSERT INTO run.  It waits for an uncommitted insert of
\* the same (agent_id, attempt); a duplicate of uq_run_agent_attempt or an
\* agent that is gone is an IntegrityError, which nothing catches.
InsertRun(h) ==
    LET s == session[h] IN
    /\ s.pc = "insert"
    /\ ~KeyInFlight(h, s.id, s.attempt)
    /\ Free(h, s.id, "keyshare")
    /\ \/ /\ s.attempt \in run[s.id] \/ agent[s.id] = NoRow
          /\ Raise(h, "500")
       \/ /\ s.attempt \notin run[s.id] /\ agent[s.id] # NoRow
          /\ session' = [session EXCEPT
                ![h].held = IF @ = "none" THEN "keyshare" ELSE @,
                ![h].pc = After(s.kind, "insert")]
          /\ UNCHANGED <<agent, run, issued, clock>>

\* delete_agent: DELETE FROM agent WHERE id.  It waits for every transaction
\* that holds the row; no row to delete is the same 204.
DeleteAgent(h) ==
    /\ session[h].pc = "delete"
    /\ Free(h, session[h].id, "update")
    /\ session' = [session EXCEPT
          ![h].held = IF agent[session[h].id] = NoRow THEN "none" ELSE "update",
          ![h].pc = After("delete", "delete")]
    /\ UNCHANGED <<agent, run, issued, clock>>

\* The 2xx reply goes out.  Every error has been replied to by Raise.
Respond(h) ==
    /\ session[h].pc = "respond"
    /\ session' = [session EXCEPT ![h].pc = "commit",
                                  ![h].code = Success(session[h].kind)]
    /\ UNCHANGED <<agent, run, issued, clock>>

\* The agent row the transaction of s leaves, were updated_at not touched.
RowAfterNoTouch(s) ==
    CASE s.kind = "create" -> [status |-> InitialStatus, updated |-> s.began]
      [] s.held = "nokeyupdate" -> [agent[s.id] EXCEPT !.status = s.target]
      [] s.held = "update" -> NoRow
      [] OTHER -> agent[s.id]

\* The agent row the transaction of s leaves: `created` at first, the status
\* it computed and updated_at = now() on update, none on delete.
RowAfter(s) ==
    CASE s.kind = "create" -> [status |-> s.target, updated |-> s.began]
      [] s.held = "nokeyupdate" -> [status |-> s.target, updated |-> s.began]
      [] s.held = "update" -> NoRow
      [] OTHER -> agent[s.id]

\* The foreign key without ON DELETE CASCADE, unenforced.
RunsAfterNoCascade(s) ==
    IF Inserted(s) THEN run[s.id] \cup {s.attempt} ELSE run[s.id]

\* The runs of its agent the transaction of s leaves: delete cascades.
RunsAfter(s) ==
    CASE s.held = "update" -> {}
      [] Inserted(s) -> run[s.id] \cup {s.attempt}
      [] OTHER -> run[s.id]

\* session_scope commits: everything the session wrote becomes visible.
Commit(h) ==
    LET s == session[h] IN
    /\ s.pc = "commit"
    /\ agent' = [agent EXCEPT ![s.id] = RowAfter(s)]
    /\ run' = [run EXCEPT ![s.id] = RunsAfter(s)]
    /\ Finish(h, Success(s.kind))
    /\ UNCHANGED <<issued, clock>>

\* The connection or the process is lost, or the commit fails: nothing of the
\* transaction remains.  A reply already sent stays sent.
LoseSession(h) ==
    /\ session[h].pc # "idle"
    /\ Raise(h, IF session[h].code = "none" THEN "lost" ELSE session[h].code)

Statement(h) ==
    \/ GetAbsent(h) \/ GetAgent(h) \/ RefuseIllegal(h) \/ ComputeStatus(h)
    \/ UpdateStatus(h) \/ ReadMaxAttempt(h) \/ InsertRun(h) \/ DeleteAgent(h)
    \/ Respond(h) \/ Commit(h)

\* MaxTx is spent and every request served: the instance ends here.
Quiescent ==
    /\ clock = MaxTx
    /\ \A h \in Sessions : session[h].pc = "idle"
    /\ UNCHANGED vars

Next ==
    \/ \E h \in Sessions :
          \/ RejectBody(h) \/ CreateAgent(h) \/ Receive(h)
          \/ Statement(h) \/ LoseSession(h)
    \/ Quiescent

Spec == Init /\ [][Next]_vars

\* A request in flight keeps running: the event loop schedules its task and
\* the server grants a row lock once nobody holds it.  Nothing obliges a
\* client to send a request or a connection to break.
FairSpec == Spec /\ \A h \in Sessions : WF_vars(Statement(h))

\* The single orchestrator the docstring of create_attempt assumes: no two
\* requests in flight for one agent.
OneRequestPerAgent ==
    \A h1, h2 \in Sessions :
        session[h1].id = session[h2].id /\ session[h1].id # NoAgent => h1 = h2

ExclusiveNext == Next /\ OneRequestPerAgent'

ExclusiveSpec == Init /\ [][ExclusiveNext]_vars

-----------------------------------------------------------------------------
(* Properties.                                                             *)

Pcs == {"idle", "get", "update", "max", "insert", "delete", "respond", "commit"}
Locks == {"none", "keyshare", "nokeyupdate", "update"}
Codes == {"none", "200", "201", "204", "404", "409", "422", "500", "lost"}

Session == [pc : Pcs, kind : AllKinds \cup {"none"}, id : Agents \cup {NoAgent},
            target : AgentStatus \cup {"none"}, began : 0..MaxTx, attempt : Nat,
            held : Locks, code : Codes]

TypeOK ==
    /\ agent \in [Agents -> Row \cup {NoRow}]
    /\ run \in [Agents -> SUBSET (Nat \ {0})]
    /\ issued \subseteq Agents
    /\ clock \in 0..MaxTx
    /\ session \in [Sessions -> Session]

\* ADR-0006: attempts are numbered from 1 without a gap, whatever starters
\* race, fail or vanish between SELECT max and INSERT.
AttemptsContiguous ==
    \A a \in Agents : Last(a) \in Nat /\ run[a] = 1..Last(a)

\* Delete leaves no run behind, even one a concurrent starter was inserting:
\* the cascade and the foreign key's lock close the window between them.
NoOrphanRuns ==
    \A a \in Agents : run[a] # {} => agent[a] # NoRow

\* A run exists exactly when its agent has left `created` (where no bare
\* create_attempt is received): the two writes of start are never split.
AttemptsMatchStatus ==
    \A a \in Agents : agent[a] # NoRow =>
        (run[a] # {} <=> agent[a].status # "created")

\* The race create_attempt's docstring records cannot happen between routes:
\* set_status has the agent's row lock before max(attempt) is read, so the
\* number a route is about to insert is never taken.
RoutesNeverCollide ==
    \A h \in Sessions :
        session[h].pc = "insert" /\ session[h].kind \in AttemptActions =>
           /\ session[h].attempt \notin run[session[h].id]
           /\ ~KeyInFlight(h, session[h].id, session[h].attempt)

\* Any step that moves an agent into `starting`, and no other, gives it
\* exactly one new attempt, in the same commit.
StartStep ==
    \A a \in Agents :
        /\ agent[a] # NoRow /\ agent'[a] # NoRow
        /\ agent'[a] # agent[a]
        => (agent'[a].status = "starting" <=>
               \E n \in run'[a] : n \notin run[a] /\ run'[a] = run[a] \cup {n})

\* Of every step of a behaviour.
StartingMeansNewAttempt == [][StartStep]_vars

\* An unhandled error on a route has one cause, an agent deleted between two
\* statements of the request: set_status's flush then matches no row.  Neither
\* the unique key nor the foreign key of run ever surfaces as a 500.
UnhandledStep ==
    \A h \in Sessions :
        /\ session[h].pc # "idle" /\ session[h].kind \in Routes
        /\ session'[h].code = "500"
        => agent[session[h].id] = NoRow

\* Of every step of a behaviour.
UnhandledOnlyByDeletion == [][UnhandledStep]_vars

\* Every request ends: locks, key waits and the cascade never leave requests
\* waiting for one another.
EveryRequestEnds ==
    \A h \in Sessions : session[h].pc # "idle" ~> session[h].pc = "idle"

\* Under one request per agent, updated_at advances with every update.
UpdateStep ==
    \A a \in Agents :
        /\ agent[a] # NoRow /\ agent'[a] # NoRow
        /\ agent'[a] # agent[a]
        => agent'[a].updated > agent[a].updated

\* Of every step of a behaviour.
UpdatedAtAdvances == [][UpdateStep]_vars

\* Plan 0004's goal, "an illegal transition is refused rather than performed":
\* the status an action writes is a target of that action from the status it
\* replaces.
IllegalTransitionsRefused ==
    [][\A h \in Sessions : LET s == session[h] IN
          /\ s.pc = "commit" /\ s.kind \in LifecycleAction
          /\ agent'[s.id] # NoRow /\ agent[s.id] # NoRow
          /\ agent'[s.id].status # agent[s.id].status
          => s.target \in NextStatus(agent[s.id].status, s.kind)]_vars

\* test_create_agent_returns_201_and_persists_the_row and ADR-0002: once a
\* client has its 201 and the request is over, the agent is in the database.
AnsweredCreateIsPersisted ==
    [][\A h \in Sessions : LET s == session[h] IN
          /\ s.kind = "create" /\ s.code = "201"
          /\ session'[h].pc = "idle"
          => agent'[s.id] # NoRow]_vars

\* The status of a's row, if it has one.
StatusOf(a) == IF agent[a] = NoRow THEN NoRow ELSE agent[a].status

\* The same requests, served one at a time per agent, are the atomic API.
AtomicApi == INSTANCE AgentLifecycle WITH
    status <- [a \in Agents |-> StatusOf(a)],
    attempts <- run

ImplementsLifecycle == AtomicApi!Spec

\* The comment on TRANSITIONS, of committed rows whatever overlaps: a started
\* agent can be stopped by its callers alone, execution loop or not.
CallersCanStop == AtomicApi!CallersCanStop

\* ADR-0002 reopens failed and stopped agents only: one that completed is
\* deleted or left alone.  Two overlapping requests can break this (the second
\* writes over the first's `completed`), one at a time cannot.
CompletedIsTerminal == AtomicApi!CompletedIsTerminal

\* The uuid of a is spent: its row is deleted, or its create never committed.
Creating(a) == \E h \in Sessions : session[h].kind = "create" /\ session[h].id = a

Gone(a) == agent[a] = NoRow /\ a \in issued /\ ~Creating(a)

LifeOf(a) == IF agent[a] # NoRow THEN "alive"
             ELSE IF Gone(a) THEN "gone" ELSE "unborn"

\* However requests overlap, they keep the ledger of attempts.
Ledger == INSTANCE AttemptLedger WITH
    life <- [a \in Agents |-> LifeOf(a)],
    attempts <- run

ImplementsLedger == Ledger!Spec

-----------------------------------------------------------------------------
(* Why the ledger is kept: an invariant every step preserves.              *)

\* What a request holds and knows at each statement.
SessionShape(s) ==
    /\ s.pc = "idle" => s.id = NoAgent /\ s.kind = "none"
    /\ s.pc # "idle" => s.id \in issued
    /\ s.pc \in {"idle", "get", "update", "delete"} => s.held = "none" /\ s.attempt = 0
    /\ s.pc = "max" => s.attempt = 0
    /\ s.pc = "insert" => s.attempt # 0
    /\ s.kind = "create" => /\ s.pc \in {"respond", "commit"}
                            /\ s.held = "none" /\ s.attempt = 0
                            /\ s.target = InitialStatus
    /\ s.pc = "update" \/ s.held = "nokeyupdate" => s.target \in AgentStatus
    /\ s.held = "update" => s.attempt = 0
    \* Only a bare create_attempt counts the runs of an unlocked agent.
    /\ s.pc \in {"max", "insert"} =>
          s.held = IF s.kind = "attempt" THEN "none" ELSE "nokeyupdate"
    /\ Inserted(s) =>
          s.held = IF s.kind = "attempt" THEN "keyshare" ELSE "nokeyupdate"

\* A lock is on a row that is there, and excludes the locks it conflicts with.
LocksExclude ==
    /\ \A h \in Sessions : session[h].held # "none" => agent[session[h].id] # NoRow
    /\ \A h \in Sessions : session[h].held # "none" =>
          Free(h, session[h].id, session[h].held)

\* A uuid is issued before its row appears, and to one create only.
UuidsFresh ==
    /\ \A a \in Agents : agent[a] # NoRow => a \in issued
    /\ \A h \in Sessions : session[h].kind = "create" =>
          /\ agent[session[h].id] = NoRow
          /\ \A o \in Sessions \ {h} :
                session[o].kind = "create" => session[o].id # session[h].id

\* A number counted but not yet committed may be stale, never too high; once
\* inserted it is nobody else's.
PendingAttempts ==
    \A h \in Sessions : LET s == session[h] IN
        /\ s.attempt # 0 /\ ~Gone(s.id) => s.attempt <= Last(s.id) + 1
        /\ Inserted(s) => /\ s.attempt \notin run[s.id]
                          /\ ~KeyInFlight(h, s.id, s.attempt)

LedgerInv ==
    /\ TypeOK
    /\ \A h \in Sessions : SessionShape(session[h])
    /\ LocksExclude
    /\ UuidsFresh
    /\ AttemptsContiguous
    /\ NoOrphanRuns
    /\ PendingAttempts

=============================================================================
