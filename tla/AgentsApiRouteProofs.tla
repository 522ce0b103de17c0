------------------------- MODULE AgentsApiRouteProofs -------------------------
(***************************************************************************)
(* Proofs about the routes of AgentsApi, for every number of agents,       *)
(* sessions and transactions: a new status and a new attempt go together,  *)
(* and where create_attempt is called by routes only its docstring's race  *)
(* never happens.                                                          *)
(***************************************************************************)
EXTENDS AgentsApiProofs

-----------------------------------------------------------------------------
(* What a request has done by each statement of its handler.               *)

\* The kinds of request that call set_status.
Moves == LifecycleAction \cup {"advance"}

\* Together with SessionShape: where each kind of request can be, which status
\* it is about to write, and whether it has made the attempt it owes.
RouteShape(s) ==
    /\ s.pc # "idle" => s.code \in {"none", "200", "201", "204"}
    /\ s.pc = "get" => s.kind \in Moves \cup {"get"}
    /\ s.pc = "update" \/ s.held = "nokeyupdate" => s.kind \in Moves
    /\ s.pc \in {"max", "insert"} => s.kind \in AttemptActions \cup {"attempt"}
    /\ s.pc = "delete" \/ s.held = "update" => s.kind = "delete"
    /\ s.kind \in AttemptActions =>
          /\ s.pc \in {"update", "max", "insert", "respond", "commit"} => s.target = "starting"
          /\ s.pc \in {"respond", "commit"} => s.attempt # 0
    /\ s.kind \in Moves \ AttemptActions =>
          /\ s.pc \in {"get", "update", "respond", "commit"} /\ s.attempt = 0
          /\ s.pc # "get" => s.target \in AgentStatus \ {"created", "starting"}
    /\ s.kind \in Moves /\ s.pc \in {"max", "insert", "respond", "commit"} =>
          s.held = "nokeyupdate"

\* Where no bare create_attempt is received, the number a route has counted
\* is still the next one: its lock keeps every other starter out.
RoutesCount ==
    \A h \in Sessions : LET s == session[h] IN
        /\ s.kind # "attempt"
        /\ s.attempt # 0 => s.attempt = Last(s.id) + 1

\* A request that moves an agent has read its row: the row is not one that is
\* being created, and unless deleted it has left `created` if the action asks
\* for that.
MoversHaveRead ==
    \A h \in Sessions : LET s == session[h] IN
        s.kind \in Moves /\ s.pc \notin {"idle", "get"} =>
            /\ ~Creating(s.id)
            /\ s.kind \notin AttemptActions /\ agent[s.id] # NoRow =>
                  agent[s.id].status # "created"

RoutesInv ==
    /\ RoutesCount
    /\ AttemptsMatchStatus
    /\ MoversHaveRead

\* Every request in flight has the shape its kind and statement ask for.
Shapes == \A h \in Sessions : RouteShape(session[h])

-----------------------------------------------------------------------------
(* Steps.                                                                  *)

\* What a session can do.
Step(h) ==
    \/ RejectBody(h) \/ CreateAgent(h) \/ Receive(h)
    \/ Statement(h) \/ LoseSession(h)

\* A step that changes anything is one of some session.
LEMMA NextIsAStep ==
    ASSUME [Next]_vars, UNCHANGED vars => FALSE
    PROVE  \E h \in Sessions : Step(h)
BY DEF Next, Quiescent, Step

\* A step changes one session.
LEMMA StepOfOne ==
    ASSUME LedgerInv, NEW h \in Sessions, Step(h)
    PROVE  \A o \in Sessions \ {h} : session'[o] = session[o]
<1> USE DEF LedgerInv, TypeOK
<1>1. CASE RejectBody(h)
  BY <1>1 DEF RejectBody, Finish
<1>2. CASE CreateAgent(h)
  BY <1>2 DEF CreateAgent
<1>3. CASE Receive(h)
  BY <1>3 DEF Receive
<1>4. CASE LoseSession(h) \/ GetAbsent(h) \/ RefuseIllegal(h)
  BY <1>4 DEF LoseSession, GetAbsent, RefuseIllegal, Raise, Finish
<1>5. CASE GetAgent(h) \/ ComputeStatus(h) \/ Respond(h)
  BY <1>5 DEF GetAgent, ComputeStatus, Respond, Proceed
<1>6. CASE UpdateStatus(h) \/ InsertRun(h)
  BY <1>6 DEF UpdateStatus, InsertRun, Raise, Finish
<1>7. CASE ReadMaxAttempt(h) \/ DeleteAgent(h) \/ Commit(h)
  BY <1>7 DEF ReadMaxAttempt, DeleteAgent, Commit, Finish
<1> QED
  BY <1>1, <1>2, <1>3, <1>4, <1>5, <1>6, <1>7 DEF Step, Statement

\* Only a commit changes a table.
LEMMA OnlyCommitWrites ==
    ASSUME NEW h \in Sessions, Step(h), ~Commit(h)
    PROVE  UNCHANGED <<agent, run>>
<1>1. CASE RejectBody(h) \/ CreateAgent(h) \/ Receive(h)
  BY <1>1 DEF RejectBody, CreateAgent, Receive
<1>2. CASE LoseSession(h) \/ GetAbsent(h) \/ RefuseIllegal(h)
  BY <1>2 DEF LoseSession, GetAbsent, RefuseIllegal, Raise
<1>3. CASE GetAgent(h) \/ ComputeStatus(h) \/ Respond(h)
  BY <1>3 DEF GetAgent, ComputeStatus, Respond
<1>4. CASE UpdateStatus(h) \/ InsertRun(h) \/ ReadMaxAttempt(h) \/ DeleteAgent(h)
  BY <1>4 DEF UpdateStatus, InsertRun, ReadMaxAttempt, DeleteAgent, Raise
<1> QED
  BY <1>1, <1>2, <1>3, <1>4 DEF Step, Statement

\* The targets of an action: `starting` is what start and restart lead to, and
\* `created` nothing; from `created` only start leads anywhere.
LEMMA TargetsOfAction ==
    ASSUME NEW kind \in Moves, NEW current, NEW target \in Targets(kind, current)
    PROVE  /\ target \in AgentStatus \ {"created"}
           /\ target = "starting" <=> kind \in AttemptActions
           /\ kind \notin AttemptActions => current # "created"
<1>1. CASE kind = "advance"
  BY <1>1 DEF Targets, IsLegal, SystemEdges, LegalEdges, TRANSITIONS, AttemptActions, AgentStatus
<1>2. CASE kind # "advance"
  <2>1. <<current, kind, target>> \in TRANSITIONS
    BY <1>2 DEF Targets, NextStatus
  <2> QED
    BY <1>2, <2>1 DEF TRANSITIONS, AttemptActions, AgentStatus
<1> QED
  BY <1>1, <1>2

-----------------------------------------------------------------------------
(* Shapes.                                                                 *)

\* A request at rest has any shape.
LEMMA RestShape ==
    ASSUME NEW code
    PROVE  RouteShape([Idle EXCEPT !.code = code])
BY DEF RouteShape, Idle, Moves, LifecycleAction, AttemptActions

\* Sessions at rest have the shape of no request.
LEMMA InitShapes == Init => Shapes
<1>1. RouteShape(Idle)
  BY DEF RouteShape, Idle, Moves, LifecycleAction, AttemptActions
<1> QED
  BY <1>1 DEF Init, Shapes

\* A request begins in the shape of its kind.
LEMMA ShapeOfBegun ==
    ASSUME LedgerInv, NEW h \in Sessions, CreateAgent(h) \/ Receive(h)
    PROVE  RouteShape(session'[h])
<1>1. CASE CreateAgent(h)
  <2>1. PICK a \in Agents \ issued :
           session' = [session EXCEPT ![h] =
             [Idle EXCEPT !.pc = Closing("create"), !.kind = "create", !.id = a,
                          !.target = InitialStatus, !.began = clock + 1]]
    BY <1>1 DEF CreateAgent
  <2>2. /\ session'[h].pc = "respond" /\ session'[h].kind = "create"
        /\ session'[h].held = "none" /\ session'[h].code = "none"
    BY <2>1 DEF LedgerInv, TypeOK, Idle, Closing, Routes
  <2> QED
    BY <2>2 DEF RouteShape, Moves, LifecycleAction, AttemptActions
<1>2. CASE Receive(h)
  <2>1. PICK kind \in Kinds \ {"create"}, a \in Agents :
           session' = [session EXCEPT ![h] =
             [Idle EXCEPT !.pc = FirstStatement(kind), !.kind = kind, !.id = a,
                          !.began = clock + 1]]
    BY <1>2 DEF Receive
  <2>2. /\ session'[h].pc = FirstStatement(kind) /\ session'[h].kind = kind
        /\ session'[h].held = "none" /\ session'[h].code = "none"
        /\ session'[h].attempt = 0
    BY <2>1 DEF LedgerInv, TypeOK, Idle
  <2>3. kind \in Moves \cup {"get", "delete", "attempt"}
    BY <2>1, KindsAssumption DEF AllKinds, Routes, Moves
  <2> QED
    BY <2>2, <2>3 DEF RouteShape, FirstStatement, Moves, LifecycleAction, AttemptActions
<1> QED
  BY <1>1, <1>2

\* An error or a loss puts the session at rest.
LEMMA ShapeOfEnded ==
    ASSUME LedgerInv, NEW h \in Sessions, NEW code, Finish(h, code)
    PROVE  /\ session'[h] = [Idle EXCEPT !.code = code]
           /\ RouteShape(session'[h])
BY RestShape DEF LedgerInv, TypeOK, Finish

\* What a read or a computed status makes of a request.
LEMMA ShapeOfMoved ==
    ASSUME LedgerInv, Shapes, NEW h \in Sessions, GetAgent(h) \/ ComputeStatus(h)
    PROVE  RouteShape(session'[h])
<1> DEFINE s == session[h]
           t == session'[h]
<1>1. s \in Session /\ SessionShape(s) /\ RouteShape(s) /\ s.pc = "get"
  BY DEF LedgerInv, TypeOK, Shapes, GetAgent, ComputeStatus
<1>2. CASE GetAgent(h)
  <2>1. s.kind = "get" /\ t.kind = "get" /\ t.pc = "respond" /\ t.code = s.code
        /\ t.held = s.held /\ t.attempt = s.attempt
    BY <1>1, <1>2, AfterValues DEF GetAgent, Proceed, LedgerInv, TypeOK, Session
  <2> QED
    BY <1>1, <2>1 DEF RouteShape, SessionShape, Moves, LifecycleAction, AttemptActions
<1>3. CASE ComputeStatus(h)
  <2>1. PICK target \in Targets(s.kind, agent[s.id].status) :
           session' = [session EXCEPT ![h] =
             [session[h] EXCEPT !.target = target, !.pc = After(session[h].kind, "get")]]
    BY <1>3 DEF ComputeStatus
  <2>2. s.kind \in Moves
    BY <1>1, <1>3 DEF ComputeStatus, RouteShape
  <2>3. t.kind = s.kind /\ t.pc = "update" /\ t.code = s.code /\ t.target = target
        /\ t.held = "none" /\ t.attempt = 0
    BY <1>1, <1>3, <2>1, AfterValues
       DEF ComputeStatus, LedgerInv, TypeOK, Session, SessionShape
  <2>4. /\ target \in AgentStatus \ {"created"}
        /\ target = "starting" <=> s.kind \in AttemptActions
    BY <2>2, TargetsOfAction
  <2> QED
    BY <1>1, <2>2, <2>3, <2>4 DEF RouteShape, Moves, LifecycleAction, AttemptActions
<1> QED
  BY <1>2, <1>3

\* After its UPDATE a request goes on to its attempt or its reply.
LEMMA ShapeOfUpdated ==
    ASSUME LedgerInv, Shapes, NEW h \in Sessions, UpdateStatus(h)
    PROVE  RouteShape(session'[h])
<1> DEFINE s == session[h]
           t == session'[h]
<1>1. s \in Session /\ SessionShape(s) /\ RouteShape(s) /\ s.pc = "update"
  BY DEF LedgerInv, TypeOK, Shapes, UpdateStatus
<1>2. CASE Raise(h, "500")
  BY <1>2, ShapeOfEnded DEF Raise
<1>3. CASE session' = [session EXCEPT ![h] =
              [session[h] EXCEPT !.held = "nokeyupdate",
                                 !.pc = After(session[h].kind, "update")]]
  <2>1. t.kind = s.kind /\ t.pc = After(s.kind, "update") /\ t.code = s.code
        /\ t.target = s.target /\ t.held = "nokeyupdate" /\ t.attempt = 0
    BY <1>1, <1>3 DEF LedgerInv, TypeOK, Session, SessionShape
  <2>2. s.kind \in Moves
    BY <1>1 DEF RouteShape
  <2>3. /\ s.kind \in AttemptActions => t.pc = "max" /\ t.target = "starting"
        /\ s.kind \notin AttemptActions => t.pc \in {"respond", "commit"}
    BY <1>1, <2>1, AfterValues DEF RouteShape
  <2> QED
    BY <1>1, <2>1, <2>2, <2>3 DEF RouteShape, Moves, LifecycleAction, AttemptActions
<1> QED
  BY <1>2, <1>3 DEF UpdateStatus

\* Counting attempts and inserting one are the last statements before the
\* reply.
LEMMA ShapeOfCounted ==
    ASSUME LedgerInv, Shapes, NEW h \in Sessions, ReadMaxAttempt(h) \/ InsertRun(h)
    PROVE  RouteShape(session'[h])
<1> DEFINE s == session[h]
           t == session'[h]
<1>1. s \in Session /\ SessionShape(s) /\ RouteShape(s) /\ s.pc \in {"max", "insert"}
  BY DEF LedgerInv, TypeOK, Shapes, ReadMaxAttempt, InsertRun
<1>2. s.kind \in AttemptActions \cup {"attempt"}
  BY <1>1 DEF RouteShape
<1>3. CASE ReadMaxAttempt(h)
  <2>1. t.kind = s.kind /\ t.pc = "insert" /\ t.code = s.code /\ t.target = s.target
        /\ t.held = s.held
    BY <1>1, <1>3, AfterValues DEF ReadMaxAttempt, LedgerInv, TypeOK, Session
  <2> QED
    BY <1>1, <1>2, <1>3, <2>1 DEF ReadMaxAttempt, RouteShape, Moves, LifecycleAction, AttemptActions
<1>4. CASE Raise(h, "500")
  BY <1>4, ShapeOfEnded DEF Raise
<1>5. CASE session' = [session EXCEPT ![h] =
              [session[h] EXCEPT
                 !.held = IF session[h].held = "none" THEN "keyshare" ELSE session[h].held,
                 !.pc = After(session[h].kind, "insert")]]
           /\ s.pc = "insert"
  <2>1. t.kind = s.kind /\ t.pc = After(s.kind, "insert") /\ t.code = s.code
        /\ t.target = s.target /\ t.attempt = s.attempt
        /\ t.held = IF s.held = "none" THEN "keyshare" ELSE s.held
    BY <1>1, <1>5 DEF LedgerInv, TypeOK, Session
  <2>2. t.pc \in {"respond", "commit"}
    BY <2>1, AfterValues
  <2>3. s.attempt # 0 /\ s.held = IF s.kind = "attempt" THEN "none" ELSE "nokeyupdate"
    BY <1>1, <1>5 DEF SessionShape
  <2> QED
    BY <1>1, <1>2, <1>5, <2>1, <2>2, <2>3 DEF RouteShape, Moves, LifecycleAction, AttemptActions
<1> QED
  BY <1>1, <1>3, <1>4, <1>5 DEF InsertRun

\* A delete or a reply is followed by the commit.
LEMMA ShapeOfAnswered ==
    ASSUME LedgerInv, Shapes, NEW h \in Sessions, DeleteAgent(h) \/ Respond(h)
    PROVE  RouteShape(session'[h])
<1> DEFINE s == session[h]
           t == session'[h]
<1>1. s \in Session /\ SessionShape(s) /\ RouteShape(s) /\ s.pc \in {"delete", "respond"}
  BY DEF LedgerInv, TypeOK, Shapes, DeleteAgent, Respond
<1>2. CASE DeleteAgent(h)
  <2>1. t.kind = s.kind /\ t.pc = "respond" /\ t.code = s.code /\ t.held \in {"none", "update"}
    BY <1>1, <1>2, AfterValues DEF DeleteAgent, LedgerInv, TypeOK, Session
  <2>2. s.kind = "delete"
    BY <1>1, <1>2 DEF DeleteAgent, RouteShape
  <2> QED
    BY <1>1, <2>1, <2>2 DEF RouteShape, Moves, LifecycleAction, AttemptActions
<1>3. CASE Respond(h)
  <2>1. t.kind = s.kind /\ t.pc = "commit" /\ t.code \in {"200", "201", "204"}
        /\ t.held = s.held /\ t.target = s.target /\ t.attempt = s.attempt
    BY <1>1, <1>3 DEF Respond, LedgerInv, TypeOK, Session, Success
  <2> QED
    BY <1>1, <1>3, <2>1 DEF Respond, RouteShape, Moves, LifecycleAction, AttemptActions
<1> QED
  BY <1>2, <1>3

\* Every step preserves the shapes.
LEMMA NextShapes == LedgerInv /\ Shapes /\ [Next]_vars => Shapes'
<1> SUFFICES ASSUME LedgerInv, Shapes, [Next]_vars PROVE Shapes'
  OBVIOUS
<1>1. CASE UNCHANGED vars
  BY <1>1 DEF vars, Shapes
<1>2. ASSUME NEW h \in Sessions, Step(h) PROVE Shapes'
  <2>1. \A o \in Sessions \ {h} : RouteShape(session'[o])
    BY <1>2, StepOfOne DEF Shapes
  <2>2. RouteShape(session'[h])
    <3>1. ASSUME NEW code, Finish(h, code) PROVE RouteShape(session'[h])
      BY <3>1, ShapeOfEnded
    <3>2. CASE RejectBody(h) \/ LoseSession(h) \/ GetAbsent(h) \/ RefuseIllegal(h) \/ Commit(h)
      BY <3>1, <3>2 DEF RejectBody, LoseSession, GetAbsent, RefuseIllegal, Raise, Commit
    <3> QED
      BY <1>2, <3>2, ShapeOfBegun, ShapeOfMoved, ShapeOfUpdated, ShapeOfCounted, ShapeOfAnswered
         DEF Step, Statement
  <2> QED
    BY <2>1, <2>2 DEF Shapes
<1> QED
  BY <1>1, <1>2, NextIsAStep

\* A request is always where its kind can be, and a reply of success is the
\* only one that goes out before the transaction ends.
THEOREM RouteShapes == Spec => []Shapes
BY InitShapes, NextShapes, LedgerInvariance, PTL DEF Spec

-----------------------------------------------------------------------------
(* A new status and a new attempt go together.                             *)

\* A commit that changes the row of a live agent writes a target of the kind
\* of its request, and the attempt the kind asks for.
LEMMA CommitOfMove ==
    ASSUME LedgerInv, Shapes, NEW h \in Sessions, Commit(h), NEW a \in Agents,
           agent[a] # NoRow, agent'[a] # NoRow, agent'[a] # agent[a]
    PROVE  LET s == session[h] IN
           /\ a = s.id /\ s.kind \in Moves /\ s.held = "nokeyupdate"
           /\ agent'[a] = [status |-> s.target, updated |-> s.began]
           /\ s.target = "starting" <=> s.kind \in AttemptActions
           /\ s.target \in AgentStatus \ {"created"}
           /\ IF s.kind \in AttemptActions
              THEN Inserted(s) /\ s.attempt \notin run[a] /\ run'[a] = run[a] \cup {s.attempt}
              ELSE run'[a] = run[a]
<1> DEFINE s == session[h]
<1>1. s \in Session /\ SessionShape(s) /\ RouteShape(s) /\ s.pc = "commit" /\ s.id \in Agents
  BY CommitOutcome DEF Commit, LedgerInv, TypeOK, Shapes
<1>2. a = s.id /\ agent'[a] = RowAfter(s) /\ run'[a] = RunsAfter(s)
  BY <1>1, CommitOutcome DEF LedgerInv, TypeOK
<1>3. s.kind # "create" /\ s.held = "nokeyupdate"
  BY <1>1, <1>2 DEF LedgerInv, UuidsFresh, RowAfter, Session, Locks
<1>4. s.kind \in Moves
  BY <1>1, <1>3 DEF RouteShape
<1>5. agent'[a] = [status |-> s.target, updated |-> s.began]
  BY <1>2, <1>3 DEF RowAfter
<1>6. /\ s.target = "starting" <=> s.kind \in AttemptActions
      /\ s.target \in AgentStatus \ {"created"}
      /\ s.kind \in AttemptActions => Inserted(s)
      /\ s.kind \notin AttemptActions => ~Inserted(s)
  BY <1>1, <1>4 DEF RouteShape, Inserted, AgentStatus
<1>7. Inserted(s) => s.attempt \notin run[a]
  BY <1>2 DEF LedgerInv, PendingAttempts
<1>8. RunsAfter(s) = IF Inserted(s) THEN run[a] \cup {s.attempt} ELSE run[a]
  BY <1>2, <1>3 DEF RunsAfter
<1> QED
  BY <1>2, <1>3, <1>4, <1>5, <1>6, <1>7, <1>8

\* A step that changes the row of a live agent makes it `starting` exactly if
\* it adds one attempt.
LEMMA StartStepHolds ==
    ASSUME LedgerInv, Shapes, [Next]_vars
    PROVE  StartStep
<1>1. CASE UNCHANGED vars
  BY <1>1 DEF vars, StartStep
<1>2. ASSUME NEW h \in Sessions, Step(h), NEW a \in Agents,
             agent[a] # NoRow, agent'[a] # NoRow, agent'[a] # agent[a]
      PROVE  agent'[a].status = "starting" <=>
                \E n \in run'[a] : n \notin run[a] /\ run'[a] = run[a] \cup {n}
  <2>1. Commit(h)
    BY <1>2, OnlyCommitWrites
  <2>2. /\ agent'[a] = [status |-> session[h].target, updated |-> session[h].began]
        /\ session[h].target = "starting" <=> session[h].kind \in AttemptActions
        /\ IF session[h].kind \in AttemptActions
           THEN /\ session[h].attempt \notin run[a]
                /\ run'[a] = run[a] \cup {session[h].attempt}
           ELSE run'[a] = run[a]
    BY <1>2, <2>1, CommitOfMove
  <2>3. agent'[a].status = session[h].target
    BY <2>2
  <2>4. CASE session[h].kind \in AttemptActions
    BY <2>2, <2>3, <2>4
  <2>5. CASE session[h].kind \notin AttemptActions
    BY <2>2, <2>3, <2>5
  <2> QED
    BY <2>4, <2>5
<1> QED
  BY <1>1, <1>2, NextIsAStep DEF StartStep

\* Whatever requests overlap, and bare create_attempts among them, a commit
\* moves a live agent into `starting` exactly if it adds one attempt.
THEOREM StartMeansAttempt == Spec => StartingMeansNewAttempt
<1>1. LedgerInv /\ Shapes /\ [Next]_vars => [StartStep]_vars
  BY StartStepHolds
<1> QED
  BY <1>1, LedgerInvariance, RouteShapes, PTL DEF Spec, StartingMeansNewAttempt

-----------------------------------------------------------------------------
(* No bare create_attempt: the routes and the execution loop alone.        *)

\* An id that has been issued is not created again.
LEMMA CreatedOnce ==
    ASSUME LedgerInv, NEW h \in Sessions, Step(h)
    PROVE  \A a \in issued : Creating(a)' => Creating(a)
<1> SUFFICES ASSUME session'[h].kind = "create", session'[h].id \in issued
             PROVE  session[h].kind = "create" /\ session[h].id = session'[h].id
  BY StepOfOne DEF Creating
<1> USE DEF LedgerInv, TypeOK
<1>1. CASE RejectBody(h)
  BY <1>1 DEF RejectBody, Finish, Idle
<1>2. CASE CreateAgent(h)
  BY <1>2 DEF CreateAgent, Idle
<1>3. CASE Receive(h)
  BY <1>3 DEF Receive, Idle
<1>4. CASE LoseSession(h) \/ GetAbsent(h) \/ RefuseIllegal(h)
  BY <1>4 DEF LoseSession, GetAbsent, RefuseIllegal, Raise, Finish, Idle
<1>5. CASE GetAgent(h) \/ Respond(h)
  BY <1>5 DEF GetAgent, Respond, Proceed, Session
<1>8. CASE ComputeStatus(h)
  <2>1. PICK target : session' = [session EXCEPT ![h] =
           [session[h] EXCEPT !.target = target, !.pc = After(session[h].kind, "get")]]
    BY <1>8 DEF ComputeStatus
  <2> QED
    BY <2>1 DEF Session
<1>6. CASE UpdateStatus(h) \/ InsertRun(h)
  BY <1>6 DEF UpdateStatus, InsertRun, Raise, Finish, Idle, Session
<1>7. CASE ReadMaxAttempt(h) \/ DeleteAgent(h) \/ Commit(h)
  BY <1>7 DEF ReadMaxAttempt, DeleteAgent, Commit, Finish, Idle, Session
<1> QED
  BY <1>1, <1>2, <1>3, <1>4, <1>5, <1>6, <1>7, <1>8 DEF Step, Statement

\* What keeps the routes' part of the invariant of the one session that moves.
CountOf(s) == s.kind # "attempt" /\ (s.attempt # 0 => s.attempt = Last(s.id) + 1)

ReadOf(s) ==
    s.kind \in Moves /\ s.pc \notin {"idle", "get"} =>
        /\ ~Creating(s.id)
        /\ s.kind \notin AttemptActions /\ agent[s.id] # NoRow =>
              agent[s.id].status # "created"

\* The parts of the invariant that are about one session each.
LEMMA RoutesOfOne ==
    /\ RoutesCount <=> \A h \in Sessions : CountOf(session[h])
    /\ MoversHaveRead <=> \A h \in Sessions : ReadOf(session[h])
BY DEF RoutesCount, CountOf, MoversHaveRead, ReadOf

\* A number counted is held with the lock of its agent.
LEMMA CountedIsLocked ==
    ASSUME LedgerInv, NEW h \in Sessions, session[h].kind # "attempt", session[h].attempt # 0
    PROVE  session[h].held = "nokeyupdate" /\ session[h].pc \notin {"idle", "get"}
           /\ session[h].id \in Agents /\ session[h].id \in issued
<1>1. session[h] \in Session /\ SessionShape(session[h])
  BY DEF LedgerInv, TypeOK
<1> QED
  BY <1>1 DEF SessionShape, Inserted, Session, Pcs, LedgerInv, TypeOK

\* No two requests hold the row of one agent for a write.
LEMMA WritersExclude ==
    ASSUME LedgerInv, NEW h \in Sessions, NEW o \in Sessions \ {h},
           session[h].id = session[o].id, session[h].held = "nokeyupdate"
    PROVE  session[o].held \in {"none", "keyshare"}
<1>1. {session[o].held, "nokeyupdate"} \notin Conflicts
  BY DEF LedgerInv, LocksExclude, Free
<1>2. session[o].held \in Locks
  BY DEF LedgerInv, TypeOK, Session
<1> QED
  BY <1>1, <1>2 DEF Conflicts, Locks

\* A statement past the first that counts nothing keeps what was known.
LEMMA RoutesGoOn ==
    ASSUME LedgerInv, RoutesInv, NEW h \in Sessions, Step(h), UNCHANGED <<agent, run>>,
           session[h].pc \notin {"idle", "get"},
           session'[h].kind = session[h].kind, session'[h].id = session[h].id,
           session'[h].attempt = session[h].attempt
    PROVE  CountOf(session[h])' /\ ReadOf(session[h])'
<1>1. CountOf(session[h]) /\ ReadOf(session[h])
  BY RoutesOfOne DEF RoutesInv
<1>2. CountOf(session[h])'
  BY <1>1 DEF CountOf, Last
<1>3. session[h].id \in issued
  BY DEF LedgerInv, SessionShape
<1>4. ReadOf(session[h])'
  BY <1>1, <1>3, CreatedOnce DEF ReadOf
<1> QED
  BY <1>2, <1>4

\* A request at rest, or that asks for something else, knows nothing.
LEMMA RoutesAtRest ==
    ASSUME NEW h \in Sessions, session'[h].kind # "attempt", session'[h].attempt = 0,
           session'[h].kind \in Moves => session'[h].pc \in {"idle", "get"}
    PROVE  CountOf(session[h])' /\ ReadOf(session[h])'
BY DEF CountOf, ReadOf

\* The session that moves, at every statement but the commit.
LEMMA RoutesOfMoved ==
    ASSUME "attempt" \notin Kinds, LedgerInv, Shapes, RoutesInv,
           NEW h \in Sessions, Step(h), UNCHANGED <<agent, run>>
    PROVE  CountOf(session[h])' /\ ReadOf(session[h])'
<1> DEFINE s == session[h]
           t == session'[h]
<1>0. s \in Session /\ SessionShape(s) /\ RouteShape(s) /\ s.kind # "attempt"
  BY DEF LedgerInv, TypeOK, Shapes, RoutesInv, RoutesCount
<1>1. ASSUME NEW code, Finish(h, code) PROVE CountOf(session[h])' /\ ReadOf(session[h])'
  <2>1. t = [Idle EXCEPT !.code = code]
    BY <1>1, ShapeOfEnded
  <2>2. t.kind = "none" /\ t.attempt = 0
    BY <2>1 DEF Idle
  <2> QED
    BY <2>2, RoutesAtRest DEF Moves, LifecycleAction
<1>2. CASE RejectBody(h) \/ LoseSession(h) \/ GetAbsent(h) \/ RefuseIllegal(h) \/ Commit(h)
  BY <1>1, <1>2 DEF RejectBody, LoseSession, GetAbsent, RefuseIllegal, Raise, Commit
<1>3. CASE CreateAgent(h)
  <2>1. t.kind = "create" /\ t.attempt = 0
    BY <1>3 DEF CreateAgent, LedgerInv, TypeOK, Idle
  <2> QED
    BY <2>1, RoutesAtRest DEF Moves, LifecycleAction
<1>4. CASE Receive(h)
  <2>1. PICK kind \in Kinds \ {"create"}, a \in Agents :
           session' = [session EXCEPT ![h] =
             [Idle EXCEPT !.pc = FirstStatement(kind), !.kind = kind, !.id = a,
                          !.began = clock + 1]]
    BY <1>4 DEF Receive
  <2>2. t.kind = kind /\ t.pc = FirstStatement(kind) /\ t.attempt = 0
    BY <2>1 DEF LedgerInv, TypeOK, Idle
  <2> QED
    BY <2>1, <2>2, RoutesAtRest DEF FirstStatement, Moves, LifecycleAction
<1>5. CASE GetAgent(h)
  <2>1. t.kind = "get" /\ t.attempt = 0
    BY <1>0, <1>5 DEF GetAgent, Proceed, LedgerInv, TypeOK, Session, SessionShape
  <2> QED
    BY <2>1, RoutesAtRest DEF Moves, LifecycleAction
<1>6. CASE ComputeStatus(h)
  <2>1. PICK target \in Targets(s.kind, agent[s.id].status) :
           session' = [session EXCEPT ![h] =
             [session[h] EXCEPT !.target = target, !.pc = After(session[h].kind, "get")]]
    BY <1>6 DEF ComputeStatus
  <2>2. t.kind = s.kind /\ t.id = s.id /\ t.attempt = 0
    BY <1>0, <1>6, <2>1 DEF ComputeStatus, LedgerInv, TypeOK, Session, SessionShape
  <2>3. s.kind \in Moves /\ s.id \in issued
    BY <1>0, <1>6 DEF ComputeStatus, RouteShape, SessionShape
  <2>4. s.kind \notin AttemptActions => agent[s.id].status # "created"
    BY <2>3, TargetsOfAction
  <2>5. ~Creating(s.id)
    BY <1>6 DEF ComputeStatus, Creating, LedgerInv, UuidsFresh
  <2> QED
    BY <1>0, <2>2, <2>3, <2>4, <2>5, CreatedOnce DEF CountOf, ReadOf
<1>7. CASE UpdateStatus(h) /\ t.kind = s.kind /\ t.id = s.id /\ t.attempt = s.attempt
  BY <1>7, RoutesGoOn DEF UpdateStatus
<1>8. CASE ReadMaxAttempt(h)
  <2>1. t.kind = s.kind /\ t.id = s.id /\ t.attempt = NextAttempt(s.id) /\ s.pc = "max"
    BY <1>0, <1>8 DEF ReadMaxAttempt, LedgerInv, TypeOK, Session
  <2>2. CountOf(session[h])'
    BY <1>0, <2>1 DEF CountOf, NextAttempt, Last
  <2>3. ReadOf(session[h]) /\ s.id \in issued
    BY <1>0, <2>1, RoutesOfOne DEF RoutesInv, SessionShape
  <2> QED
    BY <2>1, <2>2, <2>3, CreatedOnce DEF ReadOf
<1>9. CASE InsertRun(h) /\ t.kind = s.kind /\ t.id = s.id /\ t.attempt = s.attempt
  BY <1>9, RoutesGoOn DEF InsertRun
<1>10. CASE DeleteAgent(h)
  <2>1. t.kind = s.kind /\ t.id = s.id /\ t.attempt = s.attempt /\ s.pc = "delete"
    BY <1>0, <1>10 DEF DeleteAgent, LedgerInv, TypeOK, Session
  <2> QED
    BY <2>1, RoutesGoOn
<1>11. CASE Respond(h)
  <2>1. t.kind = s.kind /\ t.id = s.id /\ t.attempt = s.attempt /\ s.pc = "respond"
    BY <1>0, <1>11 DEF Respond, LedgerInv, TypeOK, Session
  <2> QED
    BY <2>1, RoutesGoOn
<1>12. UpdateStatus(h) /\ ~Raise(h, "500") =>
          t.kind = s.kind /\ t.id = s.id /\ t.attempt = s.attempt
  BY <1>0 DEF UpdateStatus, LedgerInv, TypeOK, Session
<1>13. InsertRun(h) /\ ~Raise(h, "500") =>
          t.kind = s.kind /\ t.id = s.id /\ t.attempt = s.attempt
  BY <1>0 DEF InsertRun, LedgerInv, TypeOK, Session
<1>14. CASE Raise(h, "500")
  BY <1>1, <1>14 DEF Raise
<1> QED
  BY <1>2, <1>3, <1>4, <1>5, <1>6, <1>7, <1>8, <1>9, <1>10, <1>11, <1>12, <1>13, <1>14
     DEF Step, Statement

\* A commit among routes: a status other than `created` comes with a first
\* attempt, or to an agent that has one, and no number counted by another
\* route changes its meaning.
LEMMA RoutesCommit ==
    ASSUME LedgerInv, Shapes, RoutesInv, NEW h \in Sessions, Commit(h)
    PROVE  RoutesInv'
<1> DEFINE s == session[h]
           a == session[h].id
<1>0. /\ s \in Session /\ SessionShape(s) /\ RouteShape(s) /\ s.pc = "commit"
      /\ s.kind # "attempt" /\ a \in Agents /\ a \in issued
      /\ CountOf(s) /\ ReadOf(s)
  BY CommitOutcome, RoutesOfOne
     DEF Commit, LedgerInv, TypeOK, Shapes, RoutesInv, RoutesCount
<1>1. /\ agent'[a] = RowAfter(s) /\ run'[a] = RunsAfter(s)
      /\ \A b \in Agents \ {a} : agent'[b] = agent[b] /\ run'[b] = run[b]
  BY <1>0, CommitOutcome DEF LedgerInv, TypeOK
<1>2. Inserted(s) => s.held = "nokeyupdate"
  BY <1>0 DEF SessionShape
<1>3. \/ /\ s.kind = "create" /\ agent[a] = NoRow /\ run'[a] = run[a]
         /\ agent'[a].status = "created" /\ agent'[a] # NoRow
      \/ /\ s.kind # "create" /\ s.held = "nokeyupdate" /\ agent[a] # NoRow
         /\ s.kind \in Moves /\ agent'[a].status = s.target
         /\ s.target # "created"
         /\ run'[a] = IF Inserted(s) THEN run[a] \cup {s.attempt} ELSE run[a]
         /\ Inserted(s) <=> s.kind \in AttemptActions
      \/ /\ s.kind # "create" /\ s.held = "update" /\ agent'[a] = NoRow
      \/ /\ agent'[a] = agent[a] /\ run'[a] = run[a]
  <2>1. CASE s.kind = "create"
    <3>1. RowAfter(s) = [status |-> s.target, updated |-> s.began] /\ s.target = "created"
      BY <1>0, <2>1 DEF RowAfter, SessionShape, InitialStatus
    <3>2. RowAfter(s).status = "created"
      BY <3>1
    <3> QED
      BY <1>1, <2>1, <3>2, CommitOutcome
  <2>2. CASE s.kind # "create" /\ s.held = "nokeyupdate"
    <3>1. RowAfter(s) = [status |-> s.target, updated |-> s.began]
      BY <2>2 DEF RowAfter
    <3>2. RowAfter(s).status = s.target
      BY <3>1
    <3>3. /\ s.kind \in Moves /\ s.target # "created"
          /\ Inserted(s) <=> s.kind \in AttemptActions
      BY <1>0, <2>2 DEF RouteShape, Inserted
    <3>4. agent[a] # NoRow
      BY <2>2 DEF LedgerInv, LocksExclude
    <3> QED
      BY <1>1, <2>2, <3>2, <3>3, <3>4 DEF RunsAfter
  <2>3. CASE s.kind # "create" /\ s.held = "update"
    BY <1>1, <2>3 DEF RowAfter
  <2>4. CASE s.kind # "create" /\ s.held \in {"none", "keyshare"}
    BY <1>1, <1>2, <2>4 DEF RowAfter, RunsAfter
  <2> QED
    BY <1>0, <2>1, <2>2, <2>3, <2>4 DEF Session, Locks
<1>4. session' = [session EXCEPT ![h] = [Idle EXCEPT !.code = Success(s.kind)]]
      /\ issued' = issued
  BY DEF Commit, Finish
<1>5. /\ session'[h].kind = "none" /\ session'[h].attempt = 0
      /\ \A o \in Sessions \ {h} : session'[o] = session[o]
  BY <1>4 DEF LedgerInv, TypeOK, Idle
<1>6. RoutesCount'
  <2>1. CountOf(session[h])'
    BY <1>5 DEF CountOf
  <2>2. ASSUME NEW o \in Sessions \ {h} PROVE CountOf(session[o])'
    <3>1. CountOf(session[o])
      BY RoutesOfOne DEF RoutesInv
    <3>2. CASE session[o].attempt = 0
      BY <1>5, <3>1, <3>2 DEF CountOf
    <3>3. CASE session[o].attempt # 0
      <4>1. session[o].held = "nokeyupdate" /\ session[o].id \in Agents
        BY <3>1, <3>3, CountedIsLocked DEF CountOf
      <4>2. session[o].id = a => agent[a] # NoRow /\ s.held \in {"none", "keyshare"}
        BY <4>1, WritersExclude DEF LedgerInv, LocksExclude
      <4>3. run'[session[o].id] = run[session[o].id]
        BY <1>1, <1>2, <4>1, <4>2, CommitOutcome
      <4> QED
        BY <1>5, <3>1, <4>3 DEF CountOf, Last
    <3> QED
      BY <3>2, <3>3
  <2>3. \A o \in Sessions : CountOf(session[o])'
    BY <2>1, <2>2
  <2> QED
    BY <2>3 DEF RoutesCount, CountOf
<1>7. AttemptsMatchStatus'
  <2>1. ASSUME agent'[a] # NoRow
        PROVE  run'[a] # {} <=> agent'[a].status # "created"
    <3>1. CASE s.kind = "create" /\ agent[a] = NoRow /\ run'[a] = run[a]
               /\ agent'[a].status = "created"
      BY <1>0, <3>1 DEF LedgerInv, NoOrphanRuns
    <3>2. CASE /\ s.kind \in Moves /\ agent'[a].status = s.target /\ s.target # "created"
               /\ agent[a] # NoRow
               /\ run'[a] = IF Inserted(s) THEN run[a] \cup {s.attempt} ELSE run[a]
               /\ Inserted(s) <=> s.kind \in AttemptActions
      <4>1. ~Inserted(s) => run[a] # {}
        BY <1>0, <3>2 DEF ReadOf, RoutesInv, AttemptsMatchStatus
      <4> QED
        BY <3>2, <4>1
    <3>3. CASE agent'[a] = agent[a] /\ run'[a] = run[a]
      BY <1>0, <2>1, <3>3 DEF RoutesInv, AttemptsMatchStatus
    <3> QED
      BY <1>3, <2>1, <3>1, <3>2, <3>3
  <2>2. \A b \in Agents \ {a} : agent'[b] # NoRow =>
           (run'[b] # {} <=> agent'[b].status # "created")
    BY <1>1 DEF RoutesInv, AttemptsMatchStatus
  <2> QED
    BY <2>1, <2>2 DEF AttemptsMatchStatus
<1>8. MoversHaveRead'
  <2>1. ReadOf(session[h])'
    BY <1>5 DEF ReadOf, Moves, LifecycleAction
  <2>2. ASSUME NEW o \in Sessions \ {h} PROVE ReadOf(session[o])'
    <3> SUFFICES ASSUME session[o].kind \in Moves, session[o].pc \notin {"idle", "get"}
                 PROVE  /\ ~Creating(session[o].id)'
                        /\ session[o].kind \notin AttemptActions
                           /\ agent'[session[o].id] # NoRow =>
                              agent'[session[o].id].status # "created"
      BY <1>5 DEF ReadOf
    <3>1. ReadOf(session[o]) /\ session[o].id \in issued /\ session[o].id \in Agents
      BY RoutesOfOne DEF RoutesInv, LedgerInv, SessionShape, TypeOK
    <3>2. ~Creating(session[o].id)'
      <4>1. Step(h)
        BY DEF Step, Statement
      <4>2. ~Creating(session[o].id)
        BY <3>1 DEF ReadOf
      <4>3. \A b \in issued : Creating(b)' => Creating(b)
        BY <4>1, CreatedOnce
      <4> QED
        BY <1>5, <3>1, <4>2, <4>3 DEF Creating
    <3>3. CASE session[o].id = a
      <4>1. s.kind # "create"
        BY <3>1, <3>3 DEF ReadOf, Creating
      <4> QED
        BY <1>3, <3>1, <3>2, <3>3, <4>1 DEF ReadOf
    <3>4. CASE session[o].id # a
      BY <1>1, <3>1, <3>2, <3>4 DEF ReadOf
    <3> QED
      BY <3>3, <3>4
  <2>3. \A o \in Sessions : ReadOf(session[o])'
    BY <2>1, <2>2
  <2> QED
    BY <2>3 DEF MoversHaveRead, ReadOf
<1> QED
  BY <1>6, <1>7, <1>8 DEF RoutesInv

\* The invariant of routes holds of the empty database.
LEMMA InitRoutes == Init => RoutesInv
<1> SUFFICES ASSUME Init PROVE RoutesInv
  OBVIOUS
<1>1. \A h \in Sessions : /\ session[h].kind = "none" /\ session[h].attempt = 0
                          /\ session[h].pc = "idle"
  BY DEF Init, Idle
<1>2. \A a \in Agents : agent[a] = NoRow
  BY DEF Init
<1> QED
  BY <1>1, <1>2 DEF RoutesInv, RoutesCount, AttemptsMatchStatus, MoversHaveRead

\* Among routes and the loop every step preserves that invariant.
LEMMA NextRoutes ==
    ASSUME "attempt" \notin Kinds, LedgerInv, Shapes, RoutesInv, [Next]_vars
    PROVE  RoutesInv'
<1>1. CASE UNCHANGED vars
  <2>1. \A a : Last(a)' = Last(a) /\ (Creating(a)' <=> Creating(a))
    BY <1>1 DEF vars, Last, Creating
  <2> QED
    BY <1>1, <2>1 DEF vars, RoutesInv, RoutesCount, AttemptsMatchStatus, MoversHaveRead
<1>2. ASSUME NEW h \in Sessions, Step(h), UNCHANGED <<agent, run>> PROVE RoutesInv'
  <2>1. CountOf(session[h])' /\ ReadOf(session[h])'
    BY <1>2, RoutesOfMoved
  <2>2. ASSUME NEW o \in Sessions \ {h} PROVE CountOf(session[o])' /\ ReadOf(session[o])'
    <3>1. session'[o] = session[o] /\ CountOf(session[o]) /\ ReadOf(session[o])
      BY <1>2, StepOfOne, RoutesOfOne DEF RoutesInv
    <3>2. CountOf(session[o])'
      BY <1>2, <3>1 DEF CountOf, Last
    <3>3. session[o].pc # "idle" => session[o].id \in issued
      BY DEF LedgerInv, SessionShape
    <3>4. \A b \in issued : Creating(b)' => Creating(b)
      BY <1>2, CreatedOnce
    <3>5. session[o].pc # "idle" /\ ~Creating(session[o].id) => ~Creating(session[o].id)'
      BY <3>1, <3>3, <3>4 DEF Creating
    <3>6. ReadOf(session[o])'
      BY <1>2, <3>1, <3>5 DEF ReadOf
    <3> QED
      BY <3>2, <3>6
  <2>3. \A o \in Sessions : CountOf(session[o])' /\ ReadOf(session[o])'
    BY <2>1, <2>2
  <2>4. AttemptsMatchStatus'
    BY <1>2 DEF RoutesInv, AttemptsMatchStatus
  <2> QED
    BY <2>3, <2>4 DEF RoutesInv, RoutesCount, MoversHaveRead, CountOf, ReadOf
<1> QED
  BY <1>1, <1>2, NextIsAStep, OnlyCommitWrites, RoutesCommit

\* Among routes and the execution loop: what every request has counted and
\* read still holds while it runs.
THEOREM RoutesInvariance ==
    ASSUME "attempt" \notin Kinds
    PROVE  Spec => []RoutesInv
<1>1. LedgerInv /\ Shapes /\ RoutesInv /\ [Next]_vars => RoutesInv'
  BY NextRoutes
<1> QED
  BY <1>1, InitRoutes, LedgerInvariance, RouteShapes, PTL DEF Spec

\* The two writes of start are never split: a live agent has an attempt exactly
\* when it has left `created`.
THEOREM AttemptsWithStatus ==
    ASSUME "attempt" \notin Kinds
    PROVE  Spec => []AttemptsMatchStatus
<1>1. RoutesInv => AttemptsMatchStatus
  BY DEF RoutesInv
<1> QED
  BY <1>1, RoutesInvariance, PTL

\* A number counted under the lock on the agent is free.
LEMMA RoutesDoNotCollide ==
    ASSUME LedgerInv, Shapes, RoutesInv
    PROVE  RoutesNeverCollide
<1> SUFFICES ASSUME NEW h \in Sessions, session[h].pc = "insert",
                    session[h].kind \in AttemptActions
             PROVE  /\ session[h].attempt \notin run[session[h].id]
                    /\ ~KeyInFlight(h, session[h].id, session[h].attempt)
  BY DEF RoutesNeverCollide
<1>1. /\ SessionShape(session[h]) /\ session[h].held = "nokeyupdate"
      /\ session[h].attempt # 0 /\ session[h].id \in Agents
      /\ session[h].attempt = Last(session[h].id) + 1
  <2>1. SessionShape(session[h]) /\ session[h].kind # "attempt"
    BY DEF LedgerInv, RoutesInv, RoutesCount
  <2> QED
    BY <2>1, CountedIsLocked DEF SessionShape, RoutesInv, RoutesCount
<1>2. session[h].attempt \notin run[session[h].id]
  BY <1>1, LastAttempt DEF LedgerInv
<1>3. ASSUME NEW o \in Sessions \ {h}, session[o].id = session[h].id PROVE ~Inserted(session[o])
  <2>1. session[o].held \in {"none", "keyshare"}
    BY <1>1, <1>3, WritersExclude
  <2> QED
    BY <2>1 DEF RoutesInv, RoutesCount, LedgerInv, SessionShape
<1> QED
  BY <1>2, <1>3 DEF KeyInFlight

\* The race the docstring of create_attempt records cannot happen between
\* routes: the number a start or restart is about to insert is free, and
\* nobody else is inserting it.
THEOREM NoRouteCollision ==
    ASSUME "attempt" \notin Kinds
    PROVE  Spec => []RoutesNeverCollide
<1>1. LedgerInv /\ Shapes /\ RoutesInv => RoutesNeverCollide
  BY RoutesDoNotCollide
<1> QED
  BY <1>1, RoutesInvariance, LedgerInvariance, RouteShapes, PTL

\* An exception nothing catches is raised only by a statement whose agent is
\* gone.
LEMMA UnhandledStepHolds ==
    ASSUME LedgerInv, Shapes, RoutesInv, [Next]_vars
    PROVE  UnhandledStep
<1> SUFFICES ASSUME NEW h \in Sessions, session[h].pc # "idle", session[h].kind \in Routes,
                    session'[h].code = "500"
             PROVE  agent[session[h].id] = NoRow
  BY DEF UnhandledStep
<1>0. /\ session[h] \in Session /\ RouteShape(session[h]) /\ session[h].code # "500"
  BY DEF LedgerInv, TypeOK, Shapes, RouteShape
<1>1. PICK g \in Sessions : Step(g)
  <2>1. ~UNCHANGED vars
    BY <1>0 DEF vars
  <2> QED
    BY <2>1, NextIsAStep
<1>2. g = h
  BY <1>0, <1>1, StepOfOne
<1>3. \A code : Finish(h, code) => session'[h].code = code
  BY DEF Finish, LedgerInv, TypeOK, Idle
<1>4. CASE RejectBody(h) \/ CreateAgent(h) \/ Receive(h)
  BY <1>4 DEF RejectBody, CreateAgent, Receive
<1>5. CASE LoseSession(h) \/ GetAbsent(h) \/ RefuseIllegal(h) \/ Commit(h)
  BY <1>0, <1>3, <1>5 DEF LoseSession, GetAbsent, RefuseIllegal, Commit, Raise, Success
<1>6. CASE GetAgent(h) \/ Respond(h)
  BY <1>0, <1>6 DEF GetAgent, Respond, Proceed, LedgerInv, TypeOK, Session, Success
<1>7. CASE ComputeStatus(h)
  <2>1. PICK target : session' = [session EXCEPT ![h] =
           [session[h] EXCEPT !.target = target, !.pc = After(session[h].kind, "get")]]
    BY <1>7 DEF ComputeStatus
  <2> QED
    BY <1>0, <2>1 DEF LedgerInv, TypeOK, Session
<1>8. CASE UpdateStatus(h)
  BY <1>0, <1>8 DEF UpdateStatus, LedgerInv, TypeOK, Session
<1>9. CASE ReadMaxAttempt(h) \/ DeleteAgent(h)
  BY <1>0, <1>9 DEF ReadMaxAttempt, DeleteAgent, LedgerInv, TypeOK, Session
<1>10. CASE InsertRun(h)
  <2>1. session[h].kind \in AttemptActions
    BY <1>0, <1>10 DEF InsertRun, RouteShape, Routes, LifecycleAction
  <2>2. session[h].attempt \notin run[session[h].id]
    BY <1>10, <2>1, RoutesDoNotCollide DEF InsertRun, RoutesNeverCollide
  <2> QED
    BY <1>0, <1>10, <2>2 DEF InsertRun, LedgerInv, TypeOK, Session
<1> QED
  BY <1>1, <1>2, <1>4, <1>5, <1>6, <1>7, <1>8, <1>9, <1>10 DEF Step, Statement

\* A route answers 500 for one reason, an agent deleted between two of its
\* statements: neither uq_run_agent_attempt nor the foreign key of run ever
\* reaches a client.
THEOREM OnlyDeletionIsUnhandled ==
    ASSUME "attempt" \notin Kinds
    PROVE  Spec => UnhandledOnlyByDeletion
<1>1. LedgerInv /\ Shapes /\ RoutesInv /\ [Next]_vars => [UnhandledStep]_vars
  BY UnhandledStepHolds
<1> QED
  BY <1>1, RoutesInvariance, LedgerInvariance, RouteShapes, PTL
     DEF Spec, UnhandledOnlyByDeletion

=============================================================================
