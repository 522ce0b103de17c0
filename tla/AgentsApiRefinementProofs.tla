---------------------- MODULE AgentsApiRefinementProofs ----------------------
(***************************************************************************)
(* AgentsApi implements what it promises, for every number of agents,      *)
(* sessions and transactions: the ledger of attempts however requests      *)
(* overlap, and the atomic lifecycle while no two serve one agent.         *)
(***************************************************************************)
EXTENDS AgentsApiRouteProofs

-----------------------------------------------------------------------------
(* The ledger: however requests overlap.                                   *)

\* The empty database is a ledger without agents.
LEMMA InitLedger == Init => Ledger!Init
<1> SUFFICES ASSUME Init PROVE Ledger!Init
  OBVIOUS
<1>1. \A a \in Agents : LifeOf(a) = "unborn"
  BY DEF Init, LifeOf, Gone
<1> QED
  BY <1>1 DEF Init, Ledger!Init

\* The ledger sees nothing of a step that leaves every agent's life and runs.
LEMMA LedgerStutter ==
    ASSUME run' = run, \A a \in Agents : LifeOf(a)' = LifeOf(a)
    PROVE  UNCHANGED Ledger!ledger
<1>1. [a \in Agents |-> LifeOf(a)'] = [a \in Agents |-> LifeOf(a)]
  OBVIOUS
<1> QED
  BY <1>1 DEF Ledger!ledger

\* A request in flight keeps its kind, id and time until it ends, and its
\* target once it has computed it.
LEMMA GoesOnOrEnds ==
    ASSUME LedgerInv, NEW h \in Sessions, Statement(h) \/ LoseSession(h)
    PROVE  /\ session[h].pc # "idle" /\ issued' = issued /\ clock' = clock
           /\ \/ /\ session'[h].kind = session[h].kind /\ session'[h].id = session[h].id
                 /\ session'[h].began = session[h].began
                 /\ session'[h].target = session[h].target \/ ComputeStatus(h)
              \/ session'[h].kind = "none" /\ session'[h].pc = "idle"
<1> USE DEF LedgerInv, TypeOK
<1>1. CASE LoseSession(h) \/ GetAbsent(h) \/ RefuseIllegal(h) \/ Commit(h)
  BY <1>1 DEF LoseSession, GetAbsent, RefuseIllegal, Commit, Raise, Finish, Idle
<1>2. CASE GetAgent(h) \/ Respond(h)
  BY <1>2 DEF GetAgent, Respond, Proceed, Session
<1>3. CASE ComputeStatus(h)
  <2>1. PICK target : session' = [session EXCEPT ![h] =
           [session[h] EXCEPT !.target = target, !.pc = After(session[h].kind, "get")]]
    BY <1>3 DEF ComputeStatus
  <2>2. session[h].pc # "idle" /\ issued' = issued /\ clock' = clock
    BY <1>3 DEF ComputeStatus
  <2>3. /\ session'[h].kind = session[h].kind /\ session'[h].id = session[h].id
        /\ session'[h].began = session[h].began
    BY <2>1 DEF Session
  <2> QED
    BY <1>3, <2>2, <2>3
<1>4. CASE UpdateStatus(h) \/ InsertRun(h)
  BY <1>4 DEF UpdateStatus, InsertRun, Raise, Finish, Idle, Session
<1>5. CASE ReadMaxAttempt(h) \/ DeleteAgent(h)
  BY <1>5 DEF ReadMaxAttempt, DeleteAgent, Session
<1> QED
  BY <1>1, <1>2, <1>3, <1>4, <1>5 DEF Statement

\* Which ids are being created after a step of h.
LEMMA CreatingAfter ==
    ASSUME LedgerInv, NEW h \in Sessions, Step(h), NEW a
    PROVE  Creating(a)' <=> \/ session'[h].kind = "create" /\ session'[h].id = a
                            \/ \E o \in Sessions \ {h} :
                                  session[o].kind = "create" /\ session[o].id = a
BY StepOfOne DEF Creating

\* What begins or is refused before it does: an id that is issued is not born
\* by it, nor gone.
LEMMA BeginIsStutter ==
    ASSUME LedgerInv, NEW h \in Sessions, RejectBody(h) \/ CreateAgent(h) \/ Receive(h)
    PROVE  UNCHANGED Ledger!ledger
<1>1. Step(h) /\ session[h].pc = "idle" /\ session[h].kind = "none" /\ UNCHANGED <<agent, run>>
  BY DEF Step, RejectBody, CreateAgent, Receive, LedgerInv, SessionShape
<1>2. CASE CreateAgent(h)
  <2>1. PICK a \in Agents \ issued :
           /\ issued' = issued \cup {a}
           /\ session'[h].kind = "create" /\ session'[h].id = a
    BY <1>2, ZenonT(30) DEF CreateAgent, LedgerInv, TypeOK, Idle
  <2>2. \A b : b # a => (Creating(b)' <=> Creating(b))
    BY <1>1, <2>1, CreatingAfter DEF Creating
  <2>3. Creating(a)'
    BY <1>1, <2>1, CreatingAfter
  <2>4. \A b \in Agents : LifeOf(b)' = LifeOf(b)
    BY <1>1, <2>1, <2>2, <2>3 DEF LifeOf, Gone
  <2> QED
    BY <1>1, <2>4, LedgerStutter
<1>3. CASE RejectBody(h) \/ Receive(h)
  <2>1. session'[h].kind # "create" /\ issued' = issued
    BY <1>3 DEF RejectBody, Receive, Finish, LedgerInv, TypeOK, Idle
  <2>2. \A b : Creating(b)' <=> Creating(b)
    BY <1>1, <2>1, CreatingAfter DEF Creating
  <2>3. \A b \in Agents : LifeOf(b)' = LifeOf(b)
    BY <1>1, <2>1, <2>2 DEF LifeOf, Gone
  <2> QED
    BY <1>1, <2>3, LedgerStutter
<1> QED
  BY <1>2, <1>3

\* A create that never commits abandons its id; nothing else short of a commit
\* is seen.
LEMMA StatementIsAbandon ==
    ASSUME LedgerInv, NEW h \in Sessions, Statement(h) \/ LoseSession(h),
           UNCHANGED <<agent, run>>
    PROVE  [Ledger!Next]_Ledger!ledger
<1>0. PICK a \in Agents : a = session[h].id
  BY GoesOnOrEnds DEF LedgerInv, SessionShape, TypeOK
<1>1. Step(h) /\ a \in issued /\ issued' = issued
  BY <1>0, GoesOnOrEnds DEF Step, LedgerInv, SessionShape
<1>2. CASE session[h].kind = "create" /\ session'[h].kind # "create"
  <2>1. agent[a] = NoRow /\ Creating(a)
    BY <1>0, <1>2 DEF LedgerInv, UuidsFresh, Creating
  <2>2. ~Creating(a)' /\ \A b : b # a => (Creating(b)' <=> Creating(b))
    BY <1>0, <1>1, <1>2, CreatingAfter DEF LedgerInv, UuidsFresh, Creating
  <2>3. LifeOf(a) = "unborn" /\ LifeOf(a)' = "gone"
    BY <1>1, <2>1, <2>2 DEF LifeOf, Gone
  <2>4. \A b \in Agents : b # a => LifeOf(b)' = LifeOf(b)
    BY <1>1, <2>2 DEF LifeOf, Gone
  <2>5. [b \in Agents |-> LifeOf(b)'] = [[b \in Agents |-> LifeOf(b)] EXCEPT ![a] = "gone"]
    BY <1>1, <2>3, <2>4
  <2>6. Ledger!Abandon(a)
    BY <1>1, <2>3, <2>5 DEF Ledger!Abandon
  <2> QED
    BY <1>1, <2>6 DEF Ledger!Next
<1>3. CASE ~(session[h].kind = "create" /\ session'[h].kind # "create")
  <2>1. \A b : Creating(b)' <=> Creating(b)
    BY <1>1, <1>3, CreatingAfter, GoesOnOrEnds DEF Creating
  <2>2. \A b \in Agents : LifeOf(b)' = LifeOf(b)
    BY <1>1, <2>1 DEF LifeOf, Gone
  <2> QED
    BY <2>2, LedgerStutter
<1> QED
  BY <1>2, <1>3

\* A commit creates an agent, adds its next attempt, deletes it with its
\* attempts, or shows the ledger nothing.
LEMMA CommitIsLedgerStep ==
    ASSUME LedgerInv, NEW h \in Sessions, Commit(h)
    PROVE  [Ledger!Next]_Ledger!ledger
<1>0. Step(h)
  BY DEF Step, Statement
<1>9. PICK a \in Agents, s \in Session : a = session[h].id /\ s = session[h]
  <2>1. session[h].id \in Agents
    BY CommitOutcome
  <2> QED
    BY <2>1 DEF LedgerInv, TypeOK
<1>1. /\ a \in Agents /\ a \in issued /\ issued' = issued
      /\ agent'[a] = RowAfter(s) /\ run' = [run EXCEPT ![a] = RunsAfter(s)]
      /\ \A b \in Agents \ {a} : agent'[b] = agent[b]
      /\ run \in [Agents -> SUBSET (Nat \ {0})] /\ s.attempt \in Nat
  BY <1>9, CommitOutcome DEF LedgerInv, TypeOK, Session
<1>2. session'[h].kind = "none"
  BY DEF Commit, Finish, LedgerInv, TypeOK, Idle
<1>3. \A b : b # a => (Creating(b)' <=> Creating(b))
  BY <1>0, <1>2, <1>9, CreatingAfter DEF Creating
<1>4. \A b \in Agents \ {a} : LifeOf(b)' = LifeOf(b)
  BY <1>1, <1>3 DEF LifeOf, Gone
<1>5. CASE s.kind = "create"
  <2>1. agent[a] = NoRow /\ agent'[a] # NoRow /\ RunsAfter(s) = run[a]
    BY <1>1, <1>5, <1>9, CommitOutcome
  <2>2. LifeOf(a) = "unborn" /\ LifeOf(a)' = "alive"
    BY <1>5, <1>9, <2>1 DEF LifeOf, Gone, Creating
  <2>3. [b \in Agents |-> LifeOf(b)'] = [[b \in Agents |-> LifeOf(b)] EXCEPT ![a] = "alive"]
    BY <1>1, <1>4, <2>2
  <2>4. run' = run
    BY <1>1, <2>1
  <2>5. Ledger!Create(a)
    BY <1>1, <2>2, <2>3, <2>4 DEF Ledger!Create
  <2> QED
    BY <1>1, <2>5 DEF Ledger!Next
<1>6. CASE s.kind # "create" /\ s.held \in {"keyshare", "nokeyupdate"} /\ Inserted(s)
  <2>1. agent[a] # NoRow /\ agent'[a] # NoRow /\ RunsAfter(s) = run[a] \cup {s.attempt}
    BY <1>1, <1>6, <1>9, CommitOutcome
  <2>2. LifeOf(a) = "alive" /\ LifeOf(a)' = "alive"
    BY <2>1 DEF LifeOf
  <2>3. [b \in Agents |-> LifeOf(b)'] = [b \in Agents |-> LifeOf(b)]
    BY <1>4, <2>2
  <2>4. s.attempt = Last(a) + 1
    BY <1>1, <1>6, <1>9, <2>1, LastAttempt DEF LedgerInv, PendingAttempts, Gone, Inserted
  <2>5. run' = [run EXCEPT ![a] = run[a] \cup {Last(a) + 1}]
    BY <1>1, <2>1, <2>4
  <2>6. Ledger!Last(a) = Last(a)
    BY DEF Ledger!Last, Ledger!Max, Last, Max
  <2>7. Ledger!Attempt(a)
    BY <2>2, <2>3, <2>5, <2>6 DEF Ledger!Attempt
  <2> QED
    BY <1>1, <2>7 DEF Ledger!Next
<1>7. CASE s.kind # "create" /\ s.held = "update"
  <2>1. agent[a] # NoRow /\ agent'[a] = NoRow /\ RunsAfter(s) = {}
    BY <1>1, <1>7, <1>9, CommitOutcome
  <2>2. ~Creating(a)'
    BY <1>0, <1>2, <2>1, CreatingAfter DEF LedgerInv, UuidsFresh
  <2>3. LifeOf(a) = "alive" /\ LifeOf(a)' = "gone"
    BY <1>1, <2>1, <2>2 DEF LifeOf, Gone
  <2>4. [b \in Agents |-> LifeOf(b)'] = [[b \in Agents |-> LifeOf(b)] EXCEPT ![a] = "gone"]
    BY <1>1, <1>4, <2>3
  <2>5. Ledger!Delete(a)
    BY <1>1, <2>1, <2>3, <2>4 DEF Ledger!Delete
  <2> QED
    BY <1>1, <2>5 DEF Ledger!Next
<1>8. CASE /\ s.kind # "create"
           /\ s.held = "none" \/ (s.held \in {"keyshare", "nokeyupdate"} /\ ~Inserted(s))
  <2>1. RunsAfter(s) = run[a] /\ (agent'[a] = agent[a] \/ (agent[a] # NoRow /\ agent'[a] # NoRow))
    BY <1>1, <1>8, <1>9, CommitOutcome
  <2>2. Creating(a)' <=> Creating(a)
    BY <1>0, <1>2, <1>8, <1>9, CreatingAfter DEF Creating
  <2>3. LifeOf(a)' = LifeOf(a)
    BY <1>1, <2>1, <2>2 DEF LifeOf, Gone
  <2>4. run' = run /\ \A b \in Agents : LifeOf(b)' = LifeOf(b)
    BY <1>1, <1>4, <2>1, <2>3
  <2> QED
    BY <2>4, LedgerStutter
<1> QED
  BY <1>5, <1>6, <1>7, <1>8 DEF Session, Locks

\* Every step is one of the ledger or changes nothing it sees.
LEMMA NextIsLedgerStep ==
    ASSUME LedgerInv, [Next]_vars
    PROVE  [Ledger!Next]_Ledger!ledger
<1>1. CASE UNCHANGED vars
  <2>1. run' = run /\ \A a \in Agents : LifeOf(a)' = LifeOf(a)
    BY <1>1 DEF vars, LifeOf, Gone, Creating
  <2> QED
    BY <2>1, LedgerStutter
<1>2. ASSUME NEW h \in Sessions, Step(h) PROVE [Ledger!Next]_Ledger!ledger
  BY <1>2, BeginIsStutter, StatementIsAbandon, CommitIsLedgerStep, OnlyCommitWrites DEF Step
<1> QED
  BY <1>1, <1>2, NextIsAStep

\* However requests overlap, fail or vanish, they do to an agent's attempts
\* what the ledger does one atomic step at a time: an id is created once, its
\* attempts are counted 1, 2, 3, ..., a delete takes them all for good.
THEOREM LedgerRefinement == Spec => ImplementsLedger
<1>1. LedgerInv /\ [Next]_vars => [Ledger!Next]_Ledger!ledger
  BY NextIsLedgerStep
<1> QED
  BY <1>1, InitLedger, LedgerInvariance, PTL DEF Spec, ImplementsLedger, Ledger!Spec

-----------------------------------------------------------------------------
(* One request per agent.                                                  *)

\* Time: no row is from the future, and a request began after the row of its
\* agent was last written.
TimeOf(s) ==
    s.pc # "idle" =>
        /\ s.began <= clock
        /\ agent[s.id] # NoRow => agent[s.id].updated < s.began

\* The status a request is about to write is still legal from the row it will
\* write over, which is still there.
TargetOf(s) ==
    s.kind \in Moves /\ s.pc \notin {"idle", "get"} =>
        /\ agent[s.id] # NoRow
        /\ s.target \in Targets(s.kind, agent[s.id].status)

ExclusiveInv ==
    /\ OneRequestPerAgent
    /\ \A a \in Agents : agent[a] # NoRow => agent[a].updated <= clock
    /\ \A h \in Sessions : TimeOf(session[h]) /\ TargetOf(session[h])

\* Nothing is in flight at the start.
LEMMA InitExclusive == Init => ExclusiveInv
<1> SUFFICES ASSUME Init PROVE ExclusiveInv
  OBVIOUS
<1>1. \A h \in Sessions : session[h].pc = "idle" /\ session[h].id = NoAgent
  BY DEF Init, Idle
<1>2. \A a \in Agents : agent[a] = NoRow
  BY DEF Init
<1> QED
  BY <1>1, <1>2 DEF ExclusiveInv, OneRequestPerAgent, TimeOf, TargetOf

\* The session that moves.
LEMMA ExclusiveOfMoved ==
    ASSUME LedgerInv, Shapes, ExclusiveInv, NEW h \in Sessions, Step(h),
           UNCHANGED agent
    PROVE  (TimeOf(session[h]) /\ TargetOf(session[h]))'
<1>0. session[h] \in Session /\ SessionShape(session[h]) /\ RouteShape(session[h])
      /\ clock \in Nat /\ TimeOf(session[h]) /\ TargetOf(session[h])
  BY MaxTxAssumption DEF LedgerInv, TypeOK, Shapes, ExclusiveInv
<1>1. CASE session'[h].pc = "idle"
  BY <1>1 DEF TimeOf, TargetOf
<1>2. CASE CreateAgent(h)
  <2>1. PICK a \in Agents \ issued :
           session' = [session EXCEPT ![h] =
             [Idle EXCEPT !.pc = Closing("create"), !.kind = "create", !.id = a,
                          !.target = InitialStatus, !.began = clock + 1]]
    BY <1>2 DEF CreateAgent
  <2>2. /\ session'[h].kind = "create" /\ session'[h].id = a
        /\ session'[h].began = clock + 1 /\ clock' = clock + 1 /\ agent[a] = NoRow
    BY <1>2, <2>1 DEF CreateAgent, LedgerInv, TypeOK, Idle, UuidsFresh
  <2> QED
    BY <1>0, <2>2 DEF TimeOf, TargetOf, Moves, LifecycleAction
<1>3. CASE Receive(h)
  <2>1. PICK kind \in Kinds \ {"create"}, a \in Agents :
           session' = [session EXCEPT ![h] =
             [Idle EXCEPT !.pc = FirstStatement(kind), !.kind = kind, !.id = a,
                          !.began = clock + 1]]
    BY <1>3 DEF Receive
  <2>2. /\ session'[h].kind = kind /\ session'[h].id = a
        /\ session'[h].pc = FirstStatement(kind)
        /\ session'[h].began = clock + 1 /\ clock' = clock + 1
    BY <1>3, <2>1 DEF Receive, LedgerInv, TypeOK, Idle
  <2>3. agent[a] # NoRow => agent[a].updated < clock + 1
    BY <1>0, <2>1 DEF ExclusiveInv, LedgerInv, TypeOK, Row
  <2>4. kind \in Moves => FirstStatement(kind) = "get"
    BY DEF FirstStatement, Moves, LifecycleAction
  <2> QED
    BY <1>0, <2>2, <2>3, <2>4 DEF TimeOf, TargetOf
<1>4. CASE ComputeStatus(h)
  <2>1. PICK target \in Targets(session[h].kind, agent[session[h].id].status) :
           session' = [session EXCEPT ![h] =
             [session[h] EXCEPT !.target = target, !.pc = After(session[h].kind, "get")]]
    BY <1>4 DEF ComputeStatus
  <2>2. /\ session'[h].kind = session[h].kind /\ session'[h].id = session[h].id
        /\ session'[h].began = session[h].began /\ session'[h].target = target
        /\ session[h].pc # "idle" /\ clock' = clock /\ agent[session[h].id] # NoRow
    BY <1>0, <1>4, <2>1 DEF ComputeStatus, LedgerInv, TypeOK, Session
  <2> QED
    BY <1>0, <2>2 DEF TimeOf, TargetOf
<1>5. CASE /\ Statement(h) \/ LoseSession(h)
           /\ session'[h].pc # "idle" /\ ~ComputeStatus(h)
  <2>1. /\ session'[h].kind = session[h].kind /\ session'[h].id = session[h].id
        /\ session'[h].began = session[h].began /\ session'[h].target = session[h].target
        /\ session[h].pc # "idle" /\ clock' = clock
    BY <1>5, GoesOnOrEnds
  <2>2. session[h].kind \in Moves => session[h].pc # "get"
    <3>1. CASE GetAgent(h)
      BY <3>1 DEF GetAgent, Moves, LifecycleAction
    <3>2. ~(LoseSession(h) \/ GetAbsent(h) \/ RefuseIllegal(h))
      BY <1>5 DEF LoseSession, GetAbsent, RefuseIllegal, Raise, Finish, LedgerInv, TypeOK, Idle
    <3> QED
      BY <1>5, <3>1, <3>2
         DEF Statement, UpdateStatus, ReadMaxAttempt, InsertRun, DeleteAgent, Respond, Commit
  <2> QED
    BY <1>0, <2>1, <2>2 DEF TimeOf, TargetOf
<1>6. RejectBody(h) => session'[h].pc = "idle"
  BY DEF RejectBody, Finish, LedgerInv, TypeOK, Idle
<1> QED
  BY <1>1, <1>2, <1>3, <1>4, <1>5, <1>6 DEF Step

\* With one request per agent every step preserves what requests have read.
LEMMA NextExclusive ==
    ASSUME LedgerInv, Shapes, ExclusiveInv, [ExclusiveNext]_vars
    PROVE  ExclusiveInv'
<1>1. CASE UNCHANGED vars
  BY <1>1 DEF vars, ExclusiveInv, OneRequestPerAgent, TimeOf, TargetOf
<1>2. ASSUME NEW h \in Sessions, Step(h), OneRequestPerAgent' PROVE ExclusiveInv'
  <2>1. clock \in Nat /\ clock' \in Nat /\ clock <= clock'
    <3>1. RejectBody(h) => clock' = clock
      BY DEF RejectBody
    <3>2. CreateAgent(h) \/ Receive(h) => clock' = clock + 1
      BY DEF CreateAgent, Receive
    <3>3. Statement(h) \/ LoseSession(h) => clock' = clock
      BY GoesOnOrEnds
    <3>4. clock \in Nat
      BY MaxTxAssumption DEF LedgerInv, TypeOK
    <3> QED
      BY <1>2, <3>1, <3>2, <3>3, <3>4 DEF Step
  <2>2. \A o \in Sessions \ {h} : session'[o] = session[o]
    BY <1>2, StepOfOne
  <2>3. \A o \in Sessions : session[o] \in Session /\ session[o].began \in Nat
                            /\ (session[o].pc # "idle" => session[o].id \in Agents)
    BY MaxTxAssumption DEF LedgerInv, TypeOK, Session, SessionShape
  <2>4. CASE UNCHANGED agent
    <3>1. \A a \in Agents : agent'[a] # NoRow => agent'[a].updated <= clock'
      BY <2>1, <2>4 DEF ExclusiveInv, LedgerInv, TypeOK, Row
    <3>2. (TimeOf(session[h]) /\ TargetOf(session[h]))'
      BY <1>2, <2>4, ExclusiveOfMoved
    <3>3. ASSUME NEW o \in Sessions \ {h} PROVE (TimeOf(session[o]) /\ TargetOf(session[o]))'
      BY <2>1, <2>2, <2>3, <2>4 DEF ExclusiveInv, TimeOf, TargetOf
    <3>4. \A o \in Sessions : (TimeOf(session[o]) /\ TargetOf(session[o]))'
      BY <3>2, <3>3
    <3> QED
      BY <1>2, <3>1, <3>4 DEF ExclusiveInv
  <2>5. CASE Commit(h)
    <3>1. /\ session[h].id \in Agents
          /\ agent' = [agent EXCEPT ![session[h].id] = RowAfter(session[h])]
          /\ clock' = clock /\ session[h].pc = "commit"
      BY <2>5, CommitOutcome DEF Commit
    <3>2. RowAfter(session[h]) # NoRow => RowAfter(session[h]).updated <= clock
      BY <3>1 DEF RowAfter, ExclusiveInv, TimeOf
    <3>3. \A a \in Agents : agent'[a] # NoRow => agent'[a].updated <= clock'
      BY <3>1, <3>2 DEF ExclusiveInv, LedgerInv, TypeOK
    <3>4. session'[h].kind = "none" /\ session'[h].pc = "idle"
      BY <2>5 DEF Commit, Finish, LedgerInv, TypeOK, Idle
    <3>5. ASSUME NEW o \in Sessions \ {h} PROVE (TimeOf(session[o]) /\ TargetOf(session[o]))'
      <4>1. session[o].pc # "idle" => session[o].id # session[h].id
        BY <2>3, <3>1, NoAgentAssumption DEF ExclusiveInv, OneRequestPerAgent
      <4>2. session[o].pc # "idle" => agent'[session[o].id] = agent[session[o].id]
        BY <2>3, <3>1, <4>1 DEF LedgerInv, TypeOK
      <4> QED
        BY <2>2, <3>1, <4>2 DEF ExclusiveInv, TimeOf, TargetOf
    <3>6. \A o \in Sessions : (TimeOf(session[o]) /\ TargetOf(session[o]))'
      BY <3>4, <3>5 DEF TimeOf, TargetOf
    <3> QED
      BY <1>2, <3>3, <3>6 DEF ExclusiveInv
  <2> QED
    BY <1>2, <2>4, <2>5, OnlyCommitWrites
<1> QED
  BY <1>1, <1>2, NextIsAStep DEF ExclusiveNext

\* Requests one at a time are requests.
LEMMA ExclusiveIsSpec == ExclusiveSpec => Spec
<1>1. [ExclusiveNext]_vars => [Next]_vars
  BY DEF ExclusiveNext
<1> QED
  BY <1>1, PTL DEF ExclusiveSpec, Spec

\* One request per agent: what a request has read of its agent still holds when
\* it writes.
THEOREM ExclusiveInvariance == ExclusiveSpec => []ExclusiveInv
BY InitExclusive, NextExclusive, ExclusiveIsSpec, LedgerInvariance, RouteShapes, PTL
   DEF ExclusiveSpec

\* A commit writes an `updated_at` later than the one there.
LEMMA UpdateStepHolds ==
    ASSUME LedgerInv, Shapes, ExclusiveInv, [Next]_vars
    PROVE  UpdateStep
<1>1. CASE UNCHANGED vars
  BY <1>1 DEF vars, UpdateStep
<1>2. ASSUME NEW h \in Sessions, Step(h), NEW a \in Agents,
             agent[a] # NoRow, agent'[a] # NoRow, agent'[a] # agent[a]
      PROVE  agent'[a].updated > agent[a].updated
  <2>1. Commit(h)
    BY <1>2, OnlyCommitWrites
  <2>2. /\ agent'[a] = [status |-> session[h].target, updated |-> session[h].began]
        /\ a = session[h].id
    BY <1>2, <2>1, CommitOfMove
  <2>3. agent[a].updated < session[h].began
    BY <1>2, <2>1, <2>2 DEF ExclusiveInv, TimeOf, Commit
  <2>4. session[h].began \in Int /\ agent[a].updated \in Int
    BY <1>2, MaxTxAssumption DEF LedgerInv, TypeOK, Session, Row
  <2> QED
    BY <2>2, <2>3, <2>4
<1> QED
  BY <1>1, <1>2, NextIsAStep DEF UpdateStep

\* One request per agent: no two writes of a row carry one updated_at, and none
\* goes back in time.
THEOREM UpdatesAdvance == ExclusiveSpec => UpdatedAtAdvances
<1>1. LedgerInv /\ Shapes /\ ExclusiveInv /\ [ExclusiveNext]_vars => [UpdateStep]_vars
  BY UpdateStepHolds DEF ExclusiveNext
<1> QED
  BY <1>1, ExclusiveInvariance, ExclusiveIsSpec, LedgerInvariance, RouteShapes, PTL
     DEF ExclusiveSpec, UpdatedAtAdvances

-----------------------------------------------------------------------------
(* The atomic lifecycle.                                                   *)

\* A commit of one request at a time replaces a status by a target of its kind.
LEMMA CommitOfTarget ==
    ASSUME LedgerInv, Shapes, ExclusiveInv, NEW h \in Sessions, Commit(h), NEW a \in Agents,
           agent[a] # NoRow, agent'[a] # NoRow, agent'[a] # agent[a]
    PROVE  /\ a = session[h].id /\ session[h].kind \in Moves
           /\ agent'[a].status \in Targets(session[h].kind, agent[a].status)
<1>1. /\ a = session[h].id /\ session[h].kind \in Moves
      /\ agent'[a] = [status |-> session[h].target, updated |-> session[h].began]
  BY CommitOfMove
<1>2. agent'[a].status = session[h].target
  BY <1>1
<1>3. session[h].target \in Targets(session[h].kind, agent[a].status)
  BY <1>1 DEF ExclusiveInv, TargetOf, Commit
<1> QED
  BY <1>1, <1>2, <1>3

\* Nothing leads away from `completed`.
LEMMA NoTargetOfCompleted ==
    \A kind \in Moves : Targets(kind, "completed") = {}
<1>1. ASSUME NEW kind \in LifecycleAction PROVE Targets(kind, "completed") = {}
  BY <1>1 DEF Targets, NextStatus, TRANSITIONS, LifecycleAction
<1>2. Targets("advance", "completed") = {}
  BY DEF Targets, IsLegal, LegalEdges, SystemEdges, TRANSITIONS
<1> QED
  BY <1>1, <1>2 DEF Moves

\* A commit takes an agent out of `completed` only by deleting it.
LEMMA CompletedStepHolds ==
    ASSUME LedgerInv, Shapes, ExclusiveInv, [Next]_vars
    PROVE  AtomicApi!CompletedStep
<1> SUFFICES ASSUME NEW a \in Agents, StatusOf(a) = "completed"
             PROVE  StatusOf(a)' \in {"completed", NoRow}
  BY DEF AtomicApi!CompletedStep
<1>1. agent[a] # NoRow /\ agent[a].status = "completed"
  BY NoStatusAssumption DEF StatusOf, AgentStatus
<1>2. agent'[a] = NoRow \/ agent'[a] = agent[a]
  <2> SUFFICES ASSUME agent'[a] # NoRow, agent'[a] # agent[a] PROVE FALSE
    OBVIOUS
  <2>1. PICK h \in Sessions : Commit(h)
    BY NextIsAStep, OnlyCommitWrites DEF vars
  <2>2. session[h].kind \in Moves /\ Targets(session[h].kind, "completed") # {}
    BY <1>1, <2>1, CommitOfTarget
  <2> QED
    BY <2>2, NoTargetOfCompleted
<1> QED
  BY <1>1, <1>2 DEF StatusOf

\* One request per agent: a completed agent is left alone or deleted.
THEOREM CompletedStays == ExclusiveSpec => CompletedIsTerminal
<1>1. LedgerInv /\ Shapes /\ ExclusiveInv /\ [ExclusiveNext]_vars
         => [AtomicApi!CompletedStep]_AtomicApi!lifecycle
  BY CompletedStepHolds DEF ExclusiveNext
<1> QED
  BY <1>1, ExclusiveInvariance, ExclusiveIsSpec, LedgerInvariance, RouteShapes, PTL
     DEF ExclusiveSpec, CompletedIsTerminal, AtomicApi!CompletedIsTerminal

\* The empty database is a lifecycle without agents.
LEMMA InitAtomic == Init => AtomicApi!Init
<1> SUFFICES ASSUME Init PROVE AtomicApi!Init
  OBVIOUS
<1>1. \A a \in Agents : StatusOf(a) = NoRow
  BY DEF Init, StatusOf
<1> QED
  BY <1>1 DEF Init, AtomicApi!Init

\* A step that leaves both tables alone is a stutter of the lifecycle.
LEMMA AtomicStutter ==
    ASSUME UNCHANGED <<agent, run>>
    PROVE  UNCHANGED AtomicApi!lifecycle
BY DEF AtomicApi!lifecycle, StatusOf

\* The atomic API counts attempts as create_attempt does.
LEMMA AtomicCount == \A a : AtomicApi!NextAttempt(a) = Last(a) + 1
BY DEF AtomicApi!NextAttempt, AtomicApi!Max, Last, Max

\* A commit of one route at a time is the whole route, at once.
LEMMA CommitIsAtomicStep ==
    ASSUME LedgerInv, Shapes, RoutesInv, ExclusiveInv, NEW h \in Sessions, Commit(h)
    PROVE  [AtomicApi!Next]_AtomicApi!lifecycle
<1>0. PICK a \in Agents, s \in Session : a = session[h].id /\ s = session[h]
  <2>1. session[h].id \in Agents
    BY CommitOutcome
  <2> QED
    BY <2>1 DEF LedgerInv, TypeOK
<1>1. /\ agent' = [agent EXCEPT ![a] = RowAfter(s)] /\ run' = [run EXCEPT ![a] = RunsAfter(s)]
      /\ agent \in [Agents -> Row \cup {NoRow}]
      /\ run \in [Agents -> SUBSET (Nat \ {0})]
      /\ agent'[a] = RowAfter(s)
      /\ SessionShape(s) /\ RouteShape(s) /\ s.kind # "attempt" /\ s.pc = "commit"
  BY <1>0, CommitOutcome DEF LedgerInv, TypeOK, Shapes, RoutesInv, RoutesCount, Commit
<1>2. ASSUME NEW t, StatusOf(a)' = t
      PROVE  [b \in Agents |-> StatusOf(b)'] = [[b \in Agents |-> StatusOf(b)] EXCEPT ![a] = t]
  BY <1>1, <1>2 DEF StatusOf
<1>3. CASE s.kind = "create"
  <2>1. agent[a] = NoRow /\ RowAfter(s) # NoRow /\ RunsAfter(s) = run[a]
    BY <1>0, <1>3, CommitOutcome
  <2>2. RowAfter(s) = [status |-> "created", updated |-> s.began]
    BY <1>1, <1>3 DEF RowAfter, SessionShape, InitialStatus
  <2>3. StatusOf(a) = NoRow /\ StatusOf(a)' = "created" /\ run' = run
    BY <1>1, <2>1, <2>2 DEF StatusOf
  <2>4. AtomicApi!Create(a)
    BY <1>2, <2>3 DEF AtomicApi!Create, AtomicApi!Exists
  <2> QED
    BY <2>4 DEF AtomicApi!Next
<1>4. CASE s.kind # "create" /\ s.held = "nokeyupdate"
  <2>1. /\ agent[a] # NoRow /\ RowAfter(s) # NoRow
        /\ RowAfter(s) = [status |-> s.target, updated |-> s.began]
        /\ RunsAfter(s) = IF Inserted(s) THEN run[a] \cup {s.attempt} ELSE run[a]
    BY <1>0, <1>4, CommitOutcome DEF RowAfter
  <2>2. s.kind \in Moves /\ (Inserted(s) <=> s.kind \in AttemptActions)
    BY <1>1, <1>4 DEF RouteShape, Inserted
  <2>3. s.target \in Targets(s.kind, agent[a].status)
    BY <1>0, <1>1, <2>2 DEF ExclusiveInv, TargetOf
  <2>4. s.target # NoRow
    BY <2>3, TargetsType, NoStatusAssumption
  <2>5. /\ StatusOf(a) = agent[a].status /\ StatusOf(a) # NoRow /\ StatusOf(a)' = s.target
    BY <1>1, <2>1, NoStatusAssumption DEF StatusOf, Row
  <2>6. Inserted(s) => s.attempt = Last(a) + 1
    BY <1>0, <1>1 DEF RoutesInv, RoutesCount, Inserted
  <2>7. CASE s.kind \in AttemptActions
    <3>1. run' = [run EXCEPT ![a] = run[a] \cup {Last(a) + 1}]
      BY <1>1, <2>1, <2>2, <2>6, <2>7
    <3>2. s.target \in NextStatus(StatusOf(a), s.kind) /\ s.kind \in LifecycleAction
          /\ s.kind \in AtomicApi!AttemptActions
      BY <2>3, <2>5, <2>7 DEF Targets, AttemptActions, LifecycleAction, AtomicApi!AttemptActions
    <3>3. AtomicApi!Apply(a, s.kind)
      BY <1>2, <2>5, <3>1, <3>2, AtomicCount
         DEF AtomicApi!Apply, AtomicApi!Exists, AtomicApi!NextStatus, NextStatus,
             AtomicApi!AgentStatus, AgentStatus, AtomicApi!TRANSITIONS, TRANSITIONS
    <3> QED
      BY <3>2, <3>3 DEF AtomicApi!Next, AtomicApi!LifecycleAction, LifecycleAction
  <2>8. CASE s.kind \in LifecycleAction \ AttemptActions
    <3>1. run' = run
      BY <1>1, <2>1, <2>2, <2>8
    <3>2. s.target \in NextStatus(StatusOf(a), s.kind)
          /\ s.kind \notin AtomicApi!AttemptActions
      BY <2>3, <2>5, <2>8 DEF Targets, AttemptActions, LifecycleAction, AtomicApi!AttemptActions
    <3>3. AtomicApi!Apply(a, s.kind)
      BY <1>2, <2>5, <3>1, <3>2
         DEF AtomicApi!Apply, AtomicApi!Exists, AtomicApi!NextStatus, NextStatus,
             AtomicApi!AgentStatus, AgentStatus, AtomicApi!TRANSITIONS, TRANSITIONS
    <3> QED
      BY <2>8, <3>3 DEF AtomicApi!Next, AtomicApi!LifecycleAction, LifecycleAction
  <2>9. CASE s.kind = "advance"
    <3>1. run' = run
      BY <1>1, <2>1, <2>2, <2>9 DEF AttemptActions
    <3>2. PICK edge \in SystemEdges : edge[2] = s.target /\ IsLegal(StatusOf(a), edge[2])
      BY <2>3, <2>5, <2>9 DEF Targets
    <3>3. /\ edge \in AtomicApi!SystemEdges
          /\ AtomicApi!IsLegal(StatusOf(a), edge[2])
      BY <3>2 DEF IsLegal, LegalEdges, SystemEdges, TRANSITIONS, AtomicApi!IsLegal,
                  AtomicApi!LegalEdges, AtomicApi!SystemEdges, AtomicApi!TRANSITIONS
    <3>4. AtomicApi!Advance(a)
      BY <1>2, <2>5, <3>1, <3>2, <3>3 DEF AtomicApi!Advance, AtomicApi!Exists
    <3> QED
      BY <3>4 DEF AtomicApi!Next
  <2> QED
    BY <2>2, <2>7, <2>8, <2>9 DEF Moves
<1>5. CASE s.kind # "create" /\ s.held = "update"
  <2>1. agent[a] # NoRow /\ RowAfter(s) = NoRow /\ RunsAfter(s) = {}
    BY <1>0, <1>5, CommitOutcome
  <2>2. StatusOf(a) # NoRow /\ StatusOf(a)' = NoRow
    BY <1>1, <2>1, NoStatusAssumption DEF StatusOf, Row
  <2>3. AtomicApi!Delete(a)
    BY <1>1, <1>2, <2>1, <2>2 DEF AtomicApi!Delete, AtomicApi!Exists
  <2> QED
    BY <2>3 DEF AtomicApi!Next
<1>6. CASE s.kind # "create" /\ s.held \in {"none", "keyshare"}
  <2>1. ~Inserted(s)
    BY <1>1, <1>6 DEF SessionShape
  <2>2. RowAfter(s) = agent[a] /\ RunsAfter(s) = run[a]
    BY <1>0, <1>6, <2>1 DEF RowAfter, RunsAfter
  <2>3. UNCHANGED <<agent, run>>
    BY <1>1, <2>2
  <2> QED
    BY <2>3, AtomicStutter
<1> QED
  BY <1>3, <1>4, <1>5, <1>6 DEF Session, Locks

\* A commit is the one step its request is, and every other step a stutter.
LEMMA NextIsAtomicStep ==
    ASSUME LedgerInv, Shapes, RoutesInv, ExclusiveInv, [Next]_vars
    PROVE  [AtomicApi!Next]_AtomicApi!lifecycle
<1>1. CASE UNCHANGED <<agent, run>>
  BY <1>1, AtomicStutter
<1>2. ASSUME NEW h \in Sessions, Commit(h) PROVE [AtomicApi!Next]_AtomicApi!lifecycle
  BY <1>2, CommitIsAtomicStep
<1> QED
  BY <1>1, <1>2, NextIsAStep, OnlyCommitWrites DEF vars

\* Routes and the execution loop, one request per agent at a time: every
\* request is one atomic step of the lifecycle on the row and the runs of its
\* agent, or has no effect.
THEOREM LifecycleRefinement ==
    ASSUME "attempt" \notin Kinds
    PROVE  ExclusiveSpec => ImplementsLifecycle
<1>1. LedgerInv /\ Shapes /\ RoutesInv /\ ExclusiveInv /\ [ExclusiveNext]_vars
         => [AtomicApi!Next]_AtomicApi!lifecycle
  BY NextIsAtomicStep DEF ExclusiveNext
<1> QED
  BY <1>1, InitAtomic, ExclusiveInvariance, ExclusiveIsSpec, LedgerInvariance, RouteShapes,
     RoutesInvariance, PTL DEF ExclusiveSpec, ImplementsLifecycle, AtomicApi!Spec

-----------------------------------------------------------------------------
(* The callers' way out.                                                   *)

\* From every live status of the table, two caller actions reach `stopped`.
LEMMA StopIsNear ==
    \A current \in {"starting", "running", "paused"} :
        \E between \in AtomicApi!CallerReach(current) :
            "stopped" \in AtomicApi!CallerReach(between)
<1>1. /\ "stopped" \in AtomicApi!NextStatus("starting", "stop")
      /\ "stopped" \in AtomicApi!NextStatus("running", "stop")
      /\ "running" \in AtomicApi!NextStatus("paused", "resume")
  BY DEF AtomicApi!NextStatus, AtomicApi!AgentStatus, AtomicApi!TRANSITIONS
<1>2. {"stop", "resume"} \subseteq AtomicApi!LifecycleAction
  BY DEF AtomicApi!LifecycleAction
<1>3. "stopped" \in AtomicApi!CallerReach("starting")
  BY <1>1, <1>2 DEF AtomicApi!CallerReach
<1>4. "stopped" \in AtomicApi!CallerReach("running")
  BY <1>1, <1>2 DEF AtomicApi!CallerReach
<1>5. "running" \in AtomicApi!CallerReach("paused")
  BY <1>1, <1>2 DEF AtomicApi!CallerReach
<1>6. \A current : current \in AtomicApi!CallerReach(current)
  BY DEF AtomicApi!CallerReach
<1> QED
  BY <1>3, <1>4, <1>5, <1>6

\* Whatever overlaps, a committed agent that is starting, running or paused can
\* be stopped by its callers, with or without an execution loop.
THEOREM CallersCanAlwaysStop == Spec => []CallersCanStop
<1>1. CallersCanStop
  BY StopIsNear DEF CallersCanStop, AtomicApi!CallersCanStop
<1> QED
  BY <1>1, PTL

=============================================================================
