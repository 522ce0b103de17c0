--------------------------- MODULE AgentsApiProofs ---------------------------
(***************************************************************************)
(* Machine-checked proofs about AgentsApi for every number of agents,      *)
(* sessions and transactions.                                              *)
(***************************************************************************)
EXTENDS AgentsApi, TLAPS

-----------------------------------------------------------------------------
(* Numbers.                                                                *)

\* The highest of 0 and 1..n is n: `(current or 0)` counts attempts 1..n.
LEMMA MaxOfInterval ==
    ASSUME NEW n \in Nat
    PROVE  Max((1..n) \cup {0}) = n
<1>1. n \in (1..n) \cup {0} /\ \A y \in (1..n) \cup {0} : n >= y
  OBVIOUS
<1>2. \A x \in (1..n) \cup {0} :
         (\A y \in (1..n) \cup {0} : x >= y) => x = n
  BY <1>1
<1> QED
  BY <1>1, <1>2 DEF Max

\* The highest of 0 and a set of attempts numbered 1..n, plus n + 1.
LEMMA MaxOfNonEmpty ==
    ASSUME NEW S \in SUBSET Nat, NEW n \in Nat, S = 1..n
    PROVE  /\ Max(S \cup {0}) = n
           /\ S \cup {n + 1} = 1..(n + 1)
<1>1. Max(S \cup {0}) = n
  BY MaxOfInterval
<1>2. S \cup {n + 1} = 1..(n + 1)
  OBVIOUS
<1> QED
  BY <1>1, <1>2

-----------------------------------------------------------------------------
(* Types.                                                                  *)

\* A request goes on to one of five statements.
LEMMA AfterType ==
    ASSUME NEW kind, NEW step
    PROVE  After(kind, step) \in {"update", "max", "insert", "respond", "commit"}
BY DEF After, Closing

\* Where each statement leads.
LEMMA AfterValues ==
    ASSUME NEW kind
    PROVE  /\ After("get", "get") = "respond"
           /\ kind # "get" => After(kind, "get") = "update"
           /\ kind \in AttemptActions => After(kind, "update") = "max"
           /\ kind \notin AttemptActions => After(kind, "update") \in {"respond", "commit"}
           /\ After(kind, "max") = "insert"
           /\ After(kind, "insert") \in {"respond", "commit"}
           /\ After("delete", "delete") = "respond"
BY DEF After, Closing, AttemptActions, Routes

\* A request is about to write one of the statuses.
LEMMA TargetsType ==
    ASSUME NEW kind, NEW current
    PROVE  Targets(kind, current) \subseteq AgentStatus
<1>1. \A e \in SystemEdges : e[2] \in AgentStatus
  BY DEF SystemEdges, AgentStatus
<1>2. NextStatus(current, kind) \subseteq AgentStatus
  BY DEF NextStatus
<1> QED
  BY <1>1, <1>2 DEF Targets

\* A session that has been answered is at rest, whatever the code.
LEMMA IdleType ==
    ASSUME NEW code \in Codes
    PROVE  /\ [Idle EXCEPT !.code = code] \in Session
           /\ SessionShape([Idle EXCEPT !.code = code])
           /\ ~Inserted([Idle EXCEPT !.code = code])
BY MaxTxAssumption DEF Idle, Session, Pcs, Locks, SessionShape, Inserted

-----------------------------------------------------------------------------
(* Numbering.                                                              *)

\* What contiguity says of the highest attempt and of the next.
LEMMA LastAttempt ==
    ASSUME AttemptsContiguous, NEW a \in Agents
    PROVE  /\ Last(a) \in Nat /\ run[a] = 1..Last(a)
           /\ NextAttempt(a) = Last(a) + 1
           /\ \A n \in Nat \ {0} :
                 n <= Last(a) + 1 /\ n \notin run[a] => n = Last(a) + 1
BY DEF AttemptsContiguous, NextAttempt

-----------------------------------------------------------------------------
(* The invariant holds at first.                                           *)

\* The invariant holds of the empty database.
LEMMA InitLedgerInv == Init => LedgerInv
<1> SUFFICES ASSUME Init PROVE LedgerInv
  OBVIOUS
<1>1. Idle \in Session
  BY MaxTxAssumption DEF Idle, Session, Pcs, Locks, Codes
<1>2. \A h \in Sessions : /\ session[h] = Idle /\ session[h].id = NoAgent
                          /\ session[h].kind = "none" /\ session[h].held = "none"
                          /\ session[h].attempt = 0 /\ session[h].pc = "idle"
  BY DEF Init, Idle
<1>3. TypeOK
  <2>1. run \in [Agents -> SUBSET (Nat \ {0})]
    BY DEF Init
  <2> QED
    BY <1>1, <2>1, MaxTxAssumption DEF Init, TypeOK
<1>4. \A h \in Sessions : SessionShape(session[h])
  BY <1>2 DEF SessionShape, Inserted
<1>5. AttemptsContiguous
  <2>1. \A a \in Agents : run[a] = 1..0
    BY DEF Init
  <2>2. ASSUME NEW a \in Agents PROVE Last(a) = 0
    <3>1. run[a] \cup {0} = (1..0) \cup {0}
      BY <2>1
    <3>2. Max((1..0) \cup {0}) = 0
      BY MaxOfInterval
    <3> QED
      BY <3>1, <3>2 DEF Last
  <2>3. ASSUME NEW a \in Agents PROVE Last(a) \in Nat /\ run[a] = 1..Last(a)
    <3>1. Last(a) = 0 /\ run[a] = 1..0
      BY <2>1, <2>2
    <3> QED
      BY <3>1
  <2> QED
    BY <2>3 DEF AttemptsContiguous
<1> QED
  BY <1>2, <1>3, <1>4, <1>5
     DEF Init, LedgerInv, LocksExclude, UuidsFresh, NoOrphanRuns, PendingAttempts, Inserted

\* No lock conflicts with the absence of one.
LEMMA NoneConflictsNot == \A mode : {"none", mode} \notin Conflicts
BY DEF Conflicts

-----------------------------------------------------------------------------
(* Steps that leave the tables alone.                                      *)

\* One request moves on: what its new state must satisfy for the invariant.
LEMMA LocalStep ==
    ASSUME LedgerInv, NEW h \in Sessions, NEW s \in Session,
           session' = [session EXCEPT ![h] = s],
           UNCHANGED <<agent, run, issued, clock>>,
           s.id = session[h].id, s.kind = session[h].kind,
           SessionShape(s),
           s.held # "none" => agent[s.id] # NoRow /\ Free(h, s.id, s.held),
           s.attempt # 0 /\ ~Gone(s.id) => s.attempt <= Last(s.id) + 1,
           Inserted(s) => s.attempt \notin run[s.id] /\ ~KeyInFlight(h, s.id, s.attempt)
    PROVE  LedgerInv'
<1>1. TypeOK'
  BY DEF LedgerInv, TypeOK
<1>2. /\ session'[h] = s
      /\ \A o \in Sessions \ {h} : session'[o] = session[o]
  BY DEF LedgerInv, TypeOK
<1>3. (\A o \in Sessions : SessionShape(session[o]))'
  BY <1>2 DEF LedgerInv, SessionShape, Inserted
<1>4. LocksExclude'
  <2>1. \A o \in Sessions : session'[o].held # "none" => agent'[session'[o].id] # NoRow
    BY <1>2 DEF LedgerInv, LocksExclude
  <2>2. ASSUME NEW o \in Sessions, NEW p \in Sessions \ {o},
               session'[o].held # "none", session'[p].id = session'[o].id
        PROVE  {session'[p].held, session'[o].held} \notin Conflicts
    <3>1. CASE o = h
      BY <1>2, <2>2, <3>1 DEF Free
    <3>2. CASE p = h /\ s.held # "none"
      <4>1. {session[o].held, s.held} \notin Conflicts
        BY <1>2, <2>2, <3>2 DEF Free
      <4> QED
        BY <1>2, <2>2, <3>2, <4>1, {session[o].held, s.held} = {s.held, session[o].held}
    <3>3. CASE p = h /\ s.held = "none"
      BY <1>2, <2>2, <3>3, NoneConflictsNot
    <3>4. CASE o # h /\ p # h
      BY <1>2, <2>2, <3>4 DEF LedgerInv, LocksExclude, Free
    <3> QED
      BY <3>1, <3>2, <3>3, <3>4
  <2> QED
    BY <2>1, <2>2 DEF LocksExclude, Free
<1>5. UuidsFresh'
  BY <1>2 DEF LedgerInv, UuidsFresh
<1>6. AttemptsContiguous' /\ NoOrphanRuns'
  BY DEF LedgerInv, AttemptsContiguous, NoOrphanRuns, Last
<1>7. PendingAttempts'
  <2>1. \A a : Gone(a)' <=> Gone(a)
    BY <1>2 DEF Gone, Creating
  <2>2. \A a : Last(a)' = Last(a)
    BY DEF Last
  <2>3. \A o \in Sessions : Inserted(session[o])' <=> Inserted(session'[o])
    BY DEF Inserted
  <2> QED
    BY <1>2, <2>1, <2>2, <2>3 DEF LedgerInv, PendingAttempts, KeyInFlight, Inserted
<1> QED
  BY <1>1, <1>3, <1>4, <1>5, <1>6, <1>7 DEF LedgerInv

\* A request ends without a commit.
LEMMA FinishStep ==
    ASSUME LedgerInv, NEW h \in Sessions, NEW code \in Codes, Raise(h, code)
    PROVE  LedgerInv'
<1> DEFINE s == [Idle EXCEPT !.code = code]
<1>0. /\ s \in Session /\ SessionShape(s) /\ ~Inserted(s)
      /\ s.held = "none" /\ s.attempt = 0 /\ s.kind = "none" /\ s.id = NoAgent
  BY IdleType DEF Idle
<1>1. session' = [session EXCEPT ![h] = s] /\ UNCHANGED <<agent, run, issued, clock>>
  BY DEF Raise, Finish
<1> HIDE DEF s
<1>2. TypeOK'
  BY <1>0, <1>1 DEF LedgerInv, TypeOK
<1>3. /\ session'[h] = s
      /\ \A o \in Sessions \ {h} : session'[o] = session[o]
  BY <1>1 DEF LedgerInv, TypeOK
<1>4. (\A o \in Sessions : SessionShape(session[o]))'
  BY <1>0, <1>1, <1>3 DEF LedgerInv, SessionShape, Inserted
<1>5. LocksExclude'
  BY <1>0, <1>1, <1>3, NoneConflictsNot, SMTT(30) DEF LedgerInv, LocksExclude, Free
<1>6. UuidsFresh'
  BY <1>0, <1>1, <1>3 DEF LedgerInv, UuidsFresh
<1>7. AttemptsContiguous' /\ NoOrphanRuns'
  BY <1>1 DEF LedgerInv, AttemptsContiguous, NoOrphanRuns, Last
<1>8. PendingAttempts'
  <2>1. \A a \in Agents : Gone(a) => Gone(a)'
    BY <1>0, <1>1, <1>3 DEF Gone, Creating
  <2>2. \A a : Last(a)' = Last(a)
    BY <1>1 DEF Last
  <2>3. \A o \in Sessions : session'[o].attempt # 0 =>
           o # h /\ session'[o] = session[o] /\ session[o].id \in Agents
    BY <1>0, <1>3 DEF LedgerInv, SessionShape, TypeOK
  <2> QED
    BY <1>0, <1>1, <1>3, <2>1, <2>2, <2>3 DEF LedgerInv, PendingAttempts, KeyInFlight, Inserted
<1> QED
  BY <1>2, <1>4, <1>5, <1>6, <1>7, <1>8 DEF LedgerInv

-----------------------------------------------------------------------------
(* One lemma per statement.                                                *)

\* A refused body leaves the session at rest.
LEMMA RejectBodyStep ==
    ASSUME LedgerInv, NEW h \in Sessions, RejectBody(h) PROVE LedgerInv'
<1>1. PICK code \in {"422", "500"} : Raise(h, code)
  BY DEF RejectBody, Raise
<1>2. code \in Codes
  BY DEF Codes
<1> QED
  BY <1>1, <1>2, FinishStep

\* A create is given an id nobody had.
LEMMA CreateAgentStep ==
    ASSUME LedgerInv, NEW h \in Sessions, CreateAgent(h) PROVE LedgerInv'
<1>1. PICK a \in Agents \ issued :
         /\ issued' = issued \cup {a}
         /\ session' = [session EXCEPT ![h] =
              [Idle EXCEPT !.pc = Closing("create"), !.kind = "create", !.id = a,
                           !.target = InitialStatus, !.began = clock + 1]]
  BY DEF CreateAgent
<1> DEFINE s == [Idle EXCEPT !.pc = Closing("create"), !.kind = "create", !.id = a,
                             !.target = InitialStatus, !.began = clock + 1]
<1>2. clock + 1 \in 0..MaxTx /\ clock' = clock + 1
      /\ session[h].pc = "idle" /\ UNCHANGED <<agent, run>>
  BY MaxTxAssumption DEF CreateAgent, LedgerInv, TypeOK
<1>3. /\ s \in Session /\ s.pc = "respond" /\ s.kind = "create" /\ s.id = a
      /\ s.target = InitialStatus /\ s.held = "none" /\ s.attempt = 0
  BY <1>2 DEF Idle, Session, Closing, Routes, AllKinds, AgentStatus, Pcs, Locks, Codes, InitialStatus
<1>4. session' = [session EXCEPT ![h] = s]
  BY <1>1
<1> HIDE DEF s
<1>5. /\ session'[h] = s
      /\ \A o \in Sessions \ {h} : session'[o] = session[o]
      /\ \A o \in Sessions \ {h} : session'[o].id # a
      /\ agent[a] = NoRow
  <2>1. \A o \in Sessions : session[o].pc = "idle" => session[o].id = NoAgent
    BY DEF LedgerInv, SessionShape
  <2>2. \A o \in Sessions : session[o].pc # "idle" => session[o].id \in issued
    BY DEF LedgerInv, SessionShape
  <2> QED
    BY <1>4, <2>1, <2>2, NoAgentAssumption DEF LedgerInv, TypeOK, UuidsFresh
<1>6. TypeOK'
  BY <1>1, <1>2, <1>3, <1>4 DEF LedgerInv, TypeOK
<1>7. (\A o \in Sessions : SessionShape(session[o]))'
  <2>1. SessionShape(session[h])'
    <3>1. a \in issued'
      BY <1>1
    <3> QED
      BY <1>3, <1>5, <3>1 DEF SessionShape, Inserted
  <2>2. ASSUME NEW o \in Sessions \ {h} PROVE SessionShape(session[o])'
    BY <1>1, <1>5 DEF LedgerInv, SessionShape, Inserted
  <2> QED
    BY <2>1, <2>2
<1>8. LocksExclude'
  BY <1>2, <1>3, <1>5, NoneConflictsNot DEF LedgerInv, LocksExclude, Free
<1>9. UuidsFresh'
  BY <1>1, <1>2, <1>3, <1>5 DEF LedgerInv, UuidsFresh
<1>10. AttemptsContiguous' /\ NoOrphanRuns'
  BY <1>2 DEF LedgerInv, AttemptsContiguous, NoOrphanRuns, Last
<1>11. PendingAttempts'
  <2>1. \A b : b # a => (Gone(b)' <=> Gone(b))
    BY <1>1, <1>2, <1>3, <1>5 DEF Gone, Creating, LedgerInv, SessionShape
  <2>2. \A b : Last(b)' = Last(b)
    BY <1>2 DEF Last
  <2> QED
    BY <1>2, <1>3, <1>5, <2>1, <2>2 DEF LedgerInv, PendingAttempts, KeyInFlight, Inserted
<1> QED
  BY <1>6, <1>7, <1>8, <1>9, <1>10, <1>11 DEF LedgerInv

\* A request begins with its first statement.
LEMMA ReceiveStep ==
    ASSUME LedgerInv, NEW h \in Sessions, Receive(h) PROVE LedgerInv'
<1>1. PICK kind \in Kinds \ {"create"}, a \in {b \in Agents : Known(b)} :
         session' = [session EXCEPT ![h] =
           [Idle EXCEPT !.pc = FirstStatement(kind), !.kind = kind, !.id = a,
                        !.began = clock + 1]]
  BY DEF Receive
<1> DEFINE s == [Idle EXCEPT !.pc = FirstStatement(kind), !.kind = kind, !.id = a,
                             !.began = clock + 1]
<1>2. clock + 1 \in 0..MaxTx /\ clock' = clock + 1 /\ session[h].pc = "idle"
      /\ UNCHANGED <<agent, run, issued>>
  BY MaxTxAssumption DEF Receive, LedgerInv, TypeOK
<1>3. /\ s.pc = FirstStatement(kind) /\ s.kind = kind /\ s.id = a /\ s.held = "none"
      /\ s.attempt = 0 /\ a \in issued /\ a \in Agents /\ kind # "create" /\ s \in Session
  <2>1. FirstStatement(kind) \in Pcs
    BY DEF FirstStatement, Pcs
  <2> QED
    BY <1>2, <2>1, KindsAssumption DEF Idle, Session, Locks, Codes, Known
<1>4. session' = [session EXCEPT ![h] = s]
  BY <1>1
<1>5. s.pc \in {"get", "delete"} \/ (s.pc = "max" /\ s.kind = "attempt")
  BY <1>3 DEF FirstStatement
<1> HIDE DEF s
<1>6. /\ session'[h] = s
      /\ \A o \in Sessions \ {h} : session'[o] = session[o]
      /\ session[h].kind = "none" /\ session[h].attempt = 0
  BY <1>2, <1>4 DEF LedgerInv, TypeOK, SessionShape
<1>7. TypeOK'
  BY <1>2, <1>3, <1>4 DEF LedgerInv, TypeOK
<1>8. (\A o \in Sessions : SessionShape(session[o]))'
  <2>1. SessionShape(session[h])'
    BY <1>2, <1>3, <1>5, <1>6 DEF SessionShape, Inserted
  <2>2. ASSUME NEW o \in Sessions \ {h} PROVE SessionShape(session[o])'
    BY <1>2, <1>6 DEF LedgerInv, SessionShape, Inserted
  <2> QED
    BY <2>1, <2>2
<1>9. LocksExclude'
  BY <1>2, <1>3, <1>6, NoneConflictsNot DEF LedgerInv, LocksExclude, Free
<1>10. UuidsFresh'
  BY <1>2, <1>3, <1>6 DEF LedgerInv, UuidsFresh
<1>11. AttemptsContiguous' /\ NoOrphanRuns'
  BY <1>2 DEF LedgerInv, AttemptsContiguous, NoOrphanRuns, Last
<1>12. PendingAttempts'
  <2>1. \A b : Gone(b)' <=> Gone(b)
    BY <1>2, <1>3, <1>6 DEF Gone, Creating
  <2>2. \A b : Last(b)' = Last(b)
    BY <1>2 DEF Last
  <2> QED
    BY <1>2, <1>3, <1>6, <2>1, <2>2 DEF LedgerInv, PendingAttempts, KeyInFlight, Inserted
<1> QED
  BY <1>7, <1>8, <1>9, <1>10, <1>11, <1>12 DEF LedgerInv

\* GetAgent, ComputeStatus, UpdateStatus, ReadMaxAttempt, InsertRun, DeleteAgent
\* and Respond each give their session a new record s and touch nothing else.

\* A read takes no lock.
LEMMA GetAgentStep ==
    ASSUME LedgerInv, NEW h \in Sessions, GetAgent(h) PROVE LedgerInv'
<1> DEFINE s == [session[h] EXCEPT !.pc = After(session[h].kind, session[h].pc)]
<1>1. session' = [session EXCEPT ![h] = s] /\ UNCHANGED <<agent, run, issued, clock>>
  BY DEF GetAgent, Proceed
<1>2. session[h] \in Session /\ SessionShape(session[h])
      /\ session[h].pc = "get" /\ session[h].kind = "get"
  BY DEF GetAgent, LedgerInv, TypeOK
<1>3. /\ s \in Session /\ s.pc = "respond" /\ s.kind = "get" /\ s.id = session[h].id
      /\ s.held = "none" /\ s.attempt = 0
  BY <1>2, AfterValues DEF Session, Pcs, SessionShape
<1> HIDE DEF s
<1>4. SessionShape(s)
  BY <1>2, <1>3 DEF SessionShape, Inserted
<1> QED
  BY <1>1, <1>2, <1>3, <1>4, LocalStep DEF Inserted

\* The next status is computed from what was read, or refused.
LEMMA ComputeStatusStep ==
    ASSUME LedgerInv, NEW h \in Sessions, ComputeStatus(h) PROVE LedgerInv'
<1>1. PICK target \in Targets(session[h].kind, agent[session[h].id].status) :
         session' = [session EXCEPT ![h] =
           [session[h] EXCEPT !.target = target, !.pc = After(session[h].kind, "get")]]
  BY DEF ComputeStatus
<1> DEFINE s == [session[h] EXCEPT !.target = target,
                                   !.pc = After(session[h].kind, "get")]
<1>2. session[h] \in Session /\ SessionShape(session[h])
      /\ session[h].pc = "get" /\ session[h].kind # "get"
      /\ UNCHANGED <<agent, run, issued, clock>>
  BY DEF ComputeStatus, LedgerInv, TypeOK
<1>3. target \in AgentStatus
  BY TargetsType
<1>4. /\ s \in Session /\ s.pc = "update" /\ s.kind = session[h].kind
      /\ s.id = session[h].id /\ s.held = "none" /\ s.attempt = 0
      /\ s.target \in AgentStatus
  BY <1>2, <1>3, AfterValues DEF Session, Pcs, SessionShape
<1>5. session' = [session EXCEPT ![h] = s]
  BY <1>1
<1> HIDE DEF s
<1>6. SessionShape(s)
  BY <1>2, <1>4 DEF SessionShape, Inserted
<1> QED
  BY <1>2, <1>4, <1>5, <1>6, LocalStep DEF Inserted

\* The UPDATE locks a row that is there.
LEMMA UpdateStatusStep ==
    ASSUME LedgerInv, NEW h \in Sessions, UpdateStatus(h) PROVE LedgerInv'
<1>1. CASE Raise(h, "500")
  BY <1>1, FinishStep DEF Codes
<1>2. CASE /\ agent[session[h].id] # NoRow
           /\ session' = [session EXCEPT ![h].held = "nokeyupdate",
                                         ![h].pc = After(session[h].kind, "update")]
           /\ UNCHANGED <<agent, run, issued, clock>>
  <2> DEFINE s == [session[h] EXCEPT !.held = "nokeyupdate",
                                     !.pc = After(session[h].kind, "update")]
  <2>1. session[h] \in Session /\ SessionShape(session[h]) /\ session[h].pc = "update"
        /\ Free(h, session[h].id, "nokeyupdate")
    BY DEF UpdateStatus, LedgerInv, TypeOK
  <2>2. /\ s \in Session /\ s.pc = After(session[h].kind, "update")
        /\ s.kind = session[h].kind /\ s.id = session[h].id
        /\ s.held = "nokeyupdate" /\ s.attempt = 0 /\ s.target = session[h].target
    BY <2>1, AfterType, ZenonT(30) DEF Session, Pcs, Locks, SessionShape
  <2>3. session' = [session EXCEPT ![h] = s]
    BY <1>2
  <2> HIDE DEF s
  <2>4. SessionShape(s)
    BY <2>1, <2>2, AfterValues DEF SessionShape, Inserted, AttemptActions
  <2> QED
    BY <1>2, <2>1, <2>2, <2>3, <2>4, LocalStep DEF Inserted
<1> QED
  BY <1>1, <1>2 DEF UpdateStatus

\* The number that was counted is at most one above the highest committed.
LEMMA ReadMaxAttemptStep ==
    ASSUME LedgerInv, NEW h \in Sessions, ReadMaxAttempt(h) PROVE LedgerInv'
<1> DEFINE n == NextAttempt(session[h].id)
           s == [session[h] EXCEPT !.attempt = n, !.pc = After(session[h].kind, "max")]
<1>1. session' = [session EXCEPT ![h] = s] /\ UNCHANGED <<agent, run, issued, clock>>
  BY DEF ReadMaxAttempt
<1>2. session[h] \in Session /\ SessionShape(session[h]) /\ session[h].pc = "max"
      /\ session[h].id \in Agents
  BY DEF ReadMaxAttempt, LedgerInv, TypeOK, SessionShape
<1>3. n \in Nat \ {0} /\ n = Last(session[h].id) + 1
  BY <1>2, LastAttempt DEF LedgerInv
<1> HIDE DEF n
<1>4. /\ s \in Session /\ s.pc = "insert" /\ s.kind = session[h].kind
      /\ s.id = session[h].id /\ s.held = session[h].held /\ s.attempt = n
      /\ s.target = session[h].target
  BY <1>2, <1>3, AfterValues DEF Session, Pcs
<1> HIDE DEF s
<1>5. SessionShape(s) /\ ~Inserted(s)
  BY <1>2, <1>3, <1>4 DEF SessionShape, Inserted
<1>6. s.held # "none" => agent[s.id] # NoRow /\ Free(h, s.id, s.held)
  BY <1>4 DEF LedgerInv, LocksExclude
<1>7. s.attempt <= Last(s.id) + 1
  BY <1>2, <1>3, <1>4, LastAttempt DEF LedgerInv
<1> QED
  BY <1>1, <1>4, <1>5, <1>6, <1>7, LocalStep

\* The number that is inserted is nobody else's.
LEMMA InsertRunStep ==
    ASSUME LedgerInv, NEW h \in Sessions, InsertRun(h) PROVE LedgerInv'
<1>1. CASE Raise(h, "500")
  BY <1>1, FinishStep DEF Codes
<1>2. CASE /\ session[h].attempt \notin run[session[h].id]
           /\ agent[session[h].id] # NoRow
           /\ session' = [session EXCEPT
                ![h].held = IF @ = "none" THEN "keyshare" ELSE @,
                ![h].pc = After(session[h].kind, "insert")]
           /\ UNCHANGED <<agent, run, issued, clock>>
  <2> DEFINE held == IF session[h].held = "none" THEN "keyshare" ELSE session[h].held
             s == [session[h] EXCEPT !.held = held, !.pc = After(session[h].kind, "insert")]
  <2>1. session[h] \in Session /\ SessionShape(session[h]) /\ session[h].pc = "insert"
        /\ Free(h, session[h].id, "keyshare")
        /\ ~KeyInFlight(h, session[h].id, session[h].attempt)
    BY DEF InsertRun, LedgerInv, TypeOK
  <2>2. session' = [session EXCEPT ![h] = s]
    BY <1>2
  <2>3. held = IF session[h].kind = "attempt" THEN "keyshare" ELSE "nokeyupdate"
    BY <2>1 DEF SessionShape
  <2>4. held # "none" /\ Free(h, session[h].id, held)
    BY <2>1, <2>3 DEF SessionShape, LedgerInv, LocksExclude
  <2> HIDE DEF held
  <2>5. /\ s \in Session /\ s.pc \in {"respond", "commit"} /\ s.kind = session[h].kind
        /\ s.id = session[h].id /\ s.held = held /\ s.attempt = session[h].attempt
        /\ s.target = session[h].target
    BY <2>1, <2>3, AfterValues DEF Session, Pcs, Locks
  <2> HIDE DEF s
  <2>6. SessionShape(s)
    BY <2>1, <2>3, <2>5 DEF SessionShape, Inserted
  <2>7. s.attempt # 0 /\ ~Gone(s.id) => s.attempt <= Last(s.id) + 1
    BY <2>5 DEF LedgerInv, PendingAttempts
  <2> QED
    BY <1>2, <2>1, <2>2, <2>4, <2>5, <2>6, <2>7, LocalStep
<1> QED
  BY <1>1, <1>2 DEF InsertRun

\* A delete waits for every lock on the row.
LEMMA DeleteAgentStep ==
    ASSUME LedgerInv, NEW h \in Sessions, DeleteAgent(h) PROVE LedgerInv'
<1> DEFINE held == IF agent[session[h].id] = NoRow THEN "none" ELSE "update"
           s == [session[h] EXCEPT !.held = held, !.pc = After("delete", "delete")]
<1>1. session' = [session EXCEPT ![h] = s] /\ UNCHANGED <<agent, run, issued, clock>>
  BY DEF DeleteAgent
<1>2. session[h] \in Session /\ SessionShape(session[h]) /\ session[h].pc = "delete"
      /\ Free(h, session[h].id, "update")
  BY DEF DeleteAgent, LedgerInv, TypeOK
<1>3. held \in {"none", "update"} /\ (held # "none" => agent[session[h].id] # NoRow)
  OBVIOUS
<1> HIDE DEF held
<1>4. /\ s \in Session /\ s.pc = "respond" /\ s.kind = session[h].kind
      /\ s.id = session[h].id /\ s.held = held /\ s.attempt = 0
  BY <1>2, <1>3, AfterValues DEF Session, Pcs, Locks, SessionShape
<1> HIDE DEF s
<1>5. SessionShape(s)
  BY <1>2, <1>3, <1>4 DEF SessionShape, Inserted
<1> QED
  BY <1>1, <1>2, <1>3, <1>4, <1>5, LocalStep DEF Inserted

\* The reply changes nothing but the session.
LEMMA RespondStep ==
    ASSUME LedgerInv, NEW h \in Sessions, Respond(h) PROVE LedgerInv'
<1> DEFINE s == [session[h] EXCEPT !.pc = "commit", !.code = Success(session[h].kind)]
<1>1. session' = [session EXCEPT ![h] = s] /\ UNCHANGED <<agent, run, issued, clock>>
  BY DEF Respond
<1>2. session[h] \in Session /\ SessionShape(session[h]) /\ session[h].pc = "respond"
  BY DEF Respond, LedgerInv, TypeOK
<1>3. /\ s \in Session /\ s.pc = "commit" /\ s.kind = session[h].kind
      /\ s.id = session[h].id /\ s.held = session[h].held
      /\ s.attempt = session[h].attempt /\ s.target = session[h].target
  BY <1>2 DEF Session, Pcs, Codes, Success
<1> HIDE DEF s
<1>4. SessionShape(s) /\ (Inserted(s) <=> Inserted(session[h]))
  BY <1>2, <1>3 DEF SessionShape, Inserted
<1>5. /\ s.held # "none" => agent[s.id] # NoRow /\ Free(h, s.id, s.held)
      /\ s.attempt # 0 /\ ~Gone(s.id) => s.attempt <= Last(s.id) + 1
      /\ Inserted(s) => s.attempt \notin run[s.id] /\ ~KeyInFlight(h, s.id, s.attempt)
  BY <1>3, <1>4 DEF LedgerInv, LocksExclude, PendingAttempts
<1> QED
  BY <1>1, <1>3, <1>4, <1>5, LocalStep

\* What a commit does to the tables, by what the session holds.
LEMMA CommitOutcome ==
    ASSUME LedgerInv, NEW h \in Sessions, Commit(h)
    PROVE  LET s == session[h] IN
           /\ s.id \in Agents /\ s.id \in issued
           /\ agent' = [agent EXCEPT ![s.id] = RowAfter(s)]
           /\ run' = [run EXCEPT ![s.id] = RunsAfter(s)]
           /\ issued' = issued /\ clock' = clock
           /\ RowAfter(s) \in Row \cup {NoRow}
           /\ \/ /\ s.kind = "create" /\ agent[s.id] = NoRow
                 /\ RowAfter(s) # NoRow /\ RunsAfter(s) = run[s.id]
                 /\ ~Inserted(s)
              \/ /\ s.kind # "create" /\ s.held \in {"keyshare", "nokeyupdate"}
                 /\ agent[s.id] # NoRow /\ RowAfter(s) # NoRow
                 /\ RunsAfter(s) = IF Inserted(s) THEN run[s.id] \cup {s.attempt}
                                                  ELSE run[s.id]
              \/ /\ s.kind # "create" /\ s.held = "update" /\ agent[s.id] # NoRow
                 /\ RowAfter(s) = NoRow /\ RunsAfter(s) = {} /\ ~Inserted(s)
              \/ /\ s.kind # "create" /\ s.held = "none"
                 /\ RowAfter(s) = agent[s.id] /\ RunsAfter(s) = run[s.id]
                 /\ ~Inserted(s)
<1> DEFINE s == session[h]
<1>1. s \in Session /\ SessionShape(s) /\ s.pc = "commit"
  BY DEF Commit, LedgerInv, TypeOK
<1>2. s.id \in Agents /\ s.id \in issued
  BY <1>1 DEF SessionShape, LedgerInv, TypeOK
<1>3. agent[s.id] \in Row \cup {NoRow} /\ (s.held # "none" => agent[s.id] # NoRow)
  BY <1>2 DEF LedgerInv, TypeOK, LocksExclude
<1>4. s.began \in Nat
  BY <1>1, MaxTxAssumption DEF Session
<1>5. \A t \in AgentStatus : /\ [status |-> t, updated |-> s.began] \in Row
                             /\ [status |-> t, updated |-> s.began] # NoRow
  BY <1>4, NoRowAssumption DEF Row
<1>6. CASE s.kind = "create"
  <2>1. s.target \in AgentStatus /\ s.held = "none" /\ ~Inserted(s)
    BY <1>1, <1>6 DEF SessionShape, AgentStatus, InitialStatus, Inserted
  <2>2. RowAfter(s) = [status |-> s.target, updated |-> s.began]
    BY <1>6, <2>1 DEF RowAfter
  <2>3. RunsAfter(s) = run[s.id]
    BY <2>1 DEF RunsAfter
  <2> QED
    BY <1>2, <1>5, <1>6, <2>1, <2>2, <2>3 DEF Commit, LedgerInv, UuidsFresh
<1>7. CASE s.kind # "create" /\ s.held \in {"keyshare", "nokeyupdate"}
  <2>1. RowAfter(s) \in Row /\ RowAfter(s) # NoRow
    <3>1. CASE s.held = "nokeyupdate"
      BY <1>1, <1>5, <1>7, <3>1 DEF RowAfter, SessionShape
    <3>2. CASE s.held = "keyshare"
      BY <1>3, <1>7, <3>2 DEF RowAfter
    <3> QED
      BY <1>7, <3>1, <3>2
  <2>2. RunsAfter(s) = IF Inserted(s) THEN run[s.id] \cup {s.attempt} ELSE run[s.id]
    BY <1>7 DEF RunsAfter
  <2> QED
    BY <1>2, <1>3, <1>7, <2>1, <2>2 DEF Commit
<1>8. CASE s.kind # "create" /\ s.held = "update"
  <2>2. ~Inserted(s)
    BY <1>1, <1>8 DEF SessionShape, Inserted
  <2>1. RowAfter(s) = NoRow /\ RunsAfter(s) = {}
    BY <1>8, <2>2 DEF RowAfter, RunsAfter
  <2> QED
    BY <1>2, <1>3, <1>8, <2>1, <2>2 DEF Commit
<1>9. CASE s.kind # "create" /\ s.held = "none"
  <2>1. ~Inserted(s)
    BY <1>1, <1>9 DEF SessionShape
  <2>2. RowAfter(s) = agent[s.id] /\ RunsAfter(s) = run[s.id]
    BY <1>9, <2>1 DEF RowAfter, RunsAfter
  <2> QED
    BY <1>2, <1>3, <1>9, <2>1, <2>2 DEF Commit
<1> QED
  BY <1>1, <1>6, <1>7, <1>8, <1>9 DEF Session, Locks

\* A commit is a birth, an attempt, a new status or a death.
LEMMA CommitStep ==
    ASSUME LedgerInv, NEW h \in Sessions, Commit(h) PROVE LedgerInv'
<1> DEFINE idle == [Idle EXCEPT !.code = Success(session[h].kind)]
<1>0. PICK a \in Agents, s \in Session : a = session[h].id /\ s = session[h]
  <2>1. session[h].id \in Agents
    BY CommitOutcome
  <2> QED
    BY <2>1 DEF LedgerInv, TypeOK
<1>1. /\ idle \in Session /\ SessionShape(idle) /\ ~Inserted(idle)
      /\ idle.held = "none" /\ idle.attempt = 0 /\ idle.kind = "none"
      /\ idle.id = NoAgent /\ idle.pc = "idle"
  <2>1. Success(session[h].kind) \in Codes
    BY DEF Success, Codes
  <2> QED
    BY <2>1, IdleType DEF Idle
<1>2. session' = [session EXCEPT ![h] = idle]
  BY DEF Commit, Finish
<1> HIDE DEF idle
<1>3. /\ session'[h] = idle
      /\ \A o \in Sessions \ {h} : session'[o] = session[o]
  BY <1>2 DEF LedgerInv, TypeOK
<1>4. /\ a \in Agents /\ a \in issued /\ issued' = issued /\ clock' = clock
      /\ agent'[a] = RowAfter(s) /\ run'[a] = RunsAfter(s)
      /\ \A b \in Agents \ {a} : agent'[b] = agent[b] /\ run'[b] = run[b]
      /\ agent' \in [Agents -> Row \cup {NoRow}]
  BY <1>0, CommitOutcome DEF LedgerInv, TypeOK
<1>5. \/ /\ s.kind = "create" /\ agent[a] = NoRow
         /\ agent'[a] # NoRow /\ run'[a] = run[a] /\ ~Inserted(s)
      \/ /\ s.kind # "create" /\ s.held \in {"keyshare", "nokeyupdate"}
         /\ agent[a] # NoRow /\ agent'[a] # NoRow
         /\ run'[a] = IF Inserted(s) THEN run[a] \cup {s.attempt} ELSE run[a]
      \/ /\ s.kind # "create" /\ s.held = "update" /\ agent[a] # NoRow
         /\ agent'[a] = NoRow /\ run'[a] = {} /\ ~Inserted(s)
      \/ /\ s.kind # "create" /\ s.held = "none"
         /\ agent'[a] = agent[a] /\ run'[a] = run[a] /\ ~Inserted(s)
  BY <1>0, <1>4, CommitOutcome
<1>6. SessionShape(s) /\ s.pc = "commit" /\ s.id = a
  BY <1>0 DEF Commit, LedgerInv, TypeOK
<1>7. /\ Last(a) \in Nat /\ run[a] = 1..Last(a)
      /\ Inserted(s) => s.attempt = Last(a) + 1
  <2>1. Inserted(s) => s.attempt \in Nat \ {0} /\ s.attempt \notin run[a] /\ agent[a] # NoRow
    BY <1>0, <1>5, <1>6 DEF LedgerInv, PendingAttempts, Inserted, Session
  <2>2. Inserted(s) => s.attempt <= Last(a) + 1
    BY <1>0, <1>6, <2>1 DEF LedgerInv, PendingAttempts, Gone, Inserted
  <2> QED
    BY <1>4, <2>1, <2>2, LastAttempt DEF LedgerInv
<1>8. \/ run'[a] = run[a] /\ Last(a)' = Last(a)
      \/ /\ Inserted(s) /\ run'[a] = run[a] \cup {Last(a) + 1}
         /\ run'[a] = 1..(Last(a) + 1) /\ Last(a)' = Last(a) + 1
      \/ run'[a] = {} /\ run'[a] = 1..0 /\ Last(a)' = 0 /\ agent'[a] = NoRow
         /\ agent[a] # NoRow /\ s.held = "update"
  <2>1. CASE run'[a] = run[a]
    BY <2>1 DEF Last
  <2>2. CASE Inserted(s) /\ run'[a] = run[a] \cup {s.attempt}
    <3>1. run[a] \in SUBSET Nat /\ Last(a) + 1 \in Nat
      BY <1>7
    <3>2. run[a] \cup {Last(a) + 1} = 1..(Last(a) + 1)
      BY <1>7, <3>1, MaxOfNonEmpty
    <3>3. run'[a] = 1..(Last(a) + 1) /\ Max((1..(Last(a) + 1)) \cup {0}) = Last(a) + 1
      BY <1>7, <2>2, <3>1, <3>2, MaxOfInterval
    <3> QED
      BY <1>7, <2>2, <3>3 DEF Last
  <2>3. CASE run'[a] = {} /\ agent'[a] = NoRow /\ agent[a] # NoRow /\ s.held = "update"
    <3>1. run'[a] = 1..0 /\ run'[a] \cup {0} = (1..0) \cup {0}
      BY <2>3
    <3>2. Max((1..0) \cup {0}) = 0
      BY MaxOfInterval
    <3> QED
      BY <2>3, <3>1, <3>2 DEF Last
  <2> QED
    BY <1>5, <2>1, <2>2, <2>3
<1>9. \A b \in Agents \ {a} : Last(b)' = Last(b)
  BY <1>4 DEF Last
<1>10. AttemptsContiguous'
  <2>1. Last(a)' \in Nat /\ run'[a] = 1..Last(a)'
    <3>1. CASE run'[a] = run[a] /\ Last(a)' = Last(a)
      BY ONLY <1>7, <3>1
    <3>2. CASE run'[a] = 1..(Last(a) + 1) /\ Last(a)' = Last(a) + 1
      BY ONLY <1>7, <3>2
    <3>3. CASE run'[a] = 1..0 /\ Last(a)' = 0
      BY ONLY <3>3
    <3> QED
      BY <1>8, <3>1, <3>2, <3>3
  <2>2. \A b \in Agents \ {a} : Last(b)' \in Nat /\ run'[b] = 1..Last(b)'
    BY <1>4, <1>9 DEF LedgerInv, AttemptsContiguous
  <2> QED
    BY <2>1, <2>2 DEF AttemptsContiguous
<1>11. TypeOK'
  <2>1. run' \in [Agents -> SUBSET (Nat \ {0})]
    <3>1. RunsAfter(s) \in SUBSET (Nat \ {0})
      BY <1>4, <1>7, <1>8
    <3> QED
      BY <1>0, <3>1, CommitOutcome DEF LedgerInv, TypeOK
  <2> QED
    BY <1>1, <1>2, <1>4, <2>1 DEF LedgerInv, TypeOK
<1>12. (\A o \in Sessions : SessionShape(session[o]))'
  BY <1>1, <1>3, <1>4 DEF LedgerInv, SessionShape, Inserted
<1>13. \A o \in Sessions \ {h} :
          session[o].id = a /\ s.held = "update" => session[o].held = "none" /\ ~Inserted(session[o])
  <2>1. \A m \in Locks : {m, "update"} \notin Conflicts => m = "none"
    BY DEF Locks, Conflicts
  <2>2. s.held = "update" => Free(h, a, "update")
    BY <1>0 DEF LedgerInv, LocksExclude
  <2>3. ASSUME NEW o \in Sessions \ {h}, session[o].id = a, s.held = "update"
        PROVE  session[o].held = "none" /\ ~Inserted(session[o])
    <3>1. session[o].held = "none"
      BY <2>1, <2>2, <2>3 DEF Free, LedgerInv, TypeOK, Session
    <3> QED
      BY <3>1 DEF LedgerInv, SessionShape
  <2> QED
    BY <2>3
<1>14. LocksExclude'
  <2>1. \A o \in Sessions : session'[o].held # "none" => agent'[session'[o].id] # NoRow
    <3> SUFFICES ASSUME NEW o \in Sessions, session'[o].held # "none"
                 PROVE  agent'[session'[o].id] # NoRow
      OBVIOUS
    <3>1. o # h /\ session'[o] = session[o] /\ agent[session[o].id] # NoRow
      BY <1>1, <1>3 DEF LedgerInv, LocksExclude
    <3>2. CASE session[o].id = a
      BY <1>5, <1>13, <3>1, <3>2
    <3>3. CASE session[o].id # a
      <4>1. session[o].id \in Agents
        BY <3>1 DEF LedgerInv, SessionShape, TypeOK
      <4> QED
        BY <1>4, <3>1, <3>3, <4>1
    <3> QED
      BY <3>2, <3>3
  <2>2. (\A o \in Sessions : session[o].held # "none" =>
            Free(o, session[o].id, session[o].held))'
    BY <1>1, <1>3, NoneConflictsNot DEF LedgerInv, LocksExclude, Free
  <2> QED
    BY <2>1, <2>2 DEF LocksExclude
<1>15. UuidsFresh'
  <2>1. \A b \in Agents : agent'[b] # NoRow => b \in issued'
    BY <1>4 DEF LedgerInv, UuidsFresh
  <2>2. ASSUME NEW o \in Sessions, session'[o].kind = "create"
        PROVE  /\ agent'[session'[o].id] = NoRow
               /\ \A p \in Sessions \ {o} :
                     session'[p].kind = "create" => session'[p].id # session'[o].id
    <3>1. o # h /\ session'[o] = session[o] /\ session[o].kind = "create"
          /\ agent[session[o].id] = NoRow
      BY <1>1, <1>3, <2>2 DEF LedgerInv, UuidsFresh
    <3>2. session[o].id \in Agents
      BY <3>1 DEF LedgerInv, SessionShape, TypeOK
    <3>3. s.kind = "create" => session[o].id # a
      BY <1>0, <3>1 DEF LedgerInv, UuidsFresh
    <3>4. agent'[session[o].id] = NoRow
      BY <1>4, <1>5, <3>1, <3>2, <3>3
    <3> QED
      BY <1>1, <1>3, <3>1, <3>4 DEF LedgerInv, UuidsFresh
  <2> QED
    BY <2>1, <2>2 DEF UuidsFresh
<1>16. NoOrphanRuns'
  <2>1. run'[a] # {} => agent'[a] # NoRow
    BY <1>4, <1>5 DEF LedgerInv, NoOrphanRuns
  <2> QED
    BY <1>4, <2>1 DEF LedgerInv, NoOrphanRuns
<1>17. PendingAttempts'
  <2> SUFFICES ASSUME NEW o \in Sessions
               PROVE  (LET t == session[o] IN
                       /\ t.attempt # 0 /\ ~Gone(t.id) => t.attempt <= Last(t.id) + 1
                       /\ Inserted(t) => /\ t.attempt \notin run[t.id]
                                         /\ ~KeyInFlight(o, t.id, t.attempt))'
    BY DEF PendingAttempts
  <2>1. CASE session'[o].attempt = 0
    BY <2>1 DEF Inserted
  <2>2. CASE session'[o].attempt # 0
    <3>1. o # h /\ session'[o] = session[o] /\ session[o] \in Session
          /\ session[o].id \in Agents /\ SessionShape(session[o])
      BY <1>1, <1>3, <2>2 DEF LedgerInv, SessionShape, TypeOK
    <3>0. PICK t \in Session : t = session[o] /\ t = session'[o] /\ t.id \in Agents
      BY <3>1
    <3>2. /\ t.attempt # 0 /\ ~Gone(t.id) => t.attempt <= Last(t.id) + 1
          /\ Inserted(t) => t.attempt \notin run[t.id] /\ ~KeyInFlight(o, t.id, t.attempt)
      BY <3>0 DEF LedgerInv, PendingAttempts
    <3>3. ~KeyInFlight(o, t.id, t.attempt) => ~KeyInFlight(o, t.id, t.attempt)'
      BY <1>1, <1>3 DEF KeyInFlight, Inserted
    <3>4. Gone(t.id) => Gone(t.id)'
      <4>1. Creating(t.id)' => Creating(t.id)
        BY <1>1, <1>3 DEF Creating
      <4>2. CASE t.id = a
        BY <1>0, <1>4, <1>5, <4>1, <4>2 DEF Gone, Creating
      <4>3. CASE t.id # a
        BY <1>4, <3>0, <4>1, <4>3 DEF Gone
      <4> QED
        BY <4>2, <4>3
    <3> SUFFICES /\ ~Gone(t.id)' => t.attempt <= Last(t.id)' + 1
                 /\ Inserted(t) => t.attempt \notin run'[t.id]
      BY <3>0, <3>2, <3>3 DEF Inserted
    <3>5. CASE t.id # a
      BY <1>4, <1>9, <2>2, <3>0, <3>2, <3>4, <3>5
    <3>6. CASE t.id = a /\ run'[a] = run[a] /\ Last(a)' = Last(a)
      BY <2>2, <3>0, <3>2, <3>4, <3>6
    <3>7. CASE t.id = a /\ Inserted(s) /\ run'[a] = run[a] \cup {Last(a) + 1}
               /\ Last(a)' = Last(a) + 1
      <4>1. agent[a] # NoRow /\ ~Gone(a)
        BY <1>5, <3>7 DEF Gone
      <4>2. t.attempt \in Nat /\ t.attempt <= Last(a) + 1
        BY <2>2, <3>0, <3>2, <3>7, <4>1 DEF Session
      <4>3. ~Inserted(t)
        <5>1. Inserted(t) => t.attempt = Last(a) + 1
          BY <1>4, <1>7, <3>1, <3>2, <3>7, <4>2, LastAttempt DEF LedgerInv, Inserted
        <5>2. Inserted(t) => t.attempt # s.attempt
          BY <1>0, <3>0, <3>1, <3>2, <3>7 DEF KeyInFlight
        <5> QED
          BY <1>7, <3>7, <5>1, <5>2
      <4> QED
        BY <1>7, <3>7, <4>2, <4>3
    <3>8. CASE t.id = a /\ s.held = "update" /\ agent'[a] = NoRow /\ agent[a] # NoRow
      <4>1. ~Inserted(t)
        BY <1>13, <3>0, <3>1, <3>8
      <4>2. ~Creating(a)'
        BY <1>1, <1>3, <3>8 DEF Creating, LedgerInv, UuidsFresh
      <4>3. Gone(a)'
        BY <1>4, <3>8, <4>2 DEF Gone
      <4> QED
        BY <3>8, <4>1, <4>3
    <3> QED
      BY <1>8, <3>5, <3>6, <3>7, <3>8
  <2> QED
    BY <2>1, <2>2
<1> QED
  BY <1>10, <1>11, <1>12, <1>14, <1>15, <1>16, <1>17 DEF LedgerInv

\* A lost session leaves nothing.
LEMMA LoseSessionStep ==
    ASSUME LedgerInv, NEW h \in Sessions, LoseSession(h) PROVE LedgerInv'
<1>1. (IF session[h].code = "none" THEN "lost" ELSE session[h].code) \in Codes
  BY DEF LedgerInv, TypeOK, Session, Codes
<1> QED
  BY <1>1, FinishStep DEF LoseSession

-----------------------------------------------------------------------------
(* Theorems.                                                               *)

\* Every step preserves the invariant.
LEMMA NextLedgerInv == LedgerInv /\ [Next]_vars => LedgerInv'
<1> SUFFICES ASSUME LedgerInv, [Next]_vars PROVE LedgerInv'
  OBVIOUS
<1>1. ASSUME NEW h \in Sessions, GetAbsent(h) \/ RefuseIllegal(h) PROVE LedgerInv'
  BY <1>1, FinishStep DEF GetAbsent, RefuseIllegal, Codes
<1>2. ASSUME NEW h \in Sessions, Statement(h) PROVE LedgerInv'
  BY <1>1, <1>2, GetAgentStep, ComputeStatusStep, UpdateStatusStep, ReadMaxAttemptStep,
     InsertRunStep, DeleteAgentStep, RespondStep, CommitStep DEF Statement
<1>3. CASE UNCHANGED vars
  <2>1. TypeOK' /\ (\A h \in Sessions : SessionShape(session[h]))'
    BY <1>3 DEF vars, LedgerInv, TypeOK, SessionShape, Inserted
  <2>2. LocksExclude' /\ UuidsFresh'
    BY <1>3 DEF vars, LedgerInv, LocksExclude, Free, UuidsFresh
  <2>3. AttemptsContiguous' /\ NoOrphanRuns'
    BY <1>3 DEF vars, LedgerInv, AttemptsContiguous, NoOrphanRuns, Last
  <2>4. PendingAttempts'
    BY <1>3 DEF vars, LedgerInv, PendingAttempts, Gone, Creating, Last, Inserted, KeyInFlight
  <2> QED
    BY <2>1, <2>2, <2>3, <2>4 DEF LedgerInv
<1> QED
  BY <1>2, <1>3, RejectBodyStep, CreateAgentStep, ReceiveStep, LoseSessionStep
     DEF Next, Quiescent

\* LedgerInv, the inductive invariant itself: every request knows and holds
\* what its place in the handler says, and every pending attempt number is one
\* the database can still accept or will refuse.
THEOREM LedgerInvariance == Spec => []LedgerInv
BY InitLedgerInv, NextLedgerInv, PTL DEF Spec

\* Every variable keeps its type.
THEOREM TypeCorrectness == Spec => []TypeOK
<1>1. LedgerInv => TypeOK
  BY DEF LedgerInv
<1> QED
  BY <1>1, LedgerInvariance, PTL

\* ADR-0006's numbering: whatever requests overlap, fail or vanish, an agent's
\* attempts are 1..n.
THEOREM ContiguousAttempts == Spec => []AttemptsContiguous
<1>1. LedgerInv => AttemptsContiguous
  BY DEF LedgerInv
<1> QED
  BY <1>1, LedgerInvariance, PTL

\* The cascade and the foreign key's lock together: no run outlives its agent.
THEOREM NoRunWithoutAgent == Spec => []NoOrphanRuns
<1>1. LedgerInv => NoOrphanRuns
  BY DEF LedgerInv
<1> QED
  BY <1>1, LedgerInvariance, PTL

=============================================================================
