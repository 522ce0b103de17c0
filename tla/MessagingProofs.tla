--------------------------- MODULE MessagingProofs ---------------------------
(***************************************************************************)
(* Machine-checked proofs about Messaging for every number of agents,      *)
(* transactions, messages and events.                                      *)
(***************************************************************************)
EXTENDS Messaging, FiniteSetTheorems, TLAPS

Others(h) == Sessions \ {h}

-----------------------------------------------------------------------------
(* What no order of sends, turns and deletes breaks.                       *)

\* What a transaction is and holds at each statement.
Shape(s) ==
    /\ s.pc = "idle" => s.kind = "none"
    /\ s.kind = "none" => s.pc = "idle" /\ s.agent = NoAgent
    /\ s.kind # "none" => s.agent \in Agents /\ s.code = "none"
    /\ s.pc \in {"list", "mark", "work"} => s.kind = "turn" /\ s.own = 0
    /\ s.pc = "mark" => s.todo # {}
    /\ s.pc = "check" => s.kind \in {"send", "turn"}
    /\ s.pc \in {"delete", "cascade"} => s.kind = "delete"
    /\ s.kind = "send" => s.own \in 1..messageSeq
    /\ s.kind = "turn" => s.own \in 0..eventSeq
    /\ s.held = CASE s.pc = "cascade" -> "update"
                  [] s.pc = "commit" /\ s.kind # "delete" -> "keyshare"
                  [] OTHER -> "none"
    /\ s.kind # "turn" => s.todo = {} /\ s.loaded = {}
    /\ s.rows # {} => s.kind = "turn" \/ s.pc = "cascade"
    /\ s.pc = "list" => s.rows = {}

\* A lock is on the row of an agent that is there, and a delete's excludes
\* all the others.
LocksExclude ==
    /\ \A h \in Sessions : session[h].held # "none" => session[h].agent \in alive
    /\ \A h \in Sessions : session[h].held = "update" =>
          \A o \in Others(h) :
              session[o].agent = session[h].agent => session[o].held = "none"

\* A message row is there for as long as a transaction holds it, and no other
\* transaction holds it.
RowsExclude ==
    \A h \in Sessions : \A q \in session[h].rows :
        /\ message[q] # NoRow
        /\ \A o \in Others(h) : q \notin session[o].rows

\* The messages a transaction knows of.
Seen(s) == s.todo \cup s.loaded \cup s.rows

\* They are its agent's, and gone only if the agent is.
SeenOfTheAgent ==
    \A h \in Sessions : \A q \in Seen(session[h]) :
        \/ message[q] = NoRow /\ session[h].agent \notin alive
        \/ message[q] # NoRow /\ message[q].agent = session[h].agent

\* The seq of a message that is being sent is nobody else's, and nobody has
\* seen it.
SeqsFresh ==
    /\ \A q \in 1..MaxMessages : message[q] # NoRow => q <= messageSeq
    /\ \A h \in Sessions : session[h].kind = "send" =>
          /\ message[session[h].own] = NoRow
          /\ \A o \in Others(h) :
                /\ session[h].own \notin Seen(session[o])
                /\ session[o].kind = "send" => session[o].own # session[h].own

MessagingInv ==
    /\ TypeOK
    /\ \A h \in Sessions : Shape(session[h])
    /\ LocksExclude
    /\ RowsExclude
    /\ SeenOfTheAgent
    /\ SeqsFresh
    /\ NoOrphanRows

-----------------------------------------------------------------------------
(* Lemmas about the operators.                                             *)

\* A set of numbers that is not empty has a least member.
LEMMA MinIsLeast ==
    ASSUME NEW S \in SUBSET Nat, S # {}
    PROVE  Min(S) \in S /\ \A y \in S : Min(S) <= y
<1> DEFINE Below == {0..x : x \in S}
<1>1. PICK I \in Below : \A J \in Below : <<J, I>> \notin StrictSubsetOrdering(Nat)
  <2>1. \A x \in S : 0..x \in FiniteSubsetsOf(Nat)
    BY FS_Interval DEF FiniteSubsetsOf
  <2>2. Below \subseteq FiniteSubsetsOf(Nat) /\ Below # {}
    BY <2>1
  <2>3. IsWellFoundedOn(StrictSubsetOrdering(Nat), FiniteSubsetsOf(Nat))
    BY FS_StrictSubsetOrderingWellFounded
  <2> HIDE DEF Below
  <2> QED
    BY <2>2, <2>3, WFMin
<1>2. PICK x \in S : I = 0..x
  BY <1>1
<1>3. ASSUME NEW y \in S PROVE x <= y
  <2>1. ~(0..y \subseteq 0..x /\ 0..y # 0..x)
    <3>1. PICK J : J = 0..y
      OBVIOUS
    <3>2. J \in SUBSET Nat /\ I \in SUBSET Nat /\ J \in Below
      BY <1>2, <3>1
    <3>3. ~(J \subseteq I /\ J # I)
      BY <1>1, <3>2 DEF StrictSubsetOrdering
    <3> QED
      BY <1>2, <3>1, <3>3
  <2>2. y < x => 0..y \subseteq 0..x /\ x \in 0..x /\ x \notin 0..y
    OBVIOUS
  <2> QED
    BY <2>1, <2>2
<1> QED
  BY <1>3 DEF Min

\* The greater of two numbers is one of them.
LEMMA MaxOfTwo ==
    ASSUME NEW m \in Nat, NEW n \in Nat
    PROVE  Max({m, n}) \in {m, n} /\ m <= Max({m, n}) /\ n <= Max({m, n})
<1>1. \E x \in {m, n} : \A y \in {m, n} : x >= y
  <2>1. CASE m >= n
    BY <2>1
  <2>2. CASE n >= m
    BY <2>2
  <2> QED
    BY <2>1, <2>2
<1> QED
  BY <1>1 DEF Max

\* What is a session stays one as rows are numbered.
LEMMA SessionGrows ==
    ASSUME messageSeq \in Nat, eventSeq \in Nat, messageSeq' \in Nat, eventSeq' \in Nat,
           messageSeq <= messageSeq', eventSeq <= eventSeq', NEW s \in Session
    PROVE  s \in Session'
<1>1. PICK m \in Nat : m = Max({messageSeq, eventSeq})
  BY MaxOfTwo
<1>2. PICK n \in Nat : n = Max({messageSeq', eventSeq'})
  BY MaxOfTwo
<1>3. m <= n
  <2>1. m \in {messageSeq, eventSeq} /\ messageSeq' <= n /\ eventSeq' <= n
    BY <1>1, <1>2, MaxOfTwo
  <2> QED
    BY <2>1
<1>4. /\ s.own \in 0..n /\ s.todo \subseteq 1..messageSeq'
      /\ s.loaded \subseteq 1..messageSeq' /\ s.rows \subseteq 1..messageSeq'
  BY <1>1, <1>3 DEF Session
<1> QED
  BY <1>2, <1>4 DEF Session

\* The fields of a session and what they range over.
LEMMA FieldTypes ==
    ASSUME NEW s \in Session
    PROVE  /\ s.pc \in {"idle", "list", "mark", "work", "check", "delete", "cascade", "commit"}
           /\ s.kind \in {"none", "send", "turn", "delete"}
           /\ s.agent \in Agents \cup {NoAgent}
           /\ s.held \in {"none", "keyshare", "update"}
           /\ s.todo \subseteq 1..messageSeq /\ s.loaded \subseteq 1..messageSeq
           /\ s.rows \subseteq 1..messageSeq
BY DEF Session, AllKinds

-----------------------------------------------------------------------------
(* Steps that leave the tables alone.                                      *)

\* One transaction begins, moves on or ends without writing a table: what its
\* new state must satisfy for the invariant.
LEMMA LocalStep ==
    ASSUME MessagingInv, NEW h \in Sessions, NEW s \in Session',
           session' = [session EXCEPT ![h] = s],
           UNCHANGED tables,
           messageSeq' \in 0..MaxMessages, messageSeq <= messageSeq',
           eventSeq' \in 0..MaxEvents, eventSeq <= eventSeq',
           losses' \in 0..MaxLosses,
           Shape(s)',
           s.held # "none" => s.agent \in alive,
           s.held = "update" =>
              \A o \in Others(h) : session[o].agent = s.agent => session[o].held = "none",
           \A o \in Others(h) :
              session[o].held = "update" /\ session[o].agent = s.agent => s.held = "none",
           \A q \in s.rows :
              message[q] # NoRow /\ \A o \in Others(h) : q \notin session[o].rows,
           \A q \in Seen(s) :
              \/ message[q] = NoRow /\ s.agent \notin alive
              \/ message[q] # NoRow /\ message[q].agent = s.agent,
           s.kind = "send" =>
              /\ message[s.own] = NoRow
              /\ \A o \in Others(h) :
                    /\ s.own \notin Seen(session[o])
                    /\ session[o].kind = "send" => session[o].own # s.own,
           \A o \in Others(h) : session[o].kind = "send" => session[o].own \notin Seen(s)
    PROVE  MessagingInv'
<1>1. /\ session'[h] = s
      /\ \A o \in Others(h) : session'[o] = session[o]
  BY DEF MessagingInv, TypeOK, Others
<1>2. alive' = alive /\ message' = message /\ event' = event
  BY DEF tables
<1>3. messageSeq \in Nat /\ eventSeq \in Nat /\ messageSeq' \in Nat /\ eventSeq' \in Nat
  BY BoundsAssumption DEF MessagingInv, TypeOK
<1>4. TypeOK'
  <2>1. \A o \in Sessions : session'[o] \in Session'
    BY <1>1, <1>3, SessionGrows DEF MessagingInv, TypeOK, Others
  <2> QED
    BY <1>2, <2>1 DEF MessagingInv, TypeOK
<1>5. (\A o \in Sessions : Shape(session[o]))'
  <2>1. Shape(session[h])'
    BY <1>1 DEF Shape
  <2>2. \A o \in Others(h) : Shape(session[o])'
    BY <1>1, <1>3 DEF MessagingInv, Shape, Others
  <2> QED
    BY <2>1, <2>2 DEF Others
<1>6. LocksExclude'
  BY <1>1, <1>2 DEF MessagingInv, LocksExclude, Others
<1>7. RowsExclude'
  BY <1>1, <1>2 DEF MessagingInv, RowsExclude, Others
<1>8. SeenOfTheAgent'
  BY <1>1, <1>2 DEF MessagingInv, SeenOfTheAgent, Seen, Others
<1>9. SeqsFresh'
  <2>1. (\A q \in 1..MaxMessages : message[q] # NoRow => q <= messageSeq)'
    BY <1>2, <1>3 DEF MessagingInv, SeqsFresh
  <2>2. ASSUME NEW g \in Sessions, session'[g].kind = "send"
        PROVE  /\ message'[session'[g].own] = NoRow
               /\ \A o \in Others(g) :
                     /\ session'[g].own \notin Seen(session[o])'
                     /\ session'[o].kind = "send" => session'[o].own # session'[g].own
    BY <1>1, <1>2, <2>2 DEF MessagingInv, SeqsFresh, Seen, Others
  <2> QED
    BY <2>1, <2>2 DEF SeqsFresh
<1>10. NoOrphanRows'
  BY <1>2 DEF MessagingInv, NoOrphanRows
<1> QED
  BY <1>4, <1>5, <1>6, <1>7, <1>8, <1>9, <1>10 DEF MessagingInv

\* A transaction moves on, for the same caller, agent and row.
LEMMA MoveStep ==
    ASSUME MessagingInv, NEW h \in Sessions, NEW r, r = session[h], NEW s \in Session,
           session' = [session EXCEPT ![h] = s],
           UNCHANGED <<tables, counters>>,
           s.kind = r.kind, s.agent = r.agent, s.own = r.own, Shape(s),
           s.held # "none" => s.agent \in alive,
           s.held = "update" =>
              \A o \in Others(h) : session[o].agent = s.agent => session[o].held = "none",
           \A o \in Others(h) :
              session[o].held = "update" /\ session[o].agent = s.agent => s.held = "none",
           \A q \in s.rows :
              message[q] # NoRow /\ \A o \in Others(h) : q \notin session[o].rows,
           \A q \in Seen(s) :
              q \in Seen(r) \/ (message[q] # NoRow /\ message[q].agent = s.agent)
    PROVE  MessagingInv'
<1>1. messageSeq' = messageSeq /\ eventSeq' = eventSeq /\ losses' = losses
  BY DEF counters
<1>2. /\ messageSeq \in 0..MaxMessages /\ eventSeq \in 0..MaxEvents
      /\ losses \in 0..MaxLosses
  BY DEF MessagingInv, TypeOK
<1>3. s \in Session' /\ Shape(s)' /\ UNCHANGED tables
  BY <1>1 DEF Session, Shape
<1>4. \A q \in Seen(s) :
         \/ message[q] = NoRow /\ s.agent \notin alive
         \/ message[q] # NoRow /\ message[q].agent = s.agent
  BY DEF MessagingInv, SeenOfTheAgent
<1>5. s.kind = "send" =>
         /\ message[s.own] = NoRow
         /\ \A o \in Others(h) :
               /\ s.own \notin Seen(session[o])
               /\ session[o].kind = "send" => session[o].own # s.own
  BY DEF MessagingInv, SeqsFresh
<1>6. ASSUME NEW o \in Others(h), session[o].kind = "send"
      PROVE  session[o].own \notin Seen(s)
  BY <1>6 DEF MessagingInv, SeqsFresh, Others
<1>7. /\ messageSeq' \in 0..MaxMessages /\ messageSeq <= messageSeq'
      /\ eventSeq' \in 0..MaxEvents /\ eventSeq <= eventSeq' /\ losses' \in 0..MaxLosses
  BY <1>1, <1>2, BoundsAssumption
<1> QED
  BY <1>3, <1>4, <1>5, <1>6, <1>7, LocalStep

\* A transaction ends without a commit.
LEMMA RaiseStep ==
    ASSUME MessagingInv, NEW h \in Sessions,
           NEW code \in {"none", "ok", "lost", "deadlock", "stale", "integrity"},
           Finish(h, code), UNCHANGED <<tables, messageSeq, eventSeq>>,
           losses' \in 0..MaxLosses
    PROVE  MessagingInv'
<1>1. PICK s : s = [Idle EXCEPT !.code = code]
  OBVIOUS
<1>2. /\ messageSeq \in Nat /\ eventSeq \in Nat
      /\ messageSeq' \in 0..MaxMessages /\ messageSeq <= messageSeq'
      /\ eventSeq' \in 0..MaxEvents /\ eventSeq <= eventSeq'
  BY BoundsAssumption DEF MessagingInv, TypeOK
<1>3. /\ s \in Session
      /\ s.pc = "idle" /\ s.kind = "none" /\ s.agent = NoAgent /\ s.held = "none"
      /\ s.todo = {} /\ s.loaded = {} /\ s.rows = {} /\ s.own = 0
  <2>1. Max({messageSeq, eventSeq}) \in Nat
    BY <1>2, MaxOfTwo
  <2> QED
    BY <1>1, <2>1 DEF Session, Idle
<1>4. s \in Session' /\ Shape(s)'
  BY <1>2, <1>3, SessionGrows DEF Shape
<1>5. session' = [session EXCEPT ![h] = s]
  BY <1>1 DEF Finish
<1>6. Seen(s) = {}
  BY <1>3 DEF Seen
<1> QED
  BY <1>2, <1>3, <1>4, <1>5, <1>6, LocalStep

-----------------------------------------------------------------------------
(* The statements.                                                         *)

\* A session in its place, and its type.
LEMMA SessionFacts ==
    ASSUME MessagingInv, NEW h \in Sessions
    PROVE  /\ session[h] \in Session /\ Shape(session[h])
           /\ session = [session EXCEPT ![h] = session[h]]
           /\ DOMAIN session = Sessions
BY DEF MessagingInv, TypeOK

\* A turn gets a list of the agent's messages.
LEMMA ListStep ==
    ASSUME MessagingInv, NEW h \in Sessions, ListUnconsumed(h) PROVE MessagingInv'
<1>1. PICK r : r = session[h]
  OBVIOUS
<1>2. PICK listed : listed = {q \in MessagesOf(r.agent) : ~message[q].consumed}
  OBVIOUS
<1>3. PICK s : s = [r EXCEPT !.todo = listed, !.loaded = listed,
                             !.pc = IF listed = {} THEN "work" ELSE "mark"]
  OBVIOUS
<1>4. r \in Session /\ Shape(r) /\ r.pc = "list"
  BY <1>1, SessionFacts DEF ListUnconsumed
<1>5. session' = [session EXCEPT ![h] = s] /\ UNCHANGED <<tables, counters>>
  BY <1>1, <1>2, <1>3 DEF ListUnconsumed
<1>6. listed \subseteq 1..messageSeq
      /\ \A q \in listed : message[q] # NoRow /\ message[q].agent = r.agent
  BY <1>2, BoundsAssumption DEF MessagesOf, MessagingInv, SeqsFresh, TypeOK
<1>7. s \in Session
  BY <1>3, <1>4, <1>6 DEF Session
<1>8. /\ s.kind = r.kind /\ s.agent = r.agent /\ s.own = r.own /\ s.rows = r.rows
      /\ s.held = r.held /\ s.held = "none" /\ Shape(s)
  BY <1>3, <1>4 DEF Session, Shape
<1>9. ASSUME NEW q \in Seen(s)
      PROVE  q \in Seen(r) \/ (message[q] # NoRow /\ message[q].agent = s.agent)
  BY <1>3, <1>4, <1>6, <1>8 DEF Seen, Session
<1>10. \A q \in s.rows : message[q] # NoRow /\ \A o \in Others(h) : q \notin session[o].rows
  BY <1>1, <1>8 DEF MessagingInv, RowsExclude
<1> QED
  BY <1>1, <1>5, <1>7, <1>8, <1>9, <1>10, MoveStep, ZenonT(30)

\* What is left of a turn's list once its oldest message is dealt with.
LEMMA HandledFacts ==
    ASSUME MessagingInv, NEW r \in Session, Shape(r), r.pc = "mark", NEW s, s = Handled(r)
    PROVE  /\ s \in Session /\ Shape(s) /\ s.pc \in {"mark", "work"}
           /\ s.kind = r.kind /\ s.agent = r.agent /\ s.own = r.own /\ s.held = r.held
           /\ s.loaded = r.loaded /\ s.rows = r.rows
           /\ Min(r.todo) \in r.todo /\ s.todo = r.todo \ {Min(r.todo)}
<1>1. r.todo \in SUBSET Nat /\ r.todo # {}
  BY BoundsAssumption DEF Session, Shape, MessagingInv, TypeOK
<1>2. PICK m \in r.todo : m = Min(r.todo)
  BY <1>1, MinIsLeast
<1>3. s = [r EXCEPT !.todo = @ \ {m}, !.pc = IF r.todo = {m} THEN "work" ELSE "mark"]
  BY <1>2 DEF Handled
<1>4. /\ s \in Session /\ s.todo = r.todo \ {m}
      /\ s.pc = (IF r.todo = {m} THEN "work" ELSE "mark")
      /\ s.kind = r.kind /\ s.agent = r.agent /\ s.own = r.own /\ s.held = r.held
      /\ s.loaded = r.loaded /\ s.rows = r.rows /\ s.code = r.code
  BY <1>3, ZenonT(30) DEF Session
<1>5. s.pc = "mark" => s.todo # {}
  BY <1>2, <1>4
<1>6. Shape(s)
  BY <1>4, <1>5 DEF Shape
<1> QED
  BY <1>2, <1>4, <1>6

\* A message is loaded into the identity map.
LEMMA GetStep ==
    ASSUME MessagingInv, NEW h \in Sessions, GetMessage(h) PROVE MessagingInv'
<1>1. PICK r : r = session[h]
  OBVIOUS
<1>2. PICK s : s = IF message[Min(r.todo)] = NoRow THEN Handled(r)
                   ELSE [r EXCEPT !.loaded = @ \cup {Min(r.todo)}]
  OBVIOUS
<1>3. r \in Session /\ Shape(r) /\ r.pc = "mark" /\ r.held = "none"
  BY <1>1, SessionFacts DEF GetMessage, Shape
<1>4. session' = [session EXCEPT ![h] = s] /\ UNCHANGED <<tables, counters>>
  BY <1>1, <1>2 DEF GetMessage
<1>5. /\ s \in Session /\ Shape(s) /\ Seen(s) \subseteq Seen(r)
      /\ s.kind = r.kind /\ s.agent = r.agent /\ s.own = r.own
      /\ s.held = "none" /\ s.rows = r.rows
  <2>1. CASE message[Min(r.todo)] = NoRow
    BY <1>2, <1>3, <2>1, HandledFacts DEF Seen
  <2>2. CASE message[Min(r.todo)] # NoRow
    <3>1. PICK m \in r.todo : m = Min(r.todo)
      BY <1>3, HandledFacts
    <3>2. s = [r EXCEPT !.loaded = @ \cup {m}]
      BY <1>2, <2>2, <3>1
    <3>3. /\ s \in Session /\ s.loaded = r.loaded \cup {m} /\ s.pc = r.pc
          /\ s.kind = r.kind /\ s.agent = r.agent /\ s.own = r.own /\ s.held = r.held
          /\ s.todo = r.todo /\ s.rows = r.rows /\ s.code = r.code
      BY <1>3, <3>1, <3>2 DEF Session
    <3>4. Shape(s)
      BY <1>3, <3>3 DEF Shape
    <3>5. Seen(s) \subseteq Seen(r)
      BY <3>1, <3>3 DEF Seen
    <3> QED
      BY <1>3, <3>3, <3>4, <3>5
  <2> QED
    BY <2>1, <2>2
<1>6. \A q \in s.rows : message[q] # NoRow /\ \A o \in Others(h) : q \notin session[o].rows
  BY <1>1, <1>5 DEF MessagingInv, RowsExclude
<1> QED
  BY <1>1, <1>4, <1>5, <1>6, MoveStep

\* A turn that is not kept waiting marks a row no other transaction holds.
LEMMA MarkIsAlone ==
    ASSUME MessagingInv, NEW h \in Sessions, session[h].pc = "mark",
           Min(session[h].todo) \in session[h].loaded, Blockers(h) = {},
           NEW o \in Others(h)
    PROVE  Min(session[h].todo) \notin session[o].rows
<1>1. PICK m : m = Min(session[h].todo)
  OBVIOUS
<1>2. Blockers(h) = {p \in {g \in Sessions \ {h} : session[g].pc # "idle"} : m \in session[p].rows}
  BY <1>1 DEF Blockers
<1>3. session[o].pc = "idle" => session[o].rows = {}
  BY DEF MessagingInv, Shape, Others
<1> QED
  BY <1>1, <1>2, <1>3 DEF Others

\* A stamp locks the message's row, or finds it gone with its agent.
LEMMA MarkStep ==
    ASSUME MessagingInv, NEW h \in Sessions, MarkConsumed(h) PROVE MessagingInv'
<1>1. CASE Raise(h, "stale")
  BY <1>1, RaiseStep DEF Raise, counters, MessagingInv, TypeOK
<1>2. CASE ~Raise(h, "stale")
  <2>1. PICK r : r = session[h]
    OBVIOUS
  <2>2. /\ r \in Session /\ Shape(r) /\ r.pc = "mark" /\ r.held = "none"
        /\ r.kind = "turn"
    BY <2>1, SessionFacts DEF MarkConsumed, Shape
  <2>3. PICK m \in r.todo : m = Min(r.todo)
    BY <2>2, HandledFacts
  <2>4. PICK t : t = Handled(r)
    OBVIOUS
  <2>5. PICK s : s = [t EXCEPT !.rows = @ \cup {m}]
    OBVIOUS
  <2>6. /\ session' = [session EXCEPT ![h] = s] /\ UNCHANGED <<tables, counters>>
        /\ message[m] # NoRow /\ m \in r.loaded
    BY <1>2, <2>1, <2>3, <2>4, <2>5 DEF MarkConsumed
  <2>7. /\ t \in Session /\ Shape(t) /\ t.kind = r.kind /\ t.agent = r.agent /\ t.own = r.own
        /\ t.held = r.held /\ t.loaded = r.loaded /\ t.rows = r.rows
        /\ t.todo \subseteq r.todo /\ t.pc \in {"mark", "work"}
    BY <2>2, <2>4, HandledFacts
  <2>8. /\ s \in Session /\ s.rows = t.rows \cup {m} /\ s.pc = t.pc
        /\ s.kind = t.kind /\ s.agent = t.agent /\ s.own = t.own /\ s.held = t.held
        /\ s.loaded = t.loaded /\ s.todo = t.todo /\ s.code = t.code
    BY <2>2, <2>3, <2>5, <2>7 DEF Session
  <2>9. Shape(s)
    BY <2>2, <2>7, <2>8 DEF Shape
  <2>10. Seen(s) \subseteq Seen(r)
    BY <2>3, <2>7, <2>8 DEF Seen
  <2>11. \A q \in s.rows :
            message[q] # NoRow /\ \A o \in Others(h) : q \notin session[o].rows
    <3>1. \A o \in Others(h) : m \notin session[o].rows
      BY <2>1, <2>2, <2>3, MarkIsAlone DEF MarkConsumed
    <3>2. \A q \in r.rows :
             message[q] # NoRow /\ \A o \in Others(h) : q \notin session[o].rows
      BY <2>1 DEF MessagingInv, RowsExclude
    <3> QED
      BY <2>6, <2>7, <2>8, <3>1, <3>2
  <2>12. s.kind = r.kind /\ s.agent = r.agent /\ s.own = r.own /\ s.held = "none"
    BY <2>2, <2>7, <2>8
  <2>13. \A q \in Seen(s) :
            q \in Seen(r) \/ (message[q] # NoRow /\ message[q].agent = s.agent)
    BY <2>10
  <2>14. s \in Session /\ session' = [session EXCEPT ![h] = s] /\ UNCHANGED <<tables, counters>>
    BY <2>6, <2>8
  <2> QED
    BY <2>1, <2>9, <2>11, <2>12, <2>13, <2>14, MoveStep
<1> QED
  BY <1>1, <1>2

\* Whoever may check the foreign key finds no delete of the agent at work.
LEMMA CheckIsAlone ==
    ASSUME MessagingInv, NEW h \in Sessions, session[h].pc = "check", Blockers(h) = {},
           NEW o \in Others(h), session[o].agent = session[h].agent
    PROVE  session[o].held # "update"
<1>1. Blockers(h) = {p \in {g \in Sessions \ {h} : session[g].pc # "idle"} :
                        session[p].agent = session[h].agent /\ session[p].held = "update"}
  BY DEF Blockers
<1>2. session[o].pc = "idle" => session[o].held = "none"
  BY DEF MessagingInv, Shape, Others
<1> QED
  BY <1>1, <1>2 DEF Others

\* The foreign key locks an agent that is there.
LEMMA CheckStep ==
    ASSUME MessagingInv, NEW h \in Sessions, CheckParent(h) PROVE MessagingInv'
<1>1. CASE Raise(h, "integrity")
  BY <1>1, RaiseStep DEF Raise, counters, MessagingInv, TypeOK
<1>2. CASE ~Raise(h, "integrity")
  <2>1. PICK r : r = session[h]
    OBVIOUS
  <2>2. PICK s : s = [r EXCEPT !.held = "keyshare", !.pc = "commit"]
    OBVIOUS
  <2>3. r \in Session /\ Shape(r) /\ r.pc = "check" /\ r.agent \in alive
    BY <1>2, <2>1, SessionFacts DEF CheckParent
  <2>4. session' = [session EXCEPT ![h] = s] /\ UNCHANGED <<tables, counters>>
    BY <1>2, <2>1, <2>2 DEF CheckParent
  <2>5. /\ s \in Session /\ s.held = "keyshare" /\ s.pc = "commit"
        /\ s.kind = r.kind /\ s.agent = r.agent /\ s.own = r.own /\ s.rows = r.rows
        /\ s.loaded = r.loaded /\ s.todo = r.todo /\ s.code = r.code
    BY <2>2, <2>3 DEF Session
  <2>6. Shape(s)
    BY <2>3, <2>5 DEF Shape
  <2>7. Seen(s) = Seen(r)
    BY <2>5 DEF Seen
  <2>8. \A o \in Others(h) : session[o].agent = s.agent => session[o].held # "update"
    BY <2>1, <2>3, <2>5, CheckIsAlone DEF CheckParent
  <2>9. \A q \in s.rows : message[q] # NoRow /\ \A o \in Others(h) : q \notin session[o].rows
    BY <2>1, <2>5 DEF MessagingInv, RowsExclude
  <2> QED
    BY <2>1, <2>3, <2>4, <2>5, <2>6, <2>7, <2>8, <2>9, MoveStep
<1> QED
  BY <1>1, <1>2

\* Whoever may delete the agent finds nobody with a lock on it.
LEMMA DeleteIsAlone ==
    ASSUME MessagingInv, NEW h \in Sessions, session[h].pc = "delete", Blockers(h) = {},
           NEW o \in Others(h), session[o].agent = session[h].agent
    PROVE  session[o].held = "none"
<1>1. Blockers(h) = {p \in {g \in Sessions \ {h} : session[g].pc # "idle"} :
                        session[p].agent = session[h].agent /\ session[p].held # "none"}
  BY DEF Blockers
<1>2. session[o].pc = "idle" => session[o].held = "none"
  BY DEF MessagingInv, Shape, Others
<1> QED
  BY <1>1, <1>2 DEF Others

\* A delete locks the agent against all others.
LEMMA DeleteStep ==
    ASSUME MessagingInv, NEW h \in Sessions, DeleteAgent(h) PROVE MessagingInv'
<1>1. PICK r : r = session[h]
  OBVIOUS
<1>2. PICK s : s = [r EXCEPT !.held = IF r.agent \in alive THEN "update" ELSE "none",
                             !.pc = IF r.agent \in alive THEN "cascade" ELSE "commit"]
  OBVIOUS
<1>3. r \in Session /\ Shape(r) /\ r.pc = "delete" /\ r.kind = "delete" /\ r.rows = {}
  BY <1>1, SessionFacts DEF DeleteAgent, Shape
<1>4. session' = [session EXCEPT ![h] = s] /\ UNCHANGED <<tables, counters>>
  BY <1>1, <1>2 DEF DeleteAgent
<1>5. /\ s \in Session
      /\ s.held = (IF r.agent \in alive THEN "update" ELSE "none")
      /\ s.pc = (IF r.agent \in alive THEN "cascade" ELSE "commit")
      /\ s.kind = r.kind /\ s.agent = r.agent /\ s.own = r.own /\ s.rows = r.rows
      /\ s.loaded = r.loaded /\ s.todo = r.todo /\ s.code = r.code
  BY <1>2, <1>3 DEF Session
<1>6. Shape(s)
  BY <1>3, <1>5 DEF Shape
<1>7. Seen(s) = Seen(r)
  BY <1>5 DEF Seen
<1>8. \A o \in Others(h) : session[o].agent = s.agent => session[o].held = "none"
  BY <1>1, <1>3, <1>5, DeleteIsAlone DEF DeleteAgent
<1>9. /\ s.held # "none" => s.agent \in alive
      /\ \A o \in Others(h) :
            session[o].held = "update" /\ session[o].agent = s.agent => s.held = "none"
      /\ s.rows = {}
  BY <1>3, <1>5, <1>8
<1> QED
  BY <1>1, <1>4, <1>5, <1>6, <1>7, <1>8, <1>9, MoveStep

\* The cascade locks one message more.
LEMMA CascadeStep ==
    ASSUME MessagingInv, NEW h \in Sessions, CascadeMessage(h) PROVE MessagingInv'
<1>1. PICK r : r = session[h]
  OBVIOUS
<1>2. PICK q \in MessagesOf(r.agent) \ r.rows :
         /\ \A o \in Sessions : q \notin session[o].rows
         /\ session' = [session EXCEPT ![h].rows = @ \cup {q}]
  BY <1>1 DEF CascadeMessage
<1>3. PICK s : s = [r EXCEPT !.rows = @ \cup {q}]
  OBVIOUS
<1>4. /\ r \in Session /\ Shape(r) /\ r.pc = "cascade" /\ r.kind = "delete"
      /\ r.held = "update"
  BY <1>1, SessionFacts DEF CascadeMessage, Shape
<1>5. session' = [session EXCEPT ![h] = s] /\ UNCHANGED <<tables, counters>>
  BY <1>1, <1>2, <1>3 DEF CascadeMessage
<1>6. q \in 1..messageSeq /\ message[q] # NoRow /\ message[q].agent = r.agent
  BY <1>2, BoundsAssumption DEF MessagesOf, MessagingInv, SeqsFresh, TypeOK
<1>7. /\ s \in Session /\ s.rows = r.rows \cup {q} /\ s.pc = r.pc
      /\ s.kind = r.kind /\ s.agent = r.agent /\ s.own = r.own /\ s.held = r.held
      /\ s.loaded = r.loaded /\ s.todo = r.todo /\ s.code = r.code
  BY <1>3, <1>4, <1>6 DEF Session
<1>8. Shape(s)
  BY <1>4, <1>7 DEF Shape
<1>9. ASSUME NEW p \in Seen(s)
      PROVE  p \in Seen(r) \/ (message[p] # NoRow /\ message[p].agent = s.agent)
  BY <1>6, <1>7 DEF Seen
<1>10. \A p \in s.rows : message[p] # NoRow /\ \A o \in Others(h) : p \notin session[o].rows
  BY <1>1, <1>2, <1>6, <1>7 DEF MessagingInv, RowsExclude, Others
<1>11. /\ s.held # "none" => s.agent \in alive
       /\ s.held = "update" =>
             \A o \in Others(h) : session[o].agent = s.agent => session[o].held = "none"
       /\ \A o \in Others(h) :
             session[o].held = "update" /\ session[o].agent = s.agent => s.held = "none"
  <2>1. /\ s.agent \in alive
        /\ \A o \in Others(h) : session[o].agent = s.agent => session[o].held = "none"
    BY <1>1, <1>4, <1>7 DEF MessagingInv, LocksExclude
  <2> QED
    BY <2>1
<1>12. s.kind = r.kind /\ s.agent = r.agent /\ s.own = r.own /\ s \in Session
  BY <1>7
<1> QED
  BY <1>1, <1>5, <1>8, <1>9, <1>10, <1>11, <1>12, MoveStep, ZenonT(30)

\* An event draws a number nobody has.
LEMMA AppendStep ==
    ASSUME MessagingInv, NEW h \in Sessions, AppendEvent(h) PROVE MessagingInv'
<1>1. PICK r : r = session[h]
  OBVIOUS
<1>2. PICK s : s = [r EXCEPT !.pc = "check", !.own = eventSeq + 1]
  OBVIOUS
<1>3. /\ r \in Session /\ Shape(r) /\ r.pc = "work" /\ r.kind = "turn" /\ r.held = "none"
  BY <1>1, SessionFacts DEF AppendEvent, Shape
<1>4. /\ session' = [session EXCEPT ![h] = s] /\ UNCHANGED tables
      /\ eventSeq' = eventSeq + 1 /\ messageSeq' = messageSeq /\ losses' = losses
  BY <1>1, <1>2 DEF AppendEvent, Seq
<1>5. /\ messageSeq \in Nat /\ eventSeq \in Nat /\ messageSeq' \in 0..MaxMessages
      /\ eventSeq' \in 0..MaxEvents /\ losses' \in 0..MaxLosses
      /\ messageSeq <= messageSeq' /\ eventSeq <= eventSeq'
  BY <1>4, BoundsAssumption DEF AppendEvent, MessagingInv, TypeOK
<1>6. r \in Session'
  BY <1>3, <1>4, <1>5, SessionGrows
<1>7. eventSeq' \in 0..Max({messageSeq', eventSeq'})
  BY <1>4, <1>5, MaxOfTwo
<1>8. /\ s \in Session' /\ s.pc = "check" /\ s.own = eventSeq'
      /\ s.kind = r.kind /\ s.agent = r.agent /\ s.held = r.held /\ s.rows = r.rows
      /\ s.loaded = r.loaded /\ s.todo = r.todo /\ s.code = r.code
  BY <1>2, <1>4, <1>6, <1>7 DEF Session
<1>9. Shape(s)'
  BY <1>3, <1>4, <1>5, <1>8 DEF Shape
<1>10. Seen(s) = Seen(r)
  BY <1>8 DEF Seen
<1>11. \A q \in s.rows : message[q] # NoRow /\ \A o \in Others(h) : q \notin session[o].rows
  BY <1>1, <1>8 DEF MessagingInv, RowsExclude
<1>12. \A q \in Seen(s) :
          \/ message[q] = NoRow /\ s.agent \notin alive
          \/ message[q] # NoRow /\ message[q].agent = s.agent
  BY <1>1, <1>8, <1>10 DEF MessagingInv, SeenOfTheAgent
<1>13. \A o \in Others(h) : session[o].kind = "send" => session[o].own \notin Seen(s)
  BY <1>1, <1>10 DEF MessagingInv, SeqsFresh, Others
<1> QED
  BY <1>3, <1>4, <1>5, <1>8, <1>9, <1>11, <1>12, <1>13, LocalStep

\* A turn or a delete begins without a lock.
LEMMA BeginStep ==
    ASSUME MessagingInv, NEW h \in Sessions, NEW kind, NEW step,
           \/ kind = "turn" /\ step = "list"
           \/ kind = "delete" /\ step = "delete",
           Begin(h, kind, step)
    PROVE  MessagingInv'
<1>1. PICK a \in Agents : session' = [session EXCEPT ![h] =
         [Idle EXCEPT !.pc = step, !.kind = kind, !.agent = a]]
  BY DEF Begin
<1>2. PICK s : s = [Idle EXCEPT !.pc = step, !.kind = kind, !.agent = a]
  OBVIOUS
<1>3. /\ messageSeq \in Nat /\ eventSeq \in Nat
      /\ messageSeq' \in 0..MaxMessages /\ messageSeq <= messageSeq'
      /\ eventSeq' \in 0..MaxEvents /\ eventSeq <= eventSeq' /\ losses' \in 0..MaxLosses
  BY BoundsAssumption DEF Begin, counters, MessagingInv, TypeOK
<1>4. Max({messageSeq, eventSeq}) \in Nat
  BY <1>3, MaxOfTwo
<1>5. /\ s \in Session
      /\ s.pc = step /\ s.kind = kind /\ s.agent = a /\ s.held = "none" /\ s.code = "none"
      /\ s.todo = {} /\ s.loaded = {} /\ s.rows = {} /\ s.own = 0
  <2>1. kind \in {"turn", "delete"} /\ step \in {"list", "delete"} /\ 0 \in Nat
    OBVIOUS
  <2>2. s = [pc |-> step, kind |-> kind, agent |-> a, todo |-> {}, loaded |-> {},
             rows |-> {}, own |-> 0, held |-> "none", code |-> "none"]
    BY <1>2 DEF Idle
  <2>3. 0 \in 0..Max({messageSeq, eventSeq})
    BY <1>4
  <2> QED
    BY <2>1, <2>2, <2>3 DEF Session, AllKinds
<1>6. s \in Session' /\ Shape(s)'
  BY <1>3, <1>5, SessionGrows DEF Shape
<1>7. session' = [session EXCEPT ![h] = s] /\ UNCHANGED tables
  BY <1>1, <1>2 DEF Begin
<1>8. Seen(s) = {}
  BY <1>5 DEF Seen
<1> QED
  BY <1>3, <1>5, <1>6, <1>7, <1>8, LocalStep

\* A message draws a number nobody has.
LEMMA SendStep ==
    ASSUME MessagingInv, NEW h \in Sessions, SendMessage(h) PROVE MessagingInv'
<1>1. PICK a \in Agents : session' = [session EXCEPT ![h] =
         [Idle EXCEPT !.pc = "check", !.kind = "send", !.agent = a, !.own = messageSeq']]
  BY DEF SendMessage, Seq
<1>2. PICK s : s = [Idle EXCEPT !.pc = "check", !.kind = "send", !.agent = a,
                                !.own = messageSeq']
  OBVIOUS
<1>3. /\ messageSeq \in Nat /\ messageSeq' = messageSeq + 1 /\ messageSeq' \in 1..MaxMessages
      /\ messageSeq' \in 0..MaxMessages /\ messageSeq <= messageSeq'
      /\ eventSeq \in Nat /\ eventSeq' = eventSeq /\ losses' \in 0..MaxLosses
      /\ eventSeq' \in 0..MaxEvents /\ eventSeq <= eventSeq'
  BY BoundsAssumption DEF SendMessage, MessagingInv, TypeOK
<1>4. messageSeq' \in 0..Max({messageSeq', eventSeq'})
  BY <1>3, MaxOfTwo
<1>5. /\ s \in Session'
      /\ s.pc = "check" /\ s.kind = "send" /\ s.agent = a /\ s.held = "none"
      /\ s.code = "none" /\ s.todo = {} /\ s.loaded = {} /\ s.rows = {}
      /\ s.own = messageSeq'
  BY <1>2, <1>3, <1>4 DEF Session, Idle, AllKinds
<1>6. Shape(s)'
  BY <1>3, <1>5 DEF Shape
<1>7. session' = [session EXCEPT ![h] = s] /\ UNCHANGED tables
  BY <1>1, <1>2 DEF SendMessage
<1>8. Seen(s) = {}
  BY <1>5 DEF Seen
<1>9. message[s.own] = NoRow
  BY <1>3, <1>5 DEF MessagingInv, SeqsFresh
<1>10. ASSUME NEW o \in Others(h)
       PROVE  /\ s.own \notin Seen(session[o])
              /\ session[o].kind = "send" => session[o].own # s.own
  <2>1. session[o] \in Session /\ Shape(session[o])
    BY SessionFacts DEF Others
  <2>2. Seen(session[o]) \subseteq 1..messageSeq
    BY <2>1, FieldTypes DEF Seen
  <2> QED
    BY <1>3, <1>5, <2>1, <2>2 DEF Shape
<1> QED
  BY <1>3, <1>5, <1>6, <1>7, <1>8, <1>9, <1>10, LocalStep

-----------------------------------------------------------------------------
(* Steps that write the tables.                                            *)

\* A transaction commits: what the tables must satisfy as it leaves them, and
\* its session s, which holds nothing.
LEMMA WriteStep ==
    ASSUME MessagingInv, NEW h \in Sessions, NEW s \in Session,
           session' = [session EXCEPT ![h] = s], UNCHANGED counters,
           Shape(s), s.rows = {}, s.held = "none", s.kind # "send",
           alive' \subseteq Agents,
           message' \in [1..MaxMessages -> Row \cup {NoRow}],
           event' \in [1..MaxEvents -> Agents \cup {NoAgent}],
           \A o \in Others(h) : session[o].held # "none" => session[o].agent \in alive',
           \A o \in Others(h) : \A q \in session[o].rows : message'[q] # NoRow,
           \A o \in Others(h) : \A q \in Seen(session[o]) :
              \/ message'[q] = NoRow /\ session[o].agent \notin alive'
              \/ message'[q] # NoRow /\ message'[q].agent = session[o].agent,
           \A q \in Seen(s) :
              \/ message'[q] = NoRow /\ s.agent \notin alive'
              \/ message'[q] # NoRow /\ message'[q].agent = s.agent,
           \A q \in 1..MaxMessages : message'[q] # NoRow => q <= messageSeq,
           \A o \in Others(h) : session[o].kind = "send" =>
              message'[session[o].own] = NoRow /\ session[o].own \notin Seen(s),
           NoOrphanRows'
    PROVE  MessagingInv'
<1>1. /\ session'[h] = s
      /\ \A o \in Others(h) : session'[o] = session[o]
  BY DEF MessagingInv, TypeOK, Others
<1>2. messageSeq' = messageSeq /\ eventSeq' = eventSeq /\ losses' = losses
  BY DEF counters
<1>3. Session' = Session
  BY <1>2 DEF Session
<1>4. TypeOK'
  BY <1>2, <1>3 DEF MessagingInv, TypeOK
<1>5. (\A o \in Sessions : Shape(session[o]))'
  <2>1. Shape(session[h])'
    BY <1>1, <1>2 DEF Shape
  <2>2. \A o \in Others(h) : Shape(session[o])'
    BY <1>1, <1>2 DEF MessagingInv, Shape, Others
  <2> QED
    BY <2>1, <2>2 DEF Others
<1>6. LocksExclude'
  BY <1>1 DEF MessagingInv, LocksExclude, Others
<1>7. RowsExclude'
  BY <1>1 DEF MessagingInv, RowsExclude, Others
<1>8. SeenOfTheAgent'
  BY <1>1 DEF SeenOfTheAgent, Seen, Others
<1>9. SeqsFresh'
  <2>1. (\A q \in 1..MaxMessages : message[q] # NoRow => q <= messageSeq)'
    BY <1>2
  <2>2. ASSUME NEW g \in Sessions, session'[g].kind = "send"
        PROVE  /\ message'[session'[g].own] = NoRow
               /\ \A o \in Others(g) :
                     /\ session'[g].own \notin Seen(session[o])'
                     /\ session'[o].kind = "send" => session'[o].own # session'[g].own
    BY <1>1, <2>2 DEF MessagingInv, SeqsFresh, Seen, Others
  <2> QED
    BY <2>1, <2>2 DEF SeqsFresh
<1> QED
  BY <1>4, <1>5, <1>6, <1>7, <1>8, <1>9 DEF MessagingInv

\* What the committed tables are typed by and numbered up to.
LEMMA TableFacts ==
    ASSUME MessagingInv
    PROVE  /\ alive \subseteq Agents
           /\ message \in [1..MaxMessages -> Row \cup {NoRow}]
           /\ event \in [1..MaxEvents -> Agents \cup {NoAgent}]
           /\ messageSeq \in Nat /\ messageSeq <= MaxMessages
           /\ eventSeq \in Nat /\ eventSeq <= MaxEvents
           /\ \A q \in 1..MaxMessages : message[q] # NoRow => q <= messageSeq
BY BoundsAssumption DEF MessagingInv, TypeOK, SeqsFresh

\* A session that has committed holds nothing.
LEMMA CommittedSession ==
    ASSUME MessagingInv, NEW h \in Sessions, Commit(h)
    PROVE  \E s \in Session :
              /\ session' = [session EXCEPT ![h] = s] /\ UNCHANGED counters
              /\ Shape(s) /\ s.rows = {} /\ s.held = "none" /\ s.kind = "none" /\ Seen(s) = {}
<1>1. PICK s : s = [Idle EXCEPT !.code = "ok"]
  OBVIOUS
<1>2. Max({messageSeq, eventSeq}) \in Nat
  BY TableFacts, MaxOfTwo
<1>3. /\ s \in Session /\ s.pc = "idle" /\ s.kind = "none" /\ s.agent = NoAgent
      /\ s.held = "none" /\ s.todo = {} /\ s.loaded = {} /\ s.rows = {}
  BY <1>1, <1>2 DEF Session, Idle
<1>4. Shape(s) /\ Seen(s) = {}
  BY <1>3 DEF Shape, Seen
<1> QED
  BY <1>1, <1>3, <1>4 DEF Commit, Finish

\* A sent message belongs to an agent that is there.
LEMMA CommitSend ==
    ASSUME MessagingInv, NEW h \in Sessions, Commit(h), session[h].kind = "send"
    PROVE  MessagingInv'
<1>1. PICK r : r = session[h]
  OBVIOUS
<1>2. /\ r.kind = "send" /\ r.pc = "commit" /\ r.held = "keyshare" /\ r.rows = {}
      /\ r.own \in 1..messageSeq /\ r.agent \in alive /\ message[r.own] = NoRow
  <2>1. Shape(r) /\ r.kind = "send" /\ r.pc \in {"work", "commit", "cascade"}
    BY <1>1, SessionFacts DEF Commit, Ready
  <2>2. r.pc = "commit" /\ r.held = "keyshare" /\ r.rows = {} /\ r.own \in 1..messageSeq
    BY <2>1 DEF Shape
  <2> QED
    BY <1>1, <2>1, <2>2 DEF MessagingInv, LocksExclude, SeqsFresh
<1>3. PICK w : w = [agent |-> r.agent, consumed |-> FALSE]
  OBVIOUS
<1>4. w \in Row /\ w # NoRow /\ w.agent = r.agent
  <2>1. r.agent \in Agents
    BY <1>2, TableFacts
  <2>2. w \in Row /\ w.agent = r.agent
    BY <1>3, <2>1 DEF Row
  <2> QED
    BY <2>2, NoRowAssumption
<1>5. /\ alive' = alive /\ event' = event
      /\ message' = [q \in 1..MaxMessages |-> IF q = r.own THEN w ELSE message[q]]
  <2>1. alive' = alive /\ message' = MessageAfter(r) /\ event' = EventAfter(r)
    BY <1>1, <1>2 DEF Commit
  <2>2. event' = event
    BY <1>2, <2>1, TableFacts DEF EventAfter
  <2>3. message' = [q \in 1..MaxMessages |-> IF q = r.own THEN w ELSE message[q]]
    BY <1>2, <1>3, <2>1 DEF MessageAfter
  <2> QED
    BY <2>1, <2>2, <2>3
<1>6. /\ message' \in [1..MaxMessages -> Row \cup {NoRow}]
      /\ \A q \in 1..MaxMessages : message'[q] # NoRow => q <= messageSeq
  BY <1>2, <1>4, <1>5, TableFacts
<1>7. ASSUME NEW o \in Others(h), NEW q \in Seen(session[o])
      PROVE  q # r.own /\ q \in 1..MaxMessages /\ message'[q] = message[q]
  <2>1. q # r.own
    BY <1>1, <1>2, <1>7 DEF MessagingInv, SeqsFresh
  <2>2. session[o] \in Session
    BY SessionFacts DEF Others
  <2>3. q \in 1..messageSeq
    BY <1>7, <2>2, FieldTypes DEF Seen
  <2> QED
    BY <1>5, <2>1, <2>3, TableFacts, BoundsAssumption
<1>8. \A o \in Others(h) : \A q \in Seen(session[o]) :
         \/ message'[q] = NoRow /\ session[o].agent \notin alive'
         \/ message'[q] # NoRow /\ message'[q].agent = session[o].agent
  BY <1>5, <1>7 DEF MessagingInv, SeenOfTheAgent, Others
<1>9. \A o \in Others(h) : \A q \in session[o].rows : message'[q] # NoRow
  BY <1>7 DEF MessagingInv, RowsExclude, Seen, Others
<1>10. \A o \in Others(h) : session[o].kind = "send" => message'[session[o].own] = NoRow
  <2>1. \A o \in Others(h) : session[o].kind = "send" =>
           /\ session[o].own # r.own /\ message[session[o].own] = NoRow
           /\ session[o].own \in 1..messageSeq
    BY <1>1, <1>2 DEF MessagingInv, SeqsFresh, Shape, Others
  <2> QED
    BY <1>5, <2>1, TableFacts, BoundsAssumption
<1>11. NoOrphanRows'
  BY <1>2, <1>4, <1>5 DEF MessagingInv, NoOrphanRows
<1>12. \A o \in Others(h) : session[o].held # "none" => session[o].agent \in alive'
  BY <1>5 DEF MessagingInv, LocksExclude, Others
<1>13. PICK s \in Session :
          /\ session' = [session EXCEPT ![h] = s] /\ UNCHANGED counters
          /\ Shape(s) /\ s.rows = {} /\ s.held = "none" /\ s.kind = "none" /\ Seen(s) = {}
  BY CommittedSession
<1> QED
  BY <1>5, <1>6, <1>8, <1>9, <1>10, <1>11, <1>12, <1>13, TableFacts, WriteStep

\* A message's seq, whoever knows of it.
LEMMA SeenInTable ==
    ASSUME MessagingInv, NEW o \in Sessions
    PROVE  /\ Seen(session[o]) \subseteq 1..MaxMessages
           /\ session[o].rows \subseteq Seen(session[o])
           /\ session[o].kind = "send" => session[o].own \in 1..MaxMessages
<1>1. session[o] \in Session /\ Shape(session[o])
  BY SessionFacts
<1>2. /\ Seen(session[o]) \subseteq 1..messageSeq
      /\ session[o].rows \subseteq Seen(session[o])
      /\ session[o].kind = "send" => session[o].own \in 1..messageSeq
  BY <1>1, FieldTypes DEF Seen, Shape
<1>3. 1..messageSeq \subseteq 1..MaxMessages
  BY TableFacts, BoundsAssumption
<1> QED
  BY <1>2, <1>3

\* To stamp the messages a turn holds removes none and moves none.
LEMMA Stamp ==
    ASSUME MessagingInv, NEW h \in Sessions, session[h].kind = "turn",
           message' = MessageAfter(session[h])
    PROVE  /\ message' \in [1..MaxMessages -> Row \cup {NoRow}]
           /\ \A q \in 1..MaxMessages :
                 \/ message[q] = NoRow /\ message'[q] = NoRow
                 \/ /\ message[q] # NoRow /\ message'[q] # NoRow
                    /\ message'[q].agent = message[q].agent
<1>1. PICK r : r = session[h]
  OBVIOUS
<1>2. r.kind = "turn" /\ r.agent \in Agents
  BY <1>1, SessionFacts DEF Shape
<1>3. PICK w : w = [agent |-> r.agent, consumed |-> TRUE]
  OBVIOUS
<1>4. w \in Row /\ w # NoRow /\ w.agent = r.agent
  <2>1. w \in Row /\ w.agent = r.agent
    BY <1>2, <1>3 DEF Row
  <2> QED
    BY <2>1, NoRowAssumption
<1>5. message' = [q \in 1..MaxMessages |-> IF q \in r.rows THEN w ELSE message[q]]
  BY <1>1, <1>2, <1>3 DEF MessageAfter
<1>6. \A q \in r.rows : message[q] # NoRow /\ message[q].agent = r.agent
  BY <1>1 DEF MessagingInv, RowsExclude, SeenOfTheAgent, Seen
<1> QED
  BY <1>4, <1>5, <1>6, TableFacts

\* What a step that stamps messages, and may add an event, leaves as it was.
LEMMA StampWrites ==
    ASSUME MessagingInv, NEW h \in Sessions, session[h].kind = "turn",
           message' = MessageAfter(session[h]), alive' = alive
    PROVE  /\ message' \in [1..MaxMessages -> Row \cup {NoRow}]
           /\ \A q \in 1..MaxMessages : message'[q] # NoRow => q <= messageSeq
           /\ \A o \in Sessions : \A q \in session[o].rows : message'[q] # NoRow
           /\ \A o \in Sessions : \A q \in Seen(session[o]) :
                 \/ message'[q] = NoRow /\ session[o].agent \notin alive'
                 \/ message'[q] # NoRow /\ message'[q].agent = session[o].agent
           /\ \A o \in Sessions : session[o].kind = "send" => message'[session[o].own] = NoRow
           /\ \A q \in 1..MaxMessages : message'[q] # NoRow => message'[q].agent \in alive'
<1>1. /\ message' \in [1..MaxMessages -> Row \cup {NoRow}]
      /\ \A q \in 1..MaxMessages :
            \/ message[q] = NoRow /\ message'[q] = NoRow
            \/ /\ message[q] # NoRow /\ message'[q] # NoRow
               /\ message'[q].agent = message[q].agent
  BY Stamp
<1>2. ASSUME NEW o \in Sessions, NEW q \in Seen(session[o])
      PROVE  \/ message'[q] = NoRow /\ session[o].agent \notin alive'
             \/ message'[q] # NoRow /\ message'[q].agent = session[o].agent
  BY <1>1, SeenInTable DEF MessagingInv, SeenOfTheAgent
<1>3. ASSUME NEW o \in Sessions, NEW q \in session[o].rows PROVE message'[q] # NoRow
  <2>1. q \in 1..MaxMessages
    BY SeenInTable
  <2> QED
    BY <1>1, <2>1 DEF MessagingInv, RowsExclude
<1>4. ASSUME NEW o \in Sessions, session[o].kind = "send"
      PROVE  message'[session[o].own] = NoRow
  BY <1>1, <1>4, SeenInTable DEF MessagingInv, SeqsFresh
<1> QED
  BY <1>1, <1>2, <1>3, <1>4, TableFacts DEF MessagingInv, NoOrphanRows

\* A turn commits its stamps and its event.
LEMMA CommitTurn ==
    ASSUME MessagingInv, NEW h \in Sessions, Commit(h), session[h].kind = "turn"
    PROVE  MessagingInv'
<1>1. PICK r : r = session[h]
  OBVIOUS
<1>2. /\ r.kind = "turn" /\ r.agent \in Agents /\ r.held # "update"
      /\ r.own \in 1..MaxEvents => r.agent \in alive
  <2>1. Shape(r) /\ r.kind = "turn" /\ r.pc \in {"work", "commit", "cascade"}
    BY <1>1, SessionFacts DEF Commit, Ready
  <2>2. /\ r.agent \in Agents /\ r.held # "update"
        /\ r.own \in 1..MaxEvents => r.held = "keyshare"
    BY <2>1 DEF Shape
  <2> QED
    BY <1>1, <2>1, <2>2 DEF MessagingInv, LocksExclude
<1>3. alive' = alive /\ message' = MessageAfter(session[h]) /\ event' = EventAfter(r)
  BY <1>1, <1>2 DEF Commit
<1>4. event' = [q \in 1..MaxEvents |-> IF q = r.own THEN r.agent ELSE event[q]]
  BY <1>2, <1>3 DEF EventAfter
<1>5. event' \in [1..MaxEvents -> Agents \cup {NoAgent}]
  BY <1>2, <1>4, TableFacts
<1>6. NoOrphanRows'
  <2>1. \A q \in 1..MaxEvents : event'[q] # NoAgent => event'[q] \in alive'
    BY <1>2, <1>3, <1>4 DEF MessagingInv, NoOrphanRows
  <2>2. \A q \in 1..MaxMessages : message'[q] # NoRow => message'[q].agent \in alive'
    BY <1>1, <1>2, <1>3, StampWrites
  <2> QED
    BY <2>1, <2>2 DEF NoOrphanRows
<1>7. \A o \in Others(h) : session[o].held # "none" => session[o].agent \in alive'
  BY <1>3 DEF MessagingInv, LocksExclude, Others
<1>8. PICK s \in Session :
         /\ session' = [session EXCEPT ![h] = s] /\ UNCHANGED counters
         /\ Shape(s) /\ s.rows = {} /\ s.held = "none" /\ s.kind = "none" /\ Seen(s) = {}
  BY CommittedSession
<1>9. /\ message' \in [1..MaxMessages -> Row \cup {NoRow}]
      /\ \A q \in 1..MaxMessages : message'[q] # NoRow => q <= messageSeq
      /\ \A o \in Others(h) : \A q \in session[o].rows : message'[q] # NoRow
      /\ \A o \in Others(h) : \A q \in Seen(session[o]) :
            \/ message'[q] = NoRow /\ session[o].agent \notin alive'
            \/ message'[q] # NoRow /\ message'[q].agent = session[o].agent
      /\ \A o \in Others(h) : session[o].kind = "send" => message'[session[o].own] = NoRow
  BY <1>3, StampWrites DEF Others
<1>10. alive' \subseteq Agents
  BY <1>3, TableFacts
<1> QED
  BY <1>5, <1>6, <1>7, <1>8, <1>9, <1>10, WriteStep

\* A turn that commits half way keeps what it has listed, and no lock.
LEMMA RenewStep ==
    ASSUME MessagingInv, NEW h \in Sessions, Renew(h) PROVE MessagingInv'
<1>1. PICK r : r = session[h]
  OBVIOUS
<1>2. PICK s : s = [r EXCEPT !.loaded = {}, !.rows = {}]
  OBVIOUS
<1>3. r \in Session /\ Shape(r) /\ r.pc = "mark" /\ r.kind = "turn" /\ r.held = "none"
  BY <1>1, SessionFacts DEF Renew, Shape
<1>4. /\ session' = [session EXCEPT ![h] = s] /\ UNCHANGED counters
      /\ alive' = alive /\ event' = event /\ message' = MessageAfter(session[h])
  BY <1>1, <1>2 DEF Renew
<1>5. /\ s \in Session /\ s.pc = r.pc /\ s.kind = r.kind /\ s.agent = r.agent
      /\ s.own = r.own /\ s.held = r.held /\ s.todo = r.todo /\ s.code = r.code
      /\ s.loaded = {} /\ s.rows = {}
  BY <1>2, <1>3 DEF Session
<1>6. Shape(s)
  BY <1>3, <1>5 DEF Shape
<1>7. Seen(s) \subseteq Seen(r)
  BY <1>5 DEF Seen
<1>8. /\ message' \in [1..MaxMessages -> Row \cup {NoRow}]
      /\ \A q \in 1..MaxMessages : message'[q] # NoRow => q <= messageSeq
      /\ \A o \in Sessions : \A q \in session[o].rows : message'[q] # NoRow
      /\ \A o \in Sessions : \A q \in Seen(session[o]) :
            \/ message'[q] = NoRow /\ session[o].agent \notin alive'
            \/ message'[q] # NoRow /\ message'[q].agent = session[o].agent
      /\ \A o \in Sessions : session[o].kind = "send" => message'[session[o].own] = NoRow
      /\ \A q \in 1..MaxMessages : message'[q] # NoRow => message'[q].agent \in alive'
  BY <1>1, <1>3, <1>4, StampWrites
<1>9. NoOrphanRows'
  BY <1>4, <1>8 DEF MessagingInv, NoOrphanRows
<1>10. \A o \in Others(h) : session[o].held # "none" => session[o].agent \in alive'
  BY <1>4 DEF MessagingInv, LocksExclude, Others
<1>11. \A o \in Others(h) : session[o].kind = "send" => session[o].own \notin Seen(s)
  BY <1>1, <1>7 DEF MessagingInv, SeqsFresh, Others
<1>12. \A q \in Seen(s) :
          \/ message'[q] = NoRow /\ s.agent \notin alive'
          \/ message'[q] # NoRow /\ message'[q].agent = s.agent
  BY <1>1, <1>5, <1>7, <1>8
<1>13. /\ alive' \subseteq Agents /\ event' \in [1..MaxEvents -> Agents \cup {NoAgent}]
       /\ s.held = "none" /\ s.kind # "send"
  BY <1>3, <1>4, <1>5, TableFacts
<1>14. /\ \A o \in Others(h) : \A q \in session[o].rows : message'[q] # NoRow
       /\ \A o \in Others(h) : \A q \in Seen(session[o]) :
             \/ message'[q] = NoRow /\ session[o].agent \notin alive'
             \/ message'[q] # NoRow /\ message'[q].agent = session[o].agent
       /\ \A o \in Others(h) : session[o].kind = "send" =>
             message'[session[o].own] = NoRow /\ session[o].own \notin Seen(s)
  BY <1>8, <1>11 DEF Others
<1>15. /\ message' \in [1..MaxMessages -> Row \cup {NoRow}]
       /\ \A q \in 1..MaxMessages : message'[q] # NoRow => q <= messageSeq
  BY <1>8
<1> QED
  BY <1>4, <1>5, <1>6, <1>9, <1>10, <1>12, <1>13, <1>14, <1>15, WriteStep

\* A deleted agent takes its messages and events.
LEMMA CommitDelete ==
    ASSUME MessagingInv, NEW h \in Sessions, Commit(h), session[h].kind = "delete"
    PROVE  MessagingInv'
<1>1. PICK r : r = session[h]
  OBVIOUS
<1>2. /\ r.kind = "delete" /\ r.agent \in Agents
      /\ \/ /\ r.held = "update" /\ MessagesOf(r.agent) \subseteq r.rows
         \/ r.held = "none" /\ r.rows = {}
  <2>1. /\ Shape(r) /\ r.kind = "delete"
        /\ r.pc \in {"work", "commit"} \/ (r.pc = "cascade" /\ MessagesOf(r.agent) \subseteq r.rows)
    BY <1>1, SessionFacts DEF Commit, Ready
  <2> QED
    BY <2>1 DEF Shape
<1>3. \A q \in r.rows :
         /\ q \in 1..MaxMessages /\ message[q] # NoRow /\ message[q].agent = r.agent
         /\ \A o \in Others(h) : q \notin session[o].rows
  BY <1>1, SeenInTable DEF MessagingInv, RowsExclude, SeenOfTheAgent
<1>4. /\ alive' = IF r.held = "update" THEN alive \ {r.agent} ELSE alive
      /\ message' = [q \in 1..MaxMessages |-> IF q \in r.rows THEN NoRow ELSE message[q]]
      /\ event' = [q \in 1..MaxEvents |->
                      IF event[q] = r.agent /\ r.held = "update" THEN NoAgent ELSE event[q]]
  <2>1. alive' = (IF r.held = "update" THEN alive \ {r.agent} ELSE alive)
        /\ message' = MessageAfter(r) /\ event' = EventAfter(r)
    BY <1>1 DEF Commit
  <2>2. message' = [q \in 1..MaxMessages |-> IF q \in r.rows THEN NoRow ELSE message[q]]
    BY <1>2, <2>1 DEF MessageAfter
  <2>3. event' = [q \in 1..MaxEvents |->
                      IF event[q] = r.agent /\ r.held = "update" THEN NoAgent ELSE event[q]]
    BY <1>2, <2>1 DEF EventAfter
  <2> QED
    BY <2>1, <2>2, <2>3
<1>5. /\ alive' \subseteq Agents
      /\ message' \in [1..MaxMessages -> Row \cup {NoRow}]
      /\ event' \in [1..MaxEvents -> Agents \cup {NoAgent}]
      /\ \A q \in 1..MaxMessages : message'[q] # NoRow => q <= messageSeq
  BY <1>4, TableFacts
<1>6. \A o \in Others(h) : session[o].held # "none" => session[o].agent \in alive'
  <2>1. \A o \in Others(h) : session[o].held # "none" => session[o].agent \in alive
    BY DEF MessagingInv, LocksExclude, Others
  <2>2. r.held = "update" =>
           \A o \in Others(h) : session[o].agent = r.agent => session[o].held = "none"
    BY <1>1 DEF MessagingInv, LocksExclude
  <2> QED
    BY <1>4, <2>1, <2>2
<1>7. \A o \in Others(h) : \A q \in session[o].rows : message'[q] # NoRow
  <2>1. \A o \in Others(h) : \A q \in session[o].rows :
           message[q] # NoRow /\ q \in 1..MaxMessages
    BY SeenInTable DEF MessagingInv, RowsExclude, Others
  <2> QED
    BY <1>3, <1>4, <2>1
<1>8. ASSUME NEW o \in Others(h), NEW q \in Seen(session[o])
      PROVE  \/ message'[q] = NoRow /\ session[o].agent \notin alive'
             \/ message'[q] # NoRow /\ message'[q].agent = session[o].agent
  <2>1. /\ q \in 1..MaxMessages
        /\ \/ message[q] = NoRow /\ session[o].agent \notin alive
           \/ message[q] # NoRow /\ message[q].agent = session[o].agent
    BY SeenInTable DEF MessagingInv, SeenOfTheAgent, Others
  <2>2. CASE q \in r.rows
    <3>1. message'[q] = NoRow /\ session[o].agent = r.agent /\ r.held = "update"
      BY <1>2, <1>3, <1>4, <2>1, <2>2
    <3> QED
      BY <1>4, <3>1
  <2>3. CASE q \notin r.rows
    BY <1>4, <2>1, <2>3
  <2> QED
    BY <2>2, <2>3
<1>9. \A o \in Others(h) : session[o].kind = "send" => message'[session[o].own] = NoRow
  <2>1. \A o \in Others(h) : session[o].kind = "send" =>
           session[o].own \in 1..MaxMessages /\ message[session[o].own] = NoRow
    BY SeenInTable DEF MessagingInv, SeqsFresh, Others
  <2> QED
    BY <1>4, <2>1
<1>10. NoOrphanRows'
  <2>1. ASSUME NEW q \in 1..MaxMessages, message'[q] # NoRow
        PROVE  message'[q].agent \in alive'
    <3>1. message'[q] = message[q] /\ q \notin r.rows /\ message[q] # NoRow
      BY <1>4, <2>1
    <3>2. message[q].agent \in alive
      BY <3>1 DEF MessagingInv, NoOrphanRows
    <3>3. r.held = "update" => message[q].agent # r.agent
      BY <1>2, <3>1 DEF MessagesOf
    <3> QED
      BY <1>4, <3>1, <3>2, <3>3
  <2>2. \A q \in 1..MaxEvents : event'[q] # NoAgent => event'[q] \in alive'
    BY <1>4 DEF MessagingInv, NoOrphanRows
  <2> QED
    BY <2>1, <2>2 DEF NoOrphanRows
<1>11. PICK s \in Session :
          /\ session' = [session EXCEPT ![h] = s] /\ UNCHANGED counters
          /\ Shape(s) /\ s.rows = {} /\ s.held = "none" /\ s.kind = "none" /\ Seen(s) = {}
  BY CommittedSession
<1> QED
  BY <1>5, <1>6, <1>7, <1>8, <1>9, <1>10, <1>11, WriteStep

\* A commit of any kind preserves the invariant.
LEMMA CommitStep ==
    ASSUME MessagingInv, NEW h \in Sessions, Commit(h) PROVE MessagingInv'
<1>1. session[h].kind \in {"send", "turn", "delete"}
  BY SessionFacts, FieldTypes DEF Commit, Ready, Shape
<1> QED
  BY <1>1, CommitSend, CommitTurn, CommitDelete

-----------------------------------------------------------------------------
(* Theorems.                                                               *)

\* The invariant holds of the empty tables.
LEMMA InitMessaging == Init => MessagingInv
<1> SUFFICES ASSUME Init PROVE MessagingInv
  OBVIOUS
<1>1. 0 \in Nat /\ Max({messageSeq, eventSeq}) \in Nat
  BY MaxOfTwo DEF Init
<1>2. Idle \in Session
  BY <1>1 DEF Session, Idle
<1>3. TypeOK
  BY <1>2, BoundsAssumption DEF Init, TypeOK
<1>4. \A h \in Sessions : Shape(session[h])
  BY DEF Init, Idle, Shape
<1>5. \A h \in Sessions : Seen(session[h]) = {} /\ session[h].kind # "send"
                          /\ session[h].held = "none" /\ session[h].rows = {}
  BY DEF Init, Idle, Seen
<1>6. LocksExclude /\ RowsExclude /\ SeenOfTheAgent
  BY <1>5 DEF LocksExclude, RowsExclude, SeenOfTheAgent
<1>7. SeqsFresh /\ NoOrphanRows
  BY <1>5 DEF Init, SeqsFresh, NoOrphanRows
<1> QED
  BY <1>3, <1>4, <1>6, <1>7 DEF MessagingInv

\* Each of the actions, by name.
LEMMA ActionStep ==
    ASSUME MessagingInv, NEW h \in Sessions,
           \/ SendMessage(h) \/ BeginTurn(h) \/ BeginDelete(h)
           \/ Statement(h) \/ Renew(h) \/ LoseSession(h)
    PROVE  MessagingInv'
<1>1. CASE SendMessage(h)
  BY <1>1, SendStep
<1>2. CASE BeginTurn(h) \/ BeginDelete(h)
  BY <1>2, BeginStep DEF BeginTurn, BeginDelete
<1>3. CASE ListUnconsumed(h) \/ GetMessage(h) \/ MarkConsumed(h)
  BY <1>3, ListStep, GetStep, MarkStep
<1>4. CASE AppendEvent(h) \/ CheckParent(h) \/ DeleteAgent(h) \/ CascadeMessage(h)
  BY <1>4, AppendStep, CheckStep, DeleteStep, CascadeStep
<1>5. CASE Commit(h)
  BY <1>5, CommitStep
<1>6. CASE AbortDeadlocked(h)
  BY <1>6, RaiseStep DEF AbortDeadlocked, Raise, counters, MessagingInv, TypeOK
<1>7. CASE Renew(h)
  BY <1>7, RenewStep
<1>8. CASE LoseSession(h)
  BY <1>8, RaiseStep, BoundsAssumption DEF LoseSession, MessagingInv, TypeOK
<1> QED
  BY <1>1, <1>2, <1>3, <1>4, <1>5, <1>6, <1>7, <1>8 DEF Statement

\* A step that changes nothing preserves the invariant.
LEMMA StutterStep == ASSUME MessagingInv, UNCHANGED vars PROVE MessagingInv'
<1>1. /\ alive' = alive /\ message' = message /\ event' = event /\ session' = session
      /\ messageSeq' = messageSeq /\ eventSeq' = eventSeq /\ losses' = losses
  BY DEF vars
<1>2. TypeOK' /\ (\A h \in Sessions : Shape(session[h]))'
  BY <1>1, ZenonT(30) DEF MessagingInv, TypeOK, Session, Shape
<1>3. LocksExclude' /\ RowsExclude' /\ NoOrphanRows'
  BY <1>1 DEF MessagingInv, LocksExclude, RowsExclude, NoOrphanRows, Others
<1>4. SeenOfTheAgent' /\ SeqsFresh'
  BY <1>1 DEF MessagingInv, SeenOfTheAgent, SeqsFresh, Seen, Others
<1> QED
  BY <1>2, <1>3, <1>4 DEF MessagingInv

\* Every step preserves the invariant.
LEMMA NextMessagingInv == MessagingInv /\ [Next]_vars => MessagingInv'
BY ActionStep, StutterStep DEF Next

\* The invariant, of every behaviour.
THEOREM MessagingInvariance == Spec => []MessagingInv
BY InitMessaging, NextMessagingInv, PTL DEF Spec

\* Every table and session keeps its type (TypeOK).
THEOREM MessagingTypes == Spec => []TypeOK
<1>1. MessagingInv => TypeOK
  BY DEF MessagingInv
<1> QED
  BY <1>1, MessagingInvariance, PTL

\* Deleting an agent takes all its messages and events with it, whatever was
\* being sent, appended or stamped meanwhile (NoOrphanRows).
THEOREM NothingOutlivesAnAgent == Spec => []NoOrphanRows
<1>1. MessagingInv => NoOrphanRows
  BY DEF MessagingInv
<1> QED
  BY <1>1, MessagingInvariance, PTL

-----------------------------------------------------------------------------
(* Errors.                                                                 *)

\* An error is raised by a statement of its own transaction, and then because
\* the agent has gone.
LEMMA ActionError ==
    ASSUME MessagingInv, NEW h \in Sessions,
           \/ SendMessage(h) \/ BeginTurn(h) \/ BeginDelete(h)
           \/ Statement(h) \/ Renew(h) \/ LoseSession(h)
    PROVE  ErrorStep
<1> SUFFICES ASSUME NEW o \in Sessions, session[o].pc # "idle",
                    session'[o].code \in {"stale", "integrity"}
             PROVE  session[o].agent \notin alive
  BY DEF ErrorStep
<1>1. session[o].code = "none" /\ session[o] \in Session
  BY SessionFacts, FieldTypes DEF Shape
<1>2. CASE o # h
  <2>1. session'[o] = session[o]
    BY <1>2, SessionFacts DEF SendMessage, BeginTurn, BeginDelete, Begin, Statement,
       ListUnconsumed, GetMessage, MarkConsumed, AppendEvent, CheckParent, DeleteAgent,
       CascadeMessage, Commit, AbortDeadlocked, Renew, LoseSession, Raise, Finish
  <2> QED
    BY <1>1, <2>1
<1>3. CASE o = h
  <2>1. CASE MarkConsumed(h)
    <3>1. CASE Raise(h, "stale")
      <4>1. /\ session[h].pc = "mark" /\ message[Min(session[h].todo)] = NoRow
            /\ Min(session[h].todo) \in session[h].loaded
        <5>1. session'[h].code = "stale"
          BY <3>1, SessionFacts DEF Raise, Finish, Idle
        <5>2. message[Min(session[h].todo)] # NoRow => session'[h].code = "none"
          <6>1. PICK t : t = Handled(session[h])
            OBVIOUS
          <6>2. t \in Session /\ t.code = "none"
            <7>1. Shape(session[h]) /\ session[h].pc = "mark"
              BY <2>1, SessionFacts DEF MarkConsumed
            <7>2. t \in Session /\ Shape(t) /\ t.kind = session[h].kind
              BY <1>1, <1>3, <6>1, <7>1, HandledFacts
            <7> QED
              BY <7>1, <7>2 DEF Shape
          <6>3. message[Min(session[h].todo)] # NoRow =>
                   session'[h] = [t EXCEPT !.rows = @ \cup {Min(session[h].todo)}]
            BY <2>1, <6>1, SessionFacts DEF MarkConsumed, Raise
          <6> QED
            BY <6>2, <6>3 DEF Session
        <5> QED
          BY <2>1, <5>1, <5>2 DEF MarkConsumed
      <4>2. Min(session[h].todo) \in Seen(session[h])
        BY <4>1 DEF Seen
      <4> QED
        BY <1>3, <4>1, <4>2 DEF MessagingInv, SeenOfTheAgent
    <3>2. CASE ~Raise(h, "stale")
      <4>1. PICK t : t = Handled(session[h])
        OBVIOUS
      <4>2. Shape(session[h]) /\ session[h].pc = "mark"
        BY <2>1, SessionFacts DEF MarkConsumed
      <4>3. t \in Session /\ Shape(t) /\ t.kind = session[h].kind
        BY <1>1, <1>3, <4>1, <4>2, HandledFacts
      <4>4. t.code = "none"
        BY <4>2, <4>3 DEF Shape
      <4>5. session'[h] = [t EXCEPT !.rows = @ \cup {Min(session[h].todo)}]
        BY <2>1, <3>2, <4>1, SessionFacts DEF MarkConsumed
      <4> QED
        BY <1>3, <4>3, <4>4, <4>5 DEF Session
    <3> QED
      BY <3>1, <3>2
  <2>2. CASE GetMessage(h)
    <3>1. PICK t : t = Handled(session[h])
      OBVIOUS
    <3>2. Shape(session[h]) /\ session[h].pc = "mark"
      BY <2>2, SessionFacts DEF GetMessage
    <3>3. t \in Session /\ Shape(t) /\ t.kind = session[h].kind
      BY <1>1, <1>3, <3>1, <3>2, HandledFacts
    <3>4. t.code = "none"
      BY <3>2, <3>3 DEF Shape
    <3>5. session'[h] = t
          \/ session'[h] = [session[h] EXCEPT !.loaded = @ \cup {Min(session[h].todo)}]
      BY <2>2, <3>1, SessionFacts DEF GetMessage
    <3> QED
      BY <1>1, <1>3, <3>4, <3>5 DEF Session
  <2>3. CASE CheckParent(h)
    BY <1>1, <1>3, <2>3, SessionFacts DEF CheckParent, Raise, Finish, Session
  <2>4. CASE ListUnconsumed(h) \/ AppendEvent(h) \/ DeleteAgent(h) \/ CascadeMessage(h)
             \/ Renew(h)
    <3>1. CASE ListUnconsumed(h)
      BY <1>1, <1>3, <3>1, SessionFacts DEF ListUnconsumed, Session
    <3>2. CASE AppendEvent(h)
      BY <1>1, <1>3, <3>2, SessionFacts DEF AppendEvent, Session
    <3>3. CASE DeleteAgent(h)
      BY <1>1, <1>3, <3>3, SessionFacts DEF DeleteAgent, Session
    <3>4. CASE CascadeMessage(h)
      BY <1>1, <1>3, <3>4, SessionFacts DEF CascadeMessage, Session
    <3>5. CASE Renew(h)
      BY <1>1, <1>3, <3>5, SessionFacts DEF Renew, Session
    <3> QED
      BY <2>4, <3>1, <3>2, <3>3, <3>4, <3>5
  <2>5. CASE Commit(h) \/ AbortDeadlocked(h) \/ LoseSession(h)
    <3>1. session'[h].code \in {"ok", "deadlock", "lost"}
      BY <2>5, SessionFacts DEF Commit, AbortDeadlocked, LoseSession, Raise, Finish, Idle
    <3> QED
      BY <1>3, <3>1
  <2>6. ~(SendMessage(h) \/ BeginTurn(h) \/ BeginDelete(h))
    BY <1>3 DEF SendMessage, BeginTurn, BeginDelete, Begin
  <2> QED
    BY <2>1, <2>2, <2>3, <2>4, <2>5, <2>6 DEF Statement
<1> QED
  BY <1>2, <1>3

\* mark_consumed never flushes a stamp that matches no row, and an insert never
\* misses its parent, unless the agent was deleted (ErrorsMeanDeleted).
THEOREM OnlyDeletionIsAnError == Spec => ErrorsMeanDeleted
<1>1. MessagingInv /\ [Next]_vars => [ErrorStep]_vars
  BY ActionError DEF Next
<1> QED
  BY <1>1, MessagingInvariance, PTL DEF Spec, ErrorsMeanDeleted

-----------------------------------------------------------------------------
(* What one turn per agent at a time adds to MessagingInv: a message is    *)
(* stamped once, and events become visible in order.                       *)

\* What a turn has yet to mark, and what it has marked and not committed, is
\* unconsumed, and these are two different sets.
TurnsFindUnconsumed ==
    \A h \in Sessions : session[h].kind = "turn" =>
        /\ session[h].todo \cap session[h].rows = {}
        /\ \A q \in session[h].todo \cup session[h].rows :
              message[q] # NoRow => ~message[q].consumed

\* An event being appended is above every event of its agent.
EventsAscend ==
    /\ \A q \in 1..MaxEvents : event[q] # NoAgent => q <= eventSeq
    /\ \A h \in Sessions : session[h].kind = "turn" /\ session[h].own # 0 =>
          \A q \in 1..MaxEvents : event[q] = session[h].agent => q < session[h].own

TurnsInv ==
    /\ MessagingInv
    /\ OneTurnPerAgent
    /\ TurnsFindUnconsumed
    /\ EventsAscend

-----------------------------------------------------------------------------
(* What a step must satisfy for the invariant.                             *)

\* What s, the session of a turn, needs of the tables as they are and as a
\* step leaves them.
Unconsumed(s) ==
    /\ s.todo \cap s.rows = {}
    /\ \A q \in s.todo \cup s.rows : message[q] # NoRow => ~message[q].consumed

Ascends(s) ==
    s.own # 0 => \A q \in 1..MaxEvents : event[q] = s.agent => q < s.own

\* A step of one transaction under one turn per agent: what it must satisfy
\* for the invariant.
LEMMA TurnsStep ==
    ASSUME TurnsInv, MessagingInv', NEW h \in Sessions, NEW s,
           session' = [session EXCEPT ![h] = s],
           \/ s.kind # "turn"
           \/ session[h].kind = "turn" /\ session[h].agent = s.agent
           \/ OneTurnPerAgent',
           s.kind = "turn" => Unconsumed(s)' /\ Ascends(s)',
           \A o \in Others(h) : session[o].kind = "turn" =>
              \A q \in session[o].todo \cup session[o].rows :
                 message'[q] # NoRow => ~message'[q].consumed,
           \A o \in Others(h) : session[o].kind = "turn" /\ session[o].own # 0 =>
              \A q \in 1..MaxEvents : event'[q] = session[o].agent => q < session[o].own,
           \A q \in 1..MaxEvents : event'[q] # NoAgent => q <= eventSeq'
    PROVE  TurnsInv'
<1>1. /\ session'[h] = s
      /\ \A o \in Others(h) : session'[o] = session[o]
  BY SessionFacts DEF TurnsInv, Others
<1>2. OneTurnPerAgent'
  BY <1>1 DEF TurnsInv, OneTurnPerAgent, Others
<1>3. TurnsFindUnconsumed'
  <2>1. ASSUME NEW o \in Sessions, session'[o].kind = "turn"
        PROVE  /\ session'[o].todo \cap session'[o].rows = {}
               /\ \A q \in session'[o].todo \cup session'[o].rows :
                     message'[q] # NoRow => ~message'[q].consumed
    <3>1. CASE o = h
      BY <1>1, <2>1, <3>1 DEF Unconsumed
    <3>2. CASE o # h
      <4>1. Unconsumed(session[o]) /\ session'[o] = session[o] /\ o \in Others(h)
        BY <1>1, <2>1, <3>2 DEF TurnsInv, TurnsFindUnconsumed, Unconsumed, Others
      <4> QED
        BY <2>1, <4>1 DEF Unconsumed
    <3> QED
      BY <3>1, <3>2
  <2> QED
    BY <2>1 DEF TurnsFindUnconsumed
<1>4. EventsAscend'
  <2>1. ASSUME NEW o \in Sessions, session'[o].kind = "turn", session'[o].own # 0,
               NEW q \in 1..MaxEvents, event'[q] = session'[o].agent
        PROVE  q < session'[o].own
    <3>1. CASE o = h
      BY <1>1, <2>1, <3>1 DEF Ascends
    <3>2. CASE o # h
      BY <1>1, <2>1, <3>2 DEF Others
    <3> QED
      BY <3>1, <3>2
  <2> QED
    BY <2>1 DEF EventsAscend
<1> QED
  BY <1>2, <1>3, <1>4 DEF TurnsInv

\* A step that writes no table.
LEMMA TurnsLocalStep ==
    ASSUME TurnsInv, MessagingInv', NEW h \in Sessions, NEW s,
           session' = [session EXCEPT ![h] = s], UNCHANGED tables,
           eventSeq \in Nat, eventSeq' \in Nat, eventSeq <= eventSeq',
           \/ s.kind # "turn"
           \/ session[h].kind = "turn" /\ session[h].agent = s.agent
           \/ OneTurnPerAgent',
           s.kind = "turn" => Unconsumed(s) /\ Ascends(s)
    PROVE  TurnsInv'
<1>1. message' = message /\ event' = event
  BY DEF tables
<1>2. s.kind = "turn" => Unconsumed(s)' /\ Ascends(s)'
  BY <1>1 DEF Unconsumed, Ascends
<1>3. \A q \in 1..MaxEvents : event'[q] # NoAgent => q <= eventSeq'
  BY <1>1 DEF TurnsInv, EventsAscend
<1>4. \A o \in Others(h) : session[o].kind = "turn" /\ session[o].own # 0 =>
         \A q \in 1..MaxEvents : event'[q] = session[o].agent => q < session[o].own
  BY <1>1 DEF TurnsInv, EventsAscend, Others
<1>5. \A o \in Others(h) : session[o].kind = "turn" =>
         \A q \in session[o].todo \cup session[o].rows :
            message'[q] # NoRow => ~message'[q].consumed
  BY <1>1 DEF TurnsInv, TurnsFindUnconsumed, Others
<1> QED
  BY <1>2, <1>3, <1>4, <1>5, TurnsStep

\* A turn's session, as the invariant has it.
LEMMA TurnFacts ==
    ASSUME TurnsInv, NEW h \in Sessions
    PROVE  /\ session[h] \in Session /\ Shape(session[h])
           /\ session[h].kind = "turn" => Unconsumed(session[h]) /\ Ascends(session[h])
           /\ eventSeq \in Nat /\ MessagingInv
BY SessionFacts, TableFacts
   DEF TurnsInv, TurnsFindUnconsumed, EventsAscend, Unconsumed, Ascends

-----------------------------------------------------------------------------
(* The actions.                                                            *)

\* Whatever ends or begins here is no turn.
LEMMA NoTurnStep ==
    ASSUME TurnsInv, MessagingInv', NEW h \in Sessions, NEW s,
           session' = [session EXCEPT ![h] = s], UNCHANGED <<tables, eventSeq>>,
           s.kind # "turn"
    PROVE  TurnsInv'
<1>1. eventSeq \in Nat /\ eventSeq' \in Nat /\ eventSeq <= eventSeq'
  BY TableFacts DEF TurnsInv
<1> QED
  BY <1>1, TurnsLocalStep

\* A turn goes on, or begins where there is no other.
LEMMA TurnGoesOn ==
    ASSUME TurnsInv, MessagingInv', NEW h \in Sessions, NEW s,
           session' = [session EXCEPT ![h] = s], UNCHANGED <<tables, eventSeq>>,
           \/ session[h].kind = "turn" /\ session[h].agent = s.agent
           \/ OneTurnPerAgent',
           Unconsumed(s), Ascends(s)
    PROVE  TurnsInv'
<1>1. eventSeq \in Nat /\ eventSeq' \in Nat /\ eventSeq <= eventSeq'
  BY TableFacts DEF TurnsInv
<1> QED
  BY <1>1, TurnsLocalStep

\* A session that ends without a commit leaves the others as they were.
LEMMA TurnsRaise ==
    ASSUME TurnsInv, MessagingInv', NEW h \in Sessions, NEW code,
           Finish(h, code), UNCHANGED <<tables, eventSeq>>
    PROVE  TurnsInv'
<1>1. PICK s : s = [Idle EXCEPT !.code = code]
  OBVIOUS
<1>2. s.kind # "turn" /\ session' = [session EXCEPT ![h] = s]
  BY <1>1 DEF Idle, Finish
<1> QED
  BY <1>2, NoTurnStep

\* A turn begins where its agent has no other.
LEMMA TurnsBegin ==
    ASSUME TurnsInv, MessagingInv', NEW h \in Sessions,
           \/ SendMessage(h) \/ BeginDelete(h)
           \/ BeginTurn(h) /\ OneTurnPerAgent'
    PROVE  TurnsInv'
<1>1. CASE SendMessage(h)
  <2>1. PICK a \in Agents : session' = [session EXCEPT ![h] =
           [Idle EXCEPT !.pc = "check", !.kind = "send", !.agent = a, !.own = messageSeq']]
    BY <1>1 DEF SendMessage, Seq
  <2>2. PICK s : s = [Idle EXCEPT !.pc = "check", !.kind = "send", !.agent = a,
                                  !.own = messageSeq']
    OBVIOUS
  <2>3. s.kind # "turn"
    BY <2>2 DEF Idle
  <2>4. UNCHANGED <<tables, eventSeq>>
    BY <1>1 DEF SendMessage
  <2> QED
    BY <2>1, <2>2, <2>3, <2>4, NoTurnStep
<1>2. CASE BeginDelete(h)
  <2>1. PICK a \in Agents : session' = [session EXCEPT ![h] =
           [Idle EXCEPT !.pc = "delete", !.kind = "delete", !.agent = a]]
    BY <1>2 DEF BeginDelete, Begin
  <2>2. PICK s : s = [Idle EXCEPT !.pc = "delete", !.kind = "delete", !.agent = a]
    OBVIOUS
  <2>3. s.kind # "turn"
    BY <2>2 DEF Idle
  <2>4. UNCHANGED <<tables, eventSeq>>
    BY <1>2 DEF BeginDelete, Begin, counters
  <2> QED
    BY <2>1, <2>2, <2>3, <2>4, NoTurnStep
<1>3. CASE BeginTurn(h) /\ OneTurnPerAgent'
  <2>1. PICK a \in Agents : session' = [session EXCEPT ![h] =
           [Idle EXCEPT !.pc = "list", !.kind = "turn", !.agent = a]]
    BY <1>3 DEF BeginTurn, Begin
  <2>2. PICK s : s = [Idle EXCEPT !.pc = "list", !.kind = "turn", !.agent = a]
    OBVIOUS
  <2>3. s.todo = {} /\ s.rows = {} /\ s.own = 0
    BY <2>2 DEF Idle
  <2>4. UNCHANGED <<tables, eventSeq>>
    BY <1>3 DEF BeginTurn, Begin, counters
  <2>5. Unconsumed(s) /\ Ascends(s)
    BY <2>3 DEF Unconsumed, Ascends
  <2> QED
    BY <1>3, <2>1, <2>2, <2>4, <2>5, TurnGoesOn
<1> QED
  BY <1>1, <1>2, <1>3

\* What is listed is unconsumed.
LEMMA TurnsList ==
    ASSUME TurnsInv, MessagingInv', NEW h \in Sessions, ListUnconsumed(h) PROVE TurnsInv'
<1>1. PICK r : r = session[h]
  OBVIOUS
<1>2. PICK listed : listed = {q \in MessagesOf(r.agent) : ~message[q].consumed}
  OBVIOUS
<1>3. PICK s : s = [r EXCEPT !.todo = listed, !.loaded = listed,
                             !.pc = IF listed = {} THEN "work" ELSE "mark"]
  OBVIOUS
<1>4. r \in Session /\ Shape(r) /\ r.pc = "list"
  BY <1>1, TurnFacts DEF ListUnconsumed
<1>5. session' = [session EXCEPT ![h] = s] /\ UNCHANGED <<tables, eventSeq>>
  BY <1>1, <1>2, <1>3 DEF ListUnconsumed, counters
<1>6. /\ s.kind = r.kind /\ s.agent = r.agent /\ s.todo = listed /\ s.rows = {} /\ s.own = 0
      /\ r.kind = "turn"
  BY <1>3, <1>4 DEF Session, Shape
<1>7. Unconsumed(s) /\ Ascends(s)
  BY <1>2, <1>6 DEF Unconsumed, Ascends
<1> QED
  BY <1>1, <1>5, <1>6, <1>7, TurnGoesOn

\* Loading a message changes no row.
LEMMA TurnsGet ==
    ASSUME TurnsInv, MessagingInv', NEW h \in Sessions, GetMessage(h) PROVE TurnsInv'
<1>1. PICK r : r = session[h]
  OBVIOUS
<1>2. PICK s : s = IF message[Min(r.todo)] = NoRow THEN Handled(r)
                   ELSE [r EXCEPT !.loaded = @ \cup {Min(r.todo)}]
  OBVIOUS
<1>3. r \in Session /\ Shape(r) /\ r.pc = "mark" /\ r.kind = "turn"
  BY <1>1, TurnFacts DEF GetMessage, Shape
<1>4. session' = [session EXCEPT ![h] = s] /\ UNCHANGED <<tables, eventSeq>>
  BY <1>1, <1>2 DEF GetMessage, counters
<1>5. /\ s.kind = r.kind /\ s.agent = r.agent /\ s.own = r.own
      /\ s.todo \subseteq r.todo /\ s.rows = r.rows
  <2>1. CASE message[Min(r.todo)] = NoRow
    BY <1>2, <1>3, <2>1, TurnFacts, HandledFacts
  <2>2. CASE message[Min(r.todo)] # NoRow
    BY <1>2, <1>3, <2>2 DEF Session
  <2> QED
    BY <2>1, <2>2
<1>6. Unconsumed(s) /\ Ascends(s)
  BY <1>1, <1>3, <1>5, TurnFacts DEF Unconsumed, Ascends
<1> QED
  BY <1>1, <1>3, <1>4, <1>5, <1>6, TurnGoesOn

\* What a turn stamps it no longer has to stamp.
LEMMA TurnsMark ==
    ASSUME TurnsInv, MessagingInv', NEW h \in Sessions, MarkConsumed(h) PROVE TurnsInv'
<1>1. CASE Raise(h, "stale")
  BY <1>1, TurnsRaise DEF Raise, counters
<1>2. CASE ~Raise(h, "stale")
  <2>1. PICK r : r = session[h]
    OBVIOUS
  <2>2. r \in Session /\ Shape(r) /\ r.pc = "mark" /\ r.kind = "turn"
    BY <2>1, TurnFacts DEF MarkConsumed, Shape
  <2>3. PICK t : t = Handled(r)
    OBVIOUS
  <2>4. PICK s : s = [t EXCEPT !.rows = @ \cup {Min(r.todo)}]
    OBVIOUS
  <2>5. session' = [session EXCEPT ![h] = s] /\ UNCHANGED <<tables, eventSeq>>
    BY <1>2, <2>1, <2>3, <2>4 DEF MarkConsumed, counters
  <2>6. /\ t \in Session /\ t.kind = r.kind /\ t.agent = r.agent /\ t.own = r.own
        /\ t.rows = r.rows /\ t.todo = r.todo \ {Min(r.todo)} /\ Min(r.todo) \in r.todo
    BY <2>2, <2>3, TurnFacts, HandledFacts
  <2>7. /\ s.kind = r.kind /\ s.agent = r.agent /\ s.own = r.own
        /\ s.todo = r.todo \ {Min(r.todo)} /\ s.rows = r.rows \cup {Min(r.todo)}
    BY <2>4, <2>6 DEF Session
  <2>8. Unconsumed(s) /\ Ascends(s)
    <3>1. Unconsumed(r) /\ Ascends(r)
      BY <2>1, <2>2, TurnFacts
    <3>2. s.todo \cap s.rows = {} /\ s.todo \cup s.rows \subseteq r.todo \cup r.rows
      BY <2>6, <2>7, <3>1 DEF Unconsumed
    <3> QED
      BY <2>7, <3>1, <3>2 DEF Unconsumed, Ascends
  <2> QED
    BY <2>1, <2>2, <2>5, <2>7, <2>8, TurnGoesOn
<1> QED
  BY <1>1, <1>2

\* Locks alone change nothing a turn relies on.
LEMMA TurnsOther ==
    ASSUME TurnsInv, MessagingInv', NEW h \in Sessions,
           CheckParent(h) \/ DeleteAgent(h) \/ CascadeMessage(h)
    PROVE  TurnsInv'
<1>1. PICK r : r = session[h]
  OBVIOUS
<1>2. r \in Session /\ Shape(r)
  BY <1>1, TurnFacts
<1>3. CASE CheckParent(h)
  <2>1. CASE Raise(h, "integrity")
    BY <2>1, TurnsRaise DEF Raise, counters
  <2>2. CASE ~Raise(h, "integrity")
    <3>1. PICK s : s = [r EXCEPT !.held = "keyshare", !.pc = "commit"]
      OBVIOUS
    <3>2. session' = [session EXCEPT ![h] = s] /\ UNCHANGED <<tables, eventSeq>>
      BY <1>1, <1>3, <2>2, <3>1 DEF CheckParent, counters
    <3>3. /\ s.kind = r.kind /\ s.agent = r.agent /\ s.own = r.own
          /\ s.todo = r.todo /\ s.rows = r.rows
      BY <1>2, <3>1 DEF Session
    <3>4. CASE r.kind = "turn"
      <4>1. Unconsumed(s) /\ Ascends(s)
        BY <1>1, <3>3, <3>4, TurnFacts DEF Unconsumed, Ascends
      <4> QED
        BY <1>1, <3>2, <3>3, <3>4, <4>1, TurnGoesOn
    <3>5. CASE r.kind # "turn"
      BY <3>2, <3>3, <3>5, NoTurnStep
    <3> QED
      BY <3>4, <3>5
  <2> QED
    BY <2>1, <2>2
<1>4. CASE DeleteAgent(h)
  <2>1. PICK s : s = [r EXCEPT !.held = IF r.agent \in alive THEN "update" ELSE "none",
                               !.pc = IF r.agent \in alive THEN "cascade" ELSE "commit"]
    OBVIOUS
  <2>2. session' = [session EXCEPT ![h] = s] /\ UNCHANGED <<tables, eventSeq>>
    BY <1>1, <1>4, <2>1 DEF DeleteAgent, counters
  <2>3. s.kind # "turn"
    BY <1>1, <1>2, <1>4, <2>1 DEF DeleteAgent, Shape, Session
  <2> QED
    BY <2>2, <2>3, NoTurnStep
<1>5. CASE CascadeMessage(h)
  <2>1. PICK q : session' = [session EXCEPT ![h].rows = @ \cup {q}]
    BY <1>5 DEF CascadeMessage
  <2>2. PICK s : s = [r EXCEPT !.rows = @ \cup {q}]
    OBVIOUS
  <2>3. session' = [session EXCEPT ![h] = s] /\ UNCHANGED <<tables, eventSeq>>
    BY <1>1, <1>5, <2>1, <2>2 DEF CascadeMessage, counters
  <2>4. s.kind # "turn"
    BY <1>1, <1>2, <1>5, <2>2 DEF CascadeMessage, Shape, Session
  <2> QED
    BY <2>3, <2>4, NoTurnStep
<1> QED
  BY <1>3, <1>4, <1>5

\* An event draws a number above all events of its agent.
LEMMA TurnsAppend ==
    ASSUME TurnsInv, MessagingInv', NEW h \in Sessions, AppendEvent(h) PROVE TurnsInv'
<1>1. PICK r : r = session[h]
  OBVIOUS
<1>2. PICK s : s = [r EXCEPT !.pc = "check", !.own = eventSeq + 1]
  OBVIOUS
<1>3. r \in Session /\ Shape(r) /\ r.pc = "work" /\ r.kind = "turn" /\ eventSeq \in Nat
  BY <1>1, TurnFacts DEF AppendEvent, Shape
<1>4. /\ session' = [session EXCEPT ![h] = s] /\ UNCHANGED tables
      /\ eventSeq' = eventSeq + 1
  BY <1>1, <1>2 DEF AppendEvent, Seq
<1>5. /\ s.kind = r.kind /\ s.agent = r.agent /\ s.own = eventSeq + 1
      /\ s.todo = r.todo /\ s.rows = r.rows /\ r.agent \in Agents
  BY <1>2, <1>3 DEF Session, Shape
<1>6. Unconsumed(s)
  BY <1>1, <1>3, <1>5, TurnFacts DEF Unconsumed
<1>7. Ascends(s)
  <2>1. ASSUME NEW q \in 1..MaxEvents, event[q] = s.agent PROVE q < s.own
    <3>1. q <= eventSeq
      BY <1>5, <2>1, NoAgentAssumption DEF TurnsInv, EventsAscend
    <3> QED
      BY <1>3, <1>5, <3>1, BoundsAssumption
  <2> QED
    BY <2>1 DEF Ascends
<1>8. eventSeq \in Nat /\ eventSeq' \in Nat /\ eventSeq <= eventSeq'
  BY <1>3, <1>4
<1> QED
  BY <1>1, <1>3, <1>4, <1>5, <1>6, <1>7, <1>8, TurnsLocalStep

-----------------------------------------------------------------------------
(* The commits.                                                            *)

\* Under one turn per agent, nobody else stamps what a turn knows of.
LEMMA NobodyElseStamps ==
    ASSUME TurnsInv, NEW h \in Sessions, session[h].kind = "turn",
           message' = MessageAfter(session[h]),
           NEW o \in Others(h), session[o].kind = "turn",
           NEW q \in session[o].todo \cup session[o].rows, message'[q] # NoRow
    PROVE  ~message'[q].consumed
<1>1. PICK r : r = session[h]
  OBVIOUS
<1>2. o \in Sessions /\ q \in Seen(session[o]) /\ q \in 1..MaxMessages
  BY SeenInTable DEF TurnsInv, Others, Seen
<1>3. q \notin r.rows
  <2>1. ASSUME q \in r.rows PROVE FALSE
    <3>1. message[q] # NoRow /\ message[q].agent = r.agent
      BY <1>1, <2>1 DEF TurnsInv, MessagingInv, RowsExclude, SeenOfTheAgent, Seen
    <3>2. message[q].agent = session[o].agent
      BY <1>2, <3>1 DEF TurnsInv, MessagingInv, SeenOfTheAgent
    <3> QED
      BY <1>1, <3>1, <3>2 DEF TurnsInv, OneTurnPerAgent, Others
  <2> QED
    BY <2>1
<1>4. message'[q] = message[q]
  BY <1>1, <1>2, <1>3 DEF MessageAfter
<1> QED
  BY <1>2, <1>4 DEF TurnsInv, TurnsFindUnconsumed

\* A turn that commits half way stamps no message it has still to stamp.
LEMMA TurnsRenew ==
    ASSUME TurnsInv, MessagingInv', NEW h \in Sessions, Renew(h) PROVE TurnsInv'
<1>1. PICK r : r = session[h]
  OBVIOUS
<1>2. PICK s : s = [r EXCEPT !.loaded = {}, !.rows = {}]
  OBVIOUS
<1>3. /\ r \in Session /\ Shape(r) /\ r.pc = "mark" /\ r.kind = "turn" /\ r.own = 0
      /\ Unconsumed(r) /\ eventSeq \in Nat
  BY <1>1, TurnFacts DEF Renew, Shape
<1>4. /\ session' = [session EXCEPT ![h] = s] /\ eventSeq' = eventSeq
      /\ event' = event /\ message' = MessageAfter(r)
  BY <1>1, <1>2 DEF Renew, counters
<1>5. /\ s.kind = r.kind /\ s.agent = r.agent /\ s.own = r.own
      /\ s.todo = r.todo /\ s.rows = {}
  BY <1>2, <1>3 DEF Session
<1>6. Unconsumed(s)'
  <2>1. ASSUME NEW q \in r.todo, message'[q] # NoRow PROVE ~message'[q].consumed
    <3>1. q \notin r.rows /\ q \in 1..MaxMessages
      BY <1>1, <1>3, SeenInTable DEF Unconsumed, TurnsInv, Seen
    <3>2. message'[q] = message[q]
      BY <1>3, <1>4, <3>1 DEF MessageAfter
    <3> QED
      BY <1>3, <2>1, <3>2 DEF Unconsumed
  <2> QED
    BY <1>5, <2>1 DEF Unconsumed
<1>7. Ascends(s)'
  BY <1>3, <1>5 DEF Ascends
<1>8. \A o \in Others(h) : session[o].kind = "turn" =>
         \A q \in session[o].todo \cup session[o].rows :
            message'[q] # NoRow => ~message'[q].consumed
  BY <1>1, <1>3, <1>4, NobodyElseStamps
<1>9. /\ \A o \in Others(h) : session[o].kind = "turn" /\ session[o].own # 0 =>
            \A q \in 1..MaxEvents : event'[q] = session[o].agent => q < session[o].own
      /\ \A q \in 1..MaxEvents : event'[q] # NoAgent => q <= eventSeq'
  BY <1>4 DEF TurnsInv, EventsAscend, Others
<1> QED
  BY <1>1, <1>3, <1>4, <1>5, <1>6, <1>7, <1>8, <1>9, TurnsStep

\* The events as a commit leaves them: some are gone, and a turn's is there.
LEMMA CommittedEvents ==
    ASSUME TurnsInv, NEW h \in Sessions, Commit(h), NEW q \in 1..MaxEvents
    PROVE  \/ event'[q] \in {event[q], NoAgent}
           \/ /\ session[h].kind = "turn" /\ q = session[h].own
              /\ event'[q] = session[h].agent
<1>1. PICK r : r = session[h]
  OBVIOUS
<1>2. event' = EventAfter(r)
  BY <1>1 DEF Commit
<1> QED
  BY <1>1, <1>2 DEF EventAfter

\* A commit stamps messages that no other turn has listed.
LEMMA TurnsCommit ==
    ASSUME TurnsInv, MessagingInv', NEW h \in Sessions, Commit(h) PROVE TurnsInv'
<1>1. PICK r : r = session[h]
  OBVIOUS
<1>2. PICK s : s = [Idle EXCEPT !.code = "ok"]
  OBVIOUS
<1>3. /\ session' = [session EXCEPT ![h] = s] /\ s.kind = "none"
      /\ eventSeq' = eventSeq /\ message' = MessageAfter(r)
  BY <1>1, <1>2 DEF Commit, Finish, Idle, counters
<1>4. Shape(r) /\ eventSeq \in Nat /\ r.kind \in {"send", "turn", "delete"}
  BY <1>1, TurnFacts, FieldTypes DEF Commit, Ready, Shape
<1>5. ASSUME NEW o \in Others(h), session[o].kind = "turn",
             NEW q \in session[o].todo \cup session[o].rows, message'[q] # NoRow
      PROVE  ~message'[q].consumed
  <2>1. /\ o \in Sessions /\ q \in 1..MaxMessages
        /\ message[q] # NoRow => ~message[q].consumed
    BY <1>5, SeenInTable DEF TurnsInv, TurnsFindUnconsumed, Others, Seen
  <2>2. CASE r.kind = "turn"
    BY <1>1, <1>3, <1>5, <2>2, NobodyElseStamps
  <2>3. CASE r.kind = "send"
    <3>1. message'[q] \in {message[q], [agent |-> r.agent, consumed |-> FALSE]}
      BY <1>3, <2>1, <2>3 DEF MessageAfter
    <3> QED
      BY <1>5, <2>1, <3>1
  <2>4. CASE r.kind = "delete"
    <3>1. message'[q] \in {message[q], NoRow}
      BY <1>3, <2>1, <2>4 DEF MessageAfter
    <3> QED
      BY <1>5, <2>1, <3>1
  <2> QED
    BY <1>4, <2>2, <2>3, <2>4
<1>6. ASSUME NEW o \in Others(h), session[o].kind = "turn", session[o].own # 0,
             NEW q \in 1..MaxEvents, event'[q] = session[o].agent
      PROVE  q < session[o].own
  <2>1. o \in Sessions /\ o # h /\ session[o].agent # NoAgent
    BY <1>6, TurnFacts, NoAgentAssumption DEF Others, Shape
  <2>2. event'[q] = event[q]
    BY <1>1, <1>6, <2>1, CommittedEvents DEF TurnsInv, OneTurnPerAgent
  <2> QED
    BY <1>6, <2>1, <2>2 DEF TurnsInv, EventsAscend
<1>7. ASSUME NEW q \in 1..MaxEvents, event'[q] # NoAgent PROVE q <= eventSeq'
  <2>1. CASE event'[q] = event[q]
    BY <1>3, <1>7, <2>1 DEF TurnsInv, EventsAscend
  <2>2. CASE r.kind = "turn" /\ q = r.own
    BY <1>3, <1>4, <2>2 DEF Shape
  <2> QED
    BY <1>1, <1>7, <2>1, <2>2, CommittedEvents
<1> QED
  BY <1>3, <1>5, <1>6, <1>7, TurnsStep

-----------------------------------------------------------------------------
(* Theorems.                                                               *)

\* The invariant of turns holds of the empty tables.
LEMMA InitTurns == Init => TurnsInv
<1> SUFFICES ASSUME Init PROVE TurnsInv
  OBVIOUS
<1>1. MessagingInv
  BY InitMessaging
<1>2. \A h \in Sessions : session[h].kind = "none"
  BY DEF Init, Idle
<1>3. OneTurnPerAgent /\ TurnsFindUnconsumed
  BY <1>2 DEF OneTurnPerAgent, TurnsFindUnconsumed
<1>4. EventsAscend
  BY <1>2 DEF Init, EventsAscend
<1> QED
  BY <1>1, <1>3, <1>4 DEF TurnsInv

\* With one turn per agent every step preserves it.
LEMMA NextTurnsInv == TurnsInv /\ [ExclusiveNext]_vars => TurnsInv'
<1> SUFFICES ASSUME TurnsInv, [ExclusiveNext]_vars PROVE TurnsInv'
  OBVIOUS
<1>1. MessagingInv'
  BY NextMessagingInv DEF TurnsInv, ExclusiveNext, Next
<1>2. CASE UNCHANGED vars
  <2>1. /\ message' = message /\ event' = event /\ session' = session
        /\ eventSeq' = eventSeq
    BY <1>2 DEF vars
  <2> QED
    BY <1>1, <2>1 DEF TurnsInv, OneTurnPerAgent, TurnsFindUnconsumed, EventsAscend
<1>3. ASSUME NEW h \in Sessions,
             \/ SendMessage(h) \/ BeginDelete(h)
             \/ BeginTurn(h) /\ OneTurnPerAgent'
             \/ Statement(h) \/ Renew(h) \/ LoseSession(h)
      PROVE  TurnsInv'
  <2>1. CASE SendMessage(h) \/ BeginDelete(h) \/ (BeginTurn(h) /\ OneTurnPerAgent')
    BY <1>1, <2>1, TurnsBegin
  <2>2. CASE ListUnconsumed(h) \/ GetMessage(h) \/ MarkConsumed(h)
    BY <1>1, <2>2, TurnsList, TurnsGet, TurnsMark
  <2>3. CASE CheckParent(h) \/ DeleteAgent(h) \/ CascadeMessage(h) \/ AppendEvent(h)
    BY <1>1, <2>3, TurnsOther, TurnsAppend
  <2>4. CASE Commit(h) \/ Renew(h)
    BY <1>1, <2>4, TurnsCommit, TurnsRenew
  <2>5. CASE AbortDeadlocked(h) \/ LoseSession(h)
    BY <1>1, <2>5, TurnsRaise DEF AbortDeadlocked, LoseSession, Raise, counters
  <2> QED
    BY <1>3, <2>1, <2>2, <2>3, <2>4, <2>5 DEF Statement
<1> QED
  BY <1>2, <1>3 DEF ExclusiveNext

\* The invariant, of every behaviour with one turn per agent at a time.
THEOREM TurnsInvariance == ExclusiveSpec => []TurnsInv
BY InitTurns, NextTurnsInv, PTL DEF ExclusiveSpec

\* With one turn per agent at a time, whoever stamps a message finds it
\* unconsumed, so mark_consumed may write over consumed_at (NoSecondStamp).
THEOREM MessagesAreStampedOnce == ExclusiveSpec => []NoSecondStamp
<1>1. TurnsInv => NoSecondStamp
  BY DEF TurnsInv, MessagingInv, RowsExclude, TurnsFindUnconsumed, NoSecondStamp
<1> QED
  BY <1>1, TurnsInvariance, PTL

\* Only a commit makes an event visible.
LEMMA OnlyCommitsWriteEvents ==
    ASSUME NEW h \in Sessions,
           \/ SendMessage(h) \/ BeginDelete(h) \/ BeginTurn(h)
           \/ Statement(h) \/ Renew(h) \/ LoseSession(h),
           ~Commit(h)
    PROVE  event' = event
BY DEF SendMessage, BeginTurn, BeginDelete, Begin, Statement, ListUnconsumed, GetMessage,
   MarkConsumed, AppendEvent, CheckParent, DeleteAgent, CascadeMessage, AbortDeadlocked,
   Renew, LoseSession, Raise, tables

\* With one turn per agent at a time, a reader that pages events by seq misses
\* none (EventCursorNeverSkips).
THEOREM EventsAppearInOrder == ExclusiveSpec => EventCursorNeverSkips
<1>1. ASSUME TurnsInv, NEW h \in Sessions,
             \/ SendMessage(h) \/ BeginDelete(h) \/ BeginTurn(h)
             \/ Statement(h) \/ Renew(h) \/ LoseSession(h)
      PROVE  EventStep
  <2> SUFFICES ASSUME NEW p \in 1..MaxEvents, NEW q \in 1..MaxEvents,
                      event[p] # NoAgent, event[q] = NoAgent, event'[q] = event[p]
               PROVE  p < q
    BY DEF EventStep
  <2>1. Commit(h)
    BY <1>1, OnlyCommitsWriteEvents
  <2>2. session[h].kind = "turn" /\ q = session[h].own /\ event[p] = session[h].agent
    BY <1>1, <2>1, CommittedEvents
  <2>3. q # 0
    OBVIOUS
  <2> QED
    BY <1>1, <2>2, <2>3 DEF TurnsInv, EventsAscend
<1>2. TurnsInv /\ [ExclusiveNext]_vars => [EventStep]_vars
  BY <1>1 DEF ExclusiveNext
<1> QED
  BY <1>2, TurnsInvariance, PTL DEF ExclusiveSpec, EventCursorNeverSkips

=============================================================================
