------------------------------ MODULE Messaging ------------------------------
(***************************************************************************)
(* Messages sent to running agents and the events agents emit: the tables  *)
(* `message` and `event`, MessageRepository and EventRepository, over the  *)
(* same PostgreSQL as AgentsApi and under the same session_scope.          *)
(*                                                                         *)
(* The repositories leave the transaction boundary to their callers, which *)
(* docs/persistence.md assigns to later workstreams.  Three kinds of       *)
(* caller run here, many at a time:                                        *)
(*                                                                         *)
(*    send      insert -> check -> commit           (a message for an agent) *)
(*    turn      list -> mark* -> work [-> check] -> commit  (the loop, W9) *)
(*    delete    delete -> cascade -> commit         (AgentRepository.delete) *)
(*                                                                         *)
(* A turn drains list_unconsumed through mark_consumed, then may append an *)
(* event.  It may commit between two marks and go on in a new session.     *)
(* `insert` draws the row's seq, `check` is the foreign key's.  A row is   *)
(* known by its seq.                                                       *)
(***************************************************************************)
EXTENDS Integers, FiniteSetsExt

CONSTANTS Agents,       \* agents with a run, there from the start
          Sessions,     \* transactions that may be open together
          Kinds,        \* the kinds of caller this instance has
          MaxMessages,  \* bound: values the identity of message.seq hands out
          MaxEvents,    \* bound: values the identity of event.seq hands out
          MaxLosses,    \* bound: sessions lost in a behaviour
          NoRow,        \* a row that is not there
          NoAgent       \* the agent of an idle session, of an event not there

AllKinds == {"send", "turn", "delete"}

Row == [agent : Agents, consumed : BOOLEAN]

ASSUME KindsAssumption == Kinds \subseteq AllKinds
ASSUME BoundsAssumption ==
    MaxMessages \in Nat /\ MaxEvents \in Nat /\ MaxLosses \in Nat
ASSUME NoRowAssumption == NoRow \notin Row
ASSUME NoAgentAssumption == NoAgent \notin Agents

VARIABLES
    alive,      \* the agents that have a committed row
    message,    \* message[q]: the committed message of seq q, or NoRow
    event,      \* event[q]: the agent of the committed event of seq q, or NoAgent
    messageSeq, \* the last value the identity of message.seq gave
    eventSeq,   \* the last value the identity of event.seq gave
    losses,     \* sessions lost so far
    session     \* session[h]: the transaction h runs

vars == <<alive, message, event, messageSeq, eventSeq, losses, session>>
tables == <<alive, message, event>>
counters == <<messageSeq, eventSeq, losses>>

\* todo: listed and not yet marked; loaded: in the identity map; rows: message
\* rows written and locked; own: the seq of the row inserted; held: the lock
\* on the agent's row.
Idle == [pc |-> "idle", kind |-> "none", agent |-> NoAgent, todo |-> {},
         loaded |-> {}, rows |-> {}, own |-> 0, held |-> "none", code |-> "none"]

Init ==
    /\ alive = Agents
    /\ message = [q \in 1..MaxMessages |-> NoRow]
    /\ event = [q \in 1..MaxEvents |-> NoAgent]
    /\ messageSeq = 0
    /\ eventSeq = 0
    /\ losses = 0
    /\ session = [h \in Sessions |-> Idle]

MessagesOf(a) == {q \in 1..MaxMessages : message[q] # NoRow /\ message[q].agent = a}

-----------------------------------------------------------------------------
(* PostgreSQL: who waits for whom.                                         *)

\* The transactions other than h that keep h's next statement waiting.  A
\* turn waits for the row it stamps, an insert (KEY SHARE on its agent) for a
\* delete of the agent, a delete for every lock on the agent, a cascade for
\* the message rows others have stamped.
Blockers(h) ==
    LET s == session[h]
        others == {o \in Sessions \ {h} : session[o].pc # "idle"}
        onAgent == {o \in others : session[o].agent = s.agent}
        rest == MessagesOf(s.agent) \ s.rows
    IN  CASE s.pc = "mark" /\ Min(s.todo) \in s.loaded ->
                {o \in others : Min(s.todo) \in session[o].rows}
          [] s.pc = "check"   -> {o \in onAgent : session[o].held = "update"}
          [] s.pc = "delete"  -> {o \in onAgent : session[o].held # "none"}
          [] s.pc = "cascade" -> {o \in others : session[o].rows \cap rest # {}}
          [] OTHER            -> {}

\* h is in a ring of transactions each of which waits for another.
Deadlocked(h) ==
    \E ring \in SUBSET Sessions :
        /\ h \in ring
        /\ \A o \in ring : /\ Blockers(o) \cap ring # {}
                           /\ \E p \in ring : o \in Blockers(p)

-----------------------------------------------------------------------------
(* How a transaction begins and ends.                                      *)

\* BEGIN, ahead of the first statement.
Begin(h, kind, step) ==
    /\ session[h].pc = "idle"
    /\ kind \in Kinds
    /\ \E a \in Agents : session' = [session EXCEPT ![h] =
          [Idle EXCEPT !.pc = step, !.kind = kind, !.agent = a]]
    /\ UNCHANGED <<tables, counters>>

BeginTurn(h) == Begin(h, "turn", "list")

BeginDelete(h) == Begin(h, "delete", "delete")

\* The transaction is over, its locks and its identity map with it.
Finish(h, code) == session' = [session EXCEPT ![h] = [Idle EXCEPT !.code = code]]

\* An error leaves session_scope without a rollback: the locks stay.
RaiseLeaky(h, code) ==
    /\ session' = [session EXCEPT ![h].pc = "leaked", ![h].code = code]
    /\ UNCHANGED <<tables, counters>>

\* An error leaves the caller: session_scope rolls back.  Values drawn from
\* an identity are not given back.
Raise(h, code) ==
    /\ Finish(h, code)
    /\ UNCHANGED <<tables, counters>>

\* MessageAfter with a consumed message removed rather than stamped.
MessageAfterRemoving(s) ==
    [q \in 1..MaxMessages |->
        CASE q \in s.rows -> NoRow
          [] q = s.own /\ s.kind = "send" -> [agent |-> s.agent, consumed |-> FALSE]
          [] OTHER -> message[q]]

\* The message rows as the transaction of s leaves them: consumed_at stamped
\* without a look at what it was, the agent's messages deleted, one inserted.
MessageAfter(s) ==
    [q \in 1..MaxMessages |->
        CASE q \in s.rows /\ s.kind = "delete" -> NoRow
          [] q \in s.rows /\ s.kind = "turn" -> [agent |-> s.agent, consumed |-> TRUE]
          [] q = s.own /\ s.kind = "send" -> [agent |-> s.agent, consumed |-> FALSE]
          [] OTHER -> message[q]]

EventAfter(s) ==
    [q \in 1..MaxEvents |->
        CASE event[q] = s.agent /\ s.held = "update" -> NoAgent
          [] q = s.own /\ s.kind = "turn" -> s.agent
          [] OTHER -> event[q]]

\* Nothing is left to do before the commit.
Ready(s) ==
    \/ s.pc \in {"work", "commit"}
    \/ s.pc = "cascade" /\ MessagesOf(s.agent) \subseteq s.rows

\* session_scope commits.
Commit(h) ==
    LET s == session[h] IN
    /\ Ready(s)
    /\ alive' = IF s.held = "update" THEN alive \ {s.agent} ELSE alive
    /\ message' = MessageAfter(s)
    /\ event' = EventAfter(s)
    /\ Finish(h, "ok")
    /\ UNCHANGED counters

\* A turn commits what it has marked so far and goes on with the ids it still
\* has, in a session that has loaded nothing.
Renew(h) ==
    LET s == session[h] IN
    /\ s.pc = "mark"
    /\ s.rows # {}
    /\ message' = MessageAfter(s)
    /\ session' = [session EXCEPT ![h].loaded = {}, ![h].rows = {}]
    /\ UNCHANGED <<alive, event, counters>>

\* The connection or the process is lost, or the commit fails.
LoseSession(h) ==
    /\ session[h].pc # "idle"
    /\ losses < MaxLosses
    /\ losses' = losses + 1
    /\ Finish(h, "lost")
    /\ UNCHANGED <<tables, messageSeq, eventSeq>>

\* The server ends a deadlock by failing the statement of one of the ring.
AbortDeadlocked(h) == Deadlocked(h) /\ Raise(h, "deadlock")

-----------------------------------------------------------------------------
(* The statements, one action each.                                        *)

\* list_unconsumed without the test of consumed_at.
ListAll(h) ==
    LET s == session[h]
        listed == MessagesOf(s.agent)
    IN  /\ s.pc = "list"
        /\ session' = [session EXCEPT
              ![h].todo = listed, ![h].loaded = listed,
              ![h].pc = IF listed = {} THEN "work" ELSE "mark"]
        /\ UNCHANGED <<tables, counters>>

\* list_unconsumed from a cursor: what is above the last message consumed.
ListAboveCursor(h) ==
    LET s == session[h]
        taken == {q \in MessagesOf(s.agent) : message[q].consumed}
        listed == {q \in MessagesOf(s.agent) : \A t \in taken : t < q}
    IN  /\ s.pc = "list"
        /\ session' = [session EXCEPT
              ![h].todo = listed, ![h].loaded = listed,
              ![h].pc = IF listed = {} THEN "work" ELSE "mark"]
        /\ UNCHANGED <<tables, counters>>

\* list_unconsumed: the committed messages of the agent, whichever run they
\* were sent to, that have no consumed_at.  They enter the identity map.
ListUnconsumed(h) ==
    LET s == session[h]
        listed == {q \in MessagesOf(s.agent) : ~message[q].consumed}
    IN  /\ s.pc = "list"
        /\ session' = [session EXCEPT
              ![h].todo = listed, ![h].loaded = listed,
              ![h].pc = IF listed = {} THEN "work" ELSE "mark"]
        /\ UNCHANGED <<tables, counters>>

\* s has dealt with the oldest message of its list.
Handled(s) ==
    [s EXCEPT !.todo = @ \ {Min(s.todo)},
              !.pc = IF s.todo = {Min(s.todo)} THEN "work" ELSE "mark"]

\* mark_consumed: session.get issues its SELECT only for a message this
\* session has not loaded.  None found, None returned.
GetMessage(h) ==
    LET s == session[h] IN
    /\ s.pc = "mark"
    /\ Min(s.todo) \notin s.loaded
    /\ session' = [session EXCEPT ![h] =
          IF message[Min(s.todo)] = NoRow THEN Handled(s)
          ELSE [s EXCEPT !.loaded = @ \cup {Min(s.todo)}]]
    /\ UNCHANGED <<tables, counters>>

\* mark_consumed: UPDATE message SET consumed_at WHERE id, for a message the
\* session has loaded.  It waits for the row; a row deleted meanwhile is a
\* StaleDataError.
MarkConsumed(h) ==
    LET s == session[h] IN
    /\ s.pc = "mark"
    /\ Min(s.todo) \in s.loaded
    /\ Blockers(h) = {}
    /\ \/ /\ message[Min(s.todo)] = NoRow
          /\ Raise(h, "stale")
       \/ /\ message[Min(s.todo)] # NoRow
          /\ session' = [session EXCEPT ![h] =
                [Handled(s) EXCEPT !.rows = @ \cup {Min(s.todo)}]]
          /\ UNCHANGED <<tables, counters>>

\* A descending identity.
SeqDescending(n, bound) == bound + 1 - n

\* An identity that starts at 2.
SeqFromTwo(n, bound) == n + 1

\* The n-th value of an identity column.
Seq(n, bound) == n

\* BEGIN and INSERT INTO message, which draws the row's seq.
SendMessage(h) ==
    /\ session[h].pc = "idle"
    /\ "send" \in Kinds
    /\ messageSeq < MaxMessages
    /\ messageSeq' = messageSeq + 1
    /\ \E a \in Agents : session' = [session EXCEPT ![h] =
          [Idle EXCEPT !.pc = "check", !.kind = "send", !.agent = a,
                       !.own = Seq(messageSeq', MaxMessages)]]
    /\ UNCHANGED <<tables, eventSeq, losses>>

\* EventRepository.append: INSERT INTO event, which draws the row's seq.
AppendEvent(h) ==
    /\ session[h].pc = "work"
    /\ eventSeq < MaxEvents
    /\ eventSeq' = eventSeq + 1
    /\ session' = [session EXCEPT ![h].pc = "check",
                                  ![h].own = Seq(eventSeq', MaxEvents)]
    /\ UNCHANGED <<tables, messageSeq, losses>>

\* The tables without their foreign keys.
CheckParentUnchecked(h) ==
    /\ session[h].pc = "check"
    /\ session' = [session EXCEPT ![h].pc = "commit"]
    /\ UNCHANGED <<tables, counters>>

\* The foreign key of the inserted row locks its agent against deletion; an
\* agent that is gone is an IntegrityError.
CheckParent(h) ==
    /\ session[h].pc = "check"
    /\ Blockers(h) = {}
    /\ \/ /\ session[h].agent \notin alive
          /\ Raise(h, "integrity")
       \/ /\ session[h].agent \in alive
          /\ session' = [session EXCEPT ![h].held = "keyshare", ![h].pc = "commit"]
          /\ UNCHANGED <<tables, counters>>

\* DELETE FROM agent waits for every transaction that holds the row.
DeleteAgent(h) ==
    LET there == session[h].agent \in alive IN
    /\ session[h].pc = "delete"
    /\ Blockers(h) = {}
    /\ session' = [session EXCEPT
          ![h].held = IF there THEN "update" ELSE "none",
          ![h].pc = IF there THEN "cascade" ELSE "commit"]
    /\ UNCHANGED <<tables, counters>>

\* The cascade deletes the agent's messages in the order its scan meets them,
\* each once no turn holds it.
CascadeMessage(h) ==
    LET s == session[h] IN
    /\ s.pc = "cascade"
    /\ \E q \in MessagesOf(s.agent) \ s.rows :
          /\ \A o \in Sessions : q \notin session[o].rows
          /\ session' = [session EXCEPT ![h].rows = @ \cup {q}]
    /\ UNCHANGED <<tables, counters>>

Statement(h) ==
    \/ ListUnconsumed(h) \/ GetMessage(h) \/ MarkConsumed(h) \/ AppendEvent(h)
    \/ CheckParent(h) \/ DeleteAgent(h) \/ CascadeMessage(h)
    \/ Commit(h) \/ AbortDeadlocked(h)

Next ==
    \E h \in Sessions :
        \/ SendMessage(h) \/ BeginTurn(h) \/ BeginDelete(h)
        \/ Statement(h) \/ Renew(h) \/ LoseSession(h)

Spec == Init /\ [][Next]_vars

\* A transaction in flight keeps running; the server grants a lock to those
\* who wait for it before those who come later, and ends a deadlock.
FairSpec == Spec /\ \A h \in Sessions : SF_vars(Statement(h))

\* docs/persistence.md: "the MVP has a single orchestrator".  No two turns of
\* one agent at a time.
OneTurnPerAgent ==
    \A h1, h2 \in Sessions :
        /\ session[h1].kind = "turn" /\ session[h2].kind = "turn"
        /\ session[h1].agent = session[h2].agent
        => h1 = h2

\* Only the begin of a turn could make two of them.
ExclusiveNext ==
    \E h \in Sessions :
        \/ SendMessage(h) \/ BeginDelete(h)
        \/ BeginTurn(h) /\ OneTurnPerAgent'
        \/ Statement(h) \/ Renew(h) \/ LoseSession(h)

ExclusiveSpec == Init /\ [][ExclusiveNext]_vars

\* Besides, the loop of every agent keeps taking turns, one at a time.
DiligentSpec ==
    /\ ExclusiveSpec
    /\ \A h \in Sessions : SF_vars(Statement(h))
    /\ \A a \in Agents : SF_vars(\E h \in Sessions :
          BeginTurn(h) /\ session'[h].agent = a /\ OneTurnPerAgent')

-----------------------------------------------------------------------------
(* Properties.                                                             *)

Session == [pc : {"idle", "list", "mark", "work", "check", "delete", "cascade", "commit"},
            kind : AllKinds \cup {"none"}, agent : Agents \cup {NoAgent},
            todo : SUBSET (1..messageSeq), loaded : SUBSET (1..messageSeq),
            rows : SUBSET (1..messageSeq),
            own : 0..Max({messageSeq, eventSeq}),
            held : {"none", "keyshare", "update"},
            code : {"none", "ok", "lost", "deadlock", "stale", "integrity"}]

TypeOK ==
    /\ alive \subseteq Agents
    /\ message \in [1..MaxMessages -> Row \cup {NoRow}]
    /\ event \in [1..MaxEvents -> Agents \cup {NoAgent}]
    /\ messageSeq \in 0..MaxMessages
    /\ eventSeq \in 0..MaxEvents
    /\ losses \in 0..MaxLosses
    /\ session \in [Sessions -> Session]

\* Deleting an agent leaves none of its messages and events behind, not even
\* one being sent or appended, or stamped, while the delete runs.
NoOrphanRows ==
    /\ \A q \in 1..MaxMessages : message[q] # NoRow => message[q].agent \in alive
    /\ \A q \in 1..MaxEvents : event[q] # NoAgent => event[q] \in alive

\* However turns overlap, an error has one cause: the agent was deleted under
\* the transaction.  Only then does mark_consumed, answered from the identity
\* map, flush a stamp that matches no row, or an insert miss its parent.
ErrorStep ==
    \A h \in Sessions :
        /\ session[h].pc # "idle"
        /\ session'[h].code \in {"stale", "integrity"}
        => session[h].agent \notin alive

\* Of every step of a behaviour.
ErrorsMeanDeleted == [][ErrorStep]_vars

\* mark_consumed writes over consumed_at without looking, on the argument that
\* its caller drains what list_unconsumed returned.  With one turn per agent
\* the argument holds: whoever stamps a message finds it unconsumed, whatever
\* it committed, lost or retried before.
NoSecondStamp ==
    \A h \in Sessions : session[h].kind = "turn" =>
        \A q \in session[h].rows : message[q] # NoRow /\ ~message[q].consumed

\* The comment on Seq, "the cursor W4 and W10 page on", of events with one
\* turn per agent: an event becomes visible with a seq above every event of its
\* agent that is visible already, or a reader that has paged past it would
\* never see it.
EventStep ==
    \A p, q \in 1..MaxEvents :
        /\ event[p] # NoAgent
        /\ event[q] = NoAgent /\ event'[q] = event[p]
        => p < q

\* Of every step of a behaviour.
EventCursorNeverSkips == [][EventStep]_vars

\* The same of messages, which any number of clients send.
MessageCursorNeverSkips ==
    [][\A p, q \in 1..MaxMessages :
          /\ message[p] # NoRow
          /\ message[q] = NoRow /\ message'[q] # NoRow
          /\ message'[q].agent = message[p].agent
          => p < q]_vars

\* Every transaction ends, though a turn that holds message rows and inserts
\* an event can deadlock with the cascade that deletes its agent.
EveryTransactionEnds ==
    \A h \in Sessions : session[h].pc # "idle" ~> session[h].pc = "idle"

\* Once nobody keeps deleting agents, every message that is there is consumed
\* or goes with its agent, in particular one whose seq was overtaken by messages
\* consumed before it was committed, and one whose turn was lost.  (Under
\* deletes without end, a turn can lose to a delete and a delete to a turn for
\* ever: a deadlock ends one of the two and neither commits.)
EveryMessageIsConsumed ==
    <>[](\A h \in Sessions : session[h].kind # "delete") =>
        \A q \in 1..MaxMessages :
            message[q] # NoRow ~> (message[q] = NoRow \/ message[q].consumed)

=============================================================================
