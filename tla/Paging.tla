------------------------------- MODULE Paging -------------------------------
(***************************************************************************)
(* GET /agents: the listing a client reads page by page, by limit and      *)
(* offset, while other transactions create and delete agents.              *)
(*                                                                         *)
(* Each page is one SELECT at READ COMMITTED over whatever is committed    *)
(* then, so a scan sees a table that moves.  A row carries the time its    *)
(* transaction began and is seen when it commits: a row can appear in the  *)
(* middle of the listing, not only at its front.                           *)
(***************************************************************************)
EXTENDS Integers, SequencesExt

CONSTANTS Agents,     \* the uuids agents may be given, in the order of the column
          Writers,    \* transactions that create agents, open together
          MaxLimit,   \* the upper bound of `limit` (200 in the code)
          MaxOffset,  \* the largest offset the database takes (a bigint)
          MaxClock,   \* bound: distinct readings of now()
          NoRow       \* the created_at of an agent that is not there

ASSUME AgentsAssumption == Agents \subseteq Nat
ASSUME BoundsAssumption == MaxLimit \in Nat \ {0} /\ MaxOffset \in Nat /\ MaxClock \in Nat
ASSUME NoRowAssumption == NoRow \notin Nat

VARIABLES
    created,    \* created[a]: created_at of the committed agent a, or NoRow
    issued,     \* every uuid given to an agent so far
    clock,      \* the last reading of now()
    writer,     \* writer[w]: when its transaction began and what it has inserted
    scan        \* the client paging through the listing

vars == <<created, issued, clock, writer, scan>>

Closed == [began |-> 0, rows |-> {}]

\* seen: the ids read, page after page; first: the agents there when it began;
\* added, removed: the agents committed and deleted since.
NoScan == [pc |-> "idle", limit |-> 0, offset |-> 0, seen |-> <<>>, first |-> {},
           added |-> {}, removed |-> {}, code |-> "none"]

Init ==
    /\ created = [a \in Agents |-> NoRow]
    /\ issued = {}
    /\ clock = 0
    /\ writer = [w \in Writers |-> Closed]
    /\ scan = NoScan

Listed == {a \in Agents : created[a] # NoRow}

-----------------------------------------------------------------------------
(* The table moves.                                                        *)

\* Insert with an id the caller brings, were uuid4 not the default of the key.
InsertCallersId(w) ==
    \E a \in Agents :
        /\ clock' \in {clock, clock + 1} \cap 1..MaxClock
        /\ writer' = [writer EXCEPT ![w] = [began |-> clock', rows |-> {a}]]
        /\ UNCHANGED <<created, issued, scan>>

\* AgentRepository.create: the first of a transaction begins it; created_at is
\* now(), which is when the transaction began and may be the microsecond of
\* the one before.
Insert(w) ==
    \E a \in Agents \ issued :
        /\ issued' = issued \cup {a}
        /\ \/ /\ writer[w] = Closed
              /\ clock' \in {clock, clock + 1} \cap 1..MaxClock
              /\ writer' = [writer EXCEPT ![w] = [began |-> clock', rows |-> {a}]]
           \/ /\ writer[w] # Closed
              /\ writer' = [writer EXCEPT ![w].rows = @ \cup {a}]
              /\ UNCHANGED clock
        /\ UNCHANGED <<created, scan>>

\* session_scope commits.
Commit(w) ==
    LET rows == writer[w].rows IN
    /\ writer[w] # Closed
    /\ created' = [a \in Agents |-> IF a \in rows THEN writer[w].began ELSE created[a]]
    /\ writer' = [writer EXCEPT ![w] = Closed]
    /\ scan' = [scan EXCEPT !.added = IF scan.pc # "idle" THEN @ \cup rows ELSE @]
    /\ UNCHANGED <<issued, clock>>

\* session_scope rolls back.
Rollback(w) ==
    /\ writer[w] # Closed
    /\ writer' = [writer EXCEPT ![w] = Closed]
    /\ UNCHANGED <<created, issued, clock, scan>>

\* DELETE /agents/{agent_id}, committed.
DeleteAgent(a) ==
    /\ a \in Listed
    /\ created' = [created EXCEPT ![a] = NoRow]
    /\ scan' = [scan EXCEPT !.removed = IF scan.pc # "idle" THEN @ \cup {a} ELSE @]
    /\ UNCHANGED <<issued, clock, writer>>

-----------------------------------------------------------------------------
(* The listing.                                                            *)

\* Before with the oldest first.
BeforeAscending(a, b) ==
    created[a] < created[b] \/ (created[a] = created[b] /\ a < b)

\* Before without the tie-break: of two rows of one transaction either may
\* come first, in one query as in the next.
BeforeNoTieBreak(a, b) == created[a] >= created[b]

\* AgentRepository.list: ORDER BY created_at DESC, id.
Before(a, b) == created[a] > created[b] \/ (created[a] = created[b] /\ a < b)

\* The orders the ORDER BY leaves the database to choose from.
Orders ==
    {rows \in SetToSeqs(Listed) :
        \A i, j \in DOMAIN rows : i < j => Before(rows[i], rows[j])}

\* GET /agents with the bounds of Query: limit in 1..200, offset at least 0.
InBounds(limit, offset) == limit \in 1..MaxLimit /\ offset >= 0

\* A client asks for its first page.
StartScan(limit, offset) ==
    /\ scan.pc = "idle"
    /\ scan' = [NoScan EXCEPT !.pc = "paging", !.limit = limit, !.offset = offset,
                              !.first = Listed]
    /\ UNCHANGED <<created, issued, clock, writer>>

EndScan(code) ==
    /\ scan' = [scan EXCEPT !.pc = "done", !.code = code]
    /\ UNCHANGED <<created, issued, clock, writer>>

\* Query refuses the request before the handler runs.
RefuseBounds ==
    /\ scan.pc = "paging"
    /\ ~InBounds(scan.limit, scan.offset)
    /\ EndScan("422")

\* Query has no upper bound for offset, the database has: its error is
\* nobody's to handle.
OffsetTooLarge ==
    /\ scan.pc = "paging"
    /\ InBounds(scan.limit, scan.offset) /\ scan.offset > MaxOffset
    /\ EndScan("500")

\* Page with the rows ahead of the offset in it.
PageFromFront(rows, limit, offset) ==
    SubSeq(rows, 1, IF offset + limit < Len(rows) THEN offset + limit ELSE Len(rows))

\* LIMIT limit OFFSET offset.
Page(rows, limit, offset) ==
    SubSeq(rows, offset + 1, IF offset + limit < Len(rows) THEN offset + limit ELSE Len(rows))

\* list_agents returns a page of summaries.  The client goes on after what it
\* has read until a page is not full.
ReadPage ==
    /\ scan.pc = "paging"
    /\ InBounds(scan.limit, scan.offset) /\ scan.offset <= MaxOffset
    /\ \E rows \in Orders :
          LET page == Page(rows, scan.limit, scan.offset) IN
          scan' = [scan EXCEPT
              !.seen = @ \o page,
              !.offset = @ + Len(page),
              !.code = "200",
              !.pc = IF Len(page) < scan.limit THEN "done" ELSE "paging"]
    /\ UNCHANGED <<created, issued, clock, writer>>

\* The client is satisfied or gives up; another scan may begin.
Forget ==
    /\ scan.pc = "done"
    /\ scan' = NoScan
    /\ UNCHANGED <<created, issued, clock, writer>>

Next ==
    \/ \E w \in Writers : Insert(w) \/ Commit(w) \/ Rollback(w)
    \/ \E a \in Agents : DeleteAgent(a)
    \/ \E limit \in 0..MaxLimit + 1, offset \in {-1, 0, MaxOffset + 1} :
          StartScan(limit, offset)
    \/ RefuseBounds \/ OffsetTooLarge \/ ReadPage \/ Forget

Spec == Init /\ [][Next]_vars

-----------------------------------------------------------------------------
(* Properties.                                                             *)

TypeOK ==
    /\ created \in [Agents -> 0..MaxClock \cup {NoRow}]
    /\ issued \subseteq Agents
    /\ clock \in 0..MaxClock
    /\ writer \in [Writers -> [began : 0..MaxClock, rows : SUBSET issued]]
    /\ scan.pc \in {"idle", "paging", "done"} /\ scan.code \in {"none", "200", "422", "500"}
    /\ scan.seen \in Seq(Agents)
    /\ scan.first \subseteq Agents
    /\ scan.added \cup scan.removed \subseteq Agents

Complete == scan.pc = "done" /\ scan.code = "200"

Missed == {a \in scan.first \cap Listed : a \notin ToSet(scan.seen)}

\* A scan misses an agent that was there throughout only if agents were deleted
\* under it, and no more of them than were deleted: neither rows that share a
\* created_at nor rows that appear, at the front or late, push one out of sight.
SkipsNeedDeletes == Complete => Cardinality(Missed) <= Cardinality(scan.removed)

\* A scan repeats an agent only if agents were committed under it, and no more
\* often than that.
RepeatsNeedCreates ==
    Len(scan.seen) - Cardinality(ToSet(scan.seen)) <= Cardinality(scan.added)

\* "Newest-created first": a scan nothing disturbed is the whole table, each
\* agent once, the newest first, however many agents share a created_at.
QuietScanIsTheTable ==
    Complete /\ scan.added \cup scan.removed = {} =>
        /\ ToSet(scan.seen) = Listed /\ Len(scan.seen) = Cardinality(Listed)
        /\ \A i, j \in DOMAIN scan.seen :
              i < j => created[scan.seen[i]] >= created[scan.seen[j]]

=============================================================================
