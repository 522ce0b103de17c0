---------------------------- MODULE PagingProofs ----------------------------
(***************************************************************************)
(* Machine-checked proofs about Paging for every set of agents and of      *)
(* writers, every limit and every bound.                                   *)
(***************************************************************************)
EXTENDS Paging, FiniteSetTheorems, TLAPS

-----------------------------------------------------------------------------
(* Why the listing is dependable: an invariant every step preserves.       *)

Scans ==
    [pc : {"idle", "paging", "done"}, limit : Int, offset : Int, seen : Seq(Agents),
     first : SUBSET Agents, added : SUBSET Agents, removed : SUBSET Agents,
     code : {"none", "200", "422", "500"}]

Typed ==
    /\ created \in [Agents -> 0..MaxClock \cup {NoRow}]
    /\ issued \in SUBSET Agents /\ IsFiniteSet(issued)
    /\ clock \in 0..MaxClock
    /\ writer \in [Writers -> [began : 0..MaxClock, rows : SUBSET issued]]
    /\ scan \in Scans

Seen == ToSet(scan.seen)

\* The agents a scan knows of: committed before it or under it.
Known == Listed \cup Seen \cup scan.first \cup scan.added \cup scan.removed

\* A uuid is issued once: an open transaction holds agents nobody else does and
\* no reader has seen, and an agent that is deleted does not come back.
Fresh ==
    /\ Known \subseteq issued
    /\ \A w \in Writers : writer[w].rows \cap Known = {}
    /\ \A v, w \in Writers : v # w => writer[v].rows \cap writer[w].rows = {}
    /\ scan.removed \cap Listed = {}

\* The next page begins after what was read, unless the offset is none that is
\* ever read from.
AtTheEnd ==
    scan.pc = "paging" =>
        \/ scan.offset = Len(scan.seen)
        \/ scan.offset < 0 \/ scan.offset > MaxOffset

\* A set of agents that any listing shows ahead of all the others.
Leads(D) == \A a \in D, b \in Listed : Before(b, a) => b \in D

Fronts == {D \in SUBSET Listed : Leads(D)}

\* How far D reaches beyond what was read.
Beyond(D) ==
    IF Cardinality(D) > Len(scan.seen) THEN Cardinality(D) - Len(scan.seen) ELSE 0

\* Of the rows at the front, as many as were read, no more are missing than
\* were deleted.
FewMissed ==
    \A D \in Fronts : Cardinality(D \cap Missed) <= Cardinality(scan.removed) + Beyond(D)

\* The rows at the front, as many as were read, are covered by the rows that
\* were added and the agents seen that are not listed behind them.
FewRepeated ==
    \A D \in Fronts :
        Cardinality(D) - Beyond(D)
            <= Cardinality(scan.added) + Cardinality(Seen \ (Listed \ D))

\* Undisturbed, a client has read the front of the listing in its order.
Undisturbed ==
    scan.added \cup scan.removed = {} =>
        /\ Seen \in Fronts
        /\ \A i, j \in DOMAIN scan.seen : i < j => Before(scan.seen[i], scan.seen[j])

Paged ==
    /\ AtTheEnd
    /\ scan.pc = "paging" => FewMissed /\ FewRepeated /\ Undisturbed
    /\ SkipsNeedDeletes /\ RepeatsNeedCreates /\ QuietScanIsTheTable

Inv == Typed /\ Fresh /\ Paged

-----------------------------------------------------------------------------
(* Counting.                                                               *)

\* A part of a finite set is finite and no larger.
LEMMA PartIsSmaller ==
    ASSUME NEW S, IsFiniteSet(S), NEW T, T \subseteq S
    PROVE  /\ IsFiniteSet(T) /\ Cardinality(T) \in Nat /\ Cardinality(S) \in Nat
           /\ Cardinality(T) <= Cardinality(S)
<1>1. T \in SUBSET S
    OBVIOUS
<1> QED
    BY <1>1, FS_Subset, FS_CardinalityType

\* There are n places in a sequence of length n.
LEMMA PlacesCount ==
    ASSUME NEW n \in Nat
    PROVE  IsFiniteSet(1..n) /\ Cardinality(1..n) = n
<1>1. 1 \in Int /\ n \in Int /\ (1 > n => n - 1 + 1 = 0)
    OBVIOUS
<1> QED
    BY <1>1, FS_Interval

\* A union is no larger than its parts, and as large when they are disjoint.
LEMMA UnionIsBounded ==
    ASSUME NEW S, IsFiniteSet(S), NEW T, IsFiniteSet(T)
    PROVE  /\ IsFiniteSet(S \cup T) /\ Cardinality(S \cup T) \in Nat
           /\ Cardinality(S) \in Nat /\ Cardinality(T) \in Nat
           /\ Cardinality(S \cup T) <= Cardinality(S) + Cardinality(T)
           /\ S \cap T = {} => Cardinality(S \cup T) = Cardinality(S) + Cardinality(T)
<1>1. IsFiniteSet(S \cap T)
    BY FS_Intersection
<1>2. /\ Cardinality(S) \in Nat /\ Cardinality(T) \in Nat
      /\ Cardinality(S \cap T) \in Nat
    BY <1>1, FS_CardinalityType
<1>3. /\ IsFiniteSet(S \cup T)
      /\ Cardinality(S \cup T) = Cardinality(S) + Cardinality(T) - Cardinality(S \cap T)
    BY FS_Union
<1>4. Cardinality(S \cup T) \in Nat
    BY <1>3, FS_CardinalityType
<1>5. S \cap T = {} => Cardinality(S \cap T) = 0
    BY FS_EmptySet
<1> QED
    BY <1>2, <1>3, <1>4, <1>5

\* The elements of f from place a to place b.
Stretch(f, a, b) == {f[i] : i \in a..b}

\* A stretch of a sequence that repeats nothing holds as many as it is long.
LEMMA StretchCounts ==
    ASSUME NEW n \in Nat, NEW T, NEW f \in [1..n -> T],
           \A i, j \in 1..n : i # j => f[i] # f[j],
           NEW a \in 1..n + 1, NEW b \in a - 1..n
    PROVE  /\ IsFiniteSet(Stretch(f, a, b))
           /\ Cardinality(Stretch(f, a, b)) = b - a + 1
<1> DEFINE I == Stretch(f, a, b)
           g == [i \in a..b |-> f[i]]
<1>1. a..b \subseteq 1..n
    OBVIOUS
<1>2. g \in Bijection(a..b, I)
    BY <1>1 DEF Bijection, Injection, Surjection, IsInjective, Stretch
<1>3. ExistsBijection(a..b, I)
    BY <1>2 DEF ExistsBijection
<1>4. IsFiniteSet(a..b) /\ Cardinality(a..b) = b - a + 1
    <2>1. a \in Int /\ b \in Int /\ (a > b => b - a + 1 = 0)
        OBVIOUS
    <2> QED
        BY <2>1, FS_Interval
<1> QED
    BY <1>3, <1>4, FS_Bijection

\* A sequence that repeats nothing names as many as it is long.
LEMMA NoRepeatsCount ==
    ASSUME NEW T, NEW s \in Seq(T), \A i, j \in 1..Len(s) : i # j => s[i] # s[j]
    PROVE  ToSet(s) = Stretch(s, 1, Len(s)) /\ Cardinality(ToSet(s)) = Len(s)
<1> DEFINE n == Len(s)
<1>1. n \in Nat /\ s \in [1..n -> T] /\ DOMAIN s = 1..n
    OBVIOUS
<1>2. ToSet(s) = Stretch(s, 1, n)
    BY <1>1 DEF ToSet, Stretch
<1>3. 1 \in 1..n + 1 /\ n \in 1 - 1..n /\ n - 1 + 1 = n
    BY <1>1
<1>4. \A i, j \in 1..n : i # j => s[i] # s[j]
    OBVIOUS
<1> HIDE DEF n
<1>5. Cardinality(Stretch(s, 1, n)) = n - 1 + 1
    BY <1>1, <1>3, <1>4, StretchCounts
<1> QED
    BY <1>2, <1>3, <1>5 DEF n

\* A sequence of all of a set is as long as the set is large and names each
\* element at one place.
LEMMA SequenceOfAll ==
    ASSUME NEW S, IsFiniteSet(S), NEW rows \in SetToSeqs(S)
    PROVE  /\ rows \in Seq(S) /\ Len(rows) = Cardinality(S) /\ Cardinality(S) \in Nat
           /\ DOMAIN rows = 1..Len(rows) /\ rows \in [1..Len(rows) -> S]
           /\ \A i, j \in 1..Len(rows) : i # j => rows[i] # rows[j]
           /\ \A a \in S : \E i \in 1..Len(rows) : rows[i] = a
<1> DEFINE n == Cardinality(S)
           I == Stretch(rows, 1, n)
<1>1. n \in Nat
    BY FS_CardinalityType
<1>2. rows \in [1..n -> S] /\ \A i, j \in 1..n : i # j => rows[i] # rows[j]
    BY DEF SetToSeqs
<1>3. rows \in Seq(S) /\ Len(rows) = n
    BY <1>1, <1>2
<1>4. IsFiniteSet(I) /\ Cardinality(I) = n
    <2> HIDE DEF n
    <2>1. 1 \in 1..n + 1 /\ n \in 1 - 1..n
        BY <1>1
    <2>2. /\ IsFiniteSet(Stretch(rows, 1, n))
          /\ Cardinality(Stretch(rows, 1, n)) = n - 1 + 1
        BY <1>1, <1>2, <2>1, StretchCounts
    <2> QED
        BY <1>1, <2>2
<1>5. I \in SUBSET S
    BY <1>2 DEF Stretch
<1>6. I = S
    BY <1>4, <1>5, FS_Subset
<1> QED
    BY <1>1, <1>2, <1>3, <1>6 DEF Stretch

-----------------------------------------------------------------------------
(* The listing.                                                            *)

\* Everything a scan counts is finite.
LEMMA KnownIsFinite ==
    ASSUME Typed, Fresh
    PROVE  /\ IsFiniteSet(Listed) /\ IsFiniteSet(Seen) /\ IsFiniteSet(Missed)
           /\ IsFiniteSet(scan.first) /\ IsFiniteSet(scan.added)
           /\ IsFiniteSet(scan.removed)
<1>1. /\ Listed \subseteq issued /\ Seen \subseteq issued /\ Missed \subseteq issued
      /\ scan.first \subseteq issued /\ scan.added \subseteq issued
      /\ scan.removed \subseteq issued
    BY DEF Fresh, Known, Missed
<1>2. IsFiniteSet(issued)
    BY DEF Typed
<1> QED
    BY <1>1, <1>2, PartIsSmaller

\* What is listed has a number for its uuid and a time.
LEMMA ListedIsDated == ASSUME Typed, NEW x \in Listed PROVE x \in Int /\ created[x] \in Int
<1>1. x \in Agents /\ created[x] # NoRow
    BY DEF Listed
<1>2. created[x] \in 0..MaxClock
    BY <1>1 DEF Typed
<1> QED
    BY <1>1, <1>2, AgentsAssumption

\* ORDER BY created_at DESC, id is a strict order of what is listed.
LEMMA BeforeIsStrict ==
    ASSUME Typed, NEW a \in Listed, NEW b \in Listed, NEW c \in Listed
    PROVE  /\ ~Before(a, a)
           /\ ~(Before(a, b) /\ Before(b, a))
           /\ Before(a, b) /\ Before(b, c) => Before(a, c)
<1>1. /\ a \in Int /\ b \in Int /\ c \in Int
      /\ created[a] \in Int /\ created[b] \in Int /\ created[c] \in Int
    BY ListedIsDated
<1> QED
    BY <1>1 DEF Before

\* An order the database may choose lists everything, at one place each.
LEMMA ListingOrder ==
    ASSUME Typed, Fresh, NEW rows \in Orders
    PROVE  /\ rows \in Seq(Listed) /\ rows \in [1..Len(rows) -> Listed]
           /\ Len(rows) = Cardinality(Listed) /\ Len(rows) \in Nat
           /\ DOMAIN rows = 1..Len(rows)
           /\ \A i, j \in 1..Len(rows) : i # j => rows[i] # rows[j]
           /\ \A a \in Listed : \E i \in 1..Len(rows) : rows[i] = a
           /\ \A i, j \in 1..Len(rows) : i < j => Before(rows[i], rows[j])
<1>1. /\ rows \in SetToSeqs(Listed)
      /\ \A i, j \in DOMAIN rows : i < j => Before(rows[i], rows[j])
    BY DEF Orders
<1>2. IsFiniteSet(Listed)
    BY KnownIsFinite
<1>3. /\ rows \in Seq(Listed) /\ Len(rows) = Cardinality(Listed)
      /\ Cardinality(Listed) \in Nat
      /\ DOMAIN rows = 1..Len(rows) /\ rows \in [1..Len(rows) -> Listed]
      /\ \A i, j \in 1..Len(rows) : i # j => rows[i] # rows[j]
      /\ \A a \in Listed : \E i \in 1..Len(rows) : rows[i] = a
    BY <1>1, <1>2, SequenceOfAll
<1> QED
    BY <1>1, <1>3

\* What leads the listing is its first so many rows.
LEMMA FrontsArePrefixes ==
    ASSUME Typed, Fresh, NEW rows \in Orders, NEW D \in Fronts
    PROVE  /\ Cardinality(D) \in 0..Len(rows)
           /\ D = Stretch(rows, 1, Cardinality(D))
<1> DEFINE n == Len(rows)
           d == Cardinality(D)
           J == {i \in 1..n : rows[i] \in D}
           g == [i \in J |-> rows[i]]
<1>1. /\ rows \in [1..n -> Listed] /\ n = Cardinality(Listed) /\ n \in Nat
      /\ \A i, j \in 1..n : i # j => rows[i] # rows[j]
      /\ \A a \in Listed : \E i \in 1..n : rows[i] = a
      /\ \A i, j \in 1..n : i < j => Before(rows[i], rows[j])
    BY ListingOrder
<1>2. D \subseteq Listed /\ Leads(D)
    BY DEF Fronts
<1>3. IsFiniteSet(D) /\ d \in 0..n
    <2>1. IsFiniteSet(Listed)
        BY KnownIsFinite
    <2> QED
        BY <1>1, <1>2, <2>1, PartIsSmaller
<1>4. IsFiniteSet(1..n) /\ J \subseteq 1..n /\ IsFiniteSet(J)
    <2>1. IsFiniteSet(1..n)
        BY <1>1, FS_Interval
    <2> QED
        BY <2>1, PartIsSmaller
<1>5. Cardinality(J) = d
    <2>1. g \in Bijection(J, D)
        <3>1. g \in [J -> D] /\ \A i, j \in J : g[i] = g[j] => i = j
            BY <1>1
        <3>2. \A a \in D : \E i \in J : g[i] = a
            BY <1>1, <1>2
        <3> QED
            BY <3>1, <3>2 DEF Bijection, Injection, Surjection, IsInjective
    <2>2. ExistsBijection(J, D)
        BY <2>1 DEF ExistsBijection
    <2> QED
        BY <1>4, <2>2, FS_Bijection
<1>6. J \subseteq 1..d
    <2> SUFFICES ASSUME NEW i \in J, i > d
                 PROVE  FALSE
        BY <1>1, <1>3
    <2>1. 1..i \subseteq J
        BY <1>1, <1>2 DEF Leads
    <2>2. i \in Nat /\ d \in Nat
        BY <1>1, <1>3
    <2>3. Cardinality(1..i) = i
        BY <2>2, PlacesCount
    <2>4. Cardinality(1..i) <= Cardinality(J)
        BY <2>1, <1>4, PartIsSmaller
    <2> HIDE DEF d, J
    <2> QED
        BY <2>2, <2>3, <2>4, <1>5
<1>7. J = 1..d
    <2>1. IsFiniteSet(1..d) /\ Cardinality(1..d) = d
        BY <1>3, PlacesCount
    <2>2. J \in SUBSET (1..d)
        BY <1>6
    <2> QED
        BY <1>5, <2>1, <2>2, FS_Subset
<1> QED
    BY <1>1, <1>2, <1>3, <1>7 DEF Stretch

\* The first so many rows of the listing lead it.
LEMMA PrefixesAreFronts ==
    ASSUME Typed, Fresh, NEW rows \in Orders, NEW m \in 0..Len(rows)
    PROVE  /\ Stretch(rows, 1, m) \in Fronts
           /\ Cardinality(Stretch(rows, 1, m)) = m
<1> DEFINE n == Len(rows)
           D == Stretch(rows, 1, m)
<1>1. /\ rows \in [1..n -> Listed] /\ n \in Nat
      /\ \A i, j \in 1..n : i # j => rows[i] # rows[j]
      /\ \A a \in Listed : \E i \in 1..n : rows[i] = a
      /\ \A i, j \in 1..n : i < j => Before(rows[i], rows[j])
    BY ListingOrder
<1>2. Cardinality(D) = m
    <2>1. 1 \in 1..n + 1 /\ m \in 1 - 1..n /\ m - 1 + 1 = m
        BY <1>1
    <2> HIDE DEF n
    <2>2. /\ n \in Nat /\ rows \in [1..n -> Listed]
          /\ \A i, j \in 1..n : i # j => rows[i] # rows[j]
        BY <1>1
    <2>3. Cardinality(Stretch(rows, 1, m)) = m - 1 + 1
        BY <2>1, <2>2, StretchCounts
    <2> QED
        BY <2>1, <2>3
<1>3. D \subseteq Listed
    BY <1>1 DEF Stretch
<1>4. Leads(D)
    <2> SUFFICES ASSUME NEW a \in D, NEW b \in Listed, Before(b, a)
                 PROVE  b \in D
        BY DEF Leads
    <2>1. PICK i \in 1..m : rows[i] = a
        BY DEF Stretch
    <2>2. PICK j \in 1..n : rows[j] = b
        BY <1>1
    <2>3. ~Before(a, b)
        BY <1>3, BeforeIsStrict
    <2>4. i \in 1..n
        BY <1>1
    <2>5. ~(i < j)
        BY <1>1, <2>1, <2>2, <2>3, <2>4
    <2>6. j \in 1..m
        BY <2>1, <2>2, <2>5, <1>1
    <2> QED
        BY <2>2, <2>6 DEF Stretch
<1> QED
    BY <1>2, <1>3, <1>4 DEF Fronts

-----------------------------------------------------------------------------
(* A page.                                                                 *)

\* LIMIT and OFFSET cut a stretch out of the listing, to its end when the page
\* is not full.
LEMMA PageIsStretch ==
    ASSUME NEW S, NEW rows \in Seq(S), NEW limit \in Nat \ {0}, NEW L \in Nat,
           NEW page, page = Page(rows, limit, L)
    PROVE  /\ page \in Seq(S) /\ Len(page) \in 0..limit
           /\ Len(page) > 0 => L + Len(page) <= Len(rows)
           /\ Len(page) < limit => L + Len(page) >= Len(rows)
           /\ \A i \in 1..Len(page) : page[i] = rows[L + i]
<1> DEFINE n == Len(rows)
           e == IF L + limit < n THEN L + limit ELSE n
           k == Len(page)
<1>0. page = SubSeq(rows, L + 1, e)
    BY DEF Page
<1>1. n \in Nat /\ rows \in [1..n -> S]
    OBVIOUS
<1>2. e \in Nat /\ e <= n
    BY <1>1
<1>3. page \in Seq(S) /\ k = (IF L + 1 <= e THEN e - L ELSE 0)
    <2> HIDE DEF e
    <2> QED
        BY <1>0, <1>1, <1>2
<1>4. \A i \in 1..k : page[i] = rows[L + i]
    <2> HIDE DEF e
    <2> QED
        BY <1>0, <1>1, <1>2, <1>3
<1>5. k \in 0..limit /\ (k > 0 => L + k <= n) /\ (k < limit => L + k >= n)
    <2> HIDE DEF k, n
    <2> QED
        BY <1>1, <1>2, <1>3
<1> QED
    BY <1>3, <1>4, <1>5

\* What two sequences hold together.
LEMMA ToSetOfBoth ==
    ASSUME NEW S, NEW s \in Seq(S), NEW t \in Seq(S)
    PROVE  ToSet(s \o t) = ToSet(s) \cup ToSet(t)
<1>1. /\ DOMAIN (s \o t) = 1..Len(s) + Len(t) /\ DOMAIN s = 1..Len(s)
      /\ DOMAIN t = 1..Len(t) /\ Len(s) \in Nat /\ Len(t) \in Nat
    OBVIOUS
<1>2. \A i \in 1..Len(s) : i \in 1..Len(s) + Len(t) /\ (s \o t)[i] = s[i]
    BY <1>1
<1>3. \A i \in 1..Len(t) :
          Len(s) + i \in 1..Len(s) + Len(t) /\ (s \o t)[Len(s) + i] = t[i]
    BY <1>1
<1>4. \A i \in 1..Len(s) + Len(t) : i \notin 1..Len(s) =>
          i - Len(s) \in 1..Len(t) /\ (s \o t)[i] = t[i - Len(s)]
    BY <1>1
<1>5. ToSet(s \o t) \subseteq ToSet(s) \cup ToSet(t)
    BY <1>1, <1>2, <1>4 DEF ToSet
<1>6. ToSet(s) \subseteq ToSet(s \o t)
    BY <1>1, <1>2 DEF ToSet
<1>7. ToSet(t) \subseteq ToSet(s \o t)
    BY <1>1, <1>3 DEF ToSet
<1> QED
    BY <1>5, <1>6, <1>7

\* A page leaves no more rows unread at the front than deletes have pulled
\* there.
LEMMA PageMissesFew ==
    ASSUME Typed, Fresh, FewMissed, NEW rows \in Orders, NEW k \in Nat,
           k > 0 => Len(scan.seen) + k <= Len(rows), NEW D \in Fronts
    PROVE  LET L == Len(scan.seen)
               P == Stretch(rows, L + 1, L + k)
           IN  Cardinality(D \cap (Missed \ P)) <=
                   Cardinality(scan.removed)
                       + (IF Cardinality(D) > L + k THEN Cardinality(D) - (L + k) ELSE 0)
<1> DEFINE L == Len(scan.seen)
           P == Stretch(rows, L + 1, L + k)
           F == Stretch(rows, 1, L)
           n == Len(rows)
           d == Cardinality(D)
           r == Cardinality(scan.removed)
<1> SUFFICES Cardinality(D \cap (Missed \ P)) <= r + (IF d > L + k THEN d - (L + k) ELSE 0)
    OBVIOUS
<1>1. /\ rows \in [1..n -> Listed] /\ n \in Nat
      /\ \A i, j \in 1..n : i # j => rows[i] # rows[j]
    BY ListingOrder
<1>2. d \in 0..n /\ D = Stretch(rows, 1, d)
    BY FrontsArePrefixes
<1>3. L \in Nat /\ r \in Nat
    BY KnownIsFinite, FS_CardinalityType DEF Typed, Scans
<1>4. IsFiniteSet(Missed)
    BY KnownIsFinite
<1>5. Cardinality(D \cap Missed) <= r + (IF d > L THEN d - L ELSE 0)
    BY DEF FewMissed, Beyond
<1>6. CASE d <= L
    <2>1. /\ Cardinality(D \cap (Missed \ P)) <= Cardinality(D \cap Missed)
          /\ Cardinality(D \cap (Missed \ P)) \in Nat /\ Cardinality(D \cap Missed) \in Nat
        <3>1. IsFiniteSet(D \cap Missed)
            BY <1>4, FS_Intersection
        <3>2. D \cap (Missed \ P) \subseteq D \cap Missed
            OBVIOUS
        <3> QED
            BY <3>1, <3>2, PartIsSmaller
    <2> HIDE DEF P, F, L, d, r, n
    <2> QED
        BY <1>2, <1>3, <1>5, <1>6, <2>1, <1>1
<1>7. CASE d > L
    <2> HIDE DEF n, L, d, r
    <2>1. L \in 0..n
        BY <1>1, <1>2, <1>3, <1>7
    <2>2. F \in Fronts /\ Cardinality(F) = L
        BY <2>1, PrefixesAreFronts DEF n
    <2>3. Cardinality(F \cap Missed) <= r /\ IsFiniteSet(F \cap Missed)
        <3>1. Cardinality(F \cap Missed) <= r + 0
            BY <1>3, <2>2 DEF FewMissed, Beyond, L, r
        <3>2. IsFiniteSet(F \cap Missed)
            BY <1>4, FS_Intersection
        <3> QED
            BY <1>3, <3>1, <3>2, FS_CardinalityType
    <2>4. CASE d < L + k
        <3>1. D \cap (Missed \ P) \subseteq F \cap Missed
            <4>1. \A i \in 1..d : i \in 1..L \/ i \in L + 1..L + k
                BY <1>1, <1>2, <1>3, <2>4
            <4> QED
                BY <1>2, <4>1 DEF Stretch
        <3>2. /\ Cardinality(D \cap (Missed \ P)) <= Cardinality(F \cap Missed)
              /\ Cardinality(D \cap (Missed \ P)) \in Nat /\ Cardinality(F \cap Missed) \in Nat
            BY <2>3, <3>1, PartIsSmaller
        <3> HIDE DEF P, F
        <3> QED
            BY <1>1, <1>2, <1>3, <2>3, <2>4, <3>2
    <2>5. CASE d >= L + k
        <3> DEFINE R == Stretch(rows, L + k + 1, d)
        <3>1. D \cap (Missed \ P) \subseteq (F \cap Missed) \cup R
            <4>1. \A i \in 1..d : i \in 1..L \/ i \in L + 1..L + k \/ i \in L + k + 1..d
                BY <1>1, <1>2, <1>3, <2>5
            <4> QED
                BY <1>2, <4>1 DEF Stretch
        <3>2. IsFiniteSet(R) /\ Cardinality(R) = d - (L + k)
            <4>1. L + k + 1 \in 1..n + 1 /\ d \in (L + k + 1) - 1..n
                BY <1>1, <1>2, <1>3, <2>5
            <4>2. IsFiniteSet(R) /\ Cardinality(R) = d - (L + k + 1) + 1
                BY <1>1, <4>1, StretchCounts
            <4> QED
                BY <1>1, <1>2, <1>3, <4>2
        <3> HIDE DEF P, F, R
        <3>3. /\ IsFiniteSet((F \cap Missed) \cup R)
              /\ Cardinality((F \cap Missed) \cup R) <= Cardinality(F \cap Missed) + Cardinality(R)
              /\ Cardinality((F \cap Missed) \cup R) \in Nat
              /\ Cardinality(F \cap Missed) \in Nat
            BY <2>3, <3>2, UnionIsBounded
        <3>4. /\ Cardinality(D \cap (Missed \ P)) <= Cardinality((F \cap Missed) \cup R)
              /\ Cardinality(D \cap (Missed \ P)) \in Nat
            BY <3>1, <3>3, PartIsSmaller
        <3> QED
            BY <1>1, <1>2, <1>3, <2>3, <2>5, <3>2, <3>3, <3>4
    <2> QED
        BY <1>1, <1>2, <1>3, <2>4, <2>5
<1> QED
    BY <1>1, <1>2, <1>3, <1>6, <1>7

\* A page shows no more agents again than were added.
LEMMA PageRepeatsFew ==
    ASSUME Typed, Fresh, FewRepeated, NEW rows \in Orders, NEW k \in Nat,
           k > 0 => Len(scan.seen) + k <= Len(rows), NEW D \in Fronts
    PROVE  LET L == Len(scan.seen)
               P == Stretch(rows, L + 1, L + k)
           IN  (IF Cardinality(D) > L + k THEN L + k ELSE Cardinality(D))
                   <= Cardinality(scan.added)
                       + Cardinality((Seen \cup P) \ (Listed \ D))
<1> DEFINE L == Len(scan.seen)
           P == Stretch(rows, L + 1, L + k)
           F == Stretch(rows, 1, L)
           n == Len(rows)
           d == Cardinality(D)
           m == IF d > L + k THEN L + k ELSE d
           new == Cardinality(scan.added)
           B == (Seen \cup P) \ (Listed \ D)
<1> SUFFICES m <= new + Cardinality(B)
    OBVIOUS
<1>1. /\ rows \in [1..n -> Listed] /\ n \in Nat
      /\ \A i, j \in 1..n : i # j => rows[i] # rows[j]
    BY ListingOrder
<1>2. d \in 0..n /\ D = Stretch(rows, 1, d)
    BY FrontsArePrefixes
<1>3. L \in Nat /\ new \in Nat
    BY KnownIsFinite, FS_CardinalityType DEF Typed, Scans
<1>4. IsFiniteSet(B) /\ Cardinality(B) \in Nat
    <2>1. IsFiniteSet(Listed) /\ IsFiniteSet(Seen)
        BY KnownIsFinite
    <2>2. P \cap Listed \subseteq Listed /\ B \subseteq Seen \cup Listed
        <3>1. k > 0 => L + 1..L + k \subseteq 1..n
            BY <1>1, <1>3
        <3>2. k = 0 => P = {}
            BY <1>3 DEF Stretch
        <3>3. k > 0 => P \subseteq Listed
            BY <1>1, <3>1 DEF Stretch
        <3> HIDE DEF P
        <3> QED
            BY <3>2, <3>3
    <2>3. IsFiniteSet(Seen \cup Listed)
        BY <2>1, FS_Union
    <2> HIDE DEF B
    <2> QED
        BY <2>2, <2>3, PartIsSmaller
<1>5. CASE d <= L
    <2>1. d <= new + Cardinality(Seen \ (Listed \ D))
        <3>1. d - (IF d > L THEN d - L ELSE 0) <= new + Cardinality(Seen \ (Listed \ D))
            BY DEF FewRepeated, Beyond
        <3> HIDE DEF d, L, new
        <3> QED
            BY <1>1, <1>2, <1>3, <1>5, <3>1
    <2>2. /\ Cardinality(Seen \ (Listed \ D)) <= Cardinality(B)
          /\ Cardinality(Seen \ (Listed \ D)) \in Nat
        <3>1. Seen \ (Listed \ D) \subseteq B
            OBVIOUS
        <3> HIDE DEF B
        <3> QED
            BY <1>4, <3>1, PartIsSmaller
    <2>3. m = d
        <3> HIDE DEF d, L
        <3> QED
            BY <1>1, <1>2, <1>3, <1>5
    <2> HIDE DEF m, d, new, B
    <2> QED
        BY <1>1, <1>2, <1>3, <1>4, <2>1, <2>2, <2>3
<1>6. CASE d > L
    <2> DEFINE A == Seen \ (Listed \ F)
               Q == Stretch(rows, L + 1, m)
    <2>1. L \in 0..n /\ m \in L..n /\ m <= L + k /\ m <= d
        <3> HIDE DEF n, L, d
        <3> QED
            BY <1>1, <1>2, <1>3, <1>6
    <2> HIDE DEF n, L, d, new, m
    <2>2. F \in Fronts /\ Cardinality(F) = L
        BY <2>1, PrefixesAreFronts DEF n
    <2>3. L <= new + Cardinality(A)
        <3>1. L - 0 <= new + Cardinality(A)
            BY <1>3, <2>2 DEF FewRepeated, Beyond, L, new
        <3>2. IsFiniteSet(A)
            BY KnownIsFinite, FS_Difference
        <3>3. Cardinality(A) \in Nat
            BY <3>2, FS_CardinalityType
        <3> QED
            BY <1>3, <3>1, <3>3
    <2>4. IsFiniteSet(Q) /\ Cardinality(Q) = m - L
        <3>1. L + 1 \in 1..n + 1 /\ m \in (L + 1) - 1..n
            BY <1>1, <1>3, <2>1
        <3>2. IsFiniteSet(Q) /\ Cardinality(Q) = m - (L + 1) + 1
            BY <1>1, <3>1, StretchCounts
        <3> QED
            BY <1>3, <2>1, <3>2
    <2>5. A \cap Q = {}
        <3>1. \A i \in L + 1..m : rows[i] \in Listed /\ rows[i] \notin F
            BY <1>1, <1>3, <2>1 DEF Stretch
        <3> QED
            BY <3>1 DEF Stretch
    <2>6. A \cup Q \subseteq B
        <3>1. F \subseteq D /\ Q \subseteq D /\ Q \subseteq P
            <4>1. 1..L \subseteq 1..d /\ L + 1..m \subseteq 1..d /\ L + 1..m \subseteq L + 1..L + k
                BY <1>2, <1>3, <2>1
            <4> QED
                BY <1>2, <4>1 DEF Stretch
        <3> HIDE DEF F, Q, P
        <3> QED
            BY <3>1
    <2>7. IsFiniteSet(A)
        BY KnownIsFinite, FS_Difference
    <2> HIDE DEF A, Q, B
    <2>8. /\ Cardinality(A \cup Q) = Cardinality(A) + Cardinality(Q)
          /\ Cardinality(A) \in Nat
        BY <2>4, <2>5, <2>7, UnionIsBounded
    <2>9. Cardinality(A \cup Q) <= Cardinality(B)
        BY <1>4, <2>6, PartIsSmaller
    <2> QED
        BY <1>3, <1>4, <2>1, <2>3, <2>4, <2>8, <2>9
<1>7. d \in Nat /\ L \in Nat
    <2> HIDE DEF d, L, n
    <2> QED
        BY <1>1, <1>2, <1>3
<1> HIDE DEF d, L, m, new, B
<1> QED
    BY <1>5, <1>6, <1>7

\* Undisturbed, what was read is the first rows of the listing, each once.
LEMMA UndisturbedIsPrefix ==
    ASSUME Typed, Fresh, Undisturbed, scan.added \cup scan.removed = {},
           NEW rows \in Orders
    PROVE  /\ Len(scan.seen) \in 0..Len(rows)
           /\ Seen = Stretch(rows, 1, Len(scan.seen))
<1> DEFINE L == Len(scan.seen)
<1>1. /\ Seen \in Fronts
      /\ \A i, j \in DOMAIN scan.seen : i < j => Before(scan.seen[i], scan.seen[j])
    BY DEF Undisturbed
<1>2. /\ L \in Nat /\ DOMAIN scan.seen = 1..L /\ scan.seen \in [1..L -> Agents]
    BY DEF Typed, Scans
<1>3. Seen \subseteq Listed
    BY <1>1 DEF Fronts
<1>4. \A i, j \in 1..L : i # j => scan.seen[i] # scan.seen[j]
    <2> SUFFICES ASSUME NEW i \in 1..L, NEW j \in 1..L, i < j
                 PROVE  scan.seen[i] # scan.seen[j]
        BY <1>2
    <2>1. Before(scan.seen[i], scan.seen[j])
        BY <1>1, <1>2
    <2>2. scan.seen[i] \in Listed
        BY <1>2, <1>3 DEF Seen, ToSet
    <2> QED
        BY <2>1, <2>2, BeforeIsStrict
<1>5. Cardinality(Seen) = L
    <2>1. scan.seen \in Seq(Agents)
        BY DEF Typed, Scans
    <2>2. Cardinality(ToSet(scan.seen)) = Len(scan.seen)
        BY <1>4, <2>1, NoRepeatsCount
    <2> QED
        BY <2>2 DEF Seen
<1>6. Cardinality(Seen) \in 0..Len(rows) /\ Seen = Stretch(rows, 1, Cardinality(Seen))
    BY <1>1, FrontsArePrefixes
<1> QED
    BY <1>5, <1>6

\* So is what was read with one page more.
LEMMA PageExtendsPrefix ==
    ASSUME Typed, Fresh, Undisturbed, scan.added \cup scan.removed = {},
           NEW rows \in Orders, NEW page \in Seq(Agents),
           Len(page) > 0 => Len(scan.seen) + Len(page) <= Len(rows),
           \A i \in 1..Len(page) : page[i] = rows[Len(scan.seen) + i]
    PROVE  LET L == Len(scan.seen)
               s == scan.seen \o page
           IN  /\ L + Len(page) \in 0..Len(rows)
               /\ Seen \cup Stretch(rows, L + 1, L + Len(page))
                      = Stretch(rows, 1, L + Len(page))
               /\ \A i, j \in 1..L + Len(page) : i < j => Before(s[i], s[j])
<1> DEFINE L == Len(scan.seen)
           k == Len(page)
           n == Len(rows)
           s == scan.seen \o page
<1>1. /\ rows \in [1..n -> Listed] /\ n \in Nat
      /\ \A i, j \in 1..n : i < j => Before(rows[i], rows[j])
    BY ListingOrder
<1>2. L \in 0..n /\ Seen = Stretch(rows, 1, L)
    BY UndisturbedIsPrefix
<1>3. k \in Nat
    OBVIOUS
<1>4. L + k \in 0..n
    BY <1>1, <1>2, <1>3
<1>5. Seen \cup Stretch(rows, L + 1, L + k) = Stretch(rows, 1, L + k)
    <2>1. 1..L + k = 1..L \cup L + 1..L + k
        BY <1>2, <1>3
    <2> HIDE DEF L, k
    <2> QED
        BY <1>2, <2>1 DEF Stretch
<1>6. ASSUME NEW i \in 1..L + k, NEW j \in 1..L + k, i < j
      PROVE  Before(s[i], s[j])
    <2>1. /\ scan.seen \in Seq(Agents) /\ DOMAIN scan.seen = 1..L
          /\ L \in Nat /\ n \in Nat /\ i \in Int /\ j \in Int
        BY <1>1, <1>2, <1>3 DEF Typed, Scans
    <2>2. \A x \in 1..L : s[x] = scan.seen[x]
        BY <2>1
    <2>3. \A x \in L + 1..L + k : s[x] = rows[x]
        <3> SUFFICES ASSUME NEW x \in L + 1..L + k
                     PROVE  s[x] = rows[x]
            OBVIOUS
        <3>1. x - L \in 1..k /\ L + (x - L) = x
            BY <1>3, <2>1
        <3>2. s[x] = page[x - L]
            BY <1>3, <2>1, <3>1
        <3> QED
            BY <3>1, <3>2
    <2> HIDE DEF s, L, k, n
    <2>4. CASE j <= L
        <3>1. i \in 1..L /\ j \in 1..L
            BY <1>6, <2>1, <2>4
        <3>2. Before(scan.seen[i], scan.seen[j])
            BY <1>6, <2>1, <3>1 DEF Undisturbed
        <3> QED
            BY <2>2, <3>1, <3>2
    <2>5. CASE i <= L /\ j > L
        <3>1. i \in 1..L /\ j \in L + 1..L + k
            BY <1>3, <1>6, <2>1, <2>5
        <3>2. scan.seen[i] \in Seen
            BY <2>1, <3>1 DEF Seen, ToSet
        <3>3. PICK x \in 1..L : scan.seen[i] = rows[x]
            BY <1>2, <3>2 DEF Stretch
        <3>4. x \in 1..n /\ j \in 1..n /\ x < j
            BY <1>2, <1>3, <1>4, <2>1, <3>1
        <3> QED
            BY <1>1, <2>2, <2>3, <3>1, <3>3, <3>4
    <2>6. CASE i > L
        <3>1. /\ i \in L + 1..L + k /\ j \in L + 1..L + k
              /\ i \in 1..n /\ j \in 1..n
            BY <1>2, <1>3, <1>4, <1>6, <2>1, <2>6
        <3> QED
            BY <1>1, <1>6, <2>3, <3>1
    <2> QED
        BY <1>3, <2>1, <2>4, <2>5, <2>6
<1> QED
    BY <1>4, <1>5, <1>6

-----------------------------------------------------------------------------
(* Every step keeps the types.                                             *)

\* What the type of a scan says of each of its fields.
LEMMA ScanFields ==
    ASSUME scan \in Scans
    PROVE  /\ scan.pc \in {"idle", "paging", "done"} /\ scan.limit \in Int
           /\ scan.offset \in Int /\ scan.seen \in Seq(Agents)
           /\ scan.first \subseteq Agents /\ scan.added \subseteq Agents
           /\ scan.removed \subseteq Agents
           /\ scan.code \in {"none", "200", "422", "500"}
           /\ Len(scan.seen) \in Nat
BY DEF Scans

\* NoScan is a scan.
LEMMA NoScanTyped == NoScan \in Scans
BY DEF NoScan, Scans

\* The initial state has the types.
LEMMA InitTyped == Init => Typed
<1> SUFFICES ASSUME Init PROVE Typed
    OBVIOUS
<1>1. IsFiniteSet({})
    BY FS_EmptySet
<1>2. scan \in Scans
    BY NoScanTyped DEF Init
<1> QED
    BY <1>1, <1>2, BoundsAssumption DEF Init, Typed, Closed

\* An insert keeps the types.
LEMMA InsertTyped == ASSUME Typed, NEW w \in Writers, Insert(w) PROVE Typed'
<1>1. PICK a \in Agents \ issued :
          /\ issued' = issued \cup {a}
          /\ \/ /\ writer[w] = Closed
                /\ clock' \in {clock, clock + 1} \cap 1..MaxClock
                /\ writer' = [writer EXCEPT ![w] = [began |-> clock', rows |-> {a}]]
             \/ /\ writer[w] # Closed
                /\ writer' = [writer EXCEPT ![w].rows = @ \cup {a}]
                /\ UNCHANGED clock
          /\ UNCHANGED <<created, scan>>
    BY DEF Insert
<1>2. issued' \in SUBSET Agents /\ IsFiniteSet(issued')
    BY <1>1, FS_AddElement DEF Typed
<1>3. clock' \in 0..MaxClock
    BY <1>1 DEF Typed
<1>4. writer' \in [Writers -> [began : 0..MaxClock, rows : SUBSET issued']]
    <2>1. \A v \in Writers : writer[v] \in [began : 0..MaxClock, rows : SUBSET issued']
        BY <1>1 DEF Typed
    <2>2. CASE writer' = [writer EXCEPT ![w] = [began |-> clock', rows |-> {a}]]
        BY <1>1, <1>3, <2>1, <2>2 DEF Typed
    <2>3. CASE writer' = [writer EXCEPT ![w].rows = @ \cup {a}]
        <3>1. writer[w].rows \cup {a} \in SUBSET issued'
            BY <1>1, <2>1
        <3> QED
            BY <2>1, <2>3, <3>1 DEF Typed
    <2> QED
        BY <1>1, <2>2, <2>3
<1> QED
    BY <1>1, <1>2, <1>3, <1>4 DEF Typed

\* A commit keeps the types.
LEMMA CommitTyped == ASSUME Typed, NEW w \in Writers, Commit(w) PROVE Typed'
<1> DEFINE rows == writer[w].rows
<1>1. writer[w].began \in 0..MaxClock /\ rows \subseteq issued /\ issued \subseteq Agents
    BY DEF Typed
<1>2. created' \in [Agents -> 0..MaxClock \cup {NoRow}]
    BY <1>1 DEF Commit, Typed
<1>3. Closed \in [began : 0..MaxClock, rows : SUBSET issued]
    BY BoundsAssumption DEF Closed
<1>4. writer' \in [Writers -> [began : 0..MaxClock, rows : SUBSET issued]]
    BY <1>3 DEF Commit, Typed
<1>5. scan' \in Scans
    <2>1. (IF scan.pc # "idle" THEN scan.added \cup rows ELSE scan.added) \in SUBSET Agents
        BY <1>1, ScanFields DEF Typed
    <2> HIDE DEF rows
    <2>2. scan' = [scan EXCEPT !.added =
                       IF scan.pc # "idle" THEN scan.added \cup rows ELSE scan.added]
        BY DEF Commit, rows
    <2> QED
        BY <2>1, <2>2 DEF Typed, Scans
<1> QED
    BY <1>2, <1>4, <1>5 DEF Commit, Typed

\* A rollback keeps the types.
LEMMA RollbackTyped == ASSUME Typed, NEW w \in Writers, Rollback(w) PROVE Typed'
<1>1. Closed \in [began : 0..MaxClock, rows : SUBSET issued]
    BY BoundsAssumption DEF Closed
<1> QED
    BY <1>1 DEF Rollback, Typed

\* A delete keeps the types.
LEMMA DeleteAgentTyped == ASSUME Typed, NEW a \in Agents, DeleteAgent(a) PROVE Typed'
<1>1. scan' \in Scans
    <2>1. (IF scan.pc # "idle" THEN scan.removed \cup {a} ELSE scan.removed) \in SUBSET Agents
        BY ScanFields DEF Typed
    <2>2. scan' = [scan EXCEPT !.removed =
                       IF scan.pc # "idle" THEN scan.removed \cup {a} ELSE scan.removed]
        BY DEF DeleteAgent
    <2> QED
        BY <2>1, <2>2 DEF Typed, Scans
<1>2. created' \in [Agents -> 0..MaxClock \cup {NoRow}]
    BY DEF DeleteAgent, Typed
<1> QED
    BY <1>1, <1>2 DEF DeleteAgent, Typed

\* A scan begins with the types of one.
LEMMA StartScanTyped ==
    ASSUME Typed, NEW limit \in Int, NEW offset \in Int, StartScan(limit, offset)
    PROVE  Typed'
<1>1. Listed \subseteq Agents
    BY DEF Listed
<1>2. scan' = [NoScan EXCEPT !.pc = "paging", !.limit = limit, !.offset = offset,
                             !.first = Listed]
    BY DEF StartScan
<1>3. scan' \in Scans
    BY <1>1, <1>2, NoScanTyped DEF Scans
<1> QED
    BY <1>3 DEF StartScan, Typed

\* A refusal ends a scan and keeps its types.
LEMMA EndScanTyped ==
    ASSUME Typed, NEW code \in {"422", "500"}, EndScan(code) PROVE Typed'
<1>1. scan' \in Scans
    BY DEF EndScan, Typed, Scans
<1> QED
    BY <1>1 DEF EndScan, Typed

\* A page is of agents.
LEMMA ReadPageTyped == ASSUME Typed, Fresh, ReadPage PROVE Typed'
<1>1. PICK rows \in Orders :
          LET page == Page(rows, scan.limit, scan.offset) IN
          scan' = [scan EXCEPT
              !.seen = @ \o page,
              !.offset = @ + Len(page),
              !.code = "200",
              !.pc = IF Len(page) < scan.limit THEN "done" ELSE "paging"]
    BY DEF ReadPage
<1> DEFINE page == Page(rows, scan.limit, scan.offset)
<1>2. scan.limit \in Nat \ {0} /\ scan.offset \in Nat
    BY ScanFields DEF ReadPage, InBounds, Typed
<1>3. rows \in Seq(Listed)
    BY ListingOrder
<1>4. page \in Seq(Listed) /\ Len(page) \in Nat
    <2>1. page = Page(rows, scan.limit, scan.offset)
        OBVIOUS
    <2> HIDE DEF page
    <2> QED
        BY <1>2, <1>3, <2>1, PageIsStretch
<1>5. page \in Seq(Agents)
    BY <1>4 DEF Listed
<1> HIDE DEF page
<1>6. scan.seen \o page \in Seq(Agents) /\ scan.offset + Len(page) \in Int
    BY <1>2, <1>4, <1>5, ScanFields DEF Typed
<1>7. scan' = [scan EXCEPT
              !.seen = scan.seen \o page,
              !.offset = scan.offset + Len(page),
              !.code = "200",
              !.pc = IF Len(page) < scan.limit THEN "done" ELSE "paging"]
    BY <1>1 DEF page
<1>8. scan' \in Scans
    BY <1>6, <1>7 DEF Typed, Scans
<1> QED
    BY <1>8 DEF ReadPage, Typed

\* Every step keeps the types.
LEMMA TypedKept == ASSUME Inv, [Next]_vars PROVE Typed'
<1> USE DEF Inv
<1>1. ASSUME NEW w \in Writers, Insert(w) PROVE Typed'
    BY <1>1, InsertTyped
<1>2. ASSUME NEW w \in Writers, Commit(w) PROVE Typed'
    BY <1>2, CommitTyped
<1>3. ASSUME NEW w \in Writers, Rollback(w) PROVE Typed'
    BY <1>3, RollbackTyped
<1>4. ASSUME NEW a \in Agents, DeleteAgent(a) PROVE Typed'
    BY <1>4, DeleteAgentTyped
<1>5. ASSUME NEW limit \in 0..MaxLimit + 1, NEW offset \in {-1, 0, MaxOffset + 1},
             StartScan(limit, offset)
      PROVE  Typed'
    <2>1. limit \in Int /\ offset \in Int
        BY BoundsAssumption
    <2> QED
        BY <1>5, <2>1, StartScanTyped
<1>6. CASE RefuseBounds
    BY <1>6, EndScanTyped DEF RefuseBounds
<1>7. CASE OffsetTooLarge
    BY <1>7, EndScanTyped DEF OffsetTooLarge
<1>8. CASE ReadPage
    BY <1>8, ReadPageTyped
<1>9. CASE Forget
    BY <1>9, NoScanTyped DEF Forget, Typed
<1>10. CASE UNCHANGED vars
    BY <1>10 DEF vars, Typed
<1> QED
    BY <1>1, <1>2, <1>3, <1>4, <1>5, <1>6, <1>7, <1>8, <1>9, <1>10 DEF Next

-----------------------------------------------------------------------------
(* Every step keeps the uuids apart.                                       *)

\* Initially no uuid is issued.
LEMMA InitFresh == Init => Fresh
<1> SUFFICES ASSUME Init PROVE Fresh
    OBVIOUS
<1>1. Listed = {} /\ Seen = {} /\ scan.first = {} /\ scan.added = {} /\ scan.removed = {}
    BY DEF Init, Listed, Seen, ToSet, NoScan
<1>2. \A w \in Writers : writer[w].rows = {}
    BY DEF Init, Closed
<1> QED
    BY <1>1, <1>2 DEF Fresh, Known

\* A new agent has a uuid nobody has.
LEMMA InsertFresh == ASSUME Typed, Fresh, NEW w \in Writers, Insert(w) PROVE Fresh'
<1>1. PICK a \in Agents \ issued :
          /\ issued' = issued \cup {a}
          /\ \/ /\ writer[w] = Closed
                /\ writer' = [writer EXCEPT ![w] = [began |-> clock', rows |-> {a}]]
             \/ writer' = [writer EXCEPT ![w].rows = @ \cup {a}]
          /\ UNCHANGED <<created, scan>>
    BY DEF Insert
<1>2. Known' = Known /\ Listed' = Listed
    BY <1>1 DEF Known, Listed, Seen
<1>3. /\ Known \subseteq issued /\ scan.removed \cap Listed = {}
      /\ \A v \in Writers : writer[v].rows \cap Known = {} /\ writer[v].rows \subseteq issued
      /\ \A u, v \in Writers : u # v => writer[u].rows \cap writer[v].rows = {}
    BY DEF Fresh, Typed
<1>4. writer'[w].rows \subseteq writer[w].rows \cup {a}
    <2>1. writer \in [Writers -> [began : 0..MaxClock, rows : SUBSET issued]]
        BY DEF Typed
    <2> QED
        BY <1>1, <2>1
<1>5. \A v \in Writers : v # w => writer'[v] = writer[v]
    BY <1>1 DEF Typed
<1>6. a \notin issued
    BY <1>1
<1>7. \A v \in Writers : writer'[v].rows \cap Known' = {}
    BY <1>2, <1>3, <1>4, <1>5, <1>6
<1>8. \A u, v \in Writers : u # v => writer'[u].rows \cap writer'[v].rows = {}
    BY <1>3, <1>4, <1>5, <1>6
<1>9. Known' \subseteq issued' /\ scan'.removed \cap Listed' = {}
    BY <1>1, <1>2, <1>3
<1> QED
    BY <1>7, <1>8, <1>9 DEF Fresh

\* What a commit does to the listing and to a scan.
LEMMA CommitEffect ==
    ASSUME Typed, NEW w \in Writers, Commit(w)
    PROVE  /\ Listed' = Listed \cup writer[w].rows
           /\ \A a \in Agents \ writer[w].rows : created'[a] = created[a]
           /\ scan' = [scan EXCEPT !.added = scan'.added]
           /\ scan'.added = IF scan.pc # "idle" THEN scan.added \cup writer[w].rows
                            ELSE scan.added
           /\ writer' = [writer EXCEPT ![w] = Closed] /\ issued' = issued
<1> DEFINE rows == writer[w].rows
<1>1. /\ writer[w].began \in 0..MaxClock /\ rows \subseteq Agents
    BY DEF Typed
<1>2. writer[w].began # NoRow
    BY <1>1, NoRowAssumption
<1>3. created' = [a \in Agents |-> IF a \in rows THEN writer[w].began ELSE created[a]]
    BY DEF Commit
<1>4. Listed' = Listed \cup rows
    BY <1>1, <1>2, <1>3 DEF Listed
<1>5. /\ scan' = [scan EXCEPT !.added = scan'.added]
      /\ scan'.added = IF scan.pc # "idle" THEN scan.added \cup rows ELSE scan.added
    BY DEF Commit, Typed, Scans
<1> QED
    BY <1>3, <1>4, <1>5 DEF Commit

\* Rows that are committed were nobody else's.
LEMMA CommitFresh == ASSUME Typed, Fresh, NEW w \in Writers, Commit(w) PROVE Fresh'
<1> DEFINE rows == writer[w].rows
<1>1. /\ Listed' = Listed \cup rows
      /\ scan' = [scan EXCEPT !.added = scan'.added]
      /\ scan'.added \subseteq scan.added \cup rows
      /\ writer' = [writer EXCEPT ![w] = Closed] /\ issued' = issued
    BY CommitEffect
<1>2. /\ scan'.seen = scan.seen /\ scan'.first = scan.first
      /\ scan'.removed = scan.removed
    BY <1>1 DEF Typed, Scans
<1>3. Known' \subseteq Known \cup rows
    BY <1>1, <1>2 DEF Known, Seen
<1>4. /\ Known \subseteq issued /\ scan.removed \cap Listed = {}
      /\ scan.removed \subseteq Known
      /\ \A v \in Writers : writer[v].rows \cap Known = {} /\ writer[v].rows \subseteq issued
      /\ \A u, v \in Writers : u # v => writer[u].rows \cap writer[v].rows = {}
    BY DEF Fresh, Typed, Known
<1>5. writer'[w].rows = {} /\ \A v \in Writers : v # w => writer'[v] = writer[v]
    BY <1>1 DEF Typed, Closed
<1> HIDE DEF rows
<1>6. \A v \in Writers : writer'[v].rows \cap Known' = {}
    BY <1>3, <1>4, <1>5 DEF rows
<1>7. \A u, v \in Writers : u # v => writer'[u].rows \cap writer'[v].rows = {}
    BY <1>4, <1>5
<1>8. Known' \subseteq issued' /\ scan'.removed \cap Listed' = {}
    BY <1>1, <1>2, <1>3, <1>4 DEF rows
<1> QED
    BY <1>6, <1>7, <1>8 DEF Fresh

\* A transaction rolled back holds nothing any more.
LEMMA RollbackFresh == ASSUME Typed, Fresh, NEW w \in Writers, Rollback(w) PROVE Fresh'
<1>1. writer' = [writer EXCEPT ![w] = Closed] /\ UNCHANGED <<created, issued, scan>>
    BY DEF Rollback
<1>2. Known' = Known /\ Listed' = Listed
    BY <1>1 DEF Known, Listed, Seen
<1>3. writer'[w].rows = {} /\ \A v \in Writers : v # w => writer'[v] = writer[v]
    BY <1>1 DEF Typed, Closed
<1> QED
    BY <1>1, <1>2, <1>3 DEF Fresh

\* What a delete does to the listing and to a scan.
LEMMA DeleteEffect ==
    ASSUME Typed, NEW a \in Agents, DeleteAgent(a)
    PROVE  /\ a \in Listed /\ Listed' = Listed \ {a}
           /\ \A b \in Agents \ {a} : created'[b] = created[b]
           /\ scan' = [scan EXCEPT !.removed = scan'.removed]
           /\ scan'.removed = IF scan.pc # "idle" THEN scan.removed \cup {a}
                              ELSE scan.removed
           /\ UNCHANGED <<writer, issued>>
<1>1. created' = [created EXCEPT ![a] = NoRow]
    BY DEF DeleteAgent
<1>2. Listed' = Listed \ {a}
    BY <1>1 DEF Listed, Typed
<1>3. \A b \in Agents \ {a} : created'[b] = created[b]
    BY <1>1 DEF Typed
<1>4. /\ scan' = [scan EXCEPT !.removed = scan'.removed]
      /\ scan'.removed = IF scan.pc # "idle" THEN scan.removed \cup {a} ELSE scan.removed
    BY DEF DeleteAgent, Typed, Scans
<1> QED
    BY <1>2, <1>3, <1>4 DEF DeleteAgent

\* An agent deleted is known and not listed.
LEMMA DeleteAgentFresh == ASSUME Typed, Fresh, NEW a \in Agents, DeleteAgent(a) PROVE Fresh'
<1>1. /\ a \in Listed /\ Listed' = Listed \ {a}
      /\ scan' = [scan EXCEPT !.removed = scan'.removed]
      /\ scan'.removed \subseteq scan.removed \cup {a}
      /\ UNCHANGED <<writer, issued>>
    BY DeleteEffect
<1>2. scan'.seen = scan.seen /\ scan'.first = scan.first /\ scan'.added = scan.added
    BY <1>1 DEF Typed, Scans
<1>3. Known' \subseteq Known
    BY <1>1, <1>2 DEF Known, Seen
<1> QED
    BY <1>1, <1>2, <1>3 DEF Fresh

\* A scan that begins, ends or is forgotten knows nothing new.
LEMMA ScanFresh ==
    ASSUME Typed, Fresh, UNCHANGED <<created, issued, writer>>,
           Seen' \cup scan'.first \cup scan'.added \cup scan'.removed \subseteq Known,
           scan'.removed \subseteq scan.removed
    PROVE  Fresh'
<1>1. Listed' = Listed
    BY DEF Listed
<1>2. Known' \subseteq Known
    BY <1>1 DEF Known
<1> QED
    BY <1>1, <1>2 DEF Fresh

\* What a page does: the rows after those read, of an order of the listing.
LEMMA ReadEffect ==
    ASSUME Typed, Fresh, AtTheEnd, ReadPage
    PROVE  \E rows \in Orders, page \in Seq(Agents) :
              LET L == Len(scan.seen)
                  k == Len(page)
                  P == Stretch(rows, L + 1, L + k)
              IN  /\ k \in Nat /\ L \in Nat
                  /\ k > 0 => L + k <= Len(rows)
                  /\ k < scan.limit => L + k >= Len(rows)
                  /\ \A i \in 1..k : page[i] = rows[L + i]
                  /\ P \subseteq Listed
                  /\ Seen' = Seen \cup P /\ Missed' = Missed \ P
                  /\ scan'.seen = scan.seen \o page /\ Len(scan'.seen) = L + k
                  /\ scan'.offset = L + k
                  /\ scan'.pc = (IF k < scan.limit THEN "done" ELSE "paging")
                  /\ scan'.first = scan.first /\ scan'.added = scan.added
                  /\ scan'.removed = scan.removed
                  /\ created' = created /\ Listed' = Listed
<1>1. PICK rows \in Orders :
          scan' = [scan EXCEPT
              !.seen = @ \o Page(rows, scan.limit, scan.offset),
              !.offset = @ + Len(Page(rows, scan.limit, scan.offset)),
              !.code = "200",
              !.pc = IF Len(Page(rows, scan.limit, scan.offset)) < scan.limit
                     THEN "done" ELSE "paging"]
    BY DEF ReadPage
<1> DEFINE page == Page(rows, scan.limit, scan.offset)
           L == Len(scan.seen)
           k == Len(page)
           P == Stretch(rows, L + 1, L + k)
<1>2. /\ scan.limit \in Nat \ {0} /\ scan.offset \in Nat /\ scan.offset <= MaxOffset
      /\ scan.seen \in Seq(Agents) /\ L \in Nat
    BY ScanFields DEF ReadPage, InBounds, Typed
<1>3. scan.offset = L
    BY <1>2, BoundsAssumption DEF AtTheEnd, ReadPage
<1>4. rows \in Seq(Listed)
    BY ListingOrder
<1>5. /\ page \in Seq(Listed) /\ k \in Nat
      /\ k > 0 => L + k <= Len(rows)
      /\ k < scan.limit => L + k >= Len(rows)
      /\ \A i \in 1..k : page[i] = rows[L + i]
      /\ ToSet(page) = P
    <2>1. scan.limit \in Nat \ {0} /\ L \in Nat /\ page = Page(rows, scan.limit, L)
        BY <1>2, <1>3
    <2> HIDE DEF page
    <2>2. ASSUME NEW m \in Nat \ {0}, NEW o \in Nat, page = Page(rows, m, o)
          PROVE  /\ page \in Seq(Listed) /\ Len(page) \in 0..m
                 /\ Len(page) > 0 => o + Len(page) <= Len(rows)
                 /\ Len(page) < m => o + Len(page) >= Len(rows)
                 /\ \A i \in 1..Len(page) : page[i] = rows[o + i]
        BY <1>4, <2>2, PageIsStretch
    <2>3. /\ page \in Seq(Listed) /\ Len(page) \in 0..scan.limit
          /\ Len(page) > 0 => L + Len(page) <= Len(rows)
          /\ Len(page) < scan.limit => L + Len(page) >= Len(rows)
          /\ \A i \in 1..Len(page) : page[i] = rows[L + i]
        <3> HIDE DEF L
        <3> QED
            BY <2>1, <2>2
    <2>4. k \in Nat /\ DOMAIN page = 1..k
        BY <2>3
    <2>5. ToSet(page) \subseteq P
        <3> SUFFICES ASSUME NEW i \in 1..k PROVE page[i] \in P
            BY <2>4 DEF ToSet
        <3>1. L + i \in L + 1..L + k /\ page[i] = rows[L + i]
            BY <1>2, <2>3, <2>4
        <3> QED
            BY <3>1 DEF Stretch
    <2>6. P \subseteq ToSet(page)
        <3> SUFFICES ASSUME NEW j \in L + 1..L + k PROVE rows[j] \in ToSet(page)
            BY DEF Stretch
        <3>1. j - L \in 1..k /\ L + (j - L) = j
            BY <1>2, <2>4
        <3>2. j - L \in DOMAIN page /\ page[j - L] = rows[j]
            BY <2>3, <2>4, <3>1
        <3> QED
            BY <3>2 DEF ToSet
    <2> QED
        BY <2>3, <2>4, <2>5, <2>6
<1> HIDE DEF page
<1>6. page \in Seq(Agents)
    BY <1>5 DEF Listed
<1>7. ToSet(page) \subseteq Listed
    BY <1>5 DEF ToSet
<1>8. scan' = [scan EXCEPT
              !.seen = scan.seen \o page,
              !.offset = scan.offset + k,
              !.code = "200",
              !.pc = IF k < scan.limit THEN "done" ELSE "paging"]
    BY <1>1 DEF page
<1>9. /\ scan'.seen = scan.seen \o page
      /\ scan'.offset = scan.offset + k
      /\ scan'.pc = (IF k < scan.limit THEN "done" ELSE "paging")
      /\ scan'.first = scan.first /\ scan'.added = scan.added
      /\ scan'.removed = scan.removed
    BY <1>8 DEF Typed, Scans
<1>10. created' = created /\ Listed' = Listed
    BY DEF ReadPage, Listed
<1>11. Seen' = Seen \cup P
    <2>1. Seen' = ToSet(scan.seen \o page)
        BY <1>9 DEF Seen
    <2>2. ToSet(scan.seen \o page) = ToSet(scan.seen) \cup ToSet(page)
        BY <1>2, <1>6, ToSetOfBoth
    <2> QED
        BY <1>5, <2>1, <2>2 DEF Seen
<1>12. Missed' = Missed \ P
    <2>1. ToSet(scan'.seen) = ToSet(scan.seen) \cup P
        BY <1>11 DEF Seen
    <2> QED
        BY <1>9, <1>10, <2>1 DEF Missed
<1>13. Len(scan.seen \o page) = L + k
    BY <1>2, <1>6
<1> QED
    BY <1>2, <1>3, <1>5, <1>6, <1>7, <1>9, <1>10, <1>11, <1>12, <1>13

\* Every step keeps the uuids apart.
LEMMA FreshKept == ASSUME Inv, [Next]_vars PROVE Fresh'
<1> USE DEF Inv
<1>1. ASSUME NEW w \in Writers, Insert(w) PROVE Fresh'
    BY <1>1, InsertFresh
<1>2. ASSUME NEW w \in Writers, Commit(w) PROVE Fresh'
    BY <1>2, CommitFresh
<1>3. ASSUME NEW w \in Writers, Rollback(w) PROVE Fresh'
    BY <1>3, RollbackFresh
<1>4. ASSUME NEW a \in Agents, DeleteAgent(a) PROVE Fresh'
    BY <1>4, DeleteAgentFresh
<1>5. ToSet(<<>>) = {}
    BY DEF ToSet
<1>6. ASSUME NEW limit, NEW offset, StartScan(limit, offset) PROVE Fresh'
    <2>1. scan' = [NoScan EXCEPT !.pc = "paging", !.limit = limit, !.offset = offset,
                                 !.first = Listed]
        BY <1>6 DEF StartScan
    <2>2. /\ scan'.seen = <<>> /\ scan'.first = Listed /\ scan'.added = {}
          /\ scan'.removed = {}
        BY <2>1 DEF NoScan
    <2> QED
        BY <1>5, <1>6, <2>2, ScanFresh DEF StartScan, Known, Seen
<1>7. ASSUME NEW code, EndScan(code) PROVE Fresh'
    <2>1. /\ scan'.seen = scan.seen /\ scan'.first = scan.first
          /\ scan'.added = scan.added /\ scan'.removed = scan.removed
        BY <1>7 DEF EndScan, Typed, Scans
    <2> QED
        BY <1>7, <2>1, ScanFresh DEF EndScan, Known, Seen
<1>8. CASE ReadPage
    <2>1. /\ Seen' \subseteq Seen \cup Listed /\ scan'.first = scan.first
          /\ scan'.added = scan.added /\ scan'.removed = scan.removed
        BY <1>8, ReadEffect DEF Paged
    <2> QED
        BY <1>8, <2>1, ScanFresh DEF ReadPage, Known
<1>9. CASE Forget
    <2>1. /\ scan'.seen = <<>> /\ scan'.first = {} /\ scan'.added = {}
          /\ scan'.removed = {}
        BY <1>9 DEF Forget, NoScan
    <2> QED
        BY <1>5, <1>9, <2>1, ScanFresh DEF Forget, Seen
<1>10. CASE UNCHANGED vars
    BY <1>10 DEF vars, Fresh, Known, Listed, Seen
<1> QED
    BY <1>1, <1>2, <1>3, <1>4, <1>6, <1>7, <1>8, <1>9, <1>10
       DEF Next, RefuseBounds, OffsetTooLarge

-----------------------------------------------------------------------------
(* Every step keeps a scan dependable.                                     *)

\* What a scan shows depends on the table and on what was read.
LEMMA PagedUnchanged == ASSUME Paged, UNCHANGED <<created, scan>> PROVE Paged'
<1>1. Listed' = Listed /\ Seen' = Seen /\ Missed' = Missed /\ scan' = scan
    BY DEF Listed, Seen, Missed
<1>2. Fronts' = Fronts
    BY <1>1 DEF Fronts, Leads, Before
<1>3. FewMissed => FewMissed'
    BY <1>1, <1>2 DEF FewMissed, Beyond
<1>4. FewRepeated => FewRepeated'
    BY <1>1, <1>2 DEF FewRepeated, Beyond
<1>5. Undisturbed => Undisturbed'
    BY <1>1, <1>2 DEF Undisturbed, Before
<1>6. AtTheEnd => AtTheEnd'
    BY <1>1 DEF AtTheEnd
<1>7. SkipsNeedDeletes => SkipsNeedDeletes'
    BY <1>1 DEF SkipsNeedDeletes, Complete
<1>8. RepeatsNeedCreates => RepeatsNeedCreates'
    BY <1>1 DEF RepeatsNeedCreates
<1>9. QuietScanIsTheTable => QuietScanIsTheTable'
    BY <1>1 DEF QuietScanIsTheTable, Complete
<1> QED
    BY <1>1, <1>3, <1>4, <1>5, <1>6, <1>7, <1>8, <1>9 DEF Paged

\* What leads the listing after a commit led it before, the new rows aside.
LEMMA FrontBeforeCommit ==
    ASSUME Typed, Fresh, NEW w \in Writers, Commit(w), NEW D \in Fronts'
    PROVE  /\ D \ writer[w].rows \in Fronts
           /\ D \subseteq Listed \cup writer[w].rows
<1> DEFINE R == writer[w].rows
<1>1. /\ Listed' = Listed \cup R
      /\ \A a \in Agents \ R : created'[a] = created[a]
    BY CommitEffect
<1>2. R \cap Listed = {}
    BY DEF Fresh, Known
<1>3. D \subseteq Listed' /\ \A a \in D, b \in Listed' : Before(b, a)' => b \in D
    BY DEF Fronts, Leads
<1> HIDE DEF R
<1>4. \A a \in Listed : a \in Agents \ R
    BY <1>2 DEF Listed
<1>5. \A a, b \in Listed : Before(b, a) => Before(b, a)'
    BY <1>1, <1>4 DEF Before
<1>6. D \ R \subseteq Listed
    BY <1>1, <1>3
<1>7. Leads(D \ R)
    BY <1>1, <1>2, <1>3, <1>5, <1>6 DEF Leads
<1>8. D \ R \in Fronts /\ D \subseteq Listed \cup R
    BY <1>1, <1>3, <1>6, <1>7 DEF Fronts
<1> QED
    BY <1>8 DEF R

\* A commit hides nothing from a scan and adds as many rows as may be repeated.
LEMMA CommitPaged == ASSUME Inv, NEW w \in Writers, Commit(w) PROVE Paged'
<1> USE DEF Inv
<1> DEFINE R == writer[w].rows
           L == Len(scan.seen)
<1>1. /\ Listed' = Listed \cup R
      /\ \A a \in Agents \ R : created'[a] = created[a]
      /\ scan' = [scan EXCEPT !.added = scan'.added]
      /\ scan'.added = IF scan.pc # "idle" THEN scan.added \cup R ELSE scan.added
    BY CommitEffect
<1>2. /\ scan'.pc = scan.pc /\ scan'.code = scan.code /\ scan'.offset = scan.offset
      /\ scan'.seen = scan.seen /\ scan'.first = scan.first
      /\ scan'.removed = scan.removed
    BY <1>1 DEF Typed, Scans
<1>3. /\ R \cap Listed = {} /\ R \cap Seen = {} /\ R \cap scan.first = {}
      /\ R \cap scan.added = {}
    BY DEF Fresh, Known
<1>4. IsFiniteSet(R) /\ Cardinality(R) \in Nat
    <2>1. R \subseteq issued /\ IsFiniteSet(issued)
        BY DEF Typed
    <2> QED
        BY <2>1, PartIsSmaller
<1>5. /\ IsFiniteSet(Listed) /\ IsFiniteSet(Seen) /\ IsFiniteSet(Missed)
      /\ IsFiniteSet(scan.added) /\ IsFiniteSet(scan.removed)
      /\ Cardinality(scan.added) \in Nat /\ Cardinality(scan.removed) \in Nat /\ L \in Nat
    BY KnownIsFinite, FS_CardinalityType DEF Typed, Scans
<1> HIDE DEF R
<1>6. Seen' = Seen /\ Missed' = Missed
    BY <1>1, <1>2, <1>3 DEF Seen, Missed
<1>7. /\ scan.pc # "idle" =>
             Cardinality(scan'.added) = Cardinality(scan.added) + Cardinality(R)
      /\ scan.pc = "idle" => scan'.added = scan.added
    BY <1>1, <1>3, <1>4, <1>5, UnionIsBounded
<1>8. ASSUME NEW D \in Fronts', scan.pc = "paging"
      PROVE  /\ Cardinality(D \cap Missed') <= Cardinality(scan'.removed) + Beyond(D)'
             /\ Cardinality(D) - Beyond(D)'
                    <= Cardinality(scan'.added) + Cardinality(Seen' \ (Listed' \ D))
    <2> DEFINE E == D \ R
               d == Cardinality(D)
               e == Cardinality(E)
               over(c) == IF c > L THEN c - L ELSE 0
    <2>1. E \in Fronts /\ D \subseteq Listed \cup R
        BY <1>8, FrontBeforeCommit DEF R
    <2>2. D \subseteq E \cup R /\ E \subseteq D
        OBVIOUS
    <2>3. D \cap Missed' = E \cap Missed
        BY <1>3, <1>6 DEF Missed
    <2>4. Seen' \ (Listed' \ D) = Seen \ (Listed \ E)
        BY <1>1, <1>3, <1>6
    <2>5. Beyond(D)' = over(d) /\ Beyond(E) = over(e)
        BY <1>2 DEF Beyond
    <2> HIDE DEF E
    <2>6. e \in Nat /\ d \in Nat /\ e <= d /\ d <= e + Cardinality(R)
        <3>1. IsFiniteSet(Listed \cup R)
            BY <1>4, <1>5, UnionIsBounded
        <3>2. IsFiniteSet(D) /\ d \in Nat
            BY <2>1, <3>1, PartIsSmaller
        <3>3. IsFiniteSet(E) /\ e \in Nat /\ e <= d
            BY <2>2, <3>2, PartIsSmaller
        <3>4. /\ IsFiniteSet(E \cup R) /\ Cardinality(E \cup R) <= e + Cardinality(R)
              /\ Cardinality(E \cup R) \in Nat
            BY <1>4, <3>3, UnionIsBounded
        <3>5. d <= Cardinality(E \cup R)
            BY <2>2, <3>4, PartIsSmaller
        <3> HIDE DEF d, e
        <3> QED
            BY <1>4, <3>2, <3>3, <3>4, <3>5
    <2>7. Cardinality(E \cap Missed) <= Cardinality(scan.removed) + over(e)
        BY <1>8, <2>1, <2>5 DEF Paged, FewMissed
    <2>8. e - over(e) <= Cardinality(scan.added) + Cardinality(Seen \ (Listed \ E))
        BY <1>8, <2>1, <2>5 DEF Paged, FewRepeated
    <2>9. Cardinality(E \cap Missed) \in Nat /\ Cardinality(Seen \ (Listed \ E)) \in Nat
        BY <1>5, FS_Intersection, FS_Difference, FS_CardinalityType
    <2> HIDE DEF d, e, L
    <2>10. Cardinality(E \cap Missed) <= Cardinality(scan.removed) + over(d)
        BY <1>5, <2>6, <2>7, <2>9
    <2>11. d - over(d)
               <= Cardinality(scan.added) + Cardinality(R) + Cardinality(Seen \ (Listed \ E))
        BY <1>4, <1>5, <2>6, <2>8, <2>9
    <2>12. Cardinality(scan'.added) = Cardinality(scan.added) + Cardinality(R)
        BY <1>7, <1>8
    <2> HIDE DEF over
    <2> QED
        BY <1>2, <2>3, <2>4, <2>5, <2>10, <2>11, <2>12 DEF d
<1>9. scan.pc = "paging" => FewMissed' /\ FewRepeated'
    BY <1>8 DEF FewMissed, FewRepeated
<1>10. ASSUME scan.pc # "idle", scan'.added \cup scan'.removed = {}
       PROVE  created' = created /\ scan' = scan
    <2>1. R = {} /\ scan.added = {} /\ scan'.added = {}
        BY <1>1, <1>10
    <2>2. \A a \in Agents : created'[a] = created[a]
        BY <1>1, <2>1
    <2>3. created' = created
        BY <2>2 DEF Commit, Typed
    <2>4. scan' = scan
        <3>1. scan' = [scan EXCEPT !.added = scan.added]
            BY <1>1, <2>1
        <3> QED
            BY <3>1 DEF Typed, Scans
    <2> QED
        BY <2>3, <2>4
<1>11. scan.pc = "paging" => Undisturbed'
    BY <1>10, PagedUnchanged DEF Paged, Undisturbed
<1>12. QuietScanIsTheTable'
    BY <1>2, <1>10, PagedUnchanged DEF Paged, QuietScanIsTheTable, Complete
<1>13. SkipsNeedDeletes'
    BY <1>2, <1>6 DEF Paged, SkipsNeedDeletes, Complete
<1>14. RepeatsNeedCreates'
    <2>1. L - Cardinality(Seen) <= Cardinality(scan.added)
        BY DEF Paged, RepeatsNeedCreates, Seen
    <2>2. Cardinality(Seen) \in Nat
        BY <1>5, FS_CardinalityType
    <2>3. Cardinality(scan'.added) \in Nat /\ Cardinality(scan.added) <= Cardinality(scan'.added)
        BY <1>4, <1>5, <1>7
    <2>4. L - Cardinality(Seen) <= Cardinality(scan'.added)
        BY <1>5, <2>1, <2>2, <2>3
    <2> QED
        BY <1>2, <2>4 DEF RepeatsNeedCreates, Seen
<1>15. AtTheEnd'
    BY <1>2 DEF Paged, AtTheEnd
<1> QED
    BY <1>2, <1>9, <1>11, <1>12, <1>13, <1>14, <1>15 DEF Paged

\* What leads the listing after a delete led it before, with the agent deleted
\* where it stood ahead of some of it.
LEMMA FrontBeforeDelete ==
    ASSUME Typed, NEW a \in Agents, DeleteAgent(a), NEW D \in Fronts'
    PROVE  D \in Fronts \/ D \cup {a} \in Fronts
<1>1. /\ a \in Listed /\ Listed' = Listed \ {a}
      /\ \A b \in Agents \ {a} : created'[b] = created[b]
    BY DeleteEffect
<1>2. D \subseteq Listed' /\ \A x \in D, b \in Listed' : Before(b, x)' => b \in D
    BY DEF Fronts, Leads
<1>3. \A x, b \in Listed \ {a} : Before(b, x) => Before(b, x)'
    <2>1. Listed \subseteq Agents
        BY DEF Listed
    <2> QED
        BY <1>1, <2>1 DEF Before
<1>4. \A x \in D, b \in Listed \ {a} : Before(b, x) => b \in D
    BY <1>1, <1>2, <1>3
<1>5. CASE \E d \in D : Before(a, d)
    <2>1. PICK d \in D : Before(a, d)
        BY <1>5
    <2>2. ASSUME NEW x \in D \cup {a}, NEW b \in Listed, Before(b, x)
          PROVE  b \in D \cup {a}
        <3>1. CASE x = a /\ b # a
            <4>1. Before(b, d)
                BY <1>1, <1>2, <2>1, <2>2, <3>1, BeforeIsStrict
            <4> QED
                BY <1>4, <3>1, <4>1
        <3> QED
            BY <1>4, <2>2, <3>1
    <2> QED
        BY <1>1, <1>2, <2>2 DEF Fronts, Leads
<1>6. CASE ~ \E d \in D : Before(a, d)
    BY <1>1, <1>2, <1>4, <1>6 DEF Fronts, Leads
<1> QED
    BY <1>5, <1>6

\* A delete pulls one row ahead of the offset at most, and is counted.
LEMMA DeleteAgentPaged == ASSUME Inv, NEW a \in Agents, DeleteAgent(a) PROVE Paged'
<1> USE DEF Inv
<1> DEFINE L == Len(scan.seen)
<1>1. /\ a \in Listed /\ Listed' = Listed \ {a}
      /\ scan' = [scan EXCEPT !.removed = scan'.removed]
      /\ scan'.removed = IF scan.pc # "idle" THEN scan.removed \cup {a}
                         ELSE scan.removed
    BY DeleteEffect
<1>2. /\ scan'.pc = scan.pc /\ scan'.code = scan.code /\ scan'.offset = scan.offset
      /\ scan'.seen = scan.seen /\ scan'.first = scan.first
      /\ scan'.added = scan.added
    BY <1>1 DEF Typed, Scans
<1>3. a \notin scan.removed
    BY <1>1 DEF Fresh
<1>4. /\ IsFiniteSet(Listed) /\ IsFiniteSet(Seen) /\ IsFiniteSet(Missed)
      /\ IsFiniteSet(scan.removed)
      /\ Cardinality(scan.added) \in Nat /\ Cardinality(scan.removed) \in Nat /\ L \in Nat
    BY KnownIsFinite, FS_CardinalityType DEF Typed, Scans
<1>5. Seen' = Seen /\ Missed' = Missed \ {a}
    BY <1>1, <1>2 DEF Seen, Missed
<1>6. scan.pc # "idle" => Cardinality(scan'.removed) = Cardinality(scan.removed) + 1
    BY <1>1, <1>3, <1>4, FS_AddElement
<1>7. ASSUME NEW D \in Fronts', scan.pc = "paging"
      PROVE  /\ Cardinality(D \cap Missed') <= Cardinality(scan'.removed) + Beyond(D)'
             /\ Cardinality(D) - Beyond(D)'
                    <= Cardinality(scan'.added) + Cardinality(Seen' \ (Listed' \ D))
    <2> DEFINE d == Cardinality(D)
               over(c) == IF c > L THEN c - L ELSE 0
    <2>1. PICK E \in Fronts : E = D \/ E = D \cup {a}
        BY <1>7, FrontBeforeDelete
    <2> DEFINE e == Cardinality(E)
    <2>2. a \notin D
        BY <1>1 DEF Fronts
    <2>3. IsFiniteSet(E) /\ IsFiniteSet(D) /\ d \in Nat /\ e \in Nat /\ d <= e /\ e <= d + 1
        <3>1. E \subseteq Listed /\ D \subseteq E
            BY <2>1 DEF Fronts
        <3>2. IsFiniteSet(E)
            BY <1>4, <3>1, PartIsSmaller
        <3>3. IsFiniteSet(D) /\ d \in Nat /\ e \in Nat /\ d <= e
            BY <3>1, <3>2, PartIsSmaller
        <3>4. Cardinality(D \cup {a}) = d + 1
            BY <2>2, <3>3, FS_AddElement
        <3> QED
            BY <2>1, <3>2, <3>3, <3>4
    <2>4. /\ Cardinality(D \cap Missed') <= Cardinality(E \cap Missed)
          /\ Cardinality(D \cap Missed') \in Nat /\ Cardinality(E \cap Missed) \in Nat
        <3>1. D \cap Missed' \subseteq E \cap Missed
            BY <1>5, <2>1
        <3>2. IsFiniteSet(E \cap Missed)
            BY <1>4, FS_Intersection
        <3> QED
            BY <3>1, <3>2, PartIsSmaller
    <2>5. /\ Cardinality(Seen \ (Listed \ E)) <= Cardinality(Seen' \ (Listed' \ D))
          /\ Cardinality(Seen \ (Listed \ E)) \in Nat
          /\ Cardinality(Seen' \ (Listed' \ D)) \in Nat
        <3>1. Seen \ (Listed \ E) \subseteq Seen' \ (Listed' \ D)
            BY <1>1, <1>5, <2>1
        <3>2. IsFiniteSet(Seen' \ (Listed' \ D))
            BY <1>4, <1>5, FS_Difference
        <3> QED
            BY <3>1, <3>2, PartIsSmaller
    <2>6. Beyond(D)' = over(d) /\ Beyond(E) = over(e)
        BY <1>2 DEF Beyond
    <2>7. Cardinality(E \cap Missed) <= Cardinality(scan.removed) + over(e)
        BY <1>7, <2>6 DEF Paged, FewMissed
    <2>8. e - over(e) <= Cardinality(scan.added) + Cardinality(Seen \ (Listed \ E))
        BY <1>7, <2>6 DEF Paged, FewRepeated
    <2> HIDE DEF d, e, L
    <2>9. Cardinality(D \cap Missed') <= Cardinality(scan.removed) + 1 + over(d)
        BY <1>4, <2>3, <2>4, <2>7
    <2>10. d - over(d) <= Cardinality(scan.added) + Cardinality(Seen' \ (Listed' \ D))
        BY <1>4, <2>3, <2>5, <2>8
    <2> HIDE DEF over
    <2> QED
        BY <1>2, <1>6, <1>7, <2>6, <2>9, <2>10 DEF d
<1>8. scan.pc = "paging" => FewMissed' /\ FewRepeated'
    BY <1>7 DEF FewMissed, FewRepeated
<1>9. scan.pc # "idle" => scan'.added \cup scan'.removed # {}
    BY <1>1
<1>10. scan.pc = "paging" => Undisturbed'
    BY <1>9 DEF Undisturbed
<1>11. QuietScanIsTheTable'
    BY <1>2, <1>9 DEF QuietScanIsTheTable, Complete
<1>12. SkipsNeedDeletes'
    <2> SUFFICES ASSUME Complete'
                 PROVE  Cardinality(Missed') <= Cardinality(scan'.removed)
        BY DEF SkipsNeedDeletes
    <2>1. scan.pc = "done" /\ Cardinality(Missed) <= Cardinality(scan.removed)
        BY <1>2 DEF Paged, SkipsNeedDeletes, Complete
    <2>2. /\ Cardinality(Missed') <= Cardinality(Missed)
          /\ Cardinality(Missed') \in Nat /\ Cardinality(Missed) \in Nat
        BY <1>4, <1>5, PartIsSmaller
    <2> QED
        BY <1>4, <1>6, <2>1, <2>2
<1>13. RepeatsNeedCreates'
    BY <1>2 DEF Paged, RepeatsNeedCreates
<1>14. AtTheEnd'
    BY <1>2 DEF Paged, AtTheEnd
<1> QED
    BY <1>2, <1>8, <1>10, <1>11, <1>12, <1>13, <1>14 DEF Paged

\* A scan that has read nothing has missed and repeated nothing so far.
LEMMA StartScanPaged ==
    ASSUME Inv, NEW limit, NEW offset \in {-1, 0, MaxOffset + 1}, StartScan(limit, offset)
    PROVE  Paged'
<1> USE DEF Inv
<1>1. /\ scan' = [NoScan EXCEPT !.pc = "paging", !.limit = limit, !.offset = offset,
                                !.first = Listed]
      /\ created' = created
    BY DEF StartScan
<1>2. /\ scan'.pc = "paging" /\ scan'.offset = offset /\ scan'.seen = <<>>
      /\ scan'.added = {} /\ scan'.removed = {}
    BY <1>1 DEF NoScan
<1>3. Listed' = Listed /\ Fronts' = Fronts
    BY <1>1 DEF Listed, Fronts, Leads, Before
<1>4. Seen' = {} /\ Len(scan'.seen) = 0
    BY <1>2 DEF Seen, ToSet
<1>5. Cardinality({}) = 0
    BY FS_EmptySet
<1>6. ASSUME NEW D \in Fronts
      PROVE  /\ Cardinality(D \cap Missed') <= 0 + Beyond(D)'
             /\ Cardinality(D) - Beyond(D)' <= 0 + Cardinality(Seen' \ (Listed' \ D))
    <2>1. D \subseteq Listed /\ IsFiniteSet(Listed)
        BY KnownIsFinite DEF Fronts
    <2>2. IsFiniteSet(D) /\ Cardinality(D) \in Nat
        BY <2>1, PartIsSmaller
    <2>3. Cardinality(D \cap Missed') <= Cardinality(D) /\ Cardinality(D \cap Missed') \in Nat
        BY <2>2, PartIsSmaller
    <2>4. Beyond(D)' = Cardinality(D)
        BY <1>4, <2>2 DEF Beyond
    <2>5. Cardinality(Seen' \ (Listed' \ D)) = 0
        <3>1. Seen' \ (Listed' \ D) = {}
            BY <1>4
        <3> QED
            BY <1>5, <3>1
    <2>6. Cardinality(D \cap Missed') <= 0 + Cardinality(D)
        BY <2>2, <2>3
    <2>7. Cardinality(D) - Cardinality(D) <= 0 + 0
        BY <2>2
    <2> QED
        BY <2>4, <2>5, <2>6, <2>7
<1>7. FewMissed'
    BY <1>2, <1>3, <1>5, <1>6 DEF FewMissed
<1>8. FewRepeated'
    BY <1>2, <1>3, <1>5, <1>6 DEF FewRepeated
<1>9. Undisturbed'
    <2>1. {} \in Fronts
        BY DEF Fronts, Leads
    <2> QED
        BY <1>2, <1>3, <1>4, <2>1 DEF Undisturbed
<1>10. AtTheEnd'
    BY <1>2, <1>4, BoundsAssumption DEF AtTheEnd
<1>11. RepeatsNeedCreates'
    <2>1. Len(scan'.seen) = 0 /\ Cardinality(ToSet(scan'.seen)) = 0
        BY <1>4, <1>5 DEF Seen
    <2>2. Cardinality(scan'.added) = 0
        BY <1>2, <1>5
    <2>3. 0 - 0 <= 0
        OBVIOUS
    <2> QED
        BY <2>1, <2>2, <2>3 DEF RepeatsNeedCreates
<1>12. SkipsNeedDeletes' /\ QuietScanIsTheTable'
    BY <1>2 DEF SkipsNeedDeletes, QuietScanIsTheTable, Complete
<1> QED
    BY <1>7, <1>8, <1>9, <1>10, <1>11, <1>12 DEF Paged

\* A refusal completes no scan.
LEMMA EndScanPaged ==
    ASSUME Inv, NEW code \in {"422", "500"}, EndScan(code) PROVE Paged'
<1>1. /\ scan'.pc = "done" /\ scan'.code \in {"422", "500"}
      /\ scan'.seen = scan.seen /\ scan'.added = scan.added
    BY DEF Inv, EndScan, Typed, Scans
<1>2. RepeatsNeedCreates'
    BY <1>1 DEF Inv, Paged, RepeatsNeedCreates
<1>3. SkipsNeedDeletes' /\ QuietScanIsTheTable' /\ AtTheEnd'
    BY <1>1 DEF SkipsNeedDeletes, QuietScanIsTheTable, Complete, AtTheEnd
<1> QED
    BY <1>1, <1>2, <1>3 DEF Paged

\* A scan forgotten has no history.
LEMMA ForgetPaged == ASSUME Forget PROVE Paged'
<1>1. scan'.pc = "idle" /\ scan'.seen = <<>> /\ scan'.added = {}
    BY DEF Forget, NoScan
<1>2. ToSet(scan'.seen) = {} /\ Len(scan'.seen) = 0 /\ Cardinality({}) = 0
    BY <1>1, FS_EmptySet DEF ToSet
<1>3. RepeatsNeedCreates'
    <2>1. Cardinality(ToSet(scan'.seen)) = 0 /\ Cardinality(scan'.added) = 0
        BY <1>1, <1>2
    <2>2. 0 - 0 <= 0
        OBVIOUS
    <2> QED
        BY <1>2, <2>1, <2>2 DEF RepeatsNeedCreates
<1>4. SkipsNeedDeletes' /\ QuietScanIsTheTable' /\ AtTheEnd'
    BY <1>1 DEF SkipsNeedDeletes, QuietScanIsTheTable, Complete, AtTheEnd
<1> QED
    BY <1>1, <1>3, <1>4 DEF Paged

\* A page keeps what is missed and what is repeated within bounds, and the last
\* one completes the scan.
LEMMA ReadPagePaged == ASSUME Inv, ReadPage PROVE Paged'
<1> USE DEF Inv
<1>1. PICK rows \in Orders, page \in Seq(Agents) :
          /\ Len(page) \in Nat /\ Len(scan.seen) \in Nat
          /\ Len(page) > 0 => Len(scan.seen) + Len(page) <= Len(rows)
          /\ Len(page) < scan.limit => Len(scan.seen) + Len(page) >= Len(rows)
          /\ \A i \in 1..Len(page) : page[i] = rows[Len(scan.seen) + i]
          /\ Seen' = Seen \cup Stretch(rows, Len(scan.seen) + 1, Len(scan.seen) + Len(page))
          /\ Missed' = Missed \ Stretch(rows, Len(scan.seen) + 1, Len(scan.seen) + Len(page))
          /\ scan'.seen = scan.seen \o page
          /\ Len(scan'.seen) = Len(scan.seen) + Len(page)
          /\ scan'.offset = Len(scan.seen) + Len(page)
          /\ scan'.pc = (IF Len(page) < scan.limit THEN "done" ELSE "paging")
          /\ scan'.first = scan.first /\ scan'.added = scan.added
          /\ scan'.removed = scan.removed
          /\ created' = created /\ Listed' = Listed
          /\ Stretch(rows, Len(scan.seen) + 1, Len(scan.seen) + Len(page)) \subseteq Listed
    BY ReadEffect DEF Paged
<1> DEFINE L == Len(scan.seen)
           k == Len(page)
           n == Len(rows)
           P == Stretch(rows, L + 1, L + k)
           over(c) == IF c > L + k THEN c - (L + k) ELSE 0
           within(c) == IF c > L + k THEN L + k ELSE c
<1>2. scan.pc = "paging" /\ FewMissed /\ FewRepeated /\ Undisturbed
    BY DEF ReadPage, Paged
<1>3. Fronts' = Fronts
    BY <1>1 DEF Fronts, Leads, Before
<1>4. n = Cardinality(Listed) /\ n \in Nat
    BY ListingOrder
<1>5. /\ IsFiniteSet(Listed) /\ IsFiniteSet(Seen')
      /\ Cardinality(scan.added) \in Nat /\ Cardinality(scan.removed) \in Nat
      /\ Cardinality(Seen') \in Nat
    <2>1. /\ IsFiniteSet(Listed) /\ IsFiniteSet(Seen)
          /\ IsFiniteSet(scan.added) /\ IsFiniteSet(scan.removed)
        BY KnownIsFinite
    <2>2. Seen' \subseteq Seen \cup Listed
        BY <1>1
    <2>3. IsFiniteSet(Seen \cup Listed)
        BY <2>1, FS_Union
    <2>4. IsFiniteSet(Seen')
        BY <2>2, <2>3, PartIsSmaller
    <2> QED
        BY <2>1, <2>4, FS_CardinalityType
<1>6. ASSUME NEW D \in Fronts
      PROVE  /\ Cardinality(D \cap Missed') <= Cardinality(scan.removed) + over(Cardinality(D))
             /\ within(Cardinality(D))
                    <= Cardinality(scan.added) + Cardinality(Seen' \ (Listed \ D))
             /\ Cardinality(D) \in 0..n
    <2>1. Cardinality(D \cap (Missed \ P)) <= Cardinality(scan.removed) + over(Cardinality(D))
        BY <1>1, <1>2, <1>6, PageMissesFew
    <2>2. within(Cardinality(D))
              <= Cardinality(scan.added) + Cardinality((Seen \cup P) \ (Listed \ D))
        BY <1>1, <1>2, <1>6, PageRepeatsFew
    <2>3. Cardinality(D) \in 0..n
        BY <1>6, FrontsArePrefixes
    <2>4. Missed' = Missed \ P /\ Seen' = Seen \cup P
        BY <1>1
    <2> QED
        BY <2>1, <2>2, <2>3, <2>4
<1>7. FewMissed' /\ FewRepeated'
    <2>1. \A D \in Fronts : Beyond(D)' = over(Cardinality(D))
        BY <1>1 DEF Beyond
    <2>2. \A c \in 0..n : c - over(c) = within(c)
        BY <1>1, <1>4
    <2> HIDE DEF over, within, n
    <2>3. FewMissed'
        BY <1>1, <1>3, <1>6, <2>1 DEF FewMissed
    <2>4. FewRepeated'
        BY <1>1, <1>3, <1>6, <2>1, <2>2 DEF FewRepeated
    <2> QED
        BY <2>3, <2>4
<1>8. RepeatsNeedCreates'
    <2> DEFINE m == L + k
    <2>1. CASE k = 0
        <3>1. P = {}
            BY <1>1, <2>1 DEF Stretch
        <3>2. Seen' = Seen
            BY <1>1, <3>1
        <3>3. L - Cardinality(Seen) <= Cardinality(scan.added)
            BY DEF Paged, RepeatsNeedCreates, Seen
        <3>4. m = L
            BY <1>1, <2>1
        <3> QED
            BY <1>1, <3>2, <3>3, <3>4 DEF RepeatsNeedCreates, Seen
    <2>2. CASE k > 0
        <3> DEFINE D == Stretch(rows, 1, m)
        <3>1. m \in 0..n /\ m \in Nat
            BY <1>1, <1>4, <2>2
        <3>2. D \in Fronts /\ Cardinality(D) = m
            BY <3>1, PrefixesAreFronts
        <3> HIDE DEF D
        <3>3. within(Cardinality(D))
                  <= Cardinality(scan.added) + Cardinality(Seen' \ (Listed \ D))
            BY <1>6, <3>2
        <3>4. within(Cardinality(D)) = m
            BY <1>1, <3>1, <3>2
        <3>5. /\ Cardinality(Seen' \ (Listed \ D)) <= Cardinality(Seen')
              /\ Cardinality(Seen' \ (Listed \ D)) \in Nat
            <4>1. Seen' \ (Listed \ D) \subseteq Seen'
                OBVIOUS
            <4> QED
                BY <1>5, <4>1, PartIsSmaller
        <3>6. m - Cardinality(Seen') <= Cardinality(scan.added)
            <4> HIDE DEF m, within
            <4> QED
                BY <1>5, <3>1, <3>3, <3>4, <3>5
        <3>7. /\ Len(scan'.seen) = m /\ scan'.added = scan.added
              /\ Seen' = ToSet(scan'.seen)
            BY <1>1 DEF Seen
        <3> HIDE DEF m
        <3> QED
            BY <3>6, <3>7 DEF RepeatsNeedCreates
    <2> QED
        BY <1>1, <2>1, <2>2
<1>9. ASSUME Complete'
      PROVE  L + k >= n
    BY <1>1, <1>9 DEF Complete
<1>10. SkipsNeedDeletes'
    <2> SUFFICES ASSUME Complete'
                 PROVE  Cardinality(Missed') <= Cardinality(scan.removed)
        BY <1>1 DEF SkipsNeedDeletes
    <2>1. Listed \in Fronts
        BY DEF Fronts, Leads
    <2>2. Cardinality(Listed \cap Missed') <= Cardinality(scan.removed) + over(n)
        BY <1>4, <1>6, <2>1
    <2>3. over(n) = 0
        BY <1>1, <1>4, <1>9
    <2>4. Listed \cap Missed' = Missed'
        BY <1>1 DEF Missed
    <2>5. IsFiniteSet(Missed') /\ Cardinality(Missed') \in Nat
        BY <1>5, <2>4, FS_Intersection, FS_CardinalityType
    <2>6. Cardinality(Missed') <= Cardinality(scan.removed) + 0
        BY <2>2, <2>3, <2>4, Zenon
    <2> QED
        BY <1>5, <2>5, <2>6
<1>11. ASSUME scan'.added \cup scan'.removed = {}
       PROVE  /\ L + k \in 0..n
              /\ Seen' = Stretch(rows, 1, L + k)
              /\ \A i, j \in DOMAIN scan'.seen : i < j => Before(scan'.seen[i], scan'.seen[j])
    <2>1. scan.added \cup scan.removed = {}
        BY <1>1, <1>11
    <2>2. /\ L + k \in 0..n
          /\ Seen \cup P = Stretch(rows, 1, L + k)
          /\ \A i, j \in 1..L + k :
                i < j => Before((scan.seen \o page)[i], (scan.seen \o page)[j])
        BY <1>1, <1>2, <2>1, PageExtendsPrefix
    <2>3. DOMAIN scan'.seen = 1..L + k
        <3>1. scan.seen \o page \in Seq(Agents)
            BY DEF Typed, Scans
        <3> QED
            BY <1>1, <3>1
    <2> HIDE DEF L, k, P, n
    <2> QED
        BY <1>1, <2>2, <2>3 DEF L, k, P
<1>12. Undisturbed'
    <2> SUFFICES ASSUME scan'.added \cup scan'.removed = {}
                 PROVE  /\ Seen' \in Fronts
                        /\ \A i, j \in DOMAIN scan'.seen :
                              i < j => Before(scan'.seen[i], scan'.seen[j])
        BY <1>1, <1>3 DEF Undisturbed, Before
    <2>1. Seen' \in Fronts
        BY <1>11, PrefixesAreFronts
    <2> QED
        BY <1>11, <2>1
<1>13. QuietScanIsTheTable'
    <2> SUFFICES ASSUME Complete', scan'.added \cup scan'.removed = {}
                 PROVE  /\ Seen' = Listed /\ Len(scan'.seen) = Cardinality(Listed)
                        /\ \A i, j \in DOMAIN scan'.seen :
                              i < j => created[scan'.seen[i]] >= created[scan'.seen[j]]
        BY <1>1 DEF QuietScanIsTheTable, Seen
    <2>1. L + k = n
        BY <1>1, <1>4, <1>9, <1>11
    <2>2. Len(scan'.seen) = Cardinality(Listed)
        BY <1>1, <1>4, <2>1
    <2>3. Seen' = Listed
        <3>1. Seen' = Stretch(rows, 1, n)
            BY <1>11, <2>1
        <3>2. /\ rows \in [1..n -> Listed]
              /\ \A a \in Listed : \E i \in 1..n : rows[i] = a
            BY ListingOrder
        <3> HIDE DEF n
        <3> QED
            BY <3>1, <3>2 DEF Stretch
    <2>4. ASSUME NEW i \in DOMAIN scan'.seen, NEW j \in DOMAIN scan'.seen, i < j
          PROVE  created[scan'.seen[i]] >= created[scan'.seen[j]]
        <3>1. scan'.seen[i] \in Listed /\ scan'.seen[j] \in Listed
            BY <2>3, <2>4 DEF Seen, ToSet
        <3>2. created[scan'.seen[i]] \in Int /\ created[scan'.seen[j]] \in Int
            BY <3>1, ListedIsDated
        <3>3. Before(scan'.seen[i], scan'.seen[j])
            BY <1>11, <2>4
        <3> QED
            BY <3>2, <3>3 DEF Before
    <2> QED
        BY <2>2, <2>3, <2>4
<1>14. AtTheEnd'
    BY <1>1 DEF AtTheEnd
<1> QED
    BY <1>7, <1>8, <1>10, <1>12, <1>13, <1>14 DEF Paged

\* Every step keeps a scan dependable.
LEMMA PagedKept == ASSUME Inv, [Next]_vars PROVE Paged'
<1>1. Paged
    BY DEF Inv
<1>2. ASSUME NEW w \in Writers, Insert(w) \/ Rollback(w) PROVE Paged'
    BY <1>1, <1>2, PagedUnchanged DEF Insert, Rollback
<1>3. ASSUME NEW w \in Writers, Commit(w) PROVE Paged'
    BY <1>3, CommitPaged
<1>4. ASSUME NEW a \in Agents, DeleteAgent(a) PROVE Paged'
    BY <1>4, DeleteAgentPaged
<1>5. ASSUME NEW limit \in 0..MaxLimit + 1, NEW offset \in {-1, 0, MaxOffset + 1},
             StartScan(limit, offset)
      PROVE  Paged'
    BY <1>5, StartScanPaged
<1>6. CASE RefuseBounds \/ OffsetTooLarge
    BY <1>6, EndScanPaged DEF RefuseBounds, OffsetTooLarge
<1>7. CASE ReadPage
    BY <1>7, ReadPagePaged
<1>8. CASE Forget
    BY <1>8, ForgetPaged
<1>9. CASE UNCHANGED vars
    BY <1>1, <1>9, PagedUnchanged DEF vars
<1> QED
    BY <1>2, <1>3, <1>4, <1>5, <1>6, <1>7, <1>8, <1>9 DEF Next

\* Initially nobody scans.
LEMMA InitPaged == Init => Paged
<1> SUFFICES ASSUME Init PROVE Paged
    OBVIOUS
<1>1. scan.pc = "idle" /\ scan.seen = <<>> /\ scan.added = {}
    BY DEF Init, NoScan
<1>2. ToSet(scan.seen) = {} /\ Len(scan.seen) = 0 /\ Cardinality({}) = 0
    BY <1>1, FS_EmptySet DEF ToSet
<1>3. RepeatsNeedCreates
    <2>1. Cardinality(ToSet(scan.seen)) = 0 /\ Cardinality(scan.added) = 0
        BY <1>1, <1>2
    <2>2. 0 - 0 <= 0
        OBVIOUS
    <2> QED
        BY <1>2, <2>1, <2>2 DEF RepeatsNeedCreates
<1>4. SkipsNeedDeletes /\ QuietScanIsTheTable /\ AtTheEnd
    BY <1>1 DEF SkipsNeedDeletes, QuietScanIsTheTable, Complete, AtTheEnd
<1> QED
    BY <1>1, <1>3, <1>4 DEF Paged

-----------------------------------------------------------------------------
(* The theorems.                                                           *)

\* The invariant holds in every state of the listing.
THEOREM ListingInvariant == Spec => []Inv
<1>1. Init => Inv
    BY InitTyped, InitFresh, InitPaged DEF Inv
<1>2. Inv /\ [Next]_vars => Inv'
    BY TypedKept, FreshKept, PagedKept DEF Inv
<1> QED
    BY <1>1, <1>2, PTL DEF Spec

\* Every variable of the listing has its type.
THEOREM TypeCorrectness == Spec => []TypeOK
<1>1. Inv => TypeOK
    BY ScanFields DEF Inv, Typed, TypeOK
<1> QED
    BY <1>1, ListingInvariant, PTL

\* A scan misses no more agents that were there throughout than were deleted
\* under it.
THEOREM ScansSkipOnlyForDeletes == Spec => []SkipsNeedDeletes
<1>1. Inv => SkipsNeedDeletes
    BY DEF Inv, Paged
<1> QED
    BY <1>1, ListingInvariant, PTL

\* A scan repeats no more agents than were committed under it.
THEOREM ScansRepeatOnlyForCreates == Spec => []RepeatsNeedCreates
<1>1. Inv => RepeatsNeedCreates
    BY DEF Inv, Paged
<1> QED
    BY <1>1, ListingInvariant, PTL

\* A scan nothing disturbed is the whole table, once, the newest first.
THEOREM QuietScansAreExact == Spec => []QuietScanIsTheTable
<1>1. Inv => QuietScanIsTheTable
    BY DEF Inv, Paged
<1> QED
    BY <1>1, ListingInvariant, PTL

=============================================================================
