---------------------------- MODULE RepositoryProofs ----------------------------
(***************************************************************************)
(* Proofs about Repository and TableServer: what every reachable state     *)
(* looks like, the query cache included, and that a task whose key had a   *)
(* row when its save began never inserts another one.                      *)
(***************************************************************************)
EXTENDS Repository, FiniteSetTheorems, SequenceTheorems, WellFoundedInduction, TLAPS

\* A row somebody was told of has a row of its key in the table, as no row goes.
Known == {row \in Row : IdsOf(row.key) # {}}

\* What the query cache maps to what, and the responses under way.
Shapes       == [conditional : BOOLEAN, limit : {0, 1}]
Entries      == [key : Shapes, value : Seq(Known), expired : BOOLEAN]
KnownReplies == [id : Ids, success : BOOLEAN, found : Seq(Known)]

\* The variables, group by group, each with its values.
RowsTyped ==
    /\ counter \in 0 .. MaxRows
    /\ DOMAIN rows \subseteq 0 .. counter - 1
    /\ \A r \in DOMAIN rows : rows[r] \in Row

DistinctKeys(q) == \A i, j \in DOMAIN q : q[i].key = q[j].key => i = j
Cached(q) == q \in Seq(Entries) /\ Len(q) <= CacheSize /\ DistinctKeys(q)

CacheTyped == Cached(queryCache)

BoxesTyped == inbox \in [Conns -> Seq(Requests)] /\ outbox \in [Conns -> Seq(KnownReplies)]

InsertsTyped ==
    \A c \in Conns : \A i \in DOMAIN inbox[c] : inbox[c][i].action = "insert" => inbox[c][i].key \in Keys

ConnsTyped ==
    /\ opened \in Conns /\ conn \in [Bots -> 1 .. opened]
    /\ \A a, b \in Bots : conn[a] = conn[b] => a = b
    /\ open = {conn[b] : b \in Bots}

GoneUnread == \A c \in Conns \ open : outbox[c] = <<>>

TasksTyped ==
    /\ calls \in 0 .. MaxCalls
    /\ pc \in [Tasks -> Waiting \cup {"idle"}]
    /\ job \in [Tasks -> Jobs \cup {NoJob}]
    /\ \A t \in Tasks : pc[t] = "idle" => job[t] = NoJob
    /\ \A t \in Tasks : pc[t] # "idle" => job[t] \in Jobs
    /\ \A t \in Tasks : pc[t] \notin {"idle", "reading"} => job[t].key \in Keys

RememberedTyped ==
    /\ DOMAIN repoCache = Bots
    /\ \A b \in Bots : DOMAIN repoCache[b] \subseteq Keys

\* No two calls have a number, nor a request one that was not given out yet.
Numbered ==
    /\ \A t \in Tasks : pc[t] # "idle" => job[t].call <= calls
    /\ \A s, t \in Tasks : pc[s] # "idle" /\ pc[t] # "idle" /\ job[s].call = job[t].call => s = t
    /\ \A c \in Conns : \A i \in DOMAIN inbox[c] : inbox[c][i].id[1] <= calls
    /\ \A c \in Conns : \A i \in DOMAIN outbox[c] : outbox[c][i].id[1] <= calls

\* A row that a call saw when it began is still there.
RowsKept == \A t \in Tasks : pc[t] # "idle" /\ job[t].stored => IdsOf(job[t].key) # {}

\* The request of a save that looks for a row asks for the row of its key.
Looks(t, id) == pc[t] = "looking" /\ id = <<job[t].call, "looking">>

AskedForKey ==
    \A c \in Conns : \A i \in DOMAIN inbox[c] : \A t \in Tasks :
        Looks(t, inbox[c][i].id) =>
            inbox[c][i].action = "find_by_id" /\ inbox[c][i].key = job[t].key

\* A save is told that there is no row only if there was none when it began.
AnsweredTruly ==
    \A c \in Conns : \A i \in DOMAIN outbox[c] : \A t \in Tasks :
        Looks(t, outbox[c][i].id) /\ outbox[c][i].success /\ outbox[c][i].found = <<>>
            => ~job[t].stored

\* So is the row it was answered with.
FoundStays == \A t \in Tasks : pc[t] # "idle" /\ job[t].found # NoKey => IdsOf(job[t].found) # {}

\* The requests of a call and their responses go over the task's connection.
OwnMail ==
    \A c \in Conns : \A t \in Tasks : pc[t] # "idle" =>
        /\ \A i \in DOMAIN inbox[c] : inbox[c][i].id[1] = job[t].call => c = ConnOf(t)
        /\ \A i \in DOMAIN outbox[c] : outbox[c][i].id[1] = job[t].call => c = ConnOf(t)

\* A save's insert is one of its key, and a success of it leaves a row there.
Inserts(t, id) == pc[t] # "idle" /\ id = <<job[t].call, "inserting">>

AskedToInsert ==
    \A c \in Conns : \A i \in DOMAIN inbox[c] : \A t \in Tasks :
        Inserts(t, inbox[c][i].id) =>
            inbox[c][i].action = "insert" /\ inbox[c][i].key = job[t].key

InsertedTruly ==
    \A c \in Conns : \A i \in DOMAIN outbox[c] : \A t \in Tasks :
        Inserts(t, outbox[c][i].id) /\ outbox[c][i].success => IdsOf(job[t].key) # {}

Typed == RowsTyped /\ CacheTyped /\ BoxesTyped /\ InsertsTyped /\ ConnsTyped /\ GoneUnread
         /\ TasksTyped /\ RememberedTyped
Truthful ==
    /\ Numbered /\ OwnMail /\ RowsKept /\ FoundStays
    /\ AskedForKey /\ AnsweredTruly /\ OnlyFirstSavesInsert
    /\ AskedToInsert /\ InsertedTruly
IInv == Typed /\ Truthful

-----------------------------------------------------------------------------
(* Sequences and sets. *)

\* Sequences keep their elements when one is appended, the first is taken, or
\* only a first part of them stays.
LEMMA Appended ==
    ASSUME NEW S, NEW q \in Seq(S), NEW e \in S
    PROVE  /\ Append(q, e) \in Seq(S)
           /\ Len(Append(q, e)) = Len(q) + 1
           /\ \A i \in DOMAIN Append(q, e) :
                \/ i \in DOMAIN q /\ Append(q, e)[i] = q[i]
                \/ i = Len(q) + 1 /\ Append(q, e)[i] = e
  OBVIOUS

LEMMA Taken ==
    ASSUME NEW S, NEW q \in Seq(S), q # <<>>
    PROVE  /\ Tail(q) \in Seq(S) /\ Head(q) \in S /\ 1 \in DOMAIN q /\ Head(q) = q[1]
           /\ \A i \in DOMAIN Tail(q) : i + 1 \in DOMAIN q /\ Tail(q)[i] = q[i + 1]
  OBVIOUS

LEMMA Cut ==
    ASSUME NEW S, NEW q \in Seq(S), NEW n \in 0 .. Len(q)
    PROVE  /\ SubSeq(q, 1, n) \in Seq(S)
           /\ \A i \in DOMAIN SubSeq(q, 1, n) : i \in DOMAIN q /\ SubSeq(q, 1, n)[i] = q[i]
  OBVIOUS

\* A non-empty set of naturals has a smallest element.
LEMMA Smallest ==
    ASSUME NEW S \in SUBSET Nat, S # {}
    PROVE  \E m \in S : \A n \in S : m <= n
  <1>1. PICK m \in S : \A n \in S : <<n, m>> \notin OpToRel(<, Nat)
    BY NatLessThanWellFounded, WFMin
  <1>2. \A n \in S : ~(n < m)
    BY <1>1 DEF OpToRel
  <1> QED
    BY <1>2

\* A finite set of naturals can be listed in increasing order.
Lists(q, S) ==
    /\ q \in [1 .. Cardinality(S) -> S]
    /\ \A i, j \in 1 .. Cardinality(S) : i < j => q[i] < q[j]

LEMMA Increasing ==
    ASSUME NEW S \in SUBSET Nat, IsFiniteSet(S)
    PROVE  \E q \in [1 .. Cardinality(S) -> S] : Lists(q, S)
  <1> DEFINE Listable(T) == \E q \in [1 .. Cardinality(T) -> T] : Lists(q, T)
             Unlisted == {n \in Nat : \E T \in SUBSET Nat :
                             IsFiniteSet(T) /\ Cardinality(T) = n /\ ~Listable(T)}
  <1>1. SUFFICES ASSUME Unlisted # {} PROVE FALSE
    <2>1. Cardinality(S) \in Nat
      BY FS_CardinalityType
    <2> QED
      BY <2>1, <1>1
  <1>2. PICK n \in Unlisted : \A k \in Unlisted : n <= k
    BY <1>1, Smallest
  <1>3. PICK T \in SUBSET Nat : IsFiniteSet(T) /\ Cardinality(T) = n /\ ~Listable(T)
    BY <1>2
  <1>4. T # {}
    <2>1. SUFFICES ASSUME T = {} PROVE FALSE
      OBVIOUS
    <2>2. Cardinality(T) = 0
      BY <2>1, FS_EmptySet
    <2>3. [i \in 1 .. 0 |-> i] \in [1 .. Cardinality(T) -> T] /\ Lists([i \in 1 .. 0 |-> i], T)
      BY <2>2 DEF Lists
    <2> QED
      BY <2>3, <1>3
  <1>5. PICK m \in T : \A x \in T : m <= x
    BY <1>4, Smallest
  <1>6. IsFiniteSet(T \ {m}) /\ Cardinality(T \ {m}) = n - 1
    BY <1>3, FS_RemoveElement
  <1>7. n - 1 \in Nat
    BY <1>6, FS_CardinalityType
  <1>8. PICK q \in [1 .. n - 1 -> T \ {m}] : Lists(q, T \ {m})
    <2>1. n - 1 \notin Unlisted
      BY <1>2, <1>7
    <2>2. T \ {m} \in SUBSET Nat
      OBVIOUS
    <2>3. Listable(T \ {m})
      BY <2>1, <2>2, <1>6, <1>7
    <2> QED
      BY <2>3, <1>6
  <1> DEFINE p == [i \in 1 .. n |-> IF i = 1 THEN m ELSE q[i - 1]]
  <1>9. p \in [1 .. n -> T]
    <2>1. ASSUME NEW i \in 1 .. n PROVE (IF i = 1 THEN m ELSE q[i - 1]) \in T
      <3>1. CASE i = 1
        BY <3>1
      <3>2. CASE i # 1
        <4>1. i - 1 \in 1 .. n - 1
          BY <3>2, <1>7
        <4> QED
          BY <4>1, <3>2
      <3> QED
        BY <3>1, <3>2
    <2> QED
      BY <2>1
  <1>10. ASSUME NEW i \in 1 .. n, NEW j \in 1 .. n, i < j PROVE p[i] < p[j]
    <2>1. j - 1 \in 1 .. n - 1 /\ p[j] = q[j - 1] /\ q[j - 1] \in T /\ q[j - 1] # m
      BY <1>10, <1>7
    <2>2. CASE i = 1
      <3>1. p[i] = m
        BY <2>2
      <3>2. m <= q[j - 1] /\ m \in Nat /\ q[j - 1] \in Nat
        BY <2>1, <1>5
      <3> HIDE DEF p
      <3> QED
        BY <3>1, <3>2, <2>1
    <2>3. CASE i # 1
      <3>1. i - 1 \in 1 .. n - 1 /\ p[i] = q[i - 1] /\ i - 1 < j - 1
        BY <2>3, <1>10, <1>7
      <3>2. q[i - 1] < q[j - 1]
        BY <3>1, <2>1, <1>8, <1>6 DEF Lists
      <3> QED
        BY <3>1, <3>2, <2>1
    <2> QED
      BY <2>2, <2>3
  <1>11. Lists(p, T)
    BY <1>3, <1>9, <1>10 DEF Lists
  <1> QED
    BY <1>3, <1>9, <1>11

LEMMA FunctionIsSeq == ASSUME NEW S, NEW n \in Nat, NEW f \in [1 .. n -> S] PROVE f \in Seq(S) /\ Len(f) = n
  OBVIOUS

-----------------------------------------------------------------------------
(* The query cache. *)

LEMMA RemovedAt ==
    ASSUME NEW S, NEW q \in Seq(S), NEW p \in DOMAIN q, NEW r,
           r = SubSeq(q, 1, p - 1) \o SubSeq(q, p + 1, Len(q))
    PROVE  /\ r \in Seq(S) /\ Len(r) = Len(q) - 1
           /\ \A i \in 1 .. Len(q) - 1 : r[i] = IF i < p THEN q[i] ELSE q[i + 1]
  <1> DEFINE a == SubSeq(q, 1, p - 1)
             b == SubSeq(q, p + 1, Len(q))
  <1>1. p \in 1 .. Len(q) /\ Len(q) \in Nat
    OBVIOUS
  <1>2. a \in Seq(S) /\ Len(a) = p - 1 /\ \A i \in 1 .. p - 1 : a[i] = q[i]
    BY <1>1
  <1>3. b \in Seq(S) /\ Len(b) = Len(q) - p /\ \A i \in 1 .. Len(q) - p : b[i] = q[i + p]
    BY <1>1
  <1> HIDE DEF a, b
  <1>4. r = a \o b
    BY DEF a, b
  <1>5. r \in Seq(S) /\ Len(r) = Len(q) - 1
    BY <1>1, <1>2, <1>3, <1>4
  <1>6. ASSUME NEW i \in 1 .. Len(q) - 1
        PROVE  r[i] = IF i < p THEN q[i] ELSE q[i + 1]
    <2>1. CASE i < p
      BY <2>1, <1>1, <1>2, <1>3, <1>4
    <2>2. CASE ~(i < p)
      <3>1. i - (p - 1) \in 1 .. Len(q) - p /\ (i - (p - 1)) + p = i + 1
        BY <2>2, <1>1
      <3>2. ~(i <= Len(a)) /\ i \in 1 .. Len(a) + Len(b) /\ i - Len(a) = i - (p - 1)
        BY <2>2, <1>1, <1>2, <1>3
      <3>3. (a \o b)[i] = b[i - Len(a)]
        BY <3>2, <1>2, <1>3, ConcatProperties
      <3> QED
        BY <3>1, <3>2, <3>3, <2>2, <1>3, <1>4
    <2> QED
      BY <2>1, <2>2
  <1> QED
    BY <1>5, <1>6

\* Deleting a key of the cache leaves no entry of it, and the others apart.
LEMMA WithoutKey ==
    ASSUME NEW q, Cached(q), NEW k
    PROVE  /\ Cached(Without(q, k)) /\ ~HasKey(Without(q, k), k)
           /\ HasKey(q, k) => Len(Without(q, k)) = Len(q) - 1
  <1>1. CASE ~HasKey(q, k)
    BY <1>1 DEF Without
  <1>2. CASE HasKey(q, k)
    <2> DEFINE p == Place(q, k)
               w == Without(q, k)
    <2>1. p \in DOMAIN q /\ q[p].key = k
      BY <1>2 DEF HasKey, Place
    <2>2. w = SubSeq(q, 1, p - 1) \o SubSeq(q, p + 1, Len(q))
      BY <1>2 DEF Without
    <2>3. q \in Seq(Entries) /\ Len(q) <= CacheSize /\ DistinctKeys(q) /\ p \in 1 .. Len(q)
      BY <2>1 DEF Cached
    <2> HIDE DEF p, w
    <2>4. /\ w \in Seq(Entries) /\ Len(w) = Len(q) - 1
          /\ \A i \in 1 .. Len(q) - 1 : w[i] = IF i < p THEN q[i] ELSE q[i + 1]
      BY <2>1, <2>2, <2>3, RemovedAt
    <2>5. Len(q) \in Nat /\ DOMAIN w = 1 .. Len(q) - 1 /\ DOMAIN q = 1 .. Len(q)
      BY <2>3, <2>4
    <2>6. ASSUME NEW i \in DOMAIN w
          PROVE  \E n \in DOMAIN q : /\ w[i] = q[n] /\ n # p
                                     /\ n = IF i < p THEN i ELSE i + 1
      <3>1. CASE i < p
        BY <3>1, <2>4, <2>5
      <3>2. CASE ~(i < p)
        BY <3>2, <2>3, <2>4, <2>5
      <3> QED
        BY <3>1, <3>2
    <2>7. DistinctKeys(w)
      <3>1. SUFFICES ASSUME NEW i \in DOMAIN w, NEW j \in DOMAIN w, w[i].key = w[j].key PROVE i = j
        BY DEF DistinctKeys
      <3>2. PICK n \in DOMAIN q : w[i] = q[n] /\ n = IF i < p THEN i ELSE i + 1
        BY <2>6
      <3>3. PICK m \in DOMAIN q : w[j] = q[m] /\ m = IF j < p THEN j ELSE j + 1
        BY <2>6
      <3>4. n = m
        BY <3>1, <3>2, <3>3, <2>3 DEF DistinctKeys
      <3> QED
        BY <3>2, <3>3, <3>4, <2>3, <2>5
    <2>8. ~HasKey(w, k)
      <3>1. SUFFICES ASSUME NEW i \in DOMAIN w, w[i].key = k PROVE FALSE
        BY DEF HasKey
      <3> QED
        BY <3>1, <2>6, <2>1, <2>3 DEF DistinctKeys
    <2>9. Len(w) <= CacheSize
      BY <2>3, <2>4, <2>5, TableServerAssumption
    <2> QED
      BY <2>3, <2>4, <2>7, <2>8, <2>9 DEF Cached, w
  <1> QED
    BY <1>1, <1>2

\* An entry of a new key can be the youngest if there is room for it.
LEMMA YoungestKey ==
    ASSUME NEW q, Cached(q), NEW e \in Entries, ~HasKey(q, e.key), Len(q) < CacheSize
    PROVE  Cached(Append(q, e))
  <1>1. q \in Seq(Entries) /\ DistinctKeys(q)
    BY DEF Cached
  <1>2. /\ Append(q, e) \in Seq(Entries) /\ Len(Append(q, e)) = Len(q) + 1
        /\ \A i \in DOMAIN Append(q, e) :
             \/ i \in DOMAIN q /\ Append(q, e)[i] = q[i]
             \/ i = Len(q) + 1 /\ Append(q, e)[i] = e
    BY <1>1, Appended
  <1>3. DistinctKeys(Append(q, e))
    BY <1>1, <1>2 DEF DistinctKeys, HasKey
  <1> QED
    BY <1>1, <1>2, <1>3, TableServerAssumption DEF Cached

LEMMA EntryCached ==
    ASSUME NEW q, Cached(q), NEW k, HasKey(q, k)
    PROVE  Entry(q, k) \in Entries /\ Entry(q, k).key = k
  BY DEF Cached, HasKey, Entry, Place

LEMMA GetCached ==
    ASSUME NEW q, Cached(q), NEW k
    PROVE  Cached(AfterGet(q, k)) /\ (~Hit(q, k) => ~HasKey(AfterGet(q, k), k))
  <1>1. Cached(Without(q, k)) /\ ~HasKey(Without(q, k), k)
    BY WithoutKey
  <1>2. CASE Hit(q, k)
    <2>1. HasKey(q, k) /\ Entry(q, k) \in Entries /\ Entry(q, k).key = k
      BY <1>2, EntryCached DEF Hit
    <2>2. Len(Without(q, k)) < CacheSize
      <3>1. Len(Without(q, k)) = Len(q) - 1 /\ Len(q) \in Nat /\ Len(q) <= CacheSize
        BY <2>1, WithoutKey DEF Cached
      <3> QED
        BY <3>1, TableServerAssumption
    <2>3. Cached(Append(Without(q, k), Entry(q, k)))
      BY <1>1, <2>1, <2>2, YoungestKey
    <2> QED
      BY <1>2, <2>3 DEF AfterGet
  <1>3. CASE ~Hit(q, k)
    BY <1>1, <1>3 DEF AfterGet
  <1> QED
    BY <1>2, <1>3

\* The while loop of set leaves the youngest entries, one less than there may be.
LEMMA RoomMade ==
    ASSUME NEW q, Cached(q), NEW k, ~HasKey(q, k)
    PROVE  /\ Cached(MakeRoom(q, CacheSize)) /\ ~HasKey(MakeRoom(q, CacheSize), k)
           /\ Len(MakeRoom(q, CacheSize)) < CacheSize
  <1>1. q \in Seq(Entries) /\ Len(q) <= CacheSize /\ DistinctKeys(q) /\ Len(q) \in Nat
    BY DEF Cached
  <1>2. CASE Len(q) < CacheSize
    BY <1>2 DEF MakeRoom
  <1>3. CASE ~(Len(q) < CacheSize)
    <2> DEFINE r == SubSeq(q, 2, Len(q))
    <2>1. Len(q) = CacheSize /\ Len(q) - CacheSize + 2 = 2
      BY <1>1, <1>3, TableServerAssumption
    <2>2. MakeRoom(q, CacheSize) = r
      BY <1>3, <2>1 DEF MakeRoom
    <2>3. r \in Seq(Entries) /\ Len(r) = Len(q) - 1 /\ \A i \in DOMAIN r : i + 1 \in DOMAIN q /\ r[i] = q[i + 1]
      BY <1>1, <2>1, TableServerAssumption
    <2> HIDE DEF r
    <2>4. DistinctKeys(r)
      <3>1. SUFFICES ASSUME NEW i \in DOMAIN r, NEW j \in DOMAIN r, r[i].key = r[j].key PROVE i = j
        BY DEF DistinctKeys
      <3>2. i + 1 = j + 1
        BY <3>1, <2>3, <1>1 DEF DistinctKeys
      <3> QED
        BY <3>2, <2>3
    <2>5. ~HasKey(r, k)
      BY <2>3 DEF HasKey
    <2> QED
      BY <2>1, <2>2, <2>3, <2>4, <2>5, <1>1 DEF Cached
  <1> QED
    BY <1>2, <1>3

LEMMA SetCached ==
    ASSUME NEW q, Cached(q), NEW k \in Shapes, NEW v \in Seq(Known)
    PROVE  Cached(AfterSet(q, k, v, CacheSize))
  <1> DEFINE e == [key |-> k, value |-> v, expired |-> FALSE]
             room == MakeRoom(Without(q, k), CacheSize)
  <1>1. Cached(room) /\ ~HasKey(room, k) /\ Len(room) < CacheSize
    BY WithoutKey, RoomMade
  <1>2. e \in Entries /\ e.key = k
    BY DEF Entries
  <1>3. AfterSet(q, k, v, CacheSize) = Append(room, e)
    BY DEF AfterSet
  <1> HIDE DEF e, room
  <1> QED
    BY <1>1, <1>2, <1>3, YoungestKey

LEMMA ExpiryCached ==
    ASSUME NEW q, Cached(q), NEW i \in DOMAIN q
    PROVE  Cached(AfterExpiry(q, i))
  <1> DEFINE r == AfterExpiry(q, i)
  <1>1. q \in Seq(Entries) /\ Len(q) <= CacheSize /\ DistinctKeys(q)
    BY DEF Cached
  <1>2. q[i] \in Entries
    BY <1>1
  <1>3. [q[i] EXCEPT !.expired = TRUE] \in Entries /\ [q[i] EXCEPT !.expired = TRUE].key = q[i].key
    BY <1>2 DEF Entries
  <1>4. r = [q EXCEPT ![i] = [q[i] EXCEPT !.expired = TRUE]]
    BY DEF AfterExpiry
  <1> HIDE DEF r
  <1>5. r \in Seq(Entries) /\ Len(r) = Len(q) /\ \A n \in DOMAIN r : n \in DOMAIN q /\ r[n].key = q[n].key
    BY <1>1, <1>3, <1>4
  <1> QED
    BY <1>1, <1>5 DEF Cached, DistinctKeys, r

-----------------------------------------------------------------------------
(* The rows a scan finds. *)

\* No request takes a row away or changes its key: update and delete, which look
\* among the first row_count rows, affect none.
RowsStay ==
    /\ DOMAIN rows \subseteq DOMAIN rows'
    /\ \A r \in DOMAIN rows : rows'[r].key = rows[r].key

LEMMA RowsUntouched == ASSUME rows' = rows PROVE RowsStay
  BY DEF RowsStay

\* What is known stays so.
LEMMA KnownStays ==
    ASSUME RowsStay
    PROVE  /\ \A key : IdsOf(key) # {} => IdsOf(key)' # {}
           /\ Known \subseteq Known' /\ Seq(Known) \subseteq Seq(Known')
           /\ Entries \subseteq Entries' /\ Seq(Entries) \subseteq Seq(Entries')
           /\ KnownReplies \subseteq KnownReplies' /\ Seq(KnownReplies) \subseteq Seq(KnownReplies')
  <1>1. ASSUME NEW key PROVE IdsOf(key) \subseteq IdsOf(key)'
    BY DEF IdsOf, RowsStay
  <1>2. ASSUME NEW S, NEW T, S \subseteq T PROVE Seq(S) \subseteq Seq(T)
    BY <1>2, SeqMonotonic
  <1>3. Known \subseteq Known'
    BY <1>1 DEF Known
  <1>4. Seq(Known) \subseteq Seq(Known')
    BY <1>2, <1>3
  <1>5. Entries \subseteq Entries' /\ KnownReplies \subseteq KnownReplies'
    BY <1>4 DEF Entries, KnownReplies
  <1>6. Seq(Entries) \subseteq Seq(Entries') /\ Seq(KnownReplies) \subseteq Seq(KnownReplies')
    BY <1>2, <1>5
  <1> QED
    BY <1>1, <1>3, <1>4, <1>5, <1>6

LEMMA CacheStays == ASSUME RowsStay, Cached(queryCache') PROVE CacheTyped'
  BY KnownStays DEF CacheTyped, Cached, DistinctKeys

\* A scan for a key that has a row finds one, and it finds nothing but rows.
LEMMA Scanned ==
    ASSUME RowsTyped, NEW key
    PROVE  /\ Matching(key) \in Seq(Known) /\ First(Matching(key)) \in Seq(Known)
           /\ IdsOf(key) # {} => Matching(key) # <<>>
           /\ Matching(key) # <<>> => First(Matching(key)) # <<>>
  <1> DEFINE S == IdsOf(key)
             ids == InOrder(S)
             n == Cardinality(S)
  <1>1. S \subseteq DOMAIN rows /\ S \in SUBSET Nat
    BY TableServerAssumption DEF RowsTyped, IdsOf
  <1>2. IsFiniteSet(S) /\ n \in Nat /\ (n = 0 <=> S = {})
    <2>1. IsFiniteSet(0 .. counter - 1)
      BY TableServerAssumption, FS_Interval DEF RowsTyped
    <2>2. IsFiniteSet(S)
      BY <2>1, <1>1, FS_Subset DEF RowsTyped
    <2> QED
      BY <2>2, FS_CardinalityType, FS_EmptySet
  <1>3. ids \in [1 .. n -> S]
    <2> DEFINE P(q) == \A i, j \in DOMAIN q : i < j => q[i] < q[j]
    <2>1. PICK q \in [1 .. n -> S] : Lists(q, S)
      BY <1>1, <1>2, Increasing
    <2>2. P(q)
      BY <2>1 DEF Lists
    <2>3. ids = CHOOSE p \in [1 .. n -> S] : P(p)
      BY DEF InOrder
    <2> HIDE DEF P, ids
    <2> QED
      BY <2>2, <2>3
  <1>4. Matching(key) = [i \in DOMAIN ids |-> rows[ids[i]]]
    BY DEF Matching
  <1> DEFINE m == Matching(key)
  <1>5. m \in [1 .. n -> Known]
    <2> HIDE DEF ids, n
    <2>1. DOMAIN ids = 1 .. n /\ \A i \in 1 .. n : ids[i] \in DOMAIN rows
      BY <1>1, <1>3
    <2>2. ASSUME NEW r \in DOMAIN rows PROVE rows[r] \in Known
      BY DEF RowsTyped, Known, IdsOf
    <2> QED
      BY <2>1, <2>2, <1>4
  <1> HIDE DEF m, n, S
  <1>6. m \in Seq(Known) /\ Len(m) = n
    BY <1>2, <1>5, FunctionIsSeq
  <1>7. S # {} => m # <<>>
    BY <1>2, <1>6
  <1>8. First(m) \in Seq(Known) /\ (m # <<>> => First(m) # <<>>)
    BY <1>6 DEF First
  <1> QED
    BY <1>6, <1>7, <1>8 DEF m, S

-----------------------------------------------------------------------------
(* A request and its response. *)

LEMMA Addressed == ASSUME ConnsTyped, NEW b \in Bots PROVE conn[b] \in Conns /\ conn[b] \in open
  <1>1. conn[b] \in 1 .. opened /\ opened \in 1 .. MaxConns /\ MaxConns \in Nat
    BY RepositoryAssumption DEF ConnsTyped
  <1> QED
    BY <1>1, RepositoryAssumption DEF ConnsTyped

\* The step leaves a row of the key.
Leaves(key) == \E r \in DOMAIN rows' : key \in {NoKey, rows'[r].key}

LEMMA LeavesRow == ASSUME NEW key, Leaves(key) PROVE IdsOf(key)' # {}
  BY DEF Leaves, IdsOf

\* The response to the first message of c: it bears the message's number, and
\* find_by_id says that there is no row only if there is none, and insert that it
\* succeeded only if there is one now.
Answers(c, reply) ==
    /\ reply.id = Head(inbox[c]).id
    /\ Head(inbox[c]).action = "find_by_id" /\ IdsOf(Head(inbox[c]).key) # {} => reply.found # <<>>
    /\ Head(inbox[c]).action = "insert" /\ reply.success => Leaves(Head(inbox[c]).key)

Delivers(c, reply) ==
    outbox' = IF c \notin open THEN outbox ELSE [outbox EXCEPT ![c] = Append(@, reply)]

LEMMA Responded ==
    ASSUME BoxesTyped, NEW c \in Conns, inbox[c] # <<>>,
           NEW success \in BOOLEAN, NEW found \in Seq(Known), Respond(c, success, found),
           Head(inbox[c]).action = "find_by_id" /\ IdsOf(Head(inbox[c]).key) # {} => found # <<>>,
           Head(inbox[c]).action = "insert" /\ success => Leaves(Head(inbox[c]).key)
    PROVE  open' = open /\ \E reply \in KnownReplies : Answers(c, reply) /\ Delivers(c, reply)
  <1> DEFINE reply == [id |-> Head(inbox[c]).id, success |-> success, found |-> found]
  <1>1. inbox[c] \in Seq(Requests)
    BY DEF BoxesTyped
  <1>2. Head(inbox[c]) \in Requests
    BY <1>1, Taken
  <1>3. reply \in KnownReplies /\ Answers(c, reply)
    BY <1>2 DEF Requests, KnownReplies, Answers
  <1>4. Delivers(c, reply) /\ open' = open
    BY DEF Respond, Delivers
  <1> HIDE DEF reply
  <1> QED
    BY <1>3, <1>4

\* A select answers with rows, whether it finds them in the cache or the table.
LEMMA Selected ==
    ASSUME RowsTyped, CacheTyped, NEW c, NEW key \in Keys \cup {NoKey}, NEW limit \in {0, 1},
           Select(c, key, limit)
    PROVE  Cached(queryCache') /\ \E found \in Seq(Known) : Respond(c, TRUE, found)
  <1> DEFINE shape == CacheKey(key, limit)
             fresh == IF limit = 1 THEN First(Matching(key)) ELSE Matching(key)
             kept  == AfterGet(queryCache, shape)
  <1>1. shape \in Shapes
    BY DEF CacheKey, Shapes
  <1>2. fresh \in Seq(Known)
    BY Scanned
  <1>3. Cached(queryCache)
    BY DEF CacheTyped
  <1> HIDE DEF shape, fresh
  <1>4. Cached(kept)
    BY <1>3, GetCached
  <1>5. CASE Hit(queryCache, shape)
    <2>1. queryCache' = kept /\ Respond(c, TRUE, Entry(queryCache, shape).value)
      BY <1>5 DEF Select, shape
    <2>2. Entry(queryCache, shape) \in Entries
      BY <1>3, <1>5, EntryCached DEF Hit
    <2>3. Entry(queryCache, shape).value \in Seq(Known)
      BY <2>2 DEF Entries
    <2> HIDE DEF kept
    <2> QED
      BY <2>1, <2>3, <1>4
  <1>6. CASE ~Hit(queryCache, shape)
    <2>1. queryCache' = AfterSet(kept, shape, fresh, CacheSize) /\ Respond(c, TRUE, fresh)
      BY <1>6 DEF Select, shape, fresh
    <2> HIDE DEF kept
    <2>2. Cached(AfterSet(kept, shape, fresh, CacheSize))
      BY <1>1, <1>2, <1>4, SetCached
    <2> QED
      BY <2>1, <2>2, <1>2
  <1> QED
    BY <1>5, <1>6

Served(c) ==
    /\ inbox[c] # <<>> /\ inbox' = [inbox EXCEPT ![c] = Tail(@)]
    /\ open' = open
    /\ \E reply \in KnownReplies : Answers(c, reply) /\ Delivers(c, reply)

LEMMA NoneAffected == ASSUME NEW key PROVE Affected(key) = {}
  BY DEF Affected, RowCount

LEMMA InvalidatedCached == ASSUME CacheTyped, RowsStay, queryCache' = Invalidated PROVE CacheTyped'
  <1>1. queryCache' = queryCache
    BY DEF Invalidated, NamesTable
  <1> QED
    BY <1>1, CacheStays DEF CacheTyped

LEMMA Executed ==
    ASSUME RowsTyped, CacheTyped, BoxesTyped, InsertsTyped, NEW c \in Conns, Exec(c)
    PROVE  RowsTyped' /\ CacheTyped' /\ RowsStay /\ Served(c)
  <1> DEFINE req == Head(inbox[c])
  <1>1. inbox[c] # <<>> /\ inbox' = [inbox EXCEPT ![c] = Tail(@)]
    BY DEF Exec, ExecInsert, ExecInsertFails, ExecUpdate, ExecDelete, ExecSelect, ExecFindOne,
           ExecFindById, Take
  <1>2. req \in Requests
    <2>1. inbox[c] \in Seq(Requests)
      BY DEF BoxesTyped
    <2> QED
      BY <2>1, <1>1, Taken
  <1>3. req.key \in Keys \cup {NoKey} /\ req.val \in Vals
    BY <1>2 DEF Requests
  <1>4. <<>> \in Seq(Known) /\ TRUE \in BOOLEAN /\ FALSE \in BOOLEAN
    OBVIOUS
  <1> HIDE DEF req
  <1>5. CASE ExecInsert(c) \/ ExecInsertFails(c)
    <2>1. req.action = "insert" /\ counter \in RowIds /\ counter' = counter + 1
      BY <1>5 DEF ExecInsert, ExecInsertFails, Take, req
    <2>2. req.action # "find_by_id"
      BY <2>1
    <2>3. counter \in 0 .. MaxRows - 1 /\ counter' \in 0 .. MaxRows
      BY <2>1, TableServerAssumption DEF RowIds
    <2>4. ASSUME NEW success \in BOOLEAN, Respond(c, success, <<>>),
                 success => Leaves(req.key)
          PROVE  Served(c)
      BY <2>2, <2>4, <1>1, <1>4, Responded DEF Served, req
    <2>5. CASE ExecInsert(c)
      <3> DEFINE row == [key |-> req.key, val |-> req.val]
      <3>1. rows' = [r \in DOMAIN rows \cup {counter} |-> IF r = counter THEN row ELSE rows[r]]
        BY <2>5 DEF ExecInsert, req
      <3>2. row \in Row
        <4>1. inbox[c] \in Seq(Requests)
          BY DEF BoxesTyped
        <4>2. req = inbox[c][1] /\ 1 \in DOMAIN inbox[c]
          BY <4>1, <1>1, Taken DEF req
        <4>3. req.key \in Keys
          BY <4>2, <2>1 DEF InsertsTyped
        <4> QED
          BY <4>3, <1>3 DEF Row
      <3>3. counter \notin DOMAIN rows
        BY TableServerAssumption DEF RowsTyped
      <3> HIDE DEF row
      <3>4. RowsStay
        BY <3>1, <3>3 DEF RowsStay
      <3>5. RowsTyped'
        <4>1. DOMAIN rows' = DOMAIN rows \cup {counter}
          BY <3>1
        <4>2. \A r \in DOMAIN rows' : rows'[r] \in Row
          BY <3>1, <3>2 DEF RowsTyped
        <4>3. DOMAIN rows' \subseteq 0 .. counter' - 1
          BY <4>1, <2>1, <2>3, TableServerAssumption DEF RowsTyped
        <4> QED
          BY <4>2, <4>3, <2>3 DEF RowsTyped
      <3>6. CacheTyped'
        BY <2>5, <3>4, InvalidatedCached DEF ExecInsert
      <3>7. counter \in DOMAIN rows' /\ rows'[counter].key = req.key
        BY <3>1 DEF row
      <3>8. Leaves(req.key)
        BY <3>7 DEF Leaves
      <3>9. Respond(c, TRUE, <<>>)
        BY <2>5 DEF ExecInsert
      <3> QED
        BY <3>4, <3>5, <3>6, <3>8, <3>9, <2>4
    <2>6. CASE ExecInsertFails(c)
      <3>1. rows' = rows /\ queryCache' = queryCache
        BY <2>6 DEF ExecInsertFails
      <3>2. RowsTyped'
        BY <3>1, <2>1, <2>3, TableServerAssumption DEF RowsTyped
      <3>3. RowsStay /\ CacheTyped'
        BY <3>1, RowsUntouched, CacheStays DEF CacheTyped
      <3>4. Respond(c, FALSE, <<>>)
        BY <2>6 DEF ExecInsertFails
      <3> QED
        BY <3>2, <3>3, <3>4, <2>4
    <2> QED
      BY <1>5, <2>5, <2>6
  <1>6. CASE ExecUpdate(c) \/ ExecDelete(c)
    <2>1. req.action \notin {"find_by_id", "insert"}
      BY <1>6 DEF ExecUpdate, ExecDelete, Take, req
    <2>2. rows' = [r \in DOMAIN rows |-> rows[r]]
      BY <1>6, NoneAffected DEF ExecUpdate, ExecDelete
    <2>3. counter' = counter /\ queryCache' = Invalidated /\ Respond(c, TRUE, <<>>)
      BY <1>6 DEF ExecUpdate, ExecDelete
    <2>4. Served(c)
      BY <2>1, <2>3, <1>1, <1>4, Responded DEF Served, req
    <2>5. RowsTyped' /\ RowsStay
      BY <2>2, <2>3 DEF RowsTyped, RowsStay
    <2> QED
      BY <2>3, <2>4, <2>5, InvalidatedCached
  <1>7. CASE ExecSelect(c) \/ ExecFindOne(c) \/ ExecFindById(c)
    <2>1. rows' = rows /\ counter' = counter
      BY <1>7 DEF ExecSelect, ExecFindOne, ExecFindById
    <2>2. RowsTyped' /\ RowsStay
      BY <2>1 DEF RowsTyped, RowsStay
    <2>3. CASE ExecSelect(c) \/ ExecFindOne(c)
      <3>1. req.action \notin {"find_by_id", "insert"}
        BY <2>3 DEF ExecSelect, ExecFindOne, Take, req
      <3>2. PICK limit \in {0, 1} : Select(c, req.key, limit)
        BY <2>3 DEF ExecSelect, ExecFindOne, req
      <3>3. CacheTyped' /\ \E found \in Seq(Known) : Respond(c, TRUE, found)
        BY <3>2, <2>2, <1>3, Selected, CacheStays
      <3> QED
        BY <3>1, <3>3, <2>2, <1>1, <1>4, Responded DEF Served, req
    <2>7. ExecFindById(c) => req.action # "insert"
      BY DEF ExecFindById, Take, req
    <2>4. CASE ExecFindById(c) /\ Matching(req.key) # <<>>
      <3>1. Respond(c, TRUE, First(Matching(req.key))) /\ queryCache' = queryCache
        BY <2>4 DEF ExecFindById, req
      <3>2. First(Matching(req.key)) \in Seq(Known) /\ First(Matching(req.key)) # <<>>
        BY <2>4, Scanned
      <3>3. Served(c)
        BY <2>4, <3>1, <3>2, <2>7, <1>1, <1>4, Responded DEF Served, req
      <3>4. CacheTyped'
        BY <3>1, <2>2, CacheStays DEF CacheTyped
      <3> QED
        BY <3>3, <3>4, <2>2
    <2>5. CASE ExecFindById(c) /\ Matching(req.key) = <<>>
      <3>1. Select(c, req.key, 1)
        BY <2>5 DEF ExecFindById, req
      <3>2. CacheTyped' /\ \E found \in Seq(Known) : Respond(c, TRUE, found)
        BY <3>1, <2>2, <1>3, Selected, CacheStays
      <3>3. IdsOf(req.key) = {}
        BY <2>5, Scanned
      <3> QED
        BY <2>5, <3>2, <3>3, <2>2, <2>7, <1>1, <1>4, Responded DEF Served, req
    <2> QED
      BY <1>7, <2>3, <2>4, <2>5
  <1> QED
    BY <1>5, <1>6, <1>7 DEF Exec

-----------------------------------------------------------------------------
(* What a step does to the messages under way and to the tasks. *)

\* Every request of the next state was there, or is one of M, at its connection.
NewRequests(M) ==
    \A c \in Conns : \A i \in DOMAIN inbox'[c] :
        \/ \E k \in DOMAIN inbox[c] : inbox'[c][i] = inbox[c][k]
        \/ <<c, inbox'[c][i]>> \in M

NewReplies(M) ==
    \A c \in Conns : \A i \in DOMAIN outbox'[c] :
        \/ \E k \in DOMAIN outbox[c] : outbox'[c][i] = outbox[c][k]
        \/ <<c, outbox'[c][i]>> \in M

\* One box of all gets a message, or loses its first one.
LEMMA OneAppended ==
    ASSUME NEW S, NEW C, NEW box \in [C -> Seq(S)], NEW c \in C, NEW m \in S, NEW new,
           new = [box EXCEPT ![c] = Append(@, m)]
    PROVE  /\ new \in [C -> Seq(S)]
           /\ \A d \in C : d # c => new[d] = box[d]
           /\ \A d \in C : \A i \in DOMAIN new[d] :
                (\E k \in DOMAIN box[d] : new[d][i] = box[d][k]) \/ (d = c /\ new[d][i] = m)
  <1>1. box[c] \in Seq(S)
    OBVIOUS
  <1>2. new[c] = Append(box[c], m) /\ DOMAIN new = C /\ \A d \in C : d # c => new[d] = box[d]
    OBVIOUS
  <1>3. /\ Append(box[c], m) \in Seq(S)
        /\ \A i \in DOMAIN Append(box[c], m) :
             (i \in DOMAIN box[c] /\ Append(box[c], m)[i] = box[c][i]) \/ Append(box[c], m)[i] = m
    BY <1>1, Appended
  <1>4. new \in [C -> Seq(S)]
    BY <1>1, <1>3
  <1> QED
    BY <1>2, <1>3, <1>4

LEMMA OneTaken ==
    ASSUME NEW S, NEW C, NEW box \in [C -> Seq(S)], NEW c \in C, box[c] # <<>>, NEW new,
           new = [box EXCEPT ![c] = Tail(@)]
    PROVE  /\ new \in [C -> Seq(S)]
           /\ \A d \in C : d # c => new[d] = box[d]
           /\ \A d \in C : \A i \in DOMAIN new[d] : \E k \in DOMAIN box[d] : new[d][i] = box[d][k]
  <1>1. box[c] \in Seq(S)
    OBVIOUS
  <1>2. new[c] = Tail(box[c]) /\ DOMAIN new = C /\ \A d \in C : d # c => new[d] = box[d]
    OBVIOUS
  <1>3. /\ Tail(box[c]) \in Seq(S)
        /\ \A i \in DOMAIN Tail(box[c]) : i + 1 \in DOMAIN box[c] /\ Tail(box[c])[i] = box[c][i + 1]
    BY <1>1, Taken
  <1>4. new \in [C -> Seq(S)]
    BY <1>1, <1>3
  <1> QED
    BY <1>2, <1>3, <1>4

\* A served request leaves its box, and a response of it may be under way.
LEMMA ServedBoxes ==
    ASSUME BoxesTyped, InsertsTyped, GoneUnread, NEW c \in Conns, Served(c), RowsStay
    PROVE  /\ BoxesTyped' /\ InsertsTyped' /\ GoneUnread' /\ NewRequests({})
           /\ \E reply \in KnownReplies : Answers(c, reply) /\ NewReplies({<<c, reply>>})
  <1>1. inbox \in [Conns -> Seq(Requests)] /\ outbox \in [Conns -> Seq(KnownReplies)]
    BY DEF BoxesTyped
  <1>2. /\ inbox' \in [Conns -> Seq(Requests)]
        /\ \A d \in Conns : \A i \in DOMAIN inbox'[d] : \E k \in DOMAIN inbox[d] : inbox'[d][i] = inbox[d][k]
    BY <1>1, OneTaken DEF Served
  <1>3. NewRequests({}) /\ InsertsTyped'
    <2>1. NewRequests({})
      BY <1>2 DEF NewRequests
    <2>2. ASSUME NEW d \in Conns, NEW i \in DOMAIN inbox'[d], inbox'[d][i].action = "insert"
          PROVE  inbox'[d][i].key \in Keys
      BY <1>2, <2>2 DEF InsertsTyped
    <2> QED
      BY <2>1, <2>2 DEF InsertsTyped
  <1>4. PICK reply \in KnownReplies : Answers(c, reply) /\ Delivers(c, reply)
    BY DEF Served
  <1>5. open' = open
    BY DEF Served
  <1>6. outbox' \in [Conns -> Seq(KnownReplies)] => outbox' \in [Conns -> Seq(KnownReplies)']
    BY KnownStays
  <1>7. CASE c \notin open
    <2>1. outbox' = outbox
      BY <1>4, <1>7 DEF Delivers
    <2>2. NewReplies({<<c, reply>>}) /\ GoneUnread'
      BY <2>1, <1>5 DEF NewReplies, GoneUnread
    <2> QED
      BY <2>1, <2>2, <1>1, <1>2, <1>3, <1>4, <1>6 DEF BoxesTyped
  <1>8. CASE c \in open
    <2>1. outbox' = [outbox EXCEPT ![c] = Append(@, reply)]
      BY <1>4, <1>8 DEF Delivers
    <2>2. /\ outbox' \in [Conns -> Seq(KnownReplies)]
          /\ \A d \in Conns : d # c => outbox'[d] = outbox[d]
          /\ \A d \in Conns : \A i \in DOMAIN outbox'[d] :
                (\E k \in DOMAIN outbox[d] : outbox'[d][i] = outbox[d][k]) \/ (d = c /\ outbox'[d][i] = reply)
      BY <2>1, <1>1, OneAppended
    <2>3. NewReplies({<<c, reply>>}) /\ GoneUnread'
      BY <2>2, <1>5, <1>8 DEF NewReplies, GoneUnread
    <2> QED
      BY <2>2, <2>3, <1>2, <1>3, <1>4, <1>6 DEF BoxesTyped
  <1> QED
    BY <1>7, <1>8

Request(action, j, state) == [id |-> <<j.call, state>>, action |-> action, key |-> j.key, val |-> j.val]

\* A request of a task is the only one added, and the task waits for it.
LEMMA Sent ==
    ASSUME BoxesTyped, InsertsTyped, ConnsTyped, NEW t \in Tasks, NEW action \in Actions,
           NEW j \in Jobs, NEW state \in Waiting, action = "insert" => j.key \in Keys,
           Send(t, action, j, state)
    PROVE  /\ inbox' \in [Conns -> Seq(Requests)] /\ InsertsTyped'
           /\ NewRequests({<<ConnOf(t), Request(action, j, state)>>})
  <1> DEFINE m == Request(action, j, state)
  <1>1. m \in Requests
    <2>1. <<j.call, state>> \in Ids
      BY RepositoryAssumption DEF Jobs
    <2>2. j.key \in Keys \cup {NoKey} /\ j.val \in Vals
      BY DEF Jobs
    <2> QED
      BY <2>1, <2>2 DEF Request, Requests
  <1>2. ConnOf(t) \in Conns
    BY RepositoryAssumption, Addressed DEF ConnOf
  <1>3. inbox \in [Conns -> Seq(Requests)] /\ inbox' = [inbox EXCEPT ![ConnOf(t)] = Append(@, m)]
    BY DEF BoxesTyped, Send, Request
  <1>4. m.action = action /\ m.key = j.key
    BY DEF Request
  <1> HIDE DEF m
  <1>5. /\ inbox' \in [Conns -> Seq(Requests)]
        /\ \A d \in Conns : \A i \in DOMAIN inbox'[d] :
                (\E k \in DOMAIN inbox[d] : inbox'[d][i] = inbox[d][k]) \/ (d = ConnOf(t) /\ inbox'[d][i] = m)
    BY <1>1, <1>2, <1>3, OneAppended
  <1>6. NewRequests({<<ConnOf(t), m>>})
    BY <1>5 DEF NewRequests
  <1>7. InsertsTyped'
    BY <1>4, <1>5 DEF InsertsTyped
  <1> QED
    BY <1>5, <1>6, <1>7 DEF m

\* A call goes on: the task is done with it, or asks for something else for it.
Carries(t) ==
    \/ pc'[t] = "idle"
    \/ /\ pc[t] # "idle" /\ conn'[BotOf[t]] = conn[BotOf[t]]
       /\ job'[t].call = job[t].call /\ job'[t].key = job[t].key /\ job'[t].stored = job[t].stored
       /\ job'[t].found = job[t].found \/ IdsOf(job'[t].found) # {}
       /\ pc'[t] = pc[t] \/ pc'[t] \in {"updating", "inserting"}
       /\ pc'[t] = "inserting" => ~job[t].stored

LEMMA EndTyped ==
    ASSUME TasksTyped, OnlyFirstSavesInsert, NEW t \in Tasks, End(t), calls' = calls, conn' = conn
    PROVE  TasksTyped' /\ \A s \in Tasks : Carries(s)
  <1>1. /\ pc' \in [Tasks -> Waiting \cup {"idle"}] /\ job' \in [Tasks -> Jobs \cup {NoJob}]
        /\ pc'[t] = "idle" /\ job'[t] = NoJob
        /\ \A s \in Tasks : s # t => pc'[s] = pc[s] /\ job'[s] = job[s]
    BY DEF TasksTyped, End
  <1>2. TasksTyped'
    BY <1>1 DEF TasksTyped
  <1>3. \A s \in Tasks : Carries(s)
    BY <1>1 DEF Carries, OnlyFirstSavesInsert
  <1> QED
    BY <1>2, <1>3

LEMMA SendTyped ==
    ASSUME TasksTyped, NEW t \in Tasks, NEW action, NEW j \in Jobs, NEW state \in Waiting,
           state # "reading" => j.key \in Keys, Send(t, action, j, state), calls' \in 0 .. MaxCalls
    PROVE  /\ TasksTyped' /\ pc'[t] = state /\ job'[t] = j
           /\ \A s \in Tasks : s # t => pc'[s] = pc[s] /\ job'[s] = job[s]
  <1>1. /\ pc' \in [Tasks -> Waiting \cup {"idle"}] /\ job' \in [Tasks -> Jobs \cup {NoJob}]
        /\ pc'[t] = state /\ job'[t] = j
        /\ \A s \in Tasks : s # t => pc'[s] = pc[s] /\ job'[s] = job[s]
    BY DEF TasksTyped, Send
  <1>2. state # "idle"
    BY DEF Waiting
  <1> QED
    BY <1>1, <1>2 DEF TasksTyped

\* A request of a call under way, which does not look for a row.
Proper(m) ==
    /\ m[2].id[1] <= calls /\ m[2].id[2] # "looking"
    /\ \A t \in Tasks : pc[t] # "idle" /\ job[t].call = m[2].id[1] =>
         /\ m[1] = ConnOf(t)
         /\ m[2].id[2] = "inserting" => m[2].action = "insert" /\ m[2].key = job[t].key

\* A step that starts no call, takes no row away, adds no request that looks for
\* a row and no response but to the first request of a connection, keeps what
\* saves are told true.
LEMMA TruthKept ==
    ASSUME Typed, Truthful, RowsStay, calls' = calls,
           \A t \in Tasks : Carries(t),
           NEW M, NewRequests(M), \A m \in M : Proper(m),
           NEW N, NewReplies(N),
           \A n \in N : n[1] \in Conns /\ inbox[n[1]] # <<>> /\ Answers(n[1], n[2])
    PROVE  Truthful'
  <1> USE DEF Typed, Truthful
  <1>1. \A key : IdsOf(key) # {} => IdsOf(key)' # {}
    BY KnownStays
  <1>2. RowsKept'
    BY <1>1 DEF RowsKept, Carries
  <1>3. OnlyFirstSavesInsert'
    BY DEF OnlyFirstSavesInsert, Carries
  <1>4. ASSUME NEW c \in Conns, inbox[c] # <<>> PROVE 1 \in DOMAIN inbox[c] /\ Head(inbox[c]) = inbox[c][1]
    BY <1>4, Taken DEF BoxesTyped
  <1>5. Numbered'
    <2>1. \A t \in Tasks : pc'[t] # "idle" => job'[t].call <= calls'
      BY DEF Numbered, Carries
    <2>2. \A s, t \in Tasks : pc'[s] # "idle" /\ pc'[t] # "idle" /\ job'[s].call = job'[t].call => s = t
      BY DEF Numbered, Carries
    <2>3. \A c \in Conns : \A i \in DOMAIN inbox'[c] : inbox'[c][i].id[1] <= calls'
      BY DEF Numbered, NewRequests, Proper
    <2>4. \A n \in N : n[2].id[1] <= calls
      BY <1>4 DEF Numbered, Answers
    <2>5. \A c \in Conns : \A i \in DOMAIN outbox'[c] : outbox'[c][i].id[1] <= calls'
      BY <2>4 DEF Numbered, NewReplies
    <2> QED
      BY <2>1, <2>2, <2>3, <2>5 DEF Numbered
  <1>6. ASSUME NEW t \in Tasks, NEW id, pc'[t] = "looking", id = <<job'[t].call, "looking">>
        PROVE  Looks(t, id) /\ job'[t].key = job[t].key /\ job'[t].stored = job[t].stored /\ id[2] = "looking"
    BY <1>6 DEF Looks, Carries
  <1>7. AskedForKey'
    <2>1. SUFFICES ASSUME NEW c \in Conns, NEW i \in DOMAIN inbox'[c], NEW t \in Tasks,
                          pc'[t] = "looking", inbox'[c][i].id = <<job'[t].call, "looking">>
                   PROVE  inbox'[c][i].action = "find_by_id" /\ inbox'[c][i].key = job'[t].key
      BY DEF AskedForKey, Looks
    <2>2. Looks(t, inbox'[c][i].id) /\ job'[t].key = job[t].key /\ inbox'[c][i].id[2] = "looking"
      BY <2>1, <1>6
    <2>3. PICK k \in DOMAIN inbox[c] : inbox'[c][i] = inbox[c][k]
      BY <2>2 DEF NewRequests, Proper
    <2> QED
      BY <2>2, <2>3 DEF AskedForKey
  <1>8. AnsweredTruly'
    <2>1. SUFFICES ASSUME NEW c \in Conns, NEW i \in DOMAIN outbox'[c], NEW t \in Tasks,
                          pc'[t] = "looking", outbox'[c][i].id = <<job'[t].call, "looking">>, outbox'[c][i].success, outbox'[c][i].found = <<>>
                   PROVE  ~job'[t].stored
      BY DEF AnsweredTruly, Looks
    <2>2. Looks(t, outbox'[c][i].id) /\ job'[t].stored = job[t].stored
      BY <2>1, <1>6
    <2>3. CASE \E k \in DOMAIN outbox[c] : outbox'[c][i] = outbox[c][k]
      BY <2>1, <2>2, <2>3 DEF AnsweredTruly
    <2>4. CASE <<c, outbox'[c][i]>> \in N
      <3>1. inbox[c] # <<>> /\ Answers(c, outbox'[c][i])
        BY <2>4
      <3>2. Head(inbox[c]).action = "find_by_id" /\ Head(inbox[c]).key = job[t].key
        BY <3>1, <2>2, <1>4 DEF AskedForKey, Answers
      <3>3. IdsOf(job[t].key) = {}
        BY <3>1, <3>2, <2>1 DEF Answers
      <3>4. pc[t] # "idle"
        BY <2>2 DEF Looks
      <3> QED
        BY <3>3, <3>4, <2>2 DEF RowsKept
    <2> QED
      BY <2>3, <2>4 DEF NewReplies
  <1>9. FoundStays'
    <2>1. SUFFICES ASSUME NEW t \in Tasks, pc'[t] # "idle", job'[t].found # NoKey
                   PROVE  IdsOf(job[t].found)' # {}
      BY DEF FoundStays
    <2>2. IdsOf(job'[t].found) # {}
      BY <2>1 DEF FoundStays, Carries
    <2> QED
      BY <2>2, <1>1
  <1>10. ASSUME NEW t \in Tasks, pc'[t] # "idle"
         PROVE  /\ pc[t] # "idle" /\ ConnOf(t)' = ConnOf(t)
                /\ job'[t].call = job[t].call /\ job'[t].key = job[t].key
    BY <1>10 DEF Carries, ConnOf
  <1>11. OwnMail'
    <2>1. ASSUME NEW c \in Conns, NEW t \in Tasks, pc'[t] # "idle", NEW i \in DOMAIN inbox'[c],
                 inbox'[c][i].id[1] = job'[t].call
          PROVE  c = ConnOf(t)'
      <3>1. CASE \E k \in DOMAIN inbox[c] : inbox'[c][i] = inbox[c][k]
        BY <2>1, <3>1, <1>10 DEF OwnMail
      <3>2. CASE <<c, inbox'[c][i]>> \in M
        <4>1. Proper(<<c, inbox'[c][i]>>)
          BY <3>2
        <4> QED
          BY <4>1, <2>1, <1>10 DEF Proper
      <3> QED
        BY <3>1, <3>2 DEF NewRequests
    <2>2. ASSUME NEW c \in Conns, NEW t \in Tasks, pc'[t] # "idle", NEW i \in DOMAIN outbox'[c],
                 outbox'[c][i].id[1] = job'[t].call
          PROVE  c = ConnOf(t)'
      <3>1. CASE \E k \in DOMAIN outbox[c] : outbox'[c][i] = outbox[c][k]
        BY <2>2, <3>1, <1>10 DEF OwnMail
      <3>2. CASE <<c, outbox'[c][i]>> \in N
        <4>1. inbox[c] # <<>> /\ Answers(c, outbox'[c][i])
          BY <3>2
        <4> QED
          BY <4>1, <2>2, <1>4, <1>10 DEF OwnMail, Answers
      <3> QED
        BY <3>1, <3>2 DEF NewReplies
    <2> QED
      BY <2>1, <2>2 DEF OwnMail
  <1>12. AskedToInsert'
    <2>1. SUFFICES ASSUME NEW c \in Conns, NEW i \in DOMAIN inbox'[c], NEW t \in Tasks,
                          pc'[t] # "idle", inbox'[c][i].id = <<job'[t].call, "inserting">>
                   PROVE  inbox'[c][i].action = "insert" /\ inbox'[c][i].key = job'[t].key
      BY DEF AskedToInsert, Inserts
    <2>2. CASE \E k \in DOMAIN inbox[c] : inbox'[c][i] = inbox[c][k]
      BY <2>1, <2>2, <1>10 DEF AskedToInsert, Inserts
    <2>3. CASE <<c, inbox'[c][i]>> \in M
      <3>1. inbox'[c][i].id[1] = job[t].call /\ inbox'[c][i].id[2] = "inserting"
        BY <2>1, <1>10
      <3>2. Proper(<<c, inbox'[c][i]>>)
        BY <2>3
      <3> QED
        BY <3>1, <3>2, <2>1, <1>10 DEF Proper
    <2> QED
      BY <2>2, <2>3 DEF NewRequests
  <1>13. InsertedTruly'
    <2>1. SUFFICES ASSUME NEW c \in Conns, NEW i \in DOMAIN outbox'[c], NEW t \in Tasks,
                          pc'[t] # "idle", outbox'[c][i].id = <<job'[t].call, "inserting">>,
                          outbox'[c][i].success
                   PROVE  IdsOf(job[t].key)' # {}
      BY DEF InsertedTruly, Inserts
    <2>2. CASE \E k \in DOMAIN outbox[c] : outbox'[c][i] = outbox[c][k]
      BY <2>1, <2>2, <1>1, <1>10 DEF InsertedTruly, Inserts
    <2>3. CASE <<c, outbox'[c][i]>> \in N
      <3>1. inbox[c] # <<>> /\ Answers(c, outbox'[c][i])
        BY <2>3
      <3>2. Head(inbox[c]).action = "insert" /\ Head(inbox[c]).key = job[t].key
        BY <3>1, <2>1, <1>4, <1>10 DEF AskedToInsert, Inserts, Answers
      <3>3. Leaves(job[t].key)
        BY <3>1, <3>2, <2>1 DEF Answers
      <3> QED
        BY <3>3, <2>1, <1>10, LeavesRow
    <2> QED
      BY <2>2, <2>3 DEF NewReplies
  <1> QED
    BY <1>2, <1>3, <1>5, <1>7, <1>8, <1>9, <1>11, <1>12, <1>13

-----------------------------------------------------------------------------
(* The actions. *)

\* A call of a method begins: it has a number of its own, and a save remembers
\* whether its key has a row.
LEMMA AskInv ==
    ASSUME IInv, NEW t \in Tasks, NEW method, NEW action \in Actions, NEW key \in Keys \cup {NoKey},
           NEW val \in Vals, NEW state \in Waiting, Ask(t, method, action, key, val, state),
           action # "insert", state \notin {"updating", "inserting"},
           state # "reading" => key \in Keys,
           state = "looking" => action = "find_by_id"
    PROVE  IInv'
  <1> USE DEF IInv, Typed
  <1> DEFINE stored == IdsOf(key) # {}
             j == [call |-> calls + 1, key |-> key, val |-> val, stored |-> stored, found |-> NoKey]
             m == Request(action, j, state)
  <1>1. calls \in 0 .. MaxCalls - 1 /\ calls' = calls + 1 /\ calls' \in 0 .. MaxCalls
    BY RepositoryAssumption DEF TasksTyped, Ask
  <1>2. j \in Jobs /\ j.call = calls + 1 /\ j.key = key /\ j.stored = stored /\ j.found = NoKey
    <2>1. calls + 1 \in 1 .. MaxCalls
      BY <1>1, RepositoryAssumption
    <2> QED
      BY <2>1 DEF Jobs
  <1>3. Send(t, action, j, state) /\ pc[t] = "idle"
    BY DEF Ask, May
  <1>4. m.id = <<calls + 1, state>> /\ m.action = action /\ m.key = key
    BY DEF Request
  <1>5. /\ rows' = rows /\ counter' = counter /\ queryCache' = queryCache /\ outbox' = outbox
        /\ open' = open /\ conn' = conn /\ opened' = opened /\ repoCache' = repoCache
    BY DEF Ask
  <1> HIDE DEF j
  <1>6. inbox' \in [Conns -> Seq(Requests)] /\ InsertsTyped' /\ NewRequests({<<ConnOf(t), m>>})
    BY <1>2, <1>3, Sent
  <1>7. /\ TasksTyped' /\ pc'[t] = state /\ job'[t] = j
        /\ \A s \in Tasks : s # t => pc'[s] = pc[s] /\ job'[s] = job[s]
    BY <1>1, <1>2, <1>3, SendTyped
  <1> HIDE DEF m, stored
  <1>8. Typed'
    <2>1. RowsTyped' /\ CacheTyped' /\ KnownReplies' = KnownReplies
      BY <1>5 DEF RowsTyped, CacheTyped, Cached, DistinctKeys, Entries, Known, IdsOf, KnownReplies
    <2>2. BoxesTyped' /\ ConnsTyped' /\ GoneUnread' /\ RememberedTyped'
      BY <2>1, <1>5, <1>6 DEF BoxesTyped, ConnsTyped, GoneUnread, RememberedTyped
    <2> QED
      BY <2>1, <2>2, <1>6, <1>7
  <1>9. Truthful'
    <2> USE DEF Truthful
    <2>1. OnlyFirstSavesInsert'
      BY <1>7 DEF OnlyFirstSavesInsert
    <2>2. Numbered'
      <3>1. \A c \in Conns : \A i \in DOMAIN inbox'[c] : inbox'[c][i].id[1] <= calls'
        <4>1. SUFFICES ASSUME NEW c \in Conns, NEW i \in DOMAIN inbox'[c] PROVE inbox'[c][i].id[1] <= calls'
          OBVIOUS
        <4>2. CASE \E k \in DOMAIN inbox[c] : inbox'[c][i] = inbox[c][k]
          <5>1. PICK k \in DOMAIN inbox[c] : inbox'[c][i] = inbox[c][k]
            BY <4>2
          <5>2. inbox[c][k] \in Requests
            BY DEF BoxesTyped
          <5>3. inbox[c][k].id[1] \in Nat /\ inbox[c][k].id[1] <= calls
            BY <5>2, RepositoryAssumption DEF Requests, Numbered
          <5> QED
            BY <5>1, <5>3, <1>1
        <4>3. CASE <<c, inbox'[c][i]>> = <<ConnOf(t), m>>
          BY <4>3, <1>4, <1>1
        <4> QED
          BY <4>2, <4>3, <1>6 DEF NewRequests
      <3>2. \A c \in Conns : \A i \in DOMAIN outbox'[c] : outbox'[c][i].id[1] <= calls'
        <4>1. SUFFICES ASSUME NEW c \in Conns, NEW i \in DOMAIN outbox[c] PROVE outbox[c][i].id[1] <= calls'
          BY <1>5
        <4>2. outbox[c][i] \in KnownReplies
          BY DEF BoxesTyped
        <4>3. outbox[c][i].id[1] \in Nat /\ outbox[c][i].id[1] <= calls
          BY <4>2, RepositoryAssumption DEF KnownReplies, Numbered
        <4> QED
          BY <4>3, <1>1
      <3>3. \A s \in Tasks : pc[s] # "idle" => job[s].call \in Nat /\ job[s].call <= calls
        BY RepositoryAssumption DEF TasksTyped, Jobs, Numbered
      <3>4. \A s \in Tasks : pc'[s] # "idle" => job'[s].call <= calls'
        BY <3>3, <1>1, <1>2, <1>7
      <3>5. ASSUME NEW r \in Tasks, NEW s \in Tasks, pc'[r] # "idle", pc'[s] # "idle",
                   job'[r].call = job'[s].call
            PROVE  r = s
        BY <3>3, <3>5, <1>1, <1>2, <1>7 DEF Numbered
      <3> QED
        BY <3>1, <3>2, <3>4, <3>5 DEF Numbered
    <2>3. RowsKept'
      <3>1. \A k : IdsOf(k)' = IdsOf(k)
        BY <1>5 DEF IdsOf
      <3> QED
        BY <3>1, <1>2, <1>7 DEF RowsKept, stored
    <2>4. AskedForKey'
      <3>1. SUFFICES ASSUME NEW c \in Conns, NEW i \in DOMAIN inbox'[c], NEW s \in Tasks,
                            pc'[s] = "looking", inbox'[c][i].id = <<job'[s].call, "looking">>
                     PROVE  inbox'[c][i].action = "find_by_id" /\ inbox'[c][i].key = job'[s].key
        BY DEF AskedForKey, Looks
      <3>2. CASE s = t /\ <<c, inbox'[c][i]>> = <<ConnOf(t), m>>
        BY <3>1, <3>2, <1>2, <1>4, <1>7
      <3>3. CASE s = t /\ \E k \in DOMAIN inbox[c] : inbox'[c][i] = inbox[c][k]
        <4>1. inbox'[c][i].id[1] <= calls /\ inbox'[c][i].id[1] = calls + 1
          BY <3>1, <3>3, <1>2, <1>7 DEF Numbered
        <4> QED
          BY <4>1, <1>1
      <3>4. CASE s # t /\ <<c, inbox'[c][i]>> = <<ConnOf(t), m>>
        <4>1. job[s].call = calls + 1 /\ pc[s] # "idle"
          BY <3>1, <3>4, <1>4, <1>7
        <4>2. job[s].call <= calls
          BY <4>1 DEF Numbered
        <4> QED
          BY <4>1, <4>2, <1>1
      <3>5. CASE s # t /\ \E k \in DOMAIN inbox[c] : inbox'[c][i] = inbox[c][k]
        BY <3>1, <3>5, <1>7 DEF AskedForKey, Looks
      <3> QED
        BY <3>2, <3>3, <3>4, <3>5, <1>6 DEF NewRequests
    <2>5. AnsweredTruly'
      <3>1. SUFFICES ASSUME NEW c \in Conns, NEW i \in DOMAIN outbox[c], NEW s \in Tasks,
                            pc'[s] = "looking", outbox[c][i].id = <<job'[s].call, "looking">>,
                            outbox[c][i].success, outbox[c][i].found = <<>>
                     PROVE  ~job'[s].stored
        BY <1>5 DEF AnsweredTruly, Looks
      <3>2. s # t
        <4>1. outbox[c][i].id[1] <= calls /\ outbox[c][i].id[1] = job'[s].call
          BY <3>1 DEF Numbered
        <4> QED
          BY <4>1, <1>1, <1>2, <1>7
      <3> QED
        BY <3>1, <3>2, <1>7 DEF AnsweredTruly, Looks
    <2>6. FoundStays'
      <3>1. \A k : IdsOf(k)' = IdsOf(k)
        BY <1>5 DEF IdsOf
      <3> QED
        BY <3>1, <1>2, <1>7 DEF FoundStays
    <2>7. \A c \in Conns :
            /\ \A i \in DOMAIN inbox[c] : inbox[c][i].id[1] # calls + 1
            /\ \A i \in DOMAIN outbox[c] : outbox[c][i].id[1] # calls + 1
      BY <1>1 DEF Numbered
    <2>8. \A s \in Tasks : pc[s] # "idle" => job[s].call # calls + 1
      BY <1>1 DEF Numbered
    <2>9. \A s \in Tasks : ConnOf(s)' = ConnOf(s)
      BY <1>5 DEF ConnOf
    <2>10. OwnMail'
      <3>1. ASSUME NEW c \in Conns, NEW s \in Tasks, pc'[s] # "idle", NEW i \in DOMAIN inbox'[c],
                   inbox'[c][i].id[1] = job'[s].call
            PROVE  c = ConnOf(s)
        <4>1. CASE s = t /\ <<c, inbox'[c][i]>> = <<ConnOf(t), m>>
          BY <4>1
        <4>2. CASE s = t /\ \E k \in DOMAIN inbox[c] : inbox'[c][i] = inbox[c][k]
          BY <3>1, <4>2, <2>7, <1>2, <1>7
        <4>3. CASE s # t /\ <<c, inbox'[c][i]>> = <<ConnOf(t), m>>
          BY <3>1, <4>3, <2>8, <1>4, <1>7
        <4>4. CASE s # t /\ \E k \in DOMAIN inbox[c] : inbox'[c][i] = inbox[c][k]
          BY <3>1, <4>4, <1>7 DEF OwnMail
        <4> QED
          BY <4>1, <4>2, <4>3, <4>4, <1>6 DEF NewRequests
      <3>2. ASSUME NEW c \in Conns, NEW s \in Tasks, pc'[s] # "idle", NEW i \in DOMAIN outbox[c],
                   outbox[c][i].id[1] = job'[s].call
            PROVE  c = ConnOf(s)
        BY <3>2, <2>7, <1>2, <1>7 DEF OwnMail
      <3> QED
        BY <3>1, <3>2, <2>9, <1>5 DEF OwnMail
    <2>11. AskedToInsert'
      <3>1. SUFFICES ASSUME NEW c \in Conns, NEW i \in DOMAIN inbox'[c], NEW s \in Tasks,
                            pc'[s] # "idle", inbox'[c][i].id = <<job'[s].call, "inserting">>
                     PROVE  inbox'[c][i].action = "insert" /\ inbox'[c][i].key = job'[s].key
        BY DEF AskedToInsert, Inserts
      <3>2. <<c, inbox'[c][i]>> # <<ConnOf(t), m>>
        BY <3>1, <1>4
      <3>3. PICK k \in DOMAIN inbox[c] : inbox'[c][i] = inbox[c][k]
        BY <3>2, <1>6 DEF NewRequests
      <3>4. s # t
        BY <3>1, <3>3, <2>7, <1>2, <1>7
      <3> QED
        BY <3>1, <3>3, <3>4, <1>7 DEF AskedToInsert, Inserts
    <2>12. InsertedTruly'
      <3>1. SUFFICES ASSUME NEW c \in Conns, NEW i \in DOMAIN outbox[c], NEW s \in Tasks,
                            pc'[s] # "idle", outbox[c][i].id = <<job'[s].call, "inserting">>,
                            outbox[c][i].success
                     PROVE  IdsOf(job[s].key)' # {}
        BY <1>5 DEF InsertedTruly, Inserts
      <3>2. s # t
        BY <3>1, <2>7, <1>2, <1>7
      <3>3. \A k : IdsOf(k)' = IdsOf(k)
        BY <1>5 DEF IdsOf
      <3> QED
        BY <3>1, <3>2, <3>3, <1>7 DEF InsertedTruly, Inserts
    <2> QED
      BY <2>1, <2>2, <2>3, <2>4, <2>5, <2>6, <2>10, <2>11, <2>12
  <1> QED
    BY <1>8, <1>9

LEMMA CallInv == ASSUME IInv, NEW t \in Tasks, Call(t) PROVE IInv'
  <1>1. "looking" \in Waiting /\ "getting" \in Waiting /\ "reading" \in Waiting
    BY DEF Waiting
  <1>2. /\ "find_by_id" \in Actions /\ "find_one" \in Actions /\ "select" \in Actions
        /\ "delete" \in Actions
    BY DEF Actions
  <1>3. ASSUME NEW key \in Keys, NEW val \in Vals, Save(t, key, val) \/ Get(t, key, val) PROVE IInv'
    BY <1>1, <1>2, <1>3, AskInv DEF Save, Get
  <1>4. ASSUME NEW key \in Keys \cup {NoKey}, NEW val \in Vals,
               Lookup(t, key, val) \/ List(t, key, val) \/ Remove(t, key, val)
        PROVE  IInv'
    BY <1>1, <1>2, <1>4, AskInv DEF Lookup, List, Remove
  <1> QED
    BY <1>3, <1>4 DEF Call

\* A step that does not touch the table keeps what is known of it.
LEMMA TableTyped ==
    ASSUME Typed, rows' = rows, counter' = counter
    PROVE  /\ RowsTyped' /\ KnownReplies' = KnownReplies
           /\ queryCache' = queryCache => CacheTyped'
           /\ inbox' = inbox /\ outbox' = outbox => BoxesTyped'
  <1>1. Known' = Known
    BY DEF Known, IdsOf
  <1>2. Entries' = Entries /\ KnownReplies' = KnownReplies
    BY <1>1 DEF Entries, KnownReplies
  <1> QED
    BY <1>2 DEF Typed, RowsTyped, CacheTyped, Cached, DistinctKeys, BoxesTyped

LEMMA TimeoutInv == ASSUME IInv, NEW t \in Tasks, Timeout(t) PROVE IInv'
  <1> USE DEF IInv, Typed
  <1>1. /\ rows' = rows /\ counter' = counter /\ queryCache' = queryCache /\ outbox' = outbox
        /\ open' = open /\ conn' = conn /\ opened' = opened /\ calls' = calls /\ repoCache' = repoCache
        /\ End(t) /\ inbox' = inbox
    BY DEF Timeout, End
  <1>2. TasksTyped' /\ \A s \in Tasks : Carries(s)
    BY <1>1, EndTyped DEF Truthful
  <1>3. Typed'
    <2>1. RowsTyped' /\ CacheTyped' /\ BoxesTyped'
      BY <1>1, TableTyped
    <2> QED
      BY <2>1, <1>1, <1>2 DEF InsertsTyped, ConnsTyped, GoneUnread, RememberedTyped
  <1>4. NewRequests({}) /\ NewReplies({}) /\ RowsStay
    BY <1>1, RowsUntouched DEF NewRequests, NewReplies
  <1>5. Truthful'
    BY <1>1, <1>2, <1>4, TruthKept
  <1> QED
    BY <1>3, <1>5

LEMMA ServeInv == ASSUME IInv, NEW c \in Conns, Serve(c) PROVE IInv'
  <1> USE DEF IInv, Typed
  <1>1. /\ conn' = conn /\ opened' = opened /\ calls' = calls /\ pc' = pc /\ job' = job
        /\ repoCache' = repoCache
    BY DEF Serve, taskVars
  <1>2. RowsTyped' /\ CacheTyped' /\ RowsStay /\ Served(c)
    BY Executed DEF Serve
  <1>3. open' = open /\ inbox[c] # <<>>
    BY <1>2 DEF Served
  <1>4. BoxesTyped' /\ InsertsTyped' /\ GoneUnread' /\ NewRequests({})
    BY <1>2, ServedBoxes
  <1>5. PICK reply \in KnownReplies : Answers(c, reply) /\ NewReplies({<<c, reply>>})
    BY <1>2, ServedBoxes
  <1>6. Typed'
    BY <1>1, <1>2, <1>3, <1>4 DEF ConnsTyped, TasksTyped, RememberedTyped
  <1>7. \A t \in Tasks : Carries(t)
    BY <1>1 DEF Carries, Truthful, OnlyFirstSavesInsert
  <1>8. \A n \in {<<c, reply>>} : n[1] \in Conns /\ inbox[n[1]] # <<>> /\ Answers(n[1], n[2])
    BY <1>3, <1>5
  <1>9. Truthful'
    BY <1>1, <1>2, <1>4, <1>5, <1>7, <1>8, TruthKept
  <1> QED
    BY <1>6, <1>9

LEMMA ExpiresInv ==
    ASSUME IInv, CacheExpires, UNCHANGED <<conn, opened, taskVars, repoCache>>
    PROVE  IInv'
  <1> USE DEF IInv, Typed
  <1>1. /\ rows' = rows /\ counter' = counter /\ inbox' = inbox /\ outbox' = outbox /\ open' = open
        /\ conn' = conn /\ opened' = opened /\ calls' = calls /\ pc' = pc /\ job' = job
        /\ repoCache' = repoCache
    BY DEF CacheExpires, taskVars
  <1>2. CacheTyped'
    BY <1>1, ExpiryCached, RowsUntouched, CacheStays DEF CacheExpires, CacheTyped
  <1>3. Typed'
    <2>1. RowsTyped' /\ BoxesTyped'
      BY <1>1, TableTyped
    <2> QED
      BY <2>1, <1>1, <1>2 DEF InsertsTyped, ConnsTyped, GoneUnread, TasksTyped, RememberedTyped
  <1>4. NewRequests({}) /\ NewReplies({}) /\ RowsStay
    BY <1>1, RowsUntouched DEF NewRequests, NewReplies
  <1>5. \A t \in Tasks : Carries(t)
    BY <1>1 DEF Carries, Truthful, OnlyFirstSavesInsert
  <1>6. Truthful'
    BY <1>1, <1>4, <1>5, TruthKept
  <1> QED
    BY <1>3, <1>6

LEMMA RestartInv == ASSUME IInv, NEW b \in Bots, Restart(b) PROVE IInv'
  <1> USE DEF IInv, Typed
  <1>1. /\ rows' = rows /\ counter' = counter /\ queryCache' = queryCache /\ calls' = calls
        /\ opened < MaxConns /\ opened' = opened + 1 /\ conn' = [conn EXCEPT ![b] = opened + 1]
        /\ open' = (open \ {conn[b]}) \cup {opened + 1}
        /\ outbox' = [outbox EXCEPT ![conn[b]] = <<>>]
        /\ repoCache' = [repoCache EXCEPT ![b] = NoEntry]
    BY DEF Restart
  <1>2. conn[b] \in Conns /\ conn[b] \in open
    BY Addressed
  <1>3. opened \in 1 .. MaxConns /\ opened' \in Conns /\ opened' \in Nat
    BY <1>1, RepositoryAssumption DEF ConnsTyped
  <1>4. ConnsTyped'
    <2>1. \A a \in Bots : conn'[a] = IF a = b THEN opened + 1 ELSE conn[a]
      BY <1>1 DEF ConnsTyped
    <2>2. \A a \in Bots : conn[a] \in 1 .. opened /\ conn[a] # opened + 1
      BY <1>3 DEF ConnsTyped
    <2>3. conn' \in [Bots -> 1 .. opened']
      <3>1. \A a \in Bots : (IF a = b THEN opened + 1 ELSE conn[a]) \in 1 .. opened + 1
        BY <2>2, <1>3
      <3> QED
        BY <3>1, <2>1, <1>1 DEF ConnsTyped
    <2>4. \A a, d \in Bots : conn'[a] = conn'[d] => a = d
      BY <2>1, <2>2 DEF ConnsTyped
    <2>5. open' = {conn'[a] : a \in Bots}
      <3>1. ASSUME NEW x \in open' PROVE \E a \in Bots : x = conn'[a]
        BY <1>1, <2>1 DEF ConnsTyped
      <3>2. ASSUME NEW a \in Bots PROVE conn'[a] \in open'
        BY <1>1, <2>1 DEF ConnsTyped
      <3> QED
        BY <3>1, <3>2
    <2> QED
      BY <1>3, <2>3, <2>4, <2>5 DEF ConnsTyped
  <1>5. PICK n \in 0 .. Len(inbox[conn[b]]) :
          inbox' = [inbox EXCEPT ![conn[b]] = SubSeq(@, 1, n)]
    BY DEF Restart
  <1>6. inbox \in [Conns -> Seq(Requests)] /\ outbox \in [Conns -> Seq(KnownReplies)]
    BY DEF BoxesTyped
  <1>7. /\ SubSeq(inbox[conn[b]], 1, n) \in Seq(Requests)
        /\ \A i \in DOMAIN SubSeq(inbox[conn[b]], 1, n) :
             i \in DOMAIN inbox[conn[b]] /\ SubSeq(inbox[conn[b]], 1, n)[i] = inbox[conn[b]][i]
    BY <1>2, <1>5, <1>6, Cut
  <1>8. /\ inbox' \in [Conns -> Seq(Requests)]
        /\ \A c \in Conns : \A i \in DOMAIN inbox'[c] : i \in DOMAIN inbox[c] /\ inbox'[c][i] = inbox[c][i]
    BY <1>2, <1>5, <1>6, <1>7
  <1>9. <<>> \in Seq(KnownReplies) /\ DOMAIN <<>> = {}
    OBVIOUS
  <1>10. /\ outbox' \in [Conns -> Seq(KnownReplies)]
         /\ \A c \in Conns : outbox'[c] = IF c = conn[b] THEN <<>> ELSE outbox[c]
    BY <1>1, <1>2, <1>6, <1>9
  <1>11. NewRequests({}) /\ NewReplies({}) /\ RowsStay
    BY <1>1, <1>8, <1>9, <1>10, RowsUntouched DEF NewRequests, NewReplies
  <1>12. InsertsTyped' /\ BoxesTyped' /\ GoneUnread'
    <2>1. InsertsTyped'
      BY <1>8 DEF InsertsTyped
    <2>2. \A c \in Conns \ open' : c = conn[b] \/ c \in Conns \ open
      BY <1>1
    <2>3. KnownReplies' = KnownReplies
      BY <1>1, TableTyped
    <2> QED
      BY <2>1, <2>2, <2>3, <1>8, <1>10 DEF BoxesTyped, GoneUnread
  <1>13. TasksTyped' /\ \A t \in Tasks : Carries(t)
    <2>1. /\ pc' = [t \in Tasks |-> IF BotOf[t] = b THEN "idle" ELSE pc[t]]
          /\ job' = [t \in Tasks |-> IF BotOf[t] = b THEN NoJob ELSE job[t]]
      BY DEF Restart
    <2>2. TasksTyped'
      BY <2>1, <1>1 DEF TasksTyped
    <2>3. \A t \in Tasks : BotOf[t] # b => conn'[BotOf[t]] = conn[BotOf[t]]
      BY <1>1, RepositoryAssumption DEF ConnsTyped
    <2> QED
      BY <2>1, <2>2, <2>3 DEF Carries, Truthful, OnlyFirstSavesInsert
  <1>14. RememberedTyped'
    <2>1. DOMAIN NoEntry = {}
      BY DEF NoEntry
    <2> HIDE DEF NoEntry
    <2> QED
      BY <2>1, <1>1 DEF RememberedTyped
  <1>15. Typed'
    BY <1>1, <1>4, <1>12, <1>13, <1>14, TableTyped
  <1>16. Truthful'
    BY <1>1, <1>11, <1>13, TruthKept
  <1> QED
    BY <1>15, <1>16

\* A process remembers a value of a key and nothing else.
LEMMA RememberTyped ==
    ASSUME RememberedTyped, NEW t \in Tasks, job[t].key \in Keys, NEW val, Remember(t, val)
    PROVE  RememberedTyped'
  <1>1. BotOf[t] \in Bots
    BY RepositoryAssumption
  <1> DEFINE known == [k \in DOMAIN repoCache[BotOf[t]] \cup {job[t].key} |->
                         IF k = job[t].key THEN val ELSE repoCache[BotOf[t]][k]]
  <1>2. repoCache' = [repoCache EXCEPT ![BotOf[t]] = known]
    BY DEF Remember
  <1>3. DOMAIN known \subseteq Keys
    BY <1>1 DEF RememberedTyped
  <1> HIDE DEF known
  <1> QED
    BY <1>1, <1>2, <1>3 DEF RememberedTyped

\* The task a reply is for goes on with its call.
LEMMA Continued ==
    ASSUME Typed, Truthful, NEW t \in Tasks, NEW reply \in KnownReplies, Awaits(t, reply), Continue(t, reply),
           calls' = calls, conn' = conn,
           pc[t] = "looking" /\ reply.success /\ reply.found = <<>> => ~job[t].stored
    PROVE  /\ inbox' \in [Conns -> Seq(Requests)] /\ InsertsTyped' /\ TasksTyped' /\ RememberedTyped'
           /\ \A s \in Tasks : Carries(s)
           /\ \E M : NewRequests(M) /\ \A m \in M : Proper(m)
  <1> USE DEF Typed, Truthful
  <1>1. pc[t] # "idle" /\ job[t] \in Jobs /\ calls \in 0 .. MaxCalls /\ job[t].call <= calls
    BY DEF Awaits, TasksTyped, Numbered
  <1>2. pc[t] # "reading" => job[t].key \in Keys
    BY <1>1 DEF TasksTyped
  <1>3. CASE End(t)
    <2>1. inbox' = inbox
      BY <1>3 DEF End
    <2>2. inbox' \in [Conns -> Seq(Requests)] /\ InsertsTyped'
      BY <2>1 DEF BoxesTyped, InsertsTyped
    <2>3. TasksTyped' /\ \A s \in Tasks : Carries(s)
      BY <1>3, EndTyped
    <2>4. NewRequests({})
      BY <2>1 DEF NewRequests
    <2>5. RememberedTyped'
      <3>1. CASE UNCHANGED repoCache
        BY <3>1 DEF RememberedTyped
      <3>2. CASE pc[t] \in {"updating", "inserting", "getting"} /\ \E val : Remember(t, val)
        BY <3>2, <1>2, RememberTyped
      <3>3. pc[t] = "looking" /\ reply.success => FALSE
        <4>1. SUFFICES ASSUME pc[t] = "looking", reply.success PROVE FALSE
          OBVIOUS
        <4>2. pc'[t] = "idle"
          BY <1>3 DEF End, TasksTyped
        <4>3. pc'[t] \in {"updating", "inserting"}
          BY <4>1 DEF Continue, Send, TasksTyped
        <4> QED
          BY <4>2, <4>3
      <3> QED
        BY <3>1, <3>2, <3>3 DEF Continue
    <2> QED
      BY <2>2, <2>3, <2>4, <2>5
  <1>4. ASSUME NEW action \in {"update", "insert"}, NEW j \in Jobs, NEW state \in {"updating", "inserting"},
               Send(t, action, j, state), UNCHANGED repoCache, pc[t] = "looking",
               j.call = job[t].call, j.key = job[t].key, j.stored = job[t].stored,
               j.found = job[t].found \/ IdsOf(j.found) # {}, action = "update" => state = "updating",
               state = "inserting" => ~job[t].stored
        PROVE  /\ inbox' \in [Conns -> Seq(Requests)] /\ InsertsTyped' /\ TasksTyped' /\ RememberedTyped'
               /\ \A s \in Tasks : Carries(s)
               /\ \E M : NewRequests(M) /\ \A m \in M : Proper(m)
    <2>1. action \in Actions /\ state \in Waiting /\ j.key \in Keys
      BY <1>2, <1>4 DEF Actions, Waiting
    <2>2. inbox' \in [Conns -> Seq(Requests)] /\ InsertsTyped' /\ NewRequests({<<ConnOf(t), Request(action, j, state)>>})
      BY <1>4, <2>1, Sent
    <2>3. /\ TasksTyped' /\ pc'[t] = state /\ job'[t] = j
          /\ \A s \in Tasks : s # t => pc'[s] = pc[s] /\ job'[s] = job[s]
      BY <1>1, <1>4, <2>1, SendTyped
    <2>4. \A s \in Tasks : Carries(s)
      BY <1>4, <2>3 DEF Carries, OnlyFirstSavesInsert
    <2>5. RememberedTyped'
      BY <1>4 DEF RememberedTyped
    <2>6. Proper(<<ConnOf(t), Request(action, j, state)>>)
      BY <1>1, <1>4 DEF Request, Proper, Numbered
    <2> QED
      BY <2>2, <2>3, <2>4, <2>5, <2>6
  <1>5. CASE reply.success /\ pc[t] = "looking" /\ reply.found # <<>>
    <2> DEFINE j == [job[t] EXCEPT !.found = reply.found[1].key]
    <2>1. Send(t, "update", j, "updating") /\ UNCHANGED repoCache
      BY <1>5 DEF Continue
    <2>2. reply.found \in Seq(Known)
      BY DEF KnownReplies
    <2>3. reply.found[1] \in Known
      BY <2>2, <1>5
    <2>4. reply.found[1].key \in Keys /\ IdsOf(reply.found[1].key) # {}
      BY <2>3 DEF Known, Row
    <2>5. j.found = reply.found[1].key /\ j \in Jobs /\ j.call = job[t].call /\ j.key = job[t].key /\ j.stored = job[t].stored
      BY <2>4, <1>1 DEF Jobs
    <2> HIDE DEF j
    <2> QED
      BY <2>1, <2>4, <2>5, <1>4, <1>5
  <1>6. CASE reply.success /\ pc[t] = "looking" /\ reply.found = <<>>
    <2>1. Send(t, "insert", job[t], "inserting") /\ UNCHANGED repoCache
      BY <1>6 DEF Continue
    <2> QED
      BY <2>1, <1>1, <1>4, <1>6
  <1>7. CASE ~(reply.success /\ pc[t] = "looking")
    BY <1>3, <1>7 DEF Continue
  <1> QED
    BY <1>5, <1>6, <1>7

LEMMA ReceiveInv == ASSUME IInv, NEW b \in Bots, Receive(b) PROVE IInv'
  <1> USE DEF IInv, Typed
  <1> DEFINE c == conn[b]
             reply == Head(outbox[c])
  <1>1. /\ rows' = rows /\ counter' = counter /\ queryCache' = queryCache /\ open' = open
        /\ conn' = conn /\ opened' = opened /\ calls' = calls
        /\ outbox[c] # <<>> /\ outbox' = [outbox EXCEPT ![c] = Tail(@)]
    BY DEF Receive
  <1>2. c \in Conns /\ c \in open
    BY Addressed
  <1> HIDE DEF c
  <1>3. outbox \in [Conns -> Seq(KnownReplies)] /\ outbox[c] \in Seq(KnownReplies)
    BY <1>2 DEF BoxesTyped
  <1>4. reply \in KnownReplies /\ 1 \in DOMAIN outbox[c] /\ reply = outbox[c][1]
    BY <1>1, <1>3, Taken
  <1>5. /\ outbox' \in [Conns -> Seq(KnownReplies)]
        /\ \A d \in Conns : d # c => outbox'[d] = outbox[d]
        /\ \A d \in Conns : \A i \in DOMAIN outbox'[d] : \E k \in DOMAIN outbox[d] : outbox'[d][i] = outbox[d][k]
    BY <1>1, <1>2, <1>3, OneTaken
  <1>6. NewReplies({}) /\ GoneUnread' /\ RowsStay
    BY <1>1, <1>2, <1>5, RowsUntouched DEF NewReplies, GoneUnread
  <1>7. /\ inbox' \in [Conns -> Seq(Requests)] /\ InsertsTyped' /\ TasksTyped' /\ RememberedTyped'
        /\ \A s \in Tasks : Carries(s)
        /\ \E M : NewRequests(M) /\ \A m \in M : Proper(m)
    <2>1. CASE \E t \in Tasks : Awaits(t, reply)
      <3>1. PICK t \in Tasks : Awaits(t, reply) /\ Continue(t, reply)
        BY <2>1 DEF Receive, c
      <3>2. pc[t] = "looking" => Looks(t, reply.id)
        BY <3>1 DEF Awaits, Looks
      <3>3. pc[t] = "looking" /\ reply.success /\ reply.found = <<>> => ~job[t].stored
        BY <3>2, <1>2, <1>4 DEF Truthful, AnsweredTruly
      <3> HIDE DEF reply
      <3> QED
        BY <3>1, <3>3, <1>1, <1>4, Continued
    <2>2. CASE ~\E t \in Tasks : Awaits(t, reply)
      <3>1. inbox' = inbox /\ pc' = pc /\ job' = job /\ repoCache' = repoCache
        BY <2>2 DEF Receive, c
      <3>2. inbox' \in [Conns -> Seq(Requests)] /\ InsertsTyped' /\ RememberedTyped' /\ NewRequests({})
        BY <3>1 DEF BoxesTyped, InsertsTyped, RememberedTyped, NewRequests
      <3>3. TasksTyped'
        BY <3>1, <1>1 DEF TasksTyped
      <3>4. \A s \in Tasks : Carries(s)
        BY <3>1, <1>1 DEF Carries, Truthful, OnlyFirstSavesInsert
      <3> QED
        BY <3>2, <3>3, <3>4
    <2> QED
      BY <2>1, <2>2
  <1>8. Typed'
    <2>1. RowsTyped' /\ CacheTyped' /\ KnownReplies' = KnownReplies
      BY <1>1, TableTyped
    <2> QED
      BY <2>1, <1>1, <1>5, <1>6, <1>7 DEF BoxesTyped, ConnsTyped
  <1>9. Truthful'
    BY <1>1, <1>6, <1>7, TruthKept
  <1> QED
    BY <1>8, <1>9

-----------------------------------------------------------------------------
(* The invariant and the theorems. *)

LEMMA InitInv == Init => IInv
  <1>1. SUFFICES ASSUME Init PROVE IInv
    OBVIOUS
  <1>2. Cardinality(Bots) \in Nat /\ Cardinality(Bots) # 0
    BY RepositoryAssumption, FS_CardinalityType, FS_EmptySet
  <1>3. RowsTyped
    BY <1>1, TableServerAssumption DEF Init, ServerInit, RowsTyped
  <1>4. CacheTyped
    BY <1>1, TableServerAssumption DEF Init, ServerInit, CacheTyped, Cached, DistinctKeys
  <1>5. BoxesTyped /\ (\A c \in Conns : inbox[c] = <<>> /\ outbox[c] = <<>>) /\ DOMAIN <<>> = {}
    BY <1>1 DEF Init, ServerInit, BoxesTyped
  <1>6. InsertsTyped /\ GoneUnread /\ AskedForKey /\ AnsweredTruly /\ AskedToInsert /\ InsertedTruly
    BY <1>5 DEF InsertsTyped, GoneUnread, AskedForKey, AnsweredTruly, AskedToInsert, InsertedTruly
  <1>7. ConnsTyped
    <2>1. PICK f \in [Bots -> 1 .. opened] : (\A a, b \in Bots : f[a] = f[b] => a = b) /\ conn = f
      BY <1>1 DEF Init
    <2>2. opened = Cardinality(Bots) /\ open = 1 .. opened
      BY <1>1 DEF Init
    <2>3. f \in Injection(Bots, 1 .. opened)
      BY <2>1 DEF Injection, IsInjective
    <2>4. IsFiniteSet(1 .. opened) /\ Cardinality(1 .. opened) = Cardinality(Bots)
      BY <1>2, <2>2, FS_Interval
    <2>5. f \in Surjection(Bots, 1 .. opened)
      BY <2>3, <2>4, FS_Injection
    <2>6. open = {conn[b] : b \in Bots}
      BY <2>1, <2>2, <2>5 DEF Surjection
    <2> QED
      BY <2>1, <2>2, <2>6, <1>2, RepositoryAssumption DEF ConnsTyped
  <1>8. pc = [t \in Tasks |-> "idle"] /\ job = [t \in Tasks |-> NoJob] /\ calls = 0
    BY <1>1 DEF Init
  <1>9. TasksTyped /\ RowsKept /\ FoundStays /\ OwnMail /\ OnlyFirstSavesInsert
    BY <1>8, RepositoryAssumption DEF TasksTyped, RowsKept, FoundStays, OwnMail, OnlyFirstSavesInsert
  <1>10. Numbered
    BY <1>5, <1>8 DEF Numbered
  <1>11. RememberedTyped
    BY <1>1 DEF Init, RememberedTyped, NoEntry
  <1> QED
    BY <1>3, <1>4, <1>5, <1>6, <1>7, <1>9, <1>10, <1>11 DEF IInv, Typed, Truthful

LEMMA UnchangedInv == ASSUME IInv, UNCHANGED vars PROVE IInv'
  <1>1. /\ rows' = rows /\ counter' = counter /\ queryCache' = queryCache /\ inbox' = inbox
        /\ outbox' = outbox /\ open' = open /\ conn' = conn /\ opened' = opened /\ calls' = calls
        /\ pc' = pc /\ job' = job /\ repoCache' = repoCache
    BY DEF vars, serverVars, taskVars
  <1>2. Typed'
    <2>1. RowsTyped' /\ CacheTyped' /\ BoxesTyped'
      BY <1>1, TableTyped DEF IInv
    <2> QED
      BY <2>1, <1>1 DEF IInv, Typed, InsertsTyped, ConnsTyped, GoneUnread, TasksTyped, RememberedTyped
  <1>3. NewRequests({}) /\ NewReplies({}) /\ RowsStay
    BY <1>1, RowsUntouched DEF NewRequests, NewReplies
  <1>4. \A t \in Tasks : Carries(t)
    BY <1>1 DEF Carries, IInv, Truthful, OnlyFirstSavesInsert
  <1> QED
    BY <1>1, <1>2, <1>3, <1>4, TruthKept DEF IInv

LEMMA NextInv == ASSUME IInv, [Next]_vars PROVE IInv'
  <1>1. CASE \E t \in Tasks : Call(t) \/ Timeout(t)
    BY <1>1, CallInv, TimeoutInv
  <1>2. CASE \E c \in Conns : Serve(c)
    BY <1>2, ServeInv
  <1>3. CASE \E b \in Bots : Receive(b) \/ Restart(b)
    BY <1>3, ReceiveInv, RestartInv
  <1>4. CASE CacheExpires /\ UNCHANGED <<conn, opened, taskVars, repoCache>>
    BY <1>4, ExpiresInv
  <1>5. CASE UNCHANGED vars
    BY <1>5, UnchangedInv
  <1> QED
    BY <1>1, <1>2, <1>3, <1>4, <1>5 DEF Next

LEMMA Inductive == Spec => []IInv
  BY InitInv, NextInv, PTL DEF Spec

LEMMA TypedIsTypeOK == ASSUME Typed PROVE TypeOK
  <1> USE DEF Typed
  <1>1. ServerTypeOK
    <2>1. open \subseteq Conns
      BY Addressed DEF ConnsTyped
    <2>2. KnownReplies \subseteq Replies
      <3>1. Known \subseteq Row
        BY DEF Known
      <3>2. Seq(Known) \subseteq Seq(Row)
        BY <3>1, SeqMonotonic
      <3> QED
        BY <3>2 DEF KnownReplies, Replies
    <2>3. outbox \in [Conns -> Seq(Replies)]
      BY <2>2, SeqMonotonic DEF BoxesTyped
    <2> QED
      BY <2>1, <2>3 DEF ServerTypeOK, RowsTyped, CacheTyped, Cached, DistinctKeys, BoxesTyped, GoneUnread
  <1>2. Cardinality(open) = Cardinality(Bots)
    <2>1. conn \in [Bots -> open]
      BY DEF ConnsTyped
    <2>2. conn \in Surjection(Bots, open)
      BY <2>1 DEF Surjection, ConnsTyped
    <2>3. conn \in Injection(Bots, open)
      BY <2>1 DEF Injection, IsInjective, ConnsTyped
    <2> QED
      BY <2>2, <2>3, RepositoryAssumption, FS_Surjection
  <1>3. \A t \in Tasks : IF pc[t] = "idle" THEN job[t] = NoJob ELSE job[t] \in Jobs
    BY DEF TasksTyped
  <1> QED
    BY <1>1, <1>2, <1>3 DEF TypeOK, ConnsTyped, TasksTyped, RememberedTyped

\* The tables, caches, connections and tasks always hold what TypeOK says: the
\* query cache never outgrows its size nor holds a query twice, every process
\* has one connection of its own, and nobody answers one that is gone.
THEOREM RepositoryTypeCorrect == Spec => []TypeOK
  BY Inductive, TypedIsTypeOK, PTL DEF IInv

\* A save whose key had a row when it began never inserts a second one, whatever
\* is cached, late, lost or failed in between (save_* of the repositories over
\* find_by_id of the server).
THEOREM FirstSavesInsert == Spec => []OnlyFirstSavesInsert
  <1>1. ASSUME IInv PROVE OnlyFirstSavesInsert
    BY <1>1 DEF IInv, Truthful
  <1> QED
    BY <1>1, Inductive, PTL

\* A save that returns leaves a row of its key in the table, unless find_by_id had
\* answered it with the row of another key (save_* of the repositories).
THEOREM SavesLeaveRows == Spec => SaveLeavesRow
  <1> DEFINE Lands == \A t \in Tasks : Saved(t) =>
                        \/ IdsOf(job[t].key) # {}
                        \/ pc[t] = "updating" /\ job[t].found # job[t].key
  <1>1. ASSUME IInv, [Next]_vars PROVE Lands
    <2>1. SUFFICES ASSUME NEW t \in Tasks, Saved(t), pc[t] = "updating" => job[t].found = job[t].key
                   PROVE  IdsOf(job[t].key) # {}
      OBVIOUS
    <2>2. pc[t] \in {"updating", "inserting"} /\ pc'[t] = "idle" /\ outbox' # outbox /\ conn' = conn
          /\ Head(outbox[ConnOf(t)]).success
      BY <2>1 DEF Saved
    <2>3. PICK b \in Bots : Receive(b)
      <3>1. ~(\E s \in Tasks : Call(s) \/ Timeout(s))
        BY <2>2 DEF Call, Save, Get, Lookup, List, Remove, Ask, Timeout
      <3>2. ~(\E c \in Conns : Serve(c))
        BY <2>2 DEF Serve, taskVars
      <3>3. ~(CacheExpires /\ UNCHANGED <<conn, opened, taskVars, repoCache>>) /\ ~UNCHANGED vars
        BY <2>2 DEF taskVars, vars
      <3>4. ASSUME NEW b \in Bots, Restart(b) PROVE FALSE
        <4>1. conn' = [conn EXCEPT ![b] = opened + 1] /\ conn[b] \in 1 .. opened /\ opened \in Nat
          BY <3>4, <1>1, RepositoryAssumption DEF Restart, IInv, Typed, ConnsTyped
        <4> QED
          BY <4>1, <2>2, <1>1 DEF IInv, Typed, ConnsTyped
      <3> QED
        BY <1>1, <3>1, <3>2, <3>3, <3>4 DEF Next
    <2> DEFINE reply == Head(outbox[conn[b]])
    <2>4. PICK s \in Tasks : Awaits(s, reply) /\ Continue(s, reply)
      BY <2>2, <2>3 DEF Receive
    <2>5. s = t
      BY <2>2, <2>4, <1>1 DEF Continue, Send, End, IInv, Typed, TasksTyped
    <2>6. /\ conn[b] \in Conns /\ 1 \in DOMAIN outbox[conn[b]] /\ reply = outbox[conn[b]][1]
          /\ reply.id = <<job[t].call, pc[t]>>
      <3>1. conn[b] \in Conns /\ outbox[conn[b]] # <<>>
        BY <1>1, <2>3, Addressed DEF Receive, IInv, Typed
      <3>2. outbox[conn[b]] \in Seq(KnownReplies)
        BY <3>1, <1>1 DEF IInv, Typed, BoxesTyped
      <3> QED
        BY <3>1, <3>2, <2>4, <2>5, Taken DEF Awaits
    <2> HIDE DEF reply
    <2>7. conn[b] = ConnOf(t)
      BY <2>2, <2>6, <1>1 DEF IInv, Truthful, OwnMail
    <2>8. reply.success
      BY <2>2, <2>7 DEF reply
    <2>9. CASE pc[t] = "inserting"
      BY <2>6, <2>8, <2>9, <1>1 DEF IInv, Truthful, InsertedTruly, Inserts
    <2>10. CASE pc[t] = "updating"
      <3>1. job[t].key \in Keys
        BY <2>10, <1>1 DEF IInv, Typed, TasksTyped
      <3> QED
        BY <3>1, <2>1, <2>10, <1>1, TableServerAssumption DEF IInv, Truthful, FoundStays
    <2> QED
      BY <2>2, <2>9, <2>10
  <1>2. Spec => [][Lands]_vars
    BY <1>1, Inductive, PTL DEF Spec
  <1> QED
    BY <1>2 DEF SaveLeavesRow
=============================================================================
