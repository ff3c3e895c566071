--------------------------- MODULE DirectFlushProofs ---------------------------
(***************************************************************************)
(* For every number of clients, rows and files: the types of DirectFlush,  *)
(* that the manager never lists a segment it cannot read, what a scan and  *)
(* a compact return and keep, and where the manager implements RowStore.   *)
(***************************************************************************)
EXTENDS DirectFlushRefines, WellFoundedInduction, FiniteSetTheorems, SequenceTheorems, TLAPS

-----------------------------------------------------------------------------
(* Operators on row identifiers, rows and segment lists. *)

\* MinOf returns the least element of a set of naturals.
LEMMA MinOfNat ==
    ASSUME NEW R \in SUBSET Nat, R # {}
    PROVE  MinOf(R) \in R /\ \A x \in R : MinOf(R) <= x
<1> DEFINE Less == OpToRel(<, Nat)
<1>1. IsWellFoundedOn(Less, Nat)
  BY NatLessThanWellFounded
<1>2. \A x, y \in Nat : y < x => <<y, x>> \in Less
  BY DEF OpToRel
<1> HIDE DEF Less
<1>3. PICK m \in R : \A y \in R : ~(<<y, m>> \in Less)
  BY <1>1, WFMin
<1>4. \A y \in R : m <= y
  <2> TAKE y \in R
  <2>1. m \in Nat /\ y \in Nat
    OBVIOUS
  <2>2. ~(y < m)
    BY <1>2, <1>3, <2>1
  <2> QED
    BY <2>1, <2>2
<1> QED
  BY <1>4 DEF MinOf

\* MaxOf returns the greatest element of a bounded set of naturals.
LEMMA MaxOfBounded ==
    ASSUME NEW n \in Nat, NEW R \in SUBSET (0 .. n), R # {}
    PROVE  MaxOf(R) \in R /\ \A x \in R : MaxOf(R) >= x
<1> DEFINE D == {n - x : x \in R}
<1>1. D \in SUBSET Nat /\ D # {}
  <2>1. \A x \in R : x \in Nat /\ n - x \in Nat
    OBVIOUS
  <2> QED
    BY <2>1
<1> HIDE DEF D
<1>2. MinOf(D) \in D /\ \A d \in D : MinOf(D) <= d
  BY <1>1, MinOfNat
<1>3. PICK m \in R : MinOf(D) = n - m
  BY <1>2 DEF D
<1>4. \A x \in R : m >= x
  <2> TAKE x \in R
  <2>1. m \in 0 .. n /\ x \in 0 .. n
    OBVIOUS
  <2>2. n - m <= n - x
    BY <1>2, <1>3 DEF D
  <2> QED
    BY <2>1, <2>2
<1> QED
  BY <1>4 DEF MaxOf

\* What belongs to RowMaps.
LEMMA RowMapIntro ==
    ASSUME NEW R \in SUBSET Rows, NEW f \in [R -> Version]
    PROVE  f \in RowMaps
BY DEF RowMaps

\* What a row map is: versions of some rows.
LEMMA RowMapElim ==
    ASSUME NEW m \in RowMaps
    PROVE  DOMAIN m \in SUBSET Rows /\ m \in [DOMAIN m -> Version]
BY DEF RowMaps

\* The empty map is a row map.
LEMMA NoRowsType == NoRows \in RowMaps
<1>1. NoRows \in [{} -> Version]
  BY DEF NoRows
<1> QED
  BY <1>1, RowMapIntro

\* A row map other than the empty one has a row.
LEMMA SomeRow ==
    ASSUME NEW m \in RowMaps, m # NoRows
    PROVE  DOMAIN m # {}
<1> SUFFICES ASSUME DOMAIN m = {}
             PROVE  FALSE
  OBVIOUS
<1>1. m = [r \in {} |-> m[r]]
  BY RowMapElim
<1> QED
  BY <1>1 DEF NoRows

\* Laying one row map over another gives a row map.
LEMMA MergeType ==
    ASSUME NEW m \in RowMaps, NEW n \in RowMaps
    PROVE  Merge(m, n) \in RowMaps
<1>1. Merge(m, n) \in [DOMAIN m \cup DOMAIN n -> Version]
  BY RowMapElim DEF Merge
<1> QED
  BY <1>1, RowMapElim, RowMapIntro

\* So does dropping the deleted rows of one.
LEMMA ActiveType ==
    ASSUME NEW m \in RowMaps
    PROVE  Active(m) \in RowMaps
<1> DEFINE R == DOMAIN m \cap {r \in DOMAIN m : ~m[r].deleted}
<1>1. Active(m) \in [R -> Version]
  BY RowMapElim DEF Active, Only
<1>2. R \in SUBSET Rows
  BY RowMapElim
<1> QED
  BY <1>1, <1>2, RowMapIntro

\* Row identifiers are naturals below MaxRows.
LEMMA RowsAreNat == MaxRows \in Nat /\ Rows \in SUBSET Nat /\ Rows \in SUBSET (0 .. MaxRows)
BY DirectFlushAssumption DEF Rows

\* A descriptor of a file with rows is a segment, and it names that file.
LEMMA DescribeType ==
    ASSUME NEW m \in RowMaps, DOMAIN m # {}, NEW f \in FileNums
    PROVE  /\ Describe(f, m) \in Segment
           /\ Describe(f, m).file = f
           /\ MaxOf(DOMAIN m) \in Rows
<1>1. DOMAIN m \in SUBSET Rows
  BY RowMapElim
<1>2. MinOf(DOMAIN m) \in Rows
  BY <1>1, RowsAreNat, MinOfNat
<1>3. MaxOf(DOMAIN m) \in Rows
  BY <1>1, RowsAreNat, MaxOfBounded
<1>4. Cardinality(DOMAIN m) \in Nat
  <2>1. IsFiniteSet(0 .. MaxRows)
    BY RowsAreNat, FS_Interval
  <2>2. IsFiniteSet(DOMAIN m)
    BY <1>1, <2>1, RowsAreNat, FS_Subset
  <2> QED
    BY <2>2, FS_CardinalityType
<1> QED
  BY <1>2, <1>3, <1>4 DEF Describe, Segment

\* A scan stops at a position of the list not before the one it starts from whose
\* file is on disk, or past the end.
LEMMA NextScannedType ==
    ASSUME NEW list \in Seq(Segment), NEW i \in Nat, i >= 1
    PROVE  /\ NextScanned(list, i) \in Nat
           /\ NextScanned(list, i) <= Len(list) => /\ NextScanned(list, i) \in i .. Len(list)
                                                   /\ Exists(list[NextScanned(list, i)])
<1> DEFINE ahead == {j \in i .. Len(list) : Exists(list[j])}
<1>1. CASE ahead = {}
  BY <1>1 DEF NextScanned
<1>2. CASE ahead # {}
  <2>1. ahead \in SUBSET Nat
    OBVIOUS
  <2>2. MinOf(ahead) \in ahead
    BY <1>2, <2>1, MinOfNat
  <2>3. NextScanned(list, i) = MinOf(ahead)
    BY <1>2 DEF NextScanned
  <2> QED
    BY <2>2, <2>3
<1> QED
  BY <1>1, <1>2

\* get stops at a position of the list not after the one it starts from whose
\* file is on disk, or at 0.
LEMMA NextProbedType ==
    ASSUME NEW list \in Seq(Segment), NEW i \in 0 .. Len(list), NEW row
    PROVE  /\ NextProbed(list, i, row) \in 0 .. i
           /\ NextProbed(list, i, row) # 0 => Exists(list[NextProbed(list, i, row)])
<1> DEFINE back == {j \in 1 .. i : Covers(list[j], row) /\ Exists(list[j])}
<1>1. CASE back = {}
  BY <1>1 DEF NextProbed
<1>2. CASE back # {}
  <2>1. i \in Nat /\ back \in SUBSET (0 .. i)
    OBVIOUS
  <2>2. MaxOf(back) \in back
    BY <1>2, <2>1, MaxOfBounded
  <2>3. NextProbed(list, i, row) = MaxOf(back)
    BY <1>2 DEF NextProbed
  <2> QED
    BY <2>2, <2>3
<1> QED
  BY <1>1, <1>2

-----------------------------------------------------------------------------
(* Type correctness: the parts of a step that actions share. *)

Outcomes == {"true", "found", "missing", "scanned", "compacted", "error"}

\* Leaving a call keeps the types of a task; its reference is typed separately.
LEMMA ReturnType ==
    ASSUME TypeOK, NEW c \in Clients, NEW outcome \in Outcomes, NEW rows \in RowMaps,
           Return(c, outcome, rows), written' = written,
           held' \in [Clients -> [live : BOOLEAN, kept : Seq(Segment)]]
    PROVE  /\ TaskType'
           /\ pc'[c] = "idle"
           /\ \A d \in Clients \ {c} : /\ pc'[d] = pc[d] /\ call'[d] = call[d]
                                        /\ at'[d] = at[d] /\ hand'[d] = hand[d]
                                        /\ out'[d] = out[d]
<1>1. NoCall \in [op : Operations \cup {"none"}, row : Rows \cup {0}, val : Vals \cup {NoVal}]
  BY DEF NoCall
<1>2. 0 \in 0 .. written
  BY DEF TypeOK, DiskType
<1> QED
  BY <1>1, <1>2, NoRowsType DEF Return, TypeOK, TaskType, Outcomes

\* So does queueing for the writer with at least one row.
LEMMA StartWriteType ==
    ASSUME TypeOK, NEW c \in Clients, NEW op \in Operations, NEW rows \in RowMaps,
           StartWrite(c, op, rows), written' = written,
           held' \in [Clients -> [live : BOOLEAN, kept : Seq(Segment)]]
    PROVE  /\ TaskType'
           /\ lockQueue' \in Seq(Clients)
           /\ pc'[c] = "queued" /\ hand'[c] = rows
           /\ \A d \in Clients \ {c} : /\ pc'[d] = pc[d] /\ call'[d] = call[d]
                                        /\ at'[d] = at[d] /\ hand'[d] = hand[d]
                                        /\ out'[d] = out[d]
<1>1. [NoCall EXCEPT !.op = op]
        \in [op : Operations \cup {"none"}, row : Rows \cup {0}, val : Vals \cup {NoVal}]
  BY DEF NoCall
<1>2. lockQueue' \in Seq(Clients)
  BY DEF StartWrite, TypeOK, MemoryType
<1> QED
  BY <1>1, <1>2, NoRowsType DEF StartWrite, TypeOK, TaskType

\* The file of a segment that is on disk has rows to read.
LEMMA PageType ==
    ASSUME TypeOK, NEW seg, Exists(seg)
    PROVE  files[seg.file] \in RowMaps
BY DEF Exists, TypeOK, DiskType

\* Letting go of a list, or detaching every reader from a list that is replaced,
\* keeps the references typed; a detached reader still reads the same list.
LEMMA LetGoType ==
    ASSUME TypeOK, NEW c \in Clients, LetGo(c)
    PROVE  /\ held' \in [Clients -> [live : BOOLEAN, kept : Seq(Segment)]]
           /\ \A d \in Clients \ {c} : held'[d] = held[d]
<1>1. NoList \in [live : BOOLEAN, kept : Seq(Segment)]
  BY DEF NoList
<1> QED
  BY <1>1 DEF LetGo, TypeOK, TaskType

\* Once the bound list is replaced, every task reads a former list: the one it read.
LEMMA DetachedType ==
    ASSUME TypeOK
    PROVE  /\ Detached \in [Clients -> [live : BOOLEAN, kept : Seq(Segment)]]
           /\ \A d \in Clients : ~Detached[d].live /\ Detached[d].kept = ListOf(d)
BY DEF Detached, ListOf, TypeOK, TaskType, MemoryType

-----------------------------------------------------------------------------
(* The writer's lock. *)

Suspended == {"queued", "written"}
Members(q) == {q[i] : i \in DOMAIN q}
Distinct(q) == \A i, j \in DOMAIN q : q[i] = q[j] => i = j

\* Joining a queue of distinct tasks one is not in.
LEMMA AppendDistinct ==
    ASSUME NEW q \in Seq(Clients), NEW c \in Clients, Distinct(q), c \notin Members(q)
    PROVE  /\ Append(q, c) \in Seq(Clients)
           /\ Distinct(Append(q, c))
           /\ Members(Append(q, c)) = Members(q) \cup {c}
           /\ q # <<>> => Head(Append(q, c)) = Head(q)
<1> DEFINE r == Append(q, c)
<1>1. /\ r \in Seq(Clients) /\ DOMAIN r = 1 .. Len(q) + 1 /\ DOMAIN q = 1 .. Len(q)
      /\ Len(q) \in Nat
      /\ \A i \in 1 .. Len(q) : r[i] = q[i]
      /\ r[Len(q) + 1] = c
  OBVIOUS
<1>2. \A i \in DOMAIN q : q[i] # c
  BY DEF Members
<1> HIDE DEF r
<1>3. Distinct(r)
  BY <1>1, <1>2 DEF Distinct
<1>4. Members(r) = Members(q) \cup {c}
  BY <1>1 DEF Members
<1>5. q # <<>> => Head(r) = Head(q)
  BY <1>1 DEF r
<1> QED
  BY <1>1, <1>3, <1>4, <1>5 DEF r

\* The head leaving a queue of distinct tasks.
LEMMA TailDistinct ==
    ASSUME NEW q \in Seq(Clients), Distinct(q), q # <<>>
    PROVE  /\ Tail(q) \in Seq(Clients)
           /\ Distinct(Tail(q))
           /\ Members(Tail(q)) = Members(q) \ {Head(q)}
<1> DEFINE r == Tail(q)
<1>1. /\ r \in Seq(Clients) /\ Len(q) \in Nat /\ Len(q) >= 1
      /\ DOMAIN q = 1 .. Len(q) /\ DOMAIN r = 1 .. Len(q) - 1
      /\ \A i \in 1 .. Len(q) - 1 : r[i] = q[i + 1]
      /\ Head(q) = q[1]
  OBVIOUS
<1> HIDE DEF r
<1>2. Distinct(r)
  BY <1>1 DEF Distinct
<1>3. ASSUME NEW x \in Members(r)
      PROVE  x \in Members(q) \ {Head(q)}
  <2>1. PICK i \in 1 .. Len(q) - 1 : x = q[i + 1]
    BY <1>1 DEF Members
  <2>2. i + 1 \in DOMAIN q /\ 1 \in DOMAIN q /\ i + 1 # 1
    BY <1>1
  <2> QED
    BY <1>1, <2>1, <2>2 DEF Members, Distinct
<1>4. ASSUME NEW x \in Members(q), x # Head(q)
      PROVE  x \in Members(r)
  <2>1. PICK i \in 1 .. Len(q) : x = q[i]
    BY <1>1 DEF Members
  <2>2. i # 1
    BY <1>1, <1>4, <2>1
  <2>3. i - 1 \in DOMAIN r /\ r[i - 1] = q[i]
    BY <1>1, <2>2
  <2> QED
    BY <2>1, <2>3 DEF Members
<1> QED
  BY <1>1, <1>2, <1>3, <1>4 DEF r

\* A step that leaves the queue, and who is in a write, alone.
LEMMA LockKept ==
    ASSUME TypeOK, LockOK, lockQueue' = lockQueue,
           \A d \in Clients : /\ pc'[d] \in Suspended <=> pc[d] \in Suspended
                              /\ pc'[d] = "written" => Head(lockQueue) = d
    PROVE  LockOK'
BY DEF LockOK, Suspended

\* A task that joins the queue.
LEMMA LockJoined ==
    ASSUME TypeOK, LockOK, NEW c \in Clients, pc[c] \notin Suspended,
           lockQueue' = Append(lockQueue, c), pc'[c] = "queued",
           \A d \in Clients \ {c} : pc'[d] = pc[d]
    PROVE  LockOK'
<1>1. lockQueue \in Seq(Clients) /\ Distinct(lockQueue) /\ c \notin Members(lockQueue)
  BY DEF TypeOK, MemoryType, LockOK, Distinct, Members, Suspended
<1>2. /\ Distinct(lockQueue') /\ Members(lockQueue') = Members(lockQueue) \cup {c}
      /\ lockQueue # <<>> => Head(lockQueue') = Head(lockQueue)
  BY <1>1, AppendDistinct
<1>3. Members(lockQueue') = {d \in Clients : pc'[d] \in Suspended}
  BY <1>2 DEF LockOK, Members, Suspended
<1>4. ASSUME NEW d \in Clients, pc'[d] = "written"
      PROVE  Head(lockQueue') = d
  <2>1. d # c /\ pc[d] = "written"
    BY <1>4
  <2>2. Head(lockQueue) = d /\ d \in Members(lockQueue)
    BY <2>1 DEF LockOK, Members
  <2>3. lockQueue # <<>>
    BY <2>2 DEF Members
  <2> QED
    BY <1>2, <2>2, <2>3
<1> QED
  BY <1>2, <1>3, <1>4 DEF LockOK, Distinct, Members, Suspended

\* A holder that leaves.
LEMMA LockReleased ==
    ASSUME TypeOK, LockOK, NEW c \in Clients, pc[c] \in Suspended, Head(lockQueue) = c,
           lockQueue' = Tail(lockQueue), pc'[c] = "idle",
           \A d \in Clients \ {c} : pc'[d] = pc[d]
    PROVE  LockOK' /\ lockQueue' \in Seq(Clients)
<1>1. lockQueue \in Seq(Clients) /\ Distinct(lockQueue) /\ c \in Members(lockQueue)
  BY DEF TypeOK, MemoryType, LockOK, Distinct, Members, Suspended
<1>2. lockQueue # <<>>
  BY <1>1 DEF Members
<1>3. /\ lockQueue' \in Seq(Clients) /\ Distinct(lockQueue')
      /\ Members(lockQueue') = Members(lockQueue) \ {c}
  BY <1>1, <1>2, TailDistinct
<1>4. Members(lockQueue') = {d \in Clients : pc'[d] \in Suspended}
  BY <1>3 DEF LockOK, Members, Suspended
<1>5. \A d \in Clients : pc'[d] # "written"
  BY DEF LockOK
<1> QED
  BY <1>3, <1>4, <1>5 DEF LockOK, Distinct, Members, Suspended

-----------------------------------------------------------------------------
(* Type correctness and mutual exclusion, one step per action. *)

Refs == [live : BOOLEAN, kept : Seq(Segment)]

\* The list a task refers to is a list of segments.
LEMMA ListType ==
    ASSUME TypeOK, NEW c \in Clients
    PROVE  ListOf(c) \in Seq(Segment) /\ Len(ListOf(c)) \in Nat
<1>1. ListOf(c) \in Seq(Segment)
  BY DEF ListOf, TypeOK, TaskType, MemoryType
<1> QED
  BY <1>1

\* A task that did not move stays ready when the list it reads stayed, grew at
\* the end, or was replaced behind its back.
LEMMA BystanderReady ==
    ASSUME TypeOK, NEW d \in Clients,
           pc'[d] = pc[d], call'[d] = call[d], at'[d] = at[d], hand'[d] = hand[d],
           out'[d] = out[d],
           \/ held'[d] = held[d] /\ segments' = segments
           \/ held'[d] = held[d] /\ \E seg \in Segment : segments' = Append(segments, seg)
           \/ held'[d] = Detached[d]
    PROVE  Ready(d)'
<1>1. Len(ListOf(d)) \in Nat /\ Len(ListOf(d)') \in Nat /\ Len(ListOf(d)') >= Len(ListOf(d))
  <2>1. Len(ListOf(d)) \in Nat /\ segments \in Seq(Segment)
    BY ListType DEF TypeOK, MemoryType
  <2>2. CASE held'[d] = held[d] /\ segments' = segments
    BY <2>1, <2>2 DEF ListOf
  <2>3. CASE held'[d] = held[d] /\ \E seg \in Segment : segments' = Append(segments, seg)
    <3>1. Len(segments') = Len(segments) + 1 /\ Len(segments) \in Nat
      BY <2>1, <2>3
    <3> QED
      BY <2>1, <2>3, <3>1 DEF ListOf
  <2>4. CASE held'[d] = Detached[d]
    BY <2>1, <2>4, DetachedType DEF ListOf
  <2> QED
    BY <2>2, <2>3, <2>4
<1>2. Ready(d)
  BY DEF TypeOK
<1> QED
  BY <1>1, <1>2 DEF Ready

\* A task that is idle is ready.
LEMMA IdleReady ==
    ASSUME NEW c \in Clients, pc'[c] = "idle"
    PROVE  Ready(c)'
BY DEF Ready

\* Queueing for the writer from outside a write, with at least one row.
LEMMA QueueStep ==
    ASSUME TypeOK, LockOK, NEW c \in Clients, NEW op \in Operations, NEW rows \in RowMaps,
           pc[c] \notin Suspended, rows # NoRows, StartWrite(c, op, rows),
           UNCHANGED <<disk, segments>>, counter' \in 0 .. MaxRows,
           held' \in [Clients -> Refs], \A d \in Clients \ {c} : held'[d] = held[d]
    PROVE  TypeOK' /\ LockOK'
<1>1. /\ TaskType' /\ lockQueue' \in Seq(Clients) /\ pc'[c] = "queued" /\ hand'[c] = rows
      /\ \A d \in Clients \ {c} : /\ pc'[d] = pc[d] /\ call'[d] = call[d]
                                   /\ at'[d] = at[d] /\ hand'[d] = hand[d]
                                   /\ out'[d] = out[d]
  BY StartWriteType DEF Refs, disk
<1>2. \A d \in Clients \ {c} : Ready(d)'
  BY <1>1, BystanderReady
<1>3. Ready(c)'
  BY <1>1 DEF Ready
<1>4. DiskType' /\ MemoryType'
  BY <1>1 DEF TypeOK, DiskType, MemoryType, disk
<1>5. LockOK'
  BY <1>1, LockJoined DEF StartWrite
<1> QED
  BY <1>1, <1>2, <1>3, <1>4, <1>5 DEF TypeOK

\* Leaving a call from outside a write.
LEMMA LeaveStep ==
    ASSUME TypeOK, LockOK, NEW c \in Clients, NEW outcome \in Outcomes, NEW rows \in RowMaps,
           pc[c] \notin Suspended, Return(c, outcome, rows),
           UNCHANGED <<disk, segments, counter, lockQueue>>,
           held' \in [Clients -> Refs], \A d \in Clients \ {c} : held'[d] = held[d]
    PROVE  TypeOK' /\ LockOK'
<1>1. /\ TaskType' /\ pc'[c] = "idle"
      /\ \A d \in Clients \ {c} : /\ pc'[d] = pc[d] /\ call'[d] = call[d]
                                   /\ at'[d] = at[d] /\ hand'[d] = hand[d]
                                   /\ out'[d] = out[d]
  BY ReturnType DEF Refs, disk
<1>2. \A d \in Clients : Ready(d)'
  BY <1>1, BystanderReady, IdleReady
<1>3. DiskType' /\ MemoryType'
  BY DEF TypeOK, DiskType, MemoryType, disk
<1>4. LockOK'
  <2>1. \A d \in Clients : pc'[d] \in Suspended <=> pc[d] \in Suspended
    BY <1>1 DEF Suspended
  <2>2. \A d \in Clients : pc'[d] = "written" => Head(lockQueue) = d
    BY <1>1 DEF LockOK
  <2> QED
    BY <2>1, <2>2, LockKept
<1> QED
  BY <1>1, <1>2, <1>3, <1>4 DEF TypeOK

\* A write by the holder of the lock that ends the call, whatever it did to the
\* disk and to the list: a list it replaced is kept by the tasks that read it.
LEMMA ReleaseStep ==
    ASSUME TypeOK, LockOK, NEW c \in Clients, NEW outcome \in Outcomes, NEW rows \in RowMaps,
           pc[c] \in Suspended, Head(lockQueue) = c, lockQueue' = Tail(lockQueue),
           Return(c, outcome, rows), written' = written, DiskType',
           segments' \in Seq(Segment), counter' \in 0 .. MaxRows,
           held' \in [Clients -> Refs],
           \A d \in Clients \ {c} :
              \/ held'[d] = held[d] /\ segments' = segments
              \/ held'[d] = held[d] /\ \E seg \in Segment : segments' = Append(segments, seg)
              \/ held'[d] = Detached[d]
    PROVE  TypeOK' /\ LockOK'
<1>1. /\ TaskType' /\ pc'[c] = "idle"
      /\ \A d \in Clients \ {c} : /\ pc'[d] = pc[d] /\ call'[d] = call[d]
                                   /\ at'[d] = at[d] /\ hand'[d] = hand[d]
                                   /\ out'[d] = out[d]
  BY ReturnType DEF Refs
<1>2. \A d \in Clients : Ready(d)'
  BY <1>1, BystanderReady, IdleReady
<1>3. LockOK' /\ lockQueue' \in Seq(Clients)
  BY <1>1, LockReleased
<1> QED
  BY <1>1, <1>2, <1>3 DEF TypeOK, MemoryType

\* One turn of a scan's or a compact's loop.
LEMMA ScanStep ==
    ASSUME TypeOK, LockOK, NEW c \in Clients, NEW op \in Operations \cap {"scan", "compact"},
           NEW ref \in Refs, NEW i \in Nat, i >= 1, NEW rows \in RowMaps,
           pc[c] \notin Suspended, ScanFrom(c, op, ref, i, rows),
           UNCHANGED <<disk, segments, counter>>
    PROVE  TypeOK' /\ LockOK'
<1> DEFINE list == IF ref.live THEN segments ELSE ref.kept
           next == NextScanned(list, i)
<1>1. list \in Seq(Segment)
  BY DEF Refs, TypeOK, MemoryType
<1>2. next \in Nat /\ (next <= Len(list) => next \in i .. Len(list))
  BY <1>1, NextScannedType
<1>3. counter' \in 0 .. MaxRows
  BY DEF TypeOK, MemoryType
<1>4. CASE next > Len(list)
  <2>1. ScanEnds(c, op, rows)
    BY <1>4 DEF ScanFrom
  <2>2. CASE LetGo(c) /\ UNCHANGED lockQueue /\ \E outcome \in Outcomes, m \in RowMaps : Return(c, outcome, m)
    BY <2>2, LeaveStep, LetGoType DEF Refs
  <2>3. CASE /\ Active(rows) # NoRows /\ StartWrite(c, "compact", Active(rows)) /\ op = "compact"
             /\ held' = [held EXCEPT ![c] = LiveList]
    <3>1. held' \in [Clients -> Refs] /\ \A d \in Clients \ {c} : held'[d] = held[d]
      BY <2>3 DEF TypeOK, TaskType, Refs, LiveList
    <3>2. Active(rows) \in RowMaps
      BY ActiveType
    <3> QED
      BY <1>3, <2>3, <3>1, <3>2, QueueStep
  <2> QED
    BY <2>1, <2>2, <2>3, NoRowsType DEF ScanEnds, Outcomes
<1>5. CASE ~(next > Len(list))
  <2>1. /\ pc' = [pc EXCEPT ![c] = "scanning"]
        /\ call' = [call EXCEPT ![c] = [NoCall EXCEPT !.op = op]]
        /\ held' = [held EXCEPT ![c] = ref]
        /\ at' = [at EXCEPT ![c] = next]
        /\ page' = [page EXCEPT ![c] = files[list[next].file]]
        /\ hand' = [hand EXCEPT ![c] = rows]
        /\ UNCHANGED <<out, reply, lockQueue>>
    BY <1>5 DEF ScanFrom
  <2>2. next \in 1 .. Len(list)
    BY <1>1, <1>2, <1>5
  <2>3. [NoCall EXCEPT !.op = op]
          \in [op : Operations \cup {"none"}, row : Rows \cup {0}, val : Vals \cup {NoVal}]
    BY DEF NoCall
  <2>4. TaskType'
    <3>1. files[list[next].file] \in RowMaps
      BY <1>1, <1>5, NextScannedType, PageType
    <3> QED
      BY <1>2, <2>1, <2>3, <3>1 DEF TypeOK, TaskType, Refs, disk
  <2>5. Ready(c)'
    <3>1. ListOf(c)' = list
      BY <2>1 DEF ListOf, TypeOK, TaskType
    <3>2. at'[c] = next /\ pc'[c] = "scanning" /\ call'[c].op = op
      BY <2>1 DEF TypeOK, TaskType, NoCall
    <3> QED
      BY <2>2, <3>1, <3>2 DEF Ready
  <2>6. \A d \in Clients \ {c} : Ready(d)'
    <3>1. \A d \in Clients \ {c} : /\ pc'[d] = pc[d] /\ call'[d] = call[d]
                                   /\ at'[d] = at[d] /\ hand'[d] = hand[d]
                                   /\ out'[d] = out[d] /\ held'[d] = held[d]
      BY <2>1 DEF TypeOK, TaskType
    <3> QED
      BY <3>1, BystanderReady
  <2>7. DiskType' /\ MemoryType'
    BY <2>1 DEF TypeOK, DiskType, MemoryType, disk
  <2>8. LockOK'
    <3>1. \A d \in Clients : pc'[d] \in Suspended <=> pc[d] \in Suspended
      BY <2>1 DEF TypeOK, TaskType, Suspended
    <3>2. \A d \in Clients : pc'[d] = "written" => Head(lockQueue) = d
      BY <2>1 DEF TypeOK, TaskType, LockOK
    <3> QED
      BY <2>1, <3>1, <3>2, LockKept
  <2> QED
    BY <2>4, <2>5, <2>6, <2>7, <2>8 DEF TypeOK
<1> QED
  BY <1>4, <1>5

\* The initial state has the types, and nobody in a write.
LEMMA InitStep ==
    ASSUME Init
    PROVE  TypeOK /\ LockOK
<1>1. NoCall \in [op : Operations \cup {"none"}, row : Rows \cup {0}, val : Vals \cup {NoVal}]
  BY DEF NoCall
<1>2. NoList \in [live : BOOLEAN, kept : Seq(Segment)]
  BY DEF NoList
<1>3. 0 \in 0 .. MaxFiles /\ 0 \in 0 .. MaxRows /\ 0 \in 0 .. 0
  BY DirectFlushAssumption
<1>4. DOMAIN NoRows = {}
  BY DEF NoRows
<1>5. DiskType
  BY <1>3, <1>4 DEF Init, DiskType
<1>6. MemoryType
  BY <1>3 DEF Init, MemoryType
<1>7. TaskType
  BY <1>1, <1>2, <1>3, NoRowsType DEF Init, TaskType
<1>8. \A c \in Clients : Ready(c)
  BY DEF Init, Ready
<1>9. LockOK
  BY DEF Init, LockOK
<1> QED
  BY <1>5, <1>6, <1>7, <1>8, <1>9 DEF TypeOK

\* insert, insert_batch and delete begin: the task joins the writer's queue.
LEMMA WritesStart ==
    ASSUME TypeOK, LockOK, NEW c \in Clients,
           \/ \E v \in Vals : Insert(c, v) \/ InsertBatch(c, v)
           \/ \E row \in Rows : Delete(c, row)
    PROVE  TypeOK' /\ LockOK'
<1>1. /\ held' \in [Clients -> Refs] /\ held' = held /\ UNCHANGED <<disk, segments>>
      /\ pc[c] = "idle"
  BY DEF Insert, InsertBatch, Delete, May, TypeOK, TaskType, Refs
<1>2. pc[c] \notin Suspended
  BY <1>1 DEF Suspended
<1>3. counter \in Nat /\ MaxRows \in Nat
  BY DirectFlushAssumption DEF TypeOK, MemoryType
<1>4. ASSUME NEW v \in Vals, Insert(c, v) PROVE TypeOK' /\ LockOK'
  <2> DEFINE rows == [r \in {counter} |-> [val |-> v, deleted |-> FALSE]]
  <2>1. /\ "insert" \in Operations /\ counter \in Rows /\ counter' = counter + 1
        /\ StartWrite(c, "insert", rows)
    BY <1>4 DEF Insert, May
  <2>2. rows \in [{counter} -> Version]
    BY DEF Version
  <2>3. rows \in RowMaps /\ rows # NoRows
    BY <2>1, <2>2, RowMapIntro DEF NoRows
  <2>4. counter' \in 0 .. MaxRows
    BY <1>3, <2>1 DEF Rows
  <2> HIDE DEF rows
  <2> QED
    BY <1>1, <1>2, <2>1, <2>3, <2>4, QueueStep
<1>5. ASSUME NEW v \in Vals, InsertBatch(c, v) PROVE TypeOK' /\ LockOK'
  <2> DEFINE rows == [r \in {counter, counter + 1} |-> [val |-> v, deleted |-> FALSE]]
  <2>1. /\ "insert_batch" \in Operations /\ counter + 1 \in Rows /\ counter' = counter + 2
        /\ StartWrite(c, "insert_batch", rows)
    BY <1>5 DEF InsertBatch, May
  <2>2. rows \in [{counter, counter + 1} -> Version]
    BY DEF Version
  <2>3. {counter, counter + 1} \in SUBSET Rows
    BY <1>3, <2>1 DEF Rows
  <2>4. rows \in RowMaps /\ rows # NoRows
    BY <2>2, <2>3, RowMapIntro DEF NoRows
  <2>5. counter' \in 0 .. MaxRows
    BY <1>3, <2>1 DEF Rows
  <2> HIDE DEF rows
  <2> QED
    BY <1>1, <1>2, <2>1, <2>4, <2>5, QueueStep
<1>6. ASSUME NEW row \in Rows, Delete(c, row) PROVE TypeOK' /\ LockOK'
  <2> DEFINE rows == [r \in {row} |-> [val |-> NoVal, deleted |-> TRUE]]
  <2>1. "delete" \in Operations /\ counter' = counter /\ StartWrite(c, "delete", rows)
    BY <1>6 DEF Delete, May
  <2>2. rows \in [{row} -> Version]
    BY DEF Version
  <2>3. rows \in RowMaps /\ rows # NoRows
    BY <2>2, RowMapIntro DEF NoRows
  <2>4. counter' \in 0 .. MaxRows
    BY <2>1 DEF TypeOK, MemoryType
  <2> HIDE DEF rows
  <2> QED
    BY <1>1, <1>2, <2>1, <2>3, <2>4, QueueStep
<1> QED
  BY <1>4, <1>5, <1>6

\* The holder of the lock writes its file.
LEMMA WriteSegmentStep ==
    ASSUME TypeOK, LockOK, NEW c \in Clients, WriteSegment(c)
    PROVE  TypeOK' /\ LockOK'
<1>1. /\ pc[c] = "queued" /\ Head(lockQueue) = c /\ written' = written + 1
      /\ pc' = [pc EXCEPT ![c] = "written"] /\ out' = [out EXCEPT ![c] = written + 1]
      /\ UNCHANGED <<segments, counter, lockQueue, call, held, at, page, hand, reply>>
  BY DEF WriteSegment, NewFile, memory
<1>2. written \in Nat /\ written' \in 0 .. MaxFiles
  BY DirectFlushAssumption DEF WriteSegment, TypeOK, DiskType
<1>3. DiskType'
  <2>1. files' = [f \in DOMAIN files \cup {written + 1} |->
                    IF f = written + 1 THEN hand[c] ELSE files[f]]
    BY DEF WriteSegment, NewFile
  <2>2. files' \in [DOMAIN files \cup {written + 1} -> RowMaps]
    BY <2>1 DEF TypeOK, DiskType, TaskType
  <2>3. DOMAIN files \subseteq 1 .. written + 1 /\ written + 1 \in 1 .. written + 1
    BY <1>2 DEF TypeOK, DiskType
  <2> QED
    BY <1>1, <1>2, <2>2, <2>3 DEF DiskType
<1>4. MemoryType'
  BY <1>1 DEF TypeOK, MemoryType
<1>5. TaskType'
  <2>1. \A d \in Clients : out[d] \in 0 .. written + 1
    BY <1>2 DEF TypeOK, TaskType
  <2>2. out' \in [Clients -> 0 .. written + 1]
    BY <1>1, <1>2, <2>1 DEF TypeOK, TaskType
  <2> QED
    BY <1>1, <2>2 DEF TypeOK, TaskType
<1>6. \A d \in Clients : Ready(d)'
  <2>1. Ready(c)'
    BY <1>1, <1>2 DEF TypeOK, TaskType, Ready
  <2>2. \A d \in Clients \ {c} : pc'[d] = pc[d] /\ out'[d] = out[d]
    BY <1>1 DEF TypeOK, TaskType
  <2>3. \A d \in Clients \ {c} : Ready(d)'
    BY <1>1, <2>2, BystanderReady
  <2> QED
    BY <2>1, <2>3
<1>7. LockOK'
  <2>1. \A d \in Clients : pc'[d] \in Suspended <=> pc[d] \in Suspended
    BY <1>1 DEF TypeOK, TaskType, Suspended
  <2>2. \A d \in Clients : pc'[d] = "written" => Head(lockQueue) = d
    BY <1>1 DEF TypeOK, TaskType, LockOK
  <2> QED
    BY <1>1, <2>1, <2>2, LockKept
<1> QED
  BY <1>3, <1>4, <1>5, <1>6, <1>7 DEF TypeOK

\* The holder of the lock fails to write and leaves the queue.
LEMMA WriteFailsStep ==
    ASSUME TypeOK, LockOK, NEW c \in Clients, WriteFails(c)
    PROVE  TypeOK' /\ LockOK'
<1>1. /\ pc[c] \in Suspended /\ Head(lockQueue) = c /\ lockQueue' = Tail(lockQueue)
      /\ Return(c, "error", NoRows) /\ LetGo(c) /\ "error" \in Outcomes
      /\ UNCHANGED <<disk, segments, counter>>
  BY DEF WriteFails, Suspended, Outcomes
<1>2. DiskType' /\ segments' \in Seq(Segment) /\ counter' \in 0 .. MaxRows /\ written' = written
  BY <1>1 DEF TypeOK, DiskType, MemoryType, disk
<1>3. held' \in [Clients -> Refs] /\ \A d \in Clients \ {c} : held'[d] = held[d]
  BY <1>1, LetGoType DEF Refs
<1> QED
  BY <1>1, <1>2, <1>3, NoRowsType, ReleaseStep

\* The segment a writer is about to list, and the counter it leaves.
LEMMA WrittenSegment ==
    ASSUME TypeOK, NEW c \in Clients, pc[c] = "written"
    PROVE  /\ Describe(out[c], hand[c]) \in Segment
           /\ Describe(out[c], hand[c]).file = out[c]
           /\ Larger(counter, MaxOf(DOMAIN hand[c]) + 1) \in 0 .. MaxRows
<1>1. hand[c] \in RowMaps /\ hand[c] # NoRows
  BY DEF TypeOK, TaskType, Ready
<1>2. DOMAIN hand[c] # {}
  BY <1>1, SomeRow
<1>3. out[c] \in FileNums
  BY DirectFlushAssumption DEF TypeOK, DiskType, TaskType, Ready, FileNums
<1>4. /\ Describe(out[c], hand[c]) \in Segment /\ Describe(out[c], hand[c]).file = out[c]
      /\ MaxOf(DOMAIN hand[c]) \in Rows
  BY <1>1, <1>2, <1>3, DescribeType
<1> QED
  BY <1>4, DirectFlushAssumption DEF Larger, Rows, TypeOK, MemoryType

\* The holder of the lock lists its segment and leaves the queue.
LEMMA AppendSegmentStep ==
    ASSUME TypeOK, LockOK, NEW c \in Clients, AppendSegment(c)
    PROVE  TypeOK' /\ LockOK'
<1> DEFINE seg == Describe(out[c], hand[c])
<1>1. /\ pc[c] = "written" /\ lockQueue' = Tail(lockQueue) /\ segments' = Append(segments, seg)
      /\ counter' = Larger(counter, MaxOf(DOMAIN hand[c]) + 1)
      /\ Return(c, "true", NoRows) /\ "true" \in Outcomes /\ UNCHANGED <<disk, held>>
  BY DEF AppendSegment, Outcomes
<1>2. seg \in Segment /\ counter' \in 0 .. MaxRows
  BY <1>1, WrittenSegment
<1> HIDE DEF seg
<1>3. pc[c] \in Suspended /\ Head(lockQueue) = c
  BY <1>1 DEF LockOK, Suspended
<1>4. segments' \in Seq(Segment) /\ DiskType' /\ written' = written
  BY <1>1, <1>2 DEF TypeOK, DiskType, MemoryType, disk
<1>5. held' \in [Clients -> Refs] /\ held' = held
  BY <1>1 DEF TypeOK, TaskType, Refs
<1> QED
  BY <1>1, <1>2, <1>3, <1>4, <1>5, NoRowsType, ReleaseStep

\* compact replaces the list by its segment and leaves the queue.
LEMMA InstallCompactedStep ==
    ASSUME TypeOK, LockOK, NEW c \in Clients, InstallCompacted(c)
    PROVE  TypeOK' /\ LockOK'
<1> DEFINE seg == Describe(out[c], hand[c])
<1>1. /\ pc[c] = "written" /\ lockQueue' = Tail(lockQueue) /\ segments' = <<seg>>
      /\ Return(c, "compacted", NoRows) /\ "compacted" \in Outcomes
      /\ held' = [Detached EXCEPT ![c] = NoList]
      /\ written' = written /\ counter' = counter
  BY DEF InstallCompacted, Outcomes
<1>2. seg \in Segment
  BY <1>1, WrittenSegment
<1> HIDE DEF seg
<1>3. pc[c] \in Suspended /\ Head(lockQueue) = c
  BY <1>1 DEF LockOK, Suspended
<1>4. DiskType'
  BY DEF InstallCompacted, TypeOK, DiskType, Only
<1>5. segments' \in Seq(Segment) /\ counter' \in 0 .. MaxRows
  BY <1>1, <1>2 DEF TypeOK, MemoryType
<1>6. held' \in [Clients -> Refs] /\ \A d \in Clients \ {c} : held'[d] = Detached[d]
  BY <1>1, DetachedType DEF Refs, NoList
<1> QED
  BY <1>1, <1>3, <1>4, <1>5, <1>6, NoRowsType, ReleaseStep

\* clear_table replaces the list by an empty one, under the feet of readers and writers.
LEMMA ClearTableStep ==
    ASSUME TypeOK, LockOK, NEW c \in Clients, ClearTable(c)
    PROVE  TypeOK' /\ LockOK'
<1>1. /\ pc[c] = "idle" /\ Return(c, "true", NoRows) /\ "true" \in Outcomes
      /\ segments' = <<>> /\ counter' = 0 /\ held' = Detached
      /\ written' = written /\ lockQueue' = lockQueue
  BY DEF ClearTable, May, Outcomes
<1>2. /\ TaskType' /\ pc'[c] = "idle"
      /\ \A d \in Clients \ {c} : /\ pc'[d] = pc[d] /\ call'[d] = call[d]
                                   /\ at'[d] = at[d] /\ hand'[d] = hand[d]
                                   /\ out'[d] = out[d]
  BY <1>1, NoRowsType, ReturnType, DetachedType
<1>3. \A d \in Clients : Ready(d)'
  BY <1>1, <1>2, BystanderReady, IdleReady
<1>4. DiskType'
  BY DEF ClearTable, TypeOK, DiskType, Only
<1>5. MemoryType'
  BY <1>1, DirectFlushAssumption DEF TypeOK, MemoryType
<1>6. LockOK'
  <2>1. \A d \in Clients : pc'[d] \in Suspended <=> pc[d] \in Suspended
    BY <1>1, <1>2 DEF Suspended
  <2>2. \A d \in Clients : pc'[d] = "written" => Head(lockQueue) = d
    BY <1>2 DEF LockOK
  <2> QED
    BY <1>1, <2>1, <2>2, LockKept
<1> QED
  BY <1>2, <1>3, <1>4, <1>5, <1>6 DEF TypeOK

\* get and update begin at the last segment that may hold the row.
LEMMA GetOrUpdateStep ==
    ASSUME TypeOK, LockOK, NEW c \in Clients, NEW op, NEW row \in Rows,
           NEW val \in Vals \cup {NoVal}, GetOrUpdate(c, op, row, val)
    PROVE  TypeOK' /\ LockOK'
<1> DEFINE start == NextProbed(segments, Len(segments), row)
<1>1. /\ op \in Operations \cap {"get", "update"} /\ pc[c] = "idle" /\ pc[c] \notin Suspended
      /\ UNCHANGED <<disk, segments, counter, lockQueue>>
  BY DEF GetOrUpdate, May, memory, Suspended
<1>2. Len(segments) \in Nat /\ segments \in Seq(Segment)
  BY DEF TypeOK, MemoryType
<1>3. start \in 0 .. Len(segments)
  BY <1>2, NextProbedType
<1>4. CASE start = 0
  <2>1. Return(c, "missing", NoRows) /\ held' = held /\ "missing" \in Outcomes
    BY <1>4 DEF GetOrUpdate, Outcomes
  <2>2. held' \in [Clients -> Refs]
    BY <2>1 DEF TypeOK, TaskType, Refs
  <2> QED
    BY <1>1, <2>1, <2>2, NoRowsType, LeaveStep
<1>5. CASE start # 0
  <2>1. /\ pc' = [pc EXCEPT ![c] = "probing"]
        /\ call' = [call EXCEPT ![c] = [op |-> op, row |-> row, val |-> val]]
        /\ held' = [held EXCEPT ![c] = LiveList]
        /\ at' = [at EXCEPT ![c] = start]
        /\ page' = [page EXCEPT ![c] = files[segments[start].file]]
        /\ hand' = [hand EXCEPT ![c] = NoRows]
        /\ UNCHANGED <<out, reply>>
    BY <1>5 DEF GetOrUpdate
  <2>2. start \in 1 .. Len(segments) /\ start \in Nat
    BY <1>2, <1>3, <1>5
  <2>8. files[segments[start].file] \in RowMaps
    BY <1>2, <1>5, NextProbedType, PageType
  <2> HIDE DEF start
  <2>3. TaskType'
    <3>1. LiveList \in [live : BOOLEAN, kept : Seq(Segment)]
      BY DEF LiveList
    <3> QED
      BY <1>1, <2>1, <2>2, <2>8, <3>1, NoRowsType DEF TypeOK, TaskType, disk
  <2>4. Ready(c)'
    <3>1. ListOf(c)' = segments
      BY <1>1, <2>1 DEF ListOf, LiveList, TypeOK, TaskType
    <3>2. at'[c] = start /\ pc'[c] = "probing" /\ call'[c].op = op /\ call'[c].row = row
      BY <2>1 DEF TypeOK, TaskType
    <3> QED
      BY <1>1, <2>2, <3>1, <3>2 DEF Ready
  <2>5. \A d \in Clients \ {c} : Ready(d)'
    <3>1. \A d \in Clients \ {c} : /\ pc'[d] = pc[d] /\ call'[d] = call[d]
                                   /\ at'[d] = at[d] /\ hand'[d] = hand[d]
                                   /\ out'[d] = out[d] /\ held'[d] = held[d]
      BY <2>1 DEF TypeOK, TaskType
    <3> QED
      BY <1>1, <3>1, BystanderReady
  <2>6. DiskType' /\ MemoryType'
    BY <1>1 DEF TypeOK, DiskType, MemoryType, disk
  <2>7. LockOK'
    <3>1. \A d \in Clients : pc'[d] \in Suspended <=> pc[d] \in Suspended
      BY <1>1, <2>1 DEF TypeOK, TaskType, Suspended
    <3>2. \A d \in Clients : pc'[d] = "written" => Head(lockQueue) = d
      BY <2>1 DEF TypeOK, TaskType, LockOK
    <3> QED
      BY <1>1, <3>1, <3>2, LockKept
  <2> QED
    BY <2>3, <2>4, <2>5, <2>6, <2>7 DEF TypeOK
<1> QED
  BY <1>4, <1>5

\* get and update go on, return or, for update, queue to write what they found.
LEMMA ProbeStep ==
    ASSUME TypeOK, LockOK, NEW c \in Clients, Probe(c)
    PROVE  TypeOK' /\ LockOK'
<1> DEFINE next == NextProbed(ListOf(c), at[c] - 1, call[c].row)
           row  == call[c].row
<1>1. /\ pc[c] = "probing" /\ pc[c] \notin Suspended /\ UNCHANGED <<disk, segments, counter>>
      /\ row \in Rows /\ call[c].op \in Operations \cap {"get", "update"}
      /\ at[c] \in 1 .. Len(ListOf(c)) /\ call[c].val \in Vals \cup {NoVal}
  BY DEF Probe, TypeOK, TaskType, Ready, Suspended
<1>2. counter' \in 0 .. MaxRows
  BY <1>1 DEF TypeOK, MemoryType
<1>3. ASSUME NEW outcome \in Outcomes, NEW rows \in RowMaps,
             Return(c, outcome, rows), LetGo(c), UNCHANGED lockQueue
      PROVE  TypeOK' /\ LockOK'
  BY <1>1, <1>3, LeaveStep, LetGoType DEF Refs
<1>4. CASE Return(c, "error", NoRows) /\ LetGo(c) /\ UNCHANGED lockQueue
  BY <1>3, <1>4, NoRowsType DEF Outcomes
<1>5. CASE row \in DOMAIN page[c] /\ GotVersion(c, page[c][row]) /\ LetGo(c)
  <2> DEFINE ver == page[c][row]
             new == [r \in {row} |-> [ver EXCEPT !.val = call[c].val]]
             same == [r \in {row} |-> ver]
  <2>1. GotVersion(c, ver) /\ LetGo(c)
    BY <1>5
  <2>2. ver \in Version
    <3>1. page[c] \in RowMaps
      BY DEF TypeOK, TaskType
    <3> QED
      BY <1>5, <3>1, RowMapElim
  <2> HIDE DEF ver
  <2>3. same \in [{row} -> Version] /\ new \in [{row} -> Version]
    BY <1>1, <2>2 DEF Version
  <2>4. same \in RowMaps /\ new \in RowMaps /\ new # NoRows
    BY <1>1, <2>3, RowMapIntro DEF NoRows
  <2>5. CASE call[c].op = "get"
    <3>1. Return(c, "found", same) /\ UNCHANGED lockQueue
      BY <2>1, <2>5 DEF GotVersion
    <3> QED
      BY <1>3, <2>1, <2>4, <3>1 DEF Outcomes
  <2>6. CASE call[c].op # "get"
    <3>1. StartWrite(c, "update", new) /\ "update" \in Operations
      BY <1>1, <2>1, <2>6 DEF GotVersion
    <3>2. held' \in [Clients -> Refs] /\ \A d \in Clients \ {c} : held'[d] = held[d]
      BY <2>1, LetGoType DEF Refs
    <3> HIDE DEF new
    <3> QED
      BY <1>1, <1>2, <2>4, <3>1, <3>2, QueueStep
  <2> QED
    BY <2>5, <2>6
<1>6. CASE Return(c, "missing", NoRows) /\ LetGo(c) /\ UNCHANGED lockQueue
  BY <1>3, <1>6, NoRowsType DEF Outcomes
<1>7. CASE /\ next # 0 /\ at' = [at EXCEPT ![c] = next]
           /\ page' = [page EXCEPT ![c] = files[ListOf(c)[next].file]]
           /\ UNCHANGED <<pc, call, held, hand, out, reply, lockQueue>>
  <2>1. /\ at' = [at EXCEPT ![c] = next]
        /\ page' = [page EXCEPT ![c] = files[ListOf(c)[next].file]]
        /\ UNCHANGED <<pc, call, held, hand, out, reply, lockQueue>>
    BY <1>7
  <2>2. ListOf(c) \in Seq(Segment) /\ at[c] - 1 \in 0 .. Len(ListOf(c)) /\ Len(ListOf(c)) \in Nat
    BY <1>1, ListType
  <2>3. next \in 0 .. at[c] - 1
    BY <2>2, NextProbedType
  <2>4. next \in 1 .. Len(ListOf(c)) /\ next \in Nat
    BY <1>7, <2>2, <2>3
  <2>10. files[ListOf(c)[next].file] \in RowMaps
    BY <1>7, <2>2, NextProbedType, PageType
  <2> HIDE DEF next
  <2>5. TaskType'
    BY <1>1, <2>1, <2>4, <2>10 DEF TypeOK, TaskType, disk
  <2>6. \A d \in Clients : ListOf(d)' = ListOf(d)
    BY <1>1, <2>1 DEF ListOf
  <2>7. Ready(c)'
    BY <1>1, <2>1, <2>4, <2>6 DEF TypeOK, TaskType, Ready
  <2>8. \A d \in Clients \ {c} : Ready(d)'
    BY <2>1, <2>6 DEF TypeOK, TaskType, Ready
  <2>9. DiskType' /\ MemoryType' /\ LockOK'
    BY <1>1, <2>1 DEF TypeOK, DiskType, MemoryType, disk, LockOK
  <2> QED
    BY <2>5, <2>7, <2>8, <2>9 DEF TypeOK
<1> QED
  BY <1>4, <1>5, <1>6, <1>7 DEF Probe

\* scan and compact begin.
LEMMA ScanOrCompactStep ==
    ASSUME TypeOK, LockOK, NEW c \in Clients, NEW op, ScanOrCompact(c, op)
    PROVE  TypeOK' /\ LockOK'
<1>1. /\ op \in Operations \cap {"scan", "compact"} /\ pc[c] \notin Suspended
      /\ ScanFrom(c, op, LiveList, 1, NoRows) /\ UNCHANGED <<disk, segments, counter>>
  BY DEF ScanOrCompact, May, Suspended
<1>2. LiveList \in Refs
  BY DEF LiveList, Refs
<1> QED
  BY <1>1, <1>2, NoRowsType, ScanStep

\* scan and compact go on after one segment.
LEMMA ScanSegmentStep ==
    ASSUME TypeOK, LockOK, NEW c \in Clients, ScanSegment(c)
    PROVE  TypeOK' /\ LockOK'
<1>1. /\ pc[c] = "scanning" /\ pc[c] \notin Suspended /\ UNCHANGED <<disk, segments, counter>>
      /\ call[c].op \in Operations \cap {"scan", "compact"}
      /\ hand[c] \in RowMaps /\ page[c] \in RowMaps /\ held[c] \in Refs /\ at[c] \in Nat
  BY DEF ScanSegment, TypeOK, TaskType, Ready, Suspended, Refs
<1>2. CASE ScanFrom(c, call[c].op, held[c], at[c] + 1, Merge(hand[c], page[c]))
  <2>1. Merge(hand[c], page[c]) \in RowMaps
    BY <1>1, MergeType
  <2>2. at[c] + 1 \in Nat /\ at[c] + 1 >= 1
    BY <1>1
  <2> QED
    BY <1>1, <1>2, <2>1, <2>2, ScanStep
<1>3. CASE Return(c, "error", NoRows) /\ LetGo(c) /\ UNCHANGED lockQueue
  <2>1. "error" \in Outcomes
    BY DEF Outcomes
  <2>2. held' \in [Clients -> Refs] /\ \A d \in Clients \ {c} : held'[d] = held[d]
    BY <1>3, LetGoType DEF Refs
  <2> QED
    BY <1>1, <1>3, <2>1, <2>2, NoRowsType, LeaveStep
<1> QED
  BY <1>2, <1>3 DEF ScanSegment

\* A new process finds nothing to load: it looks in another directory.
LEMMA NothingLoadable == Loadable = {} /\ \A order \in Orders({}) : order = <<>>
<1>1. WriterDirectory # InitializeDirectory
  <2>1. Len(WriterDirectory) = 2 /\ Len(InitializeDirectory) = 1
    BY DEF WriterDirectory, InitializeDirectory
  <2> QED
    BY <2>1
<1>2. Cardinality({}) = 0
  BY FS_EmptySet
<1>3. 1 .. 0 = {}
  OBVIOUS
<1>4. \A order \in Orders({}) : order \in [{} -> {}]
  BY <1>2, <1>3 DEF Orders
<1> QED
  BY <1>1, <1>4 DEF Loadable

\* A new process starts with an empty list and no tasks.
LEMMA RestartStep ==
    ASSUME TypeOK, LockOK, Restart
    PROVE  TypeOK' /\ LockOK'
<1>1. /\ segments' = <<>> /\ counter' = 0
  <2>1. PICK order \in Orders(Loadable) :
           /\ segments' = [i \in DOMAIN order |-> Describe(order[i], files[order[i]])]
           /\ counter' = IF order = <<>> THEN 0
                         ELSE MaxOf(UNION {DOMAIN files[f] : f \in Loadable}) + 1
    BY DEF Restart
  <2>2. order = <<>>
    BY NothingLoadable
  <2> QED
    BY <2>1, <2>2
<1>2. /\ lockQueue' = <<>> /\ UNCHANGED disk
      /\ pc' = [c \in Clients |-> "idle"] /\ call' = [c \in Clients |-> NoCall]
      /\ held' = [c \in Clients |-> NoList] /\ at' = [c \in Clients |-> 0]
      /\ page' = [c \in Clients |-> NoRows]
      /\ hand' = [c \in Clients |-> NoRows] /\ out' = [c \in Clients |-> 0]
      /\ reply' = [c \in Clients |-> "none"]
  BY DEF Restart
<1>3. NoCall \in [op : Operations \cup {"none"}, row : Rows \cup {0}, val : Vals \cup {NoVal}]
  BY DEF NoCall
<1>4. NoList \in [live : BOOLEAN, kept : Seq(Segment)]
  BY DEF NoList
<1>5. DiskType'
  BY <1>2 DEF TypeOK, DiskType, disk
<1>6. MemoryType'
  BY <1>1, <1>2, DirectFlushAssumption DEF MemoryType
<1>7. TaskType'
  <2>1. 0 \in 0 .. written'
    BY <1>2 DEF disk, TypeOK, DiskType
  <2> QED
    BY <1>2, <1>3, <1>4, <2>1, NoRowsType DEF TaskType
<1>8. \A c \in Clients : Ready(c)'
  BY <1>2 DEF Ready
<1>9. LockOK'
  BY <1>2 DEF LockOK
<1> QED
  BY <1>5, <1>6, <1>7, <1>8, <1>9 DEF TypeOK

\* Every step preserves the types and the lock's discipline.
LEMMA TypeAndLockStep ==
    ASSUME TypeOK, LockOK, [Next]_vars
    PROVE  TypeOK' /\ LockOK'
<1>1. CASE Restart
  BY <1>1, RestartStep
<1>2. ASSUME NEW c \in Clients, Begin(c)
      PROVE  TypeOK' /\ LockOK'
  BY <1>2, WritesStart, GetOrUpdateStep, ScanOrCompactStep, ClearTableStep DEF Begin
<1>3. ASSUME NEW c \in Clients, Resume(c)
      PROVE  TypeOK' /\ LockOK'
  BY <1>3, ProbeStep, ScanSegmentStep, WriteSegmentStep, WriteFailsStep, AppendSegmentStep,
     InstallCompactedStep DEF Resume
<1>4. CASE UNCHANGED vars
  BY <1>4 DEF vars, disk, memory, local, TypeOK, DiskType, MemoryType, TaskType, Ready, ListOf, LockOK
<1> QED
  BY <1>1, <1>2, <1>3, <1>4 DEF Next

\* The types of the variables, and what a suspended task finds when it resumes:
\* a reader that iterates a list others append to and replace never runs off it.
THEOREM TypeCorrect == Spec => []TypeOK
<1>1. Init => TypeOK /\ LockOK
  BY InitStep
<1>2. TypeOK /\ LockOK /\ [Next]_vars => (TypeOK /\ LockOK)'
  BY TypeAndLockStep
<1> QED
  BY <1>1, <1>2, PTL DEF Spec

\* Writers exclude each other from the executor's write to the list's update,
\* and the lock is held or awaited by exactly the tasks in a write.
THEOREM WriterLockHeld == Spec => []LockOK
<1>1. Init => TypeOK /\ LockOK
  BY InitStep
<1>2. TypeOK /\ LockOK /\ [Next]_vars => (TypeOK /\ LockOK)'
  BY TypeAndLockStep
<1> QED
  BY <1>1, <1>2, PTL DEF Spec

-----------------------------------------------------------------------------
(* Listed segments have their files. *)

FilesInv == SegmentsBacked /\ WrittenFileSurvives /\ WrittenFileUnlisted
IInv == TypeOK /\ LockOK /\ FilesInv

\* At most one task is between its write and the list's update.
LEMMA OneWritten ==
    ASSUME LockOK, NEW c \in Clients, NEW d \in Clients, pc[c] = "written", pc[d] = "written"
    PROVE  c = d
BY DEF LockOK

\* A step that touches neither the disk nor the list, after which no task is
\* between its write and its update that was not there before, and no task
\* holds a former list it did not hold.
LEMMA FilesKept ==
    ASSUME TypeOK, FilesInv, UNCHANGED <<disk, segments>>,
           \A d \in Clients : /\ pc'[d] = "written" => /\ pc[d] = "written"
                                                        /\ out'[d] = out[d] /\ hand'[d] = hand[d]
                              /\ held'[d].kept \in {held[d].kept, <<>>}
    PROVE  FilesInv'
<1>1. SegmentsBacked'
  BY DEF FilesInv, SegmentsBacked, Exists, disk
<1>2. WrittenFileSurvives'
  BY DEF FilesInv, WrittenFileSurvives, disk
<1>3. \A d \in Clients : FilesOf(held'[d].kept) \subseteq FilesOf(held[d].kept)
  BY DEF FilesOf
<1>4. WrittenFileUnlisted'
  <2>1. FilesOf(segments)' = FilesOf(segments) /\ written' = written
    BY DEF FilesOf, disk
  <2>2. \A d \in Clients : FilesOf(held[d].kept)' \subseteq FilesOf(held[d].kept)
    BY <1>3 DEF FilesOf
  <2> QED
    BY <2>1, <2>2 DEF FilesInv, WrittenFileUnlisted
<1> QED
  BY <1>1, <1>2, <1>4 DEF FilesInv

\* Initially nothing is written and nothing is listed.
LEMMA FilesInit ==
    ASSUME Init
    PROVE  FilesInv
<1>1. FilesOf(<<>>) = {}
  BY DEF FilesOf
<1>2. SegmentsBacked
  BY DEF Init, SegmentsBacked
<1>3. WrittenFileSurvives
  BY DEF Init, WrittenFileSurvives
<1>4. WrittenFileUnlisted
  BY <1>1 DEF Init, WrittenFileUnlisted, NoList
<1> QED
  BY <1>2, <1>3, <1>4 DEF FilesInv

\* A new file has a number nothing refers to.
LEMMA WriteSegmentFiles ==
    ASSUME IInv, NEW c \in Clients, WriteSegment(c)
    PROVE  FilesInv'
<1> USE DEF IInv, FilesInv
<1>1. /\ written \in Nat /\ written' = written + 1 /\ out' = [out EXCEPT ![c] = written + 1]
      /\ pc' = [pc EXCEPT ![c] = "written"]
      /\ files' = [f \in DOMAIN files \cup {written + 1} |->
                     IF f = written + 1 THEN hand[c] ELSE files[f]]
      /\ segments' = segments /\ held' = held /\ hand' = hand
  BY DirectFlushAssumption DEF WriteSegment, NewFile, TypeOK, DiskType, memory
<1>2. written + 1 \notin DOMAIN files
  BY <1>1 DEF TypeOK, DiskType
<1>3. \A f \in DOMAIN files : f \in DOMAIN files' /\ files'[f] = files[f]
  BY <1>1, <1>2
<1>4. SegmentsBacked'
  BY <1>1, <1>3 DEF SegmentsBacked, Exists
<1>5. WrittenFileSurvives'
  BY <1>1, <1>3 DEF WrittenFileSurvives, TypeOK, TaskType
<1>6. WrittenFileUnlisted'
  <2>1. FilesOf(segments)' = FilesOf(segments) /\ \A d \in Clients : FilesOf(held[d].kept)' = FilesOf(held[d].kept)
    BY <1>1 DEF FilesOf
  <2>2. \A f \in 1 .. written : f \in 1 .. written + 1 /\ f # written + 1
    BY <1>1
  <2>3. \A d \in Clients : pc'[d] = "written" => d = c \/ (pc[d] = "written" /\ out'[d] = out[d])
    BY <1>1 DEF TypeOK, TaskType
  <2>4. out'[c] = written + 1
    BY <1>1 DEF TypeOK, TaskType
  <2> QED
    BY <1>1, <2>1, <2>2, <2>3, <2>4 DEF WrittenFileUnlisted
<1> QED
  BY <1>4, <1>5, <1>6

\* The listed segment describes the file of its task, which no other task has.
LEMMA AppendSegmentFiles ==
    ASSUME IInv, NEW c \in Clients, AppendSegment(c)
    PROVE  FilesInv'
<1> USE DEF IInv, FilesInv
<1> DEFINE seg == Describe(out[c], hand[c])
<1>1. /\ pc[c] = "written" /\ segments' = Append(segments, seg) /\ files' = files
      /\ written' = written /\ held' = held /\ pc' = [pc EXCEPT ![c] = "idle"]
  BY DEF AppendSegment, Return, disk
<1>2. seg \in Segment /\ seg.file = out[c]
  BY <1>1, WrittenSegment
<1>3. out[c] \in DOMAIN files /\ files[out[c]] = hand[c] /\ out[c] \in 1 .. written
  BY <1>1 DEF WrittenFileSurvives, TypeOK, DiskType
<1>4. seg = Describe(seg.file, files[seg.file])
  BY <1>2, <1>3
<1> HIDE DEF seg
<1>5. /\ DOMAIN segments' = 1 .. Len(segments) + 1 /\ DOMAIN segments = 1 .. Len(segments)
      /\ Len(segments) \in Nat
      /\ \A i \in DOMAIN segments' : segments'[i] = seg \/ (i \in DOMAIN segments /\ segments'[i] = segments[i])
  BY <1>1, <1>2 DEF TypeOK, MemoryType
<1>6. SegmentsBacked'
  BY <1>1, <1>2, <1>3, <1>4, <1>5 DEF SegmentsBacked, Exists
<1>7. \A d \in Clients : pc'[d] # "written"
  BY <1>1, OneWritten DEF TypeOK, TaskType
<1>8. WrittenFileUnlisted'
  <2>1. FilesOf(segments)' \subseteq FilesOf(segments) \cup {out[c]}
    BY <1>2, <1>5 DEF FilesOf
  <2>2. \A d \in Clients : FilesOf(held[d].kept)' = FilesOf(held[d].kept)
    BY <1>1 DEF FilesOf
  <2> QED
    BY <1>1, <1>3, <1>7, <2>1, <2>2 DEF WrittenFileUnlisted
<1> QED
  BY <1>6, <1>7, <1>8 DEF WrittenFileSurvives

\* A task detached from the bound list keeps the files that list names.
LEMMA DetachedFiles ==
    ASSUME TypeOK, NEW d \in Clients
    PROVE  FilesOf(Detached[d].kept) \subseteq FilesOf(segments) \cup FilesOf(held[d].kept)
<1>1. Detached[d].kept = ListOf(d)
  BY DetachedType
<1> QED
  BY <1>1 DEF ListOf

\* compact removes files of the list it held, never the one it lists.
LEMMA InstallCompactedFiles ==
    ASSUME IInv, NEW c \in Clients, InstallCompacted(c)
    PROVE  FilesInv'
<1> USE DEF IInv, FilesInv
<1> DEFINE seg == Describe(out[c], hand[c])
<1>1. /\ pc[c] = "written" /\ segments' = <<seg>> /\ written' = written
      /\ files' = Only(files, DOMAIN files \ (FilesOf(ListOf(c)) \ {out[c]}))
      /\ held' = [Detached EXCEPT ![c] = NoList] /\ pc' = [pc EXCEPT ![c] = "idle"]
  BY DEF InstallCompacted, Return
<1>2. seg \in Segment /\ seg.file = out[c]
  BY <1>1, WrittenSegment
<1>3. out[c] \in DOMAIN files /\ files[out[c]] = hand[c] /\ out[c] \in 1 .. written
  BY <1>1 DEF WrittenFileSurvives, TypeOK, DiskType
<1>4. out[c] \in DOMAIN files' /\ files'[out[c]] = hand[c]
  BY <1>1, <1>3 DEF Only
<1>5. seg = Describe(seg.file, files'[seg.file])
  BY <1>2, <1>4
<1> HIDE DEF seg
<1>6. \A i \in DOMAIN segments' : segments'[i] = seg
  BY <1>1
<1>7. SegmentsBacked'
  BY <1>2, <1>4, <1>5, <1>6 DEF SegmentsBacked, Exists
<1>8. \A d \in Clients : pc'[d] # "written"
  BY <1>1, OneWritten DEF TypeOK, TaskType
<1>9. WrittenFileUnlisted'
  <2>1. FilesOf(segments)' \subseteq 1 .. written'
    BY <1>1, <1>2, <1>3, <1>6 DEF FilesOf
  <2>2. \A d \in Clients \ {c} : FilesOf(held'[d].kept) \subseteq 1 .. written'
    <3>1. \A d \in Clients \ {c} : held'[d] = Detached[d]
      BY <1>1 DEF Detached
    <3> QED
      BY <1>1, <3>1, DetachedFiles DEF WrittenFileUnlisted
  <2>3. FilesOf(held'[c].kept) = {}
    BY <1>1 DEF Detached, NoList, FilesOf
  <2>4. \A d \in Clients : FilesOf(held[d].kept)' \subseteq 1 .. written'
    BY <2>2, <2>3 DEF FilesOf
  <2> QED
    BY <1>8, <2>1, <2>4 DEF WrittenFileUnlisted
<1> QED
  BY <1>7, <1>8, <1>9 DEF WrittenFileSurvives

\* clear_table removes listed files, never one that is written and unlisted.
LEMMA ClearTableFiles ==
    ASSUME IInv, NEW c \in Clients, ClearTable(c)
    PROVE  FilesInv'
<1> USE DEF IInv, FilesInv
<1>1. /\ pc[c] = "idle" /\ segments' = <<>> /\ held' = Detached /\ written' = written
      /\ files' = Only(files, DOMAIN files \ FilesOf(segments))
      /\ \A d \in Clients : pc'[d] = pc[d]
      /\ \A d \in Clients : d # c => out'[d] = out[d] /\ hand'[d] = hand[d]
  BY DEF ClearTable, May, Return, TypeOK, TaskType
<1>2. SegmentsBacked'
  BY <1>1 DEF SegmentsBacked
<1>3. ASSUME NEW d \in Clients, pc'[d] = "written"
      PROVE  /\ d # c /\ pc[d] = "written" /\ out'[d] = out[d] /\ hand'[d] = hand[d]
             /\ out[d] \notin FilesOf(segments) /\ out[d] \in DOMAIN files /\ files[out[d]] = hand[d]
  BY <1>1, <1>3 DEF WrittenFileSurvives, WrittenFileUnlisted
<1>4. WrittenFileSurvives'
  BY <1>1, <1>3 DEF WrittenFileSurvives, Only
<1>5. WrittenFileUnlisted'
  <2>1. FilesOf(segments)' = {}
    BY <1>1 DEF FilesOf
  <2>2. \A d \in Clients : FilesOf(held[d].kept)' \subseteq FilesOf(segments) \cup FilesOf(held[d].kept)
    <3> TAKE d \in Clients
    <3>1. FilesOf(held[d].kept)' = FilesOf(Detached[d].kept)
      BY <1>1 DEF FilesOf
    <3> QED
      BY <3>1, DetachedFiles
  <2> QED
    BY <1>1, <1>3, <2>1, <2>2 DEF WrittenFileUnlisted
<1> QED
  BY <1>2, <1>4, <1>5

\* Letting go of a list, or taking hold of the bound one, holds no former list.
LEMMA NoFormerList ==
    ASSUME TypeOK, NEW c \in Clients,
           held' = held \/ LetGo(c) \/ held' = [held EXCEPT ![c] = LiveList]
    PROVE  \A d \in Clients : held'[d].kept \in {held[d].kept, <<>>}
<1>1. DOMAIN held = Clients
  BY DEF TypeOK, TaskType
<1>2. NoList.kept = <<>> /\ LiveList.kept = <<>>
  BY DEF NoList, LiveList
<1>3. CASE held' = held
  BY <1>3
<1>4. CASE LetGo(c)
  <2>1. \A d \in Clients : held'[d] = IF d = c THEN NoList ELSE held[d]
    BY <1>1, <1>4 DEF LetGo
  <2> QED
    BY <1>2, <2>1
<1>5. CASE held' = [held EXCEPT ![c] = LiveList]
  <2>1. \A d \in Clients : held'[d] = IF d = c THEN LiveList ELSE held[d]
    BY <1>1, <1>5
  <2> QED
    BY <1>2, <2>1
<1> QED
  BY <1>3, <1>4, <1>5

\* Every step keeps the listed segments backed.
LEMMA FilesStep ==
    ASSUME IInv, [Next]_vars
    PROVE  FilesInv'
<1> USE DEF IInv
<1>1. ASSUME NEW c \in Clients, NEW outcome, NEW rows, Return(c, outcome, rows),
             UNCHANGED <<disk, segments>>, held' = held \/ LetGo(c)
      PROVE  FilesInv'
  <2>1. \A d \in Clients : held'[d].kept \in {held[d].kept, <<>>}
    BY <1>1, NoFormerList
  <2>2. \A d \in Clients : pc'[d] = "written" => /\ pc[d] = "written" /\ out'[d] = out[d]
                                                 /\ hand'[d] = hand[d]
    BY <1>1 DEF Return, TypeOK, TaskType
  <2> QED
    BY <1>1, <2>1, <2>2, FilesKept
<1>2. ASSUME NEW c \in Clients, NEW op, NEW rows, StartWrite(c, op, rows),
             UNCHANGED <<disk, segments>>,
             held' = held \/ LetGo(c) \/ held' = [held EXCEPT ![c] = LiveList]
      PROVE  FilesInv'
  <2>1. \A d \in Clients : held'[d].kept \in {held[d].kept, <<>>}
    BY <1>2, NoFormerList
  <2>2. \A d \in Clients : pc'[d] = "written" => /\ pc[d] = "written" /\ out'[d] = out[d]
                                                 /\ hand'[d] = hand[d]
    BY <1>2 DEF StartWrite, TypeOK, TaskType
  <2> QED
    BY <1>2, <2>1, <2>2, FilesKept
<1>3. ASSUME NEW c \in Clients, NEW op, NEW ref, NEW i, NEW rows,
             ScanFrom(c, op, ref, i, rows), ref = LiveList \/ ref = held[c],
             UNCHANGED <<disk, segments>>
      PROVE  FilesInv'
  <2>1. CASE ScanEnds(c, op, rows)
    BY <1>1, <1>2, <1>3, <2>1 DEF ScanEnds
  <2>2. CASE /\ pc' = [pc EXCEPT ![c] = "scanning"] /\ held' = [held EXCEPT ![c] = ref]
             /\ hand' = [hand EXCEPT ![c] = rows] /\ out' = out
    <3>1. \A d \in Clients : held'[d].kept \in {held[d].kept, <<>>}
      BY <1>3, <2>2 DEF LiveList, TypeOK, TaskType
    <3>2. \A d \in Clients : pc'[d] = "written" => /\ pc[d] = "written" /\ out'[d] = out[d]
                                                   /\ hand'[d] = hand[d]
      BY <2>2 DEF TypeOK, TaskType
    <3> QED
      BY <1>3, <3>1, <3>2, FilesKept
  <2> QED
    BY <1>3, <2>1, <2>2 DEF ScanFrom
<1>4. ASSUME NEW c \in Clients, Begin(c)
      PROVE  FilesInv'
  <2>1. CASE \E v \in Vals : Insert(c, v) \/ InsertBatch(c, v)
    BY <1>2, <2>1 DEF Insert, InsertBatch, disk
  <2>2. CASE \E r \in Rows : Delete(c, r)
    BY <1>2, <2>2 DEF Delete, disk
  <2>3. ASSUME NEW op, NEW row, NEW val, GetOrUpdate(c, op, row, val)
        PROVE  FilesInv'
    <3>1. UNCHANGED <<disk, segments>>
      BY <2>3 DEF GetOrUpdate, memory
    <3>2. CASE Return(c, "missing", NoRows) /\ UNCHANGED held
      BY <1>1, <3>1, <3>2
    <3>3. CASE /\ pc' = [pc EXCEPT ![c] = "probing"] /\ held' = [held EXCEPT ![c] = LiveList]
               /\ hand' = [hand EXCEPT ![c] = NoRows] /\ UNCHANGED out
      <4>1. \A d \in Clients : held'[d].kept \in {held[d].kept, <<>>}
        BY <3>3 DEF LiveList, TypeOK, TaskType
      <4>2. \A d \in Clients : pc'[d] = "written" => /\ pc[d] = "written" /\ out'[d] = out[d]
                                                     /\ hand'[d] = hand[d]
        BY <3>3 DEF TypeOK, TaskType
      <4> QED
        BY <3>1, <4>1, <4>2, FilesKept
    <3> QED
      BY <2>3, <3>2, <3>3 DEF GetOrUpdate
  <2>4. ASSUME NEW op, ScanOrCompact(c, op)
        PROVE  FilesInv'
    BY <1>3, <2>4 DEF ScanOrCompact
  <2>5. CASE ClearTable(c)
    BY <2>5, ClearTableFiles
  <2> QED
    BY <1>4, <2>1, <2>2, <2>3, <2>4, <2>5 DEF Begin
<1>5. ASSUME NEW c \in Clients, Resume(c)
      PROVE  FilesInv'
  <2>1. CASE Probe(c)
    <3>1. UNCHANGED <<disk, segments>>
      BY <2>1 DEF Probe
    <3>2. CASE LetGo(c) /\ \E outcome, rows : Return(c, outcome, rows)
      BY <1>1, <3>1, <3>2
    <3>3. CASE LetGo(c) /\ \E op, rows : StartWrite(c, op, rows)
      BY <1>2, <3>1, <3>3
    <3>4. CASE UNCHANGED <<pc, call, held, hand, out, reply, lockQueue>>
      BY <3>1, <3>4, FilesKept
    <3> QED
      BY <2>1, <3>2, <3>3, <3>4 DEF Probe, GotVersion
  <2>2. CASE ScanSegment(c)
    <3>1. UNCHANGED <<disk, segments>>
      BY <2>2 DEF ScanSegment
    <3> QED
      BY <1>1, <1>3, <2>2, <3>1 DEF ScanSegment
  <2>3. CASE WriteFails(c)
    BY <1>1, <2>3 DEF WriteFails
  <2> QED
    BY <1>5, <2>1, <2>2, <2>3, WriteSegmentFiles, AppendSegmentFiles, InstallCompactedFiles DEF Resume
<1>6. CASE Restart
  <2>1. /\ UNCHANGED disk /\ pc' = [c \in Clients |-> "idle"] /\ held' = [c \in Clients |-> NoList]
        /\ segments' = <<>>
    <3>1. PICK order \in Orders(Loadable) :
             segments' = [i \in DOMAIN order |-> Describe(order[i], files[order[i]])]
      BY <1>6 DEF Restart
    <3>2. order = <<>>
      BY NothingLoadable
    <3> QED
      BY <1>6, <3>1, <3>2 DEF Restart
  <2>2. FilesOf(segments)' = {} /\ \A d \in Clients : FilesOf(held[d].kept)' = {}
    BY <2>1 DEF FilesOf, NoList
  <2> QED
    BY <2>1, <2>2 DEF FilesInv, SegmentsBacked, WrittenFileSurvives, WrittenFileUnlisted
<1>7. CASE UNCHANGED vars
  BY <1>7, FilesKept DEF vars, memory, local
<1> QED
  BY <1>4, <1>5, <1>6, <1>7 DEF Next

\* No schedule of inserts, deletes, updates, compacts, clears and crashes leaves
\* the table listing a segment whose file is gone or holds other rows.
THEOREM ListedSegmentsReadable == Spec => []SegmentsBacked
<1>1. Init => IInv
  BY InitStep, FilesInit DEF IInv
<1>2. IInv /\ [Next]_vars => IInv'
  BY TypeAndLockStep, FilesStep DEF IInv
<1>3. IInv => SegmentsBacked
  BY DEF IInv, FilesInv
<1> QED
  BY <1>1, <1>2, <1>3, PTL DEF Spec

\* The file a task has written is there when the task resumes to list it.
THEOREM WrittenFileKept == Spec => []WrittenFileSurvives
<1>1. Init => IInv
  BY InitStep, FilesInit DEF IInv
<1>2. IInv /\ [Next]_vars => IInv'
  BY TypeAndLockStep, FilesStep DEF IInv
<1>3. IInv => WrittenFileSurvives
  BY DEF IInv, FilesInv
<1> QED
  BY <1>1, <1>2, <1>3, PTL DEF Spec

-----------------------------------------------------------------------------
(* The newest versions in the first segments of a list. *)

Holders(list, store, r, n) == {i \in 1 .. n : r \in DOMAIN store[list[i].file]}

\* What a scan has to have collected after n segments.
Newest(list, store, n) ==
    [r \in {x \in Rows : Holders(list, store, x, n) # {}} |->
        store[list[MaxOf(Holders(list, store, r, n))].file][r]]

\* The last of the first n segments that hold a row.
LEMMA LastHolder ==
    ASSUME NEW list, NEW store, NEW r, NEW n \in Nat, Holders(list, store, r, n) # {}
    PROVE  /\ MaxOf(Holders(list, store, r, n)) \in Holders(list, store, r, n)
           /\ \A i \in Holders(list, store, r, n) : MaxOf(Holders(list, store, r, n)) >= i
<1>1. Holders(list, store, r, n) \in SUBSET (0 .. n)
  BY DEF Holders
<1> QED
  BY <1>1, MaxOfBounded

\* Before the first segment there is nothing.
LEMMA NewestNone == \A list, store : Newest(list, store, 0) = NoRows
<1>1. \A list, store, r : Holders(list, store, r, 0) = {}
  BY DEF Holders
<1> QED
  BY <1>1 DEF Newest, NoRows

\* Another segment overrides what there was.
LEMMA NewestNext ==
    ASSUME NEW list, NEW store, NEW n \in Nat, NEW rows,
           store[list[n + 1].file] = rows, DOMAIN rows \subseteq Rows
    PROVE  Newest(list, store, n + 1) = Merge(Newest(list, store, n), rows)
<1> DEFINE H(r) == Holders(list, store, r, n)
           K(r) == Holders(list, store, r, n + 1)
<1>1. \A r : K(r) = IF r \in DOMAIN rows THEN H(r) \cup {n + 1} ELSE H(r)
  BY DEF Holders
<1>2. ASSUME NEW r, r \in DOMAIN rows
      PROVE  MaxOf(K(r)) = n + 1
  <2>4. K(r) = H(r) \cup {n + 1}
    BY <1>1, <1>2
  <2>1. n + 1 \in Nat /\ n + 1 \in K(r) /\ K(r) # {}
    <3> HIDE DEF H, K
    <3> QED
      BY <2>4
  <2>2. MaxOf(K(r)) \in K(r) /\ MaxOf(K(r)) >= n + 1
    BY <2>1, LastHolder
  <2>3. MaxOf(K(r)) \in 1 .. n + 1
    BY <2>2 DEF Holders
  <2> QED
    BY <2>1, <2>2, <2>3
<1>3. {x \in Rows : K(x) # {}} = {x \in Rows : H(x) # {}} \cup DOMAIN rows
  BY <1>1
<1>4. \A r \in {x \in Rows : K(x) # {}} :
         store[list[MaxOf(K(r))].file][r]
           = IF r \in DOMAIN rows THEN rows[r] ELSE store[list[MaxOf(H(r))].file][r]
  <2> SUFFICES ASSUME NEW r
               PROVE  store[list[MaxOf(K(r))].file][r]
                        = IF r \in DOMAIN rows THEN rows[r] ELSE store[list[MaxOf(H(r))].file][r]
    OBVIOUS
  <2>1. CASE r \in DOMAIN rows
    BY <1>2, <2>1
  <2>2. CASE r \notin DOMAIN rows
    <3>1. K(r) = H(r)
      BY <1>1, <2>2
    <3> HIDE DEF K, H
    <3> QED
      BY <2>2, <3>1
  <2> QED
    BY <2>1, <2>2
<1>5. DOMAIN Newest(list, store, n) = {x \in Rows : H(x) # {}}
  BY DEF Newest
<1>6. \A r \in {x \in Rows : H(x) # {}} : Newest(list, store, n)[r] = store[list[MaxOf(H(r))].file][r]
  BY DEF Newest
<1>7. Newest(list, store, n + 1) = [r \in {x \in Rows : K(x) # {}} |-> store[list[MaxOf(K(r))].file][r]]
  BY DEF Newest
<1>8. Merge(Newest(list, store, n), rows)
        = [r \in {x \in Rows : H(x) # {}} \cup DOMAIN rows |->
             IF r \in DOMAIN rows THEN rows[r] ELSE Newest(list, store, n)[r]]
  BY <1>5 DEF Merge
<1> HIDE DEF H, K
<1> QED
  BY <1>3, <1>4, <1>6, <1>7, <1>8

\* A list that agrees with another on the first n segments shows the same.
LEMMA NewestSame ==
    ASSUME NEW list, NEW store, NEW longer, NEW larger, NEW n \in Nat,
           \A i \in 1 .. n : longer[i] = list[i] /\ larger[list[i].file] = store[list[i].file]
    PROVE  Newest(longer, larger, n) = Newest(list, store, n)
<1>1. \A r : Holders(longer, larger, r, n) = Holders(list, store, r, n)
  BY DEF Holders
<1>2. \A r : Holders(list, store, r, n) # {} => MaxOf(Holders(list, store, r, n)) \in 1 .. n
  <2>1. \A r : Holders(list, store, r, n) \subseteq 1 .. n
    BY DEF Holders
  <2> QED
    BY <2>1, LastHolder
<1> QED
  BY <1>1, <1>2 DEF Newest

\* The table is what the whole list shows.
LEMMA ViewIsNewest ==
    ASSUME TypeOK, SegmentsBacked
    PROVE  View = Newest(segments, files, Len(segments))
<1>1. DOMAIN segments = 1 .. Len(segments)
  BY DEF TypeOK, MemoryType
<1>2. \A r : Holding(r) = Holders(segments, files, r, Len(segments))
  BY <1>1 DEF Holding, Holders, SegmentsBacked
<1> QED
  BY <1>2 DEF View, Newest

-----------------------------------------------------------------------------
(* Scans *)

\* A reader of the bound list has the rows of the segment it is at, and a scan has
\* collected the newest versions in those before.
ReaderOK(c) ==
    pc[c] \in {"probing", "scanning"} /\ held[c].live =>
        /\ page[c] = files[segments[at[c]].file]
        /\ pc[c] = "scanning" => hand[c] = Newest(segments, files, at[c] - 1)

ReadersOK == \A c \in Clients : ReaderOK(c)

\* The list grows at its end, and the files it names stay.
ListGrows ==
    /\ Len(segments') \in Nat /\ Len(segments) <= Len(segments')
    /\ \A i \in 1 .. Len(segments) :
         segments'[i] = segments[i] /\ files'[segments[i].file] = files[segments[i].file]

\* A task that does not move while the list grows.
LEMMA BystanderReads ==
    ASSUME TypeOK, ListGrows, NEW c \in Clients, ReaderOK(c),
           pc'[c] = pc[c], at'[c] = at[c], page'[c] = page[c], hand'[c] = hand[c],
           held'[c].live => held[c].live
    PROVE  ReaderOK(c)'
<1> SUFFICES ASSUME pc[c] \in {"probing", "scanning"}, held[c].live
             PROVE  /\ page[c] = files'[segments'[at[c]].file]
                    /\ pc[c] = "scanning" => hand[c] = Newest(segments', files', at[c] - 1)
  BY DEF ReaderOK
<1>1. at[c] \in 1 .. Len(segments) /\ at[c] - 1 \in Nat /\ Len(segments) \in Nat
  BY DEF TypeOK, TaskType, MemoryType, Ready, ListOf
<1>2. \A i \in 1 .. at[c] - 1 : segments'[i] = segments[i] /\ files'[segments[i].file] = files[segments[i].file]
  BY <1>1 DEF ListGrows
<1>3. Newest(segments', files', at[c] - 1) = Newest(segments, files, at[c] - 1)
  BY <1>1, <1>2, NewestSame
<1> QED
  BY <1>1, <1>3 DEF ListGrows, ReaderOK

\* No file of the bound list is gone, so a scan of it skips none.
LEMMA NoneSkipped ==
    ASSUME TypeOK, SegmentsBacked, NEW i \in Nat, i >= 1
    PROVE  /\ i <= Len(segments) => NextScanned(segments, i) = i
           /\ i = Len(segments) + 1 => NextScanned(segments, i) = i
<1> DEFINE ahead == {j \in i .. Len(segments) : Exists(segments[j])}
<1>1. Len(segments) \in Nat /\ DOMAIN segments = 1 .. Len(segments)
  BY DEF TypeOK, MemoryType
<1>2. ahead = i .. Len(segments)
  BY <1>1 DEF SegmentsBacked
<1>3. ASSUME i <= Len(segments)
      PROVE  MinOf(ahead) = i
  <2>1. ahead \in SUBSET Nat /\ i \in ahead
    BY <1>1, <1>2, <1>3
  <2>2. MinOf(ahead) \in ahead /\ MinOf(ahead) <= i
    BY <2>1, MinOfNat
  <2> QED
    BY <1>1, <1>2, <2>2
<1>4. NextScanned(segments, i) = IF ahead = {} THEN Len(segments) + 1 ELSE MinOf(ahead)
  BY DEF NextScanned
<1>5. i <= Len(segments) => ahead # {}
  BY <1>1, <1>2
<1>6. i = Len(segments) + 1 => ahead = {}
  BY <1>1, <1>2
<1> QED
  BY <1>3, <1>4, <1>5, <1>6

\* A turn of the loop over the bound list.
LEMMA ScanTurn ==
    ASSUME IInv, NEW c \in Clients, NEW op, NEW ref, ref.live, NEW i \in 1 .. Len(segments) + 1, NEW rows,
           ScanFrom(c, op, ref, i, rows), UNCHANGED <<files, segments>>,
           rows = Newest(segments, files, i - 1)
    PROVE  /\ ReaderOK(c)'
           /\ pc'[c] = "idle" /\ reply'[c] = "scanned" => hand'[c] = View
<1>1. TypeOK /\ SegmentsBacked /\ i \in Nat /\ i >= 1 /\ Len(segments) \in Nat
  BY DEF IInv, FilesInv, TypeOK, MemoryType
<1>2. NextScanned(segments, i) = i
  BY <1>1, NoneSkipped
<1>3. CASE i = Len(segments) + 1
  <2>1. ScanEnds(c, op, rows)
    BY <1>1, <1>2, <1>3 DEF ScanFrom
  <2>2. rows = View
    BY <1>1, <1>3, ViewIsNewest
  <2>3. CASE Return(c, "scanned", rows)
    BY <1>1, <2>2, <2>3 DEF Return, ReaderOK, TypeOK, TaskType
  <2>4. CASE Return(c, "compacted", NoRows)
    BY <1>1, <2>4 DEF Return, ReaderOK, TypeOK, TaskType
  <2>5. CASE StartWrite(c, "compact", Active(rows))
    BY <1>1, <2>5 DEF StartWrite, ReaderOK, TypeOK, TaskType
  <2> QED
    BY <2>1, <2>3, <2>4, <2>5 DEF ScanEnds
<1>4. CASE i <= Len(segments)
  <2>1. /\ pc'[c] = "scanning" /\ at'[c] = i /\ page'[c] = files[segments[i].file] /\ hand'[c] = rows
    BY <1>1, <1>2, <1>4 DEF ScanFrom, TypeOK, TaskType
  <2> QED
    BY <1>1, <2>1 DEF ReaderOK
<1> QED
  BY <1>1, <1>3, <1>4

\* What the snapshot property says of one task.
Snapshot(c) ==
    /\ pc[c] = "scanning" /\ held[c].live
    /\ pc'[c] = "idle" /\ reply'[c] = "scanned"
    => hand'[c] = View

\* A turn of the loop over a former list.
LEMMA FormerTurn ==
    ASSUME TypeOK, NEW c \in Clients, NEW op, NEW ref, ~ref.live, NEW i, NEW rows,
           ScanFrom(c, op, ref, i, rows)
    PROVE  ReaderOK(c)'
<1>1. CASE held' = [held EXCEPT ![c] = ref]
  BY <1>1 DEF ReaderOK, TypeOK, TaskType
<1>2. CASE ScanEnds(c, op, rows)
  <2>1. pc'[c] \in {"idle", "queued"}
    BY <1>2 DEF ScanEnds, Return, StartWrite, TypeOK, TaskType
  <2> QED
    BY <2>1 DEF ReaderOK
<1> QED
  BY <1>1, <1>2 DEF ScanFrom

\* The tasks other than c are where they were.
Elsewhere(c) == \A d \in Clients \ {c} : /\ pc'[d] = pc[d] /\ at'[d] = at[d]
                                         /\ page'[d] = page[d] /\ hand'[d] = hand[d]

\* The step of one task, when the list grows or is replaced.
LEMMA OneReads ==
    ASSUME TypeOK, ReadersOK, NEW c \in Clients, Elsewhere(c), ReaderOK(c)', Snapshot(c),
           \/ ListGrows /\ \A d \in Clients \ {c} : held'[d].live => held[d].live
           \/ \A d \in Clients \ {c} : ~held'[d].live
    PROVE  ReadersOK' /\ \A d \in Clients : Snapshot(d)
<1>1. ASSUME NEW d \in Clients \ {c}
      PROVE  ReaderOK(d)' /\ Snapshot(d)
  <2>1. pc'[d] = pc[d] /\ at'[d] = at[d] /\ page'[d] = page[d] /\ hand'[d] = hand[d]
    BY DEF Elsewhere
  <2>2. Snapshot(d)
    BY <2>1 DEF Snapshot
  <2>3. CASE ListGrows /\ (held'[d].live => held[d].live)
    BY <2>1, <2>2, <2>3, BystanderReads DEF ReadersOK
  <2>4. CASE ~held'[d].live
    BY <2>2, <2>4 DEF ReaderOK
  <2> QED
    BY <2>3, <2>4
<1> QED
  BY <1>1 DEF ReadersOK

\* A list that stays grows.
LEMMA ListStays ==
    ASSUME TypeOK, UNCHANGED <<files, segments>>
    PROVE  ListGrows
<1>1. Len(segments) \in Nat
  BY DEF TypeOK, MemoryType
<1> QED
  BY <1>1 DEF ListGrows

\* A task that ends a call or queues for the writer moves alone, and reads no more.
LEMMA EndsReading ==
    ASSUME TypeOK, NEW c \in Clients,
           \/ \E outcome, rows : Return(c, outcome, rows) /\ outcome # "scanned"
           \/ \E op, rows : StartWrite(c, op, rows)
    PROVE  Elsewhere(c) /\ ReaderOK(c)' /\ Snapshot(c)
<1>1. CASE \E outcome, rows : Return(c, outcome, rows) /\ outcome # "scanned"
  <2>1. PICK outcome, rows : Return(c, outcome, rows) /\ outcome # "scanned"
    BY <1>1
  <2>2. pc'[c] = "idle" /\ reply'[c] # "scanned" /\ Elsewhere(c)
    BY <2>1 DEF Return, Elsewhere, TypeOK, TaskType
  <2> QED
    BY <2>2 DEF ReaderOK, Snapshot
<1>2. CASE \E op, rows : StartWrite(c, op, rows)
  <2>1. pc'[c] = "queued" /\ Elsewhere(c)
    BY <1>2 DEF StartWrite, Elsewhere, TypeOK, TaskType
  <2> QED
    BY <2>1 DEF ReaderOK, Snapshot
<1> QED
  BY <1>1, <1>2

\* Such a step, when the list stays.
LEMMA EndsReadingStep ==
    ASSUME TypeOK, ReadersOK, NEW c \in Clients, UNCHANGED <<files, segments>>,
           \/ \E outcome, rows : Return(c, outcome, rows) /\ outcome # "scanned"
           \/ \E op, rows : StartWrite(c, op, rows),
           \A d \in Clients \ {c} : held'[d] = held[d]
    PROVE  ReadersOK' /\ \A d \in Clients : Snapshot(d)
BY ListStays, EndsReading, OneReads

\* A turn of the loop moves one task.
LEMMA TurnMovesOne ==
    ASSUME TypeOK, NEW c \in Clients, NEW op, NEW ref, NEW i, NEW rows, ScanFrom(c, op, ref, i, rows)
    PROVE  Elsewhere(c) /\ \A d \in Clients \ {c} : held'[d] = held[d]
<1>1. CASE ScanEnds(c, op, rows)
  <2>1. Elsewhere(c)
    BY <1>1 DEF ScanEnds, Return, StartWrite, Elsewhere, TypeOK, TaskType
  <2>2. \A d \in Clients \ {c} : held'[d] = held[d]
    BY <1>1 DEF ScanEnds, LetGo, TypeOK, TaskType
  <2> QED
    BY <2>1, <2>2
<1>2. CASE /\ pc' = [pc EXCEPT ![c] = "scanning"] /\ held' = [held EXCEPT ![c] = ref]
           /\ hand' = [hand EXCEPT ![c] = rows] /\ \E n : at' = [at EXCEPT ![c] = n]
           /\ \E p : page' = [page EXCEPT ![c] = p]
  BY <1>2 DEF Elsewhere, TypeOK, TaskType
<1> QED
  BY <1>1, <1>2 DEF ScanFrom

\* A writer's file is a new one, so it replaces none that is listed.
LEMMA WriteSegmentReads ==
    ASSUME IInv, ReadersOK, NEW c \in Clients, WriteSegment(c)
    PROVE  ReadersOK' /\ \A d \in Clients : Snapshot(d)
<1>1. /\ pc' = [pc EXCEPT ![c] = "written"]
      /\ files' = [f \in DOMAIN files \cup {NewFile} |-> IF f = NewFile THEN hand[c] ELSE files[f]]
      /\ UNCHANGED <<segments, held, at, page, hand>>
  BY DEF WriteSegment, memory
<1>2. TypeOK /\ SegmentsBacked /\ Len(segments) \in Nat /\ DOMAIN segments = 1 .. Len(segments)
  BY DEF IInv, FilesInv, TypeOK, MemoryType
<1>3. NewFile \notin DOMAIN files
  BY <1>2 DEF NewFile, TypeOK, DiskType
<1>4. \A i \in 1 .. Len(segments) : segments[i].file \in DOMAIN files
  BY <1>2 DEF SegmentsBacked, Exists
<1>5. \A i \in 1 .. Len(segments) : files'[segments[i].file] = files[segments[i].file]
  <2> HIDE DEF NewFile
  <2> QED
    BY <1>1, <1>3, <1>4
<1>6. ListGrows
  <2>1. Len(segments') \in Nat /\ Len(segments) <= Len(segments')
    BY <1>1, <1>2
  <2> QED
    BY <1>1, <1>5, <2>1 DEF ListGrows
<1>7. pc'[c] = "written" /\ Elsewhere(c)
  BY <1>1, <1>2 DEF Elsewhere, TypeOK, TaskType
<1>8. ReaderOK(c)' /\ Snapshot(c)
  BY <1>7 DEF ReaderOK, Snapshot
<1> QED
  BY <1>1, <1>2, <1>6, <1>7, <1>8, OneReads

\* A writer's segment joins the list at its end.
LEMMA AppendSegmentReads ==
    ASSUME IInv, ReadersOK, NEW c \in Clients, AppendSegment(c)
    PROVE  ReadersOK' /\ \A d \in Clients : Snapshot(d)
<1>1. /\ segments' = Append(segments, Describe(out[c], hand[c]))
      /\ Return(c, "true", NoRows) /\ files' = files /\ held' = held
  BY DEF AppendSegment, disk
<1>2. TypeOK /\ segments \in Seq(Segment) /\ pc[c] = "written"
  BY DEF IInv, TypeOK, MemoryType, AppendSegment
<1>3. Describe(out[c], hand[c]) \in Segment
  BY <1>2, WrittenSegment
<1>4. ListGrows
  <2>1. \A seg \in Segment : /\ Len(Append(segments, seg)) = Len(segments) + 1
                             /\ \A i \in 1 .. Len(segments) : Append(segments, seg)[i] = segments[i]
    BY <1>2
  <2>2. Len(segments) \in Nat
    BY <1>2
  <2> QED
    BY <1>1, <1>3, <2>1, <2>2 DEF ListGrows
<1> QED
  BY <1>1, <1>2, <1>4, EndsReading, OneReads

\* get and update begin at a segment of the bound list.
LEMMA GetOrUpdateReads ==
    ASSUME IInv, ReadersOK, NEW c \in Clients, NEW op, NEW row, NEW val, GetOrUpdate(c, op, row, val)
    PROVE  ReadersOK' /\ \A d \in Clients : Snapshot(d)
<1>1. UNCHANGED <<files, segments>> /\ TypeOK
  BY DEF GetOrUpdate, disk, memory, IInv
<1>2. CASE Return(c, "missing", NoRows) /\ UNCHANGED held
  BY <1>1, <1>2, EndsReadingStep
<1>3. ASSUME NEW start, pc' = [pc EXCEPT ![c] = "probing"], held' = [held EXCEPT ![c] = LiveList],
             at' = [at EXCEPT ![c] = start], hand' = [hand EXCEPT ![c] = NoRows],
             page' = [page EXCEPT ![c] = files[segments[start].file]]
      PROVE  ReadersOK' /\ \A d \in Clients : Snapshot(d)
  <2>1. Elsewhere(c) /\ \A d \in Clients \ {c} : held'[d] = held[d]
    BY <1>1, <1>3 DEF Elsewhere, TypeOK, TaskType
  <2>2. pc'[c] = "probing" /\ at'[c] = start /\ page'[c] = files[segments[start].file]
    BY <1>1, <1>3 DEF TypeOK, TaskType
  <2>3. ReaderOK(c)' /\ Snapshot(c)
    BY <1>1, <2>2 DEF ReaderOK, Snapshot
  <2> QED
    BY <1>1, <2>1, <2>3, ListStays, OneReads
<1> QED
  BY <1>2, <1>3 DEF GetOrUpdate

\* get and update go on to another segment, or leave the list.
LEMMA ProbeReads ==
    ASSUME IInv, ReadersOK, NEW c \in Clients, Probe(c)
    PROVE  ReadersOK' /\ \A d \in Clients : Snapshot(d)
<1>1. UNCHANGED <<files, segments>> /\ TypeOK /\ pc[c] = "probing"
  BY DEF Probe, disk, IInv
<1>2. LetGo(c) => \A d \in Clients \ {c} : held'[d] = held[d]
  BY <1>1 DEF LetGo, TypeOK, TaskType
<1>3. CASE LetGo(c) /\ \E outcome, rows : Return(c, outcome, rows) /\ outcome # "scanned"
  BY <1>1, <1>2, <1>3, EndsReadingStep
<1>4. CASE LetGo(c) /\ \E op, rows : StartWrite(c, op, rows)
  BY <1>1, <1>2, <1>4, EndsReadingStep
<1>5. ASSUME NEW next, at' = [at EXCEPT ![c] = next],
             page' = [page EXCEPT ![c] = files[ListOf(c)[next].file]], UNCHANGED <<pc, held, hand>>
      PROVE  ReadersOK' /\ \A d \in Clients : Snapshot(d)
  <2>1. Elsewhere(c) /\ at'[c] = next /\ page'[c] = files[ListOf(c)[next].file]
    BY <1>1, <1>5 DEF Elsewhere, TypeOK, TaskType
  <2>2. held[c].live => ListOf(c) = segments
    BY DEF ListOf
  <2>3. ReaderOK(c)' /\ Snapshot(c)
    BY <1>1, <1>5, <2>1, <2>2 DEF ReaderOK, Snapshot
  <2> QED
    BY <1>1, <1>5, <2>1, <2>3, ListStays, OneReads
<1> QED
  BY <1>3, <1>4, <1>5 DEF Probe, GotVersion

\* scan and compact begin with nothing collected.
LEMMA ScanOrCompactReads ==
    ASSUME IInv, ReadersOK, NEW c \in Clients, NEW op, ScanOrCompact(c, op)
    PROVE  ReadersOK' /\ \A d \in Clients : Snapshot(d)
<1>1. /\ ScanFrom(c, op, LiveList, 1, NoRows) /\ UNCHANGED <<files, segments>> /\ TypeOK
      /\ LiveList.live /\ 1 \in 1 .. Len(segments) + 1 /\ pc[c] = "idle"
  BY DEF ScanOrCompact, disk, IInv, LiveList, TypeOK, MemoryType, May
<1>2. NoRows = Newest(segments, files, 1 - 1)
  BY NewestNone
<1>3. ReaderOK(c)'
  BY <1>1, <1>2, ScanTurn
<1>4. Snapshot(c)
  BY <1>1 DEF Snapshot
<1> QED
  BY <1>1, <1>3, <1>4, ListStays, TurnMovesOne, OneReads

\* scan and compact add the segment they have read to what they have collected.
LEMMA ScanSegmentReads ==
    ASSUME IInv, ReadersOK, NEW c \in Clients, ScanSegment(c)
    PROVE  ReadersOK' /\ \A d \in Clients : Snapshot(d)
<1>1. UNCHANGED <<files, segments>> /\ TypeOK /\ pc[c] = "scanning" /\ ReaderOK(c)
  BY DEF ScanSegment, disk, IInv, ReadersOK
<1>2. CASE LetGo(c) /\ Return(c, "error", NoRows)
  <2>1. \A d \in Clients \ {c} : held'[d] = held[d]
    BY <1>1, <1>2 DEF LetGo, TypeOK, TaskType
  <2> QED
    BY <1>1, <1>2, <2>1, EndsReadingStep
<1>3. CASE ScanFrom(c, call[c].op, held[c], at[c] + 1, Merge(hand[c], page[c]))
  <2>1. Elsewhere(c) /\ \A d \in Clients \ {c} : held'[d] = held[d]
    BY <1>1, <1>3, TurnMovesOne
  <2>2. ASSUME held[c].live
        PROVE  ReaderOK(c)' /\ Snapshot(c)
    <3>1. /\ at[c] \in Nat /\ at[c] + 1 \in 1 .. Len(segments) + 1 /\ at[c] - 1 \in Nat
          /\ (at[c] - 1) + 1 = at[c] /\ (at[c] + 1) - 1 = at[c]
      BY <1>1, <2>2 DEF TypeOK, TaskType, MemoryType, Ready, ListOf
    <3>2. /\ page[c] = files[segments[at[c]].file] /\ page[c] \in RowMaps
          /\ hand[c] = Newest(segments, files, at[c] - 1)
      BY <1>1, <2>2 DEF ReaderOK, TypeOK, TaskType
    <3>3. DOMAIN page[c] \subseteq Rows
      BY <3>2, RowMapElim
    <3>4. Newest(segments, files, at[c]) = Merge(hand[c], page[c])
      BY <3>1, <3>2, <3>3, NewestNext
    <3>5. /\ ReaderOK(c)'
          /\ pc'[c] = "idle" /\ reply'[c] = "scanned" => hand'[c] = View
      BY <1>1, <1>3, <2>2, <3>1, <3>4, ScanTurn
    <3> QED
      BY <3>5 DEF Snapshot
  <2>3. ASSUME ~held[c].live
        PROVE  ReaderOK(c)' /\ Snapshot(c)
    BY <1>1, <1>3, <2>3, FormerTurn DEF Snapshot
  <2> QED
    BY <1>1, <2>1, <2>2, <2>3, ListStays, OneReads
<1> QED
  BY <1>2, <1>3 DEF ScanSegment

\* compact and clear_table leave every reader with a former list.
LEMMA ReplacedReads ==
    ASSUME IInv, ReadersOK, NEW c \in Clients, InstallCompacted(c) \/ ClearTable(c)
    PROVE  ReadersOK' /\ \A d \in Clients : Snapshot(d)
<1>1. TypeOK
  BY DEF IInv
<1>2. \E outcome, rows : Return(c, outcome, rows) /\ outcome # "scanned"
  BY DEF InstallCompacted, ClearTable
<1>3. \A d \in Clients \ {c} : ~held'[d].live
  BY <1>1, DetachedType DEF InstallCompacted, ClearTable
<1> QED
  BY <1>1, <1>2, <1>3, EndsReading, OneReads

\* No step disturbs what a scan of the bound list has collected.
LEMMA ReadersStep ==
    ASSUME IInv, ReadersOK, [Next]_vars
    PROVE  ReadersOK' /\ \A d \in Clients : Snapshot(d)
<1>1. TypeOK
  BY DEF IInv
<1>2. ASSUME NEW c \in Clients, Begin(c)
      PROVE  ReadersOK' /\ \A d \in Clients : Snapshot(d)
  <2>1. CASE \/ \E v \in Vals : Insert(c, v) \/ InsertBatch(c, v)
             \/ \E r \in Rows : Delete(c, r)
    <3>1. UNCHANGED <<files, segments, held>> /\ \E op, rows : StartWrite(c, op, rows)
      BY <2>1 DEF Insert, InsertBatch, Delete, disk
    <3> QED
      BY <1>1, <3>1, EndsReadingStep
  <2> QED
    BY <1>2, <2>1, GetOrUpdateReads, ScanOrCompactReads, ReplacedReads DEF Begin
<1>3. ASSUME NEW c \in Clients, Resume(c)
      PROVE  ReadersOK' /\ \A d \in Clients : Snapshot(d)
  <2>1. CASE WriteFails(c)
    <3>1. /\ UNCHANGED <<files, segments>> /\ \E outcome, rows : Return(c, outcome, rows) /\ outcome # "scanned"
          /\ LetGo(c)
      BY <2>1 DEF WriteFails, disk
    <3>2. \A d \in Clients \ {c} : held'[d] = held[d]
      BY <1>1, <3>1 DEF LetGo, TypeOK, TaskType
    <3> QED
      BY <1>1, <3>1, <3>2, EndsReadingStep
  <2> QED
    BY <1>3, <2>1, ProbeReads, ScanSegmentReads, WriteSegmentReads, AppendSegmentReads,
       ReplacedReads DEF Resume
<1>4. CASE Restart
  <2>1. \A d \in Clients : pc'[d] = "idle" /\ reply'[d] = "none"
    BY <1>4 DEF Restart
  <2> QED
    BY <2>1 DEF ReadersOK, ReaderOK, Snapshot
<1>5. CASE UNCHANGED vars
  <2>1. UNCHANGED <<files, segments, pc, held, at, page, hand>>
    BY <1>5 DEF vars, disk, memory, local
  <2>2. ListGrows
    BY <1>1, <2>1, ListStays
  <2>3. \A d \in Clients : ReaderOK(d)' /\ Snapshot(d)
    BY <1>1, <2>1, <2>2, BystanderReads DEF ReadersOK, Snapshot
  <2> QED
    BY <2>3 DEF ReadersOK
<1> QED
  BY <1>2, <1>3, <1>4, <1>5 DEF Next

\* A scan that suspended on every segment of the bound list, while writers
\* appended to it, returns the newest version of every row at its end.
THEOREM ScansAreSnapshots == Spec => ScanIsSnapshot
<1>1. Init => IInv /\ ReadersOK
  BY InitStep, FilesInit DEF IInv, Init, ReadersOK, ReaderOK
<1>2. IInv /\ ReadersOK /\ [Next]_vars => (IInv /\ ReadersOK)'
  BY TypeAndLockStep, FilesStep, ReadersStep DEF IInv
<1>3. IInv /\ ReadersOK /\ [Next]_vars
        => [\A c \in Clients :
               /\ pc[c] = "scanning" /\ held[c].live
               /\ pc'[c] = "idle" /\ reply'[c] = "scanned"
               => hand'[c] = View]_vars
  BY ReadersStep DEF Snapshot
<1> QED
  BY <1>1, <1>2, <1>3, PTL DEF Spec, ScanIsSnapshot

-----------------------------------------------------------------------------
(* The refinement of the row store, when the list is only appended to. *)

GrowingOperations == {"insert", "insert_batch", "update", "delete", "get", "scan"}

\* Every reader walks the bound list.
ReadersLive == \A c \in Clients : pc[c] \in {"probing", "scanning"} => held[c].live

RInv == IInv /\ ReadersOK /\ ReadersLive

\* One row of a map, as a map.
Part(m, r) == [x \in {r} \cap DOMAIN m |-> m[x]]

\* A row that a file holds is within the bounds of the segment that describes it.
LEMMA HeldIsCovered ==
    ASSUME TypeOK, SegmentsBacked, NEW i \in 1 .. Len(segments), NEW r,
           r \in DOMAIN files[segments[i].file]
    PROVE  Covers(segments[i], r) /\ Exists(segments[i])
<1> DEFINE m == files[segments[i].file]
<1>1. i \in DOMAIN segments
  BY DEF TypeOK, MemoryType
<1>2. Exists(segments[i]) /\ segments[i] = Describe(segments[i].file, m)
  BY <1>1 DEF SegmentsBacked
<1>3. m \in RowMaps
  BY <1>2, PageType
<1>4. DOMAIN m \in SUBSET Rows
  BY <1>3, RowMapElim
<1>5. DOMAIN m \in SUBSET Nat /\ DOMAIN m \in SUBSET (0 .. MaxRows) /\ MaxRows \in Nat /\ DOMAIN m # {}
  BY <1>4, RowsAreNat
<1>6. MinOf(DOMAIN m) <= r
  BY <1>5, MinOfNat
<1>7. MaxOf(DOMAIN m) >= r /\ MaxOf(DOMAIN m) \in Nat /\ r \in Nat
  BY <1>5, MaxOfBounded
<1>8. segments[i].min = MinOf(DOMAIN m) /\ segments[i].max = MaxOf(DOMAIN m)
  BY <1>2 DEF Describe
<1> QED
  BY <1>2, <1>6, <1>7, <1>8 DEF Covers

\* Where get stops, nothing after that holds the row.
LEMMA NoneAhead ==
    ASSUME TypeOK, SegmentsBacked, NEW i \in 0 .. Len(segments), NEW r,
           NEW j \in NextProbed(segments, i, r) + 1 .. i
    PROVE  r \notin DOMAIN files[segments[j].file]
<1> DEFINE back == {k \in 1 .. i : Covers(segments[k], r) /\ Exists(segments[k])}
<1> SUFFICES ASSUME r \in DOMAIN files[segments[j].file]
             PROVE  FALSE
  OBVIOUS
<1>1. Len(segments) \in Nat /\ segments \in Seq(Segment)
  BY DEF TypeOK, MemoryType
<1>2. NextProbed(segments, i, r) \in 0 .. i
  BY <1>1, NextProbedType
<1>3. j \in 1 .. Len(segments) /\ j \in 1 .. i /\ i \in Nat /\ j > NextProbed(segments, i, r)
  BY <1>1, <1>2
<1>4. j \in back
  BY <1>3, HeldIsCovered
<1>5. back \in SUBSET (0 .. i) /\ back # {}
  BY <1>4
<1>6. MaxOf(back) \in back /\ MaxOf(back) >= j
  BY <1>3, <1>4, <1>5, MaxOfBounded
<1>7. NextProbed(segments, i, r) = MaxOf(back)
  BY <1>5 DEF NextProbed
<1> HIDE DEF back
<1> QED
  BY <1>2, <1>3, <1>6, <1>7

\* Segments without the row do not change what the list shows of it.
LEMMA PartSkips ==
    ASSUME NEW list, NEW store, NEW r, NEW n \in Nat, NEW i \in 0 .. n,
           \A j \in i + 1 .. n : r \notin DOMAIN store[list[j].file]
    PROVE  Part(Newest(list, store, n), r) = Part(Newest(list, store, i), r)
<1>1. Holders(list, store, r, n) = Holders(list, store, r, i)
  BY DEF Holders
<1>2. ASSUME NEW k \in Nat
      PROVE  Part(Newest(list, store, k), r)
               = [x \in {r} \cap {y \in Rows : Holders(list, store, y, k) # {}} |->
                    store[list[MaxOf(Holders(list, store, r, k))].file][r]]
  BY DEF Part, Newest
<1>3. {r} \cap {y \in Rows : Holders(list, store, y, n) # {}}
        = {r} \cap {y \in Rows : Holders(list, store, y, i) # {}}
  BY <1>1
<1>4. i \in Nat
  OBVIOUS
<1> QED
  BY <1>1, <1>2, <1>3, <1>4

\* A get is bound to answer with what the list shows up to its position.
LEMMA FoundIsPart ==
    ASSUME TypeOK, SegmentsBacked, NEW i \in 0 .. Len(segments), NEW r \in Rows
    PROVE  Found(segments, i, r) = Part(Newest(segments, files, i), r)
<1>1. \A j \in 1 .. i : Exists(segments[j])
  BY DEF SegmentsBacked, TypeOK, MemoryType
<1>2. {j \in 1 .. i : Exists(segments[j]) /\ r \in DOMAIN files[segments[j].file]}
        = Holders(segments, files, r, i)
  BY <1>1 DEF Holders
<1>3. (\E j \in 1 .. i : Exists(segments[j]) /\ r \in DOMAIN files[segments[j].file])
        <=> Holders(segments, files, r, i) # {}
  BY <1>2
<1>4. CASE Holders(segments, files, r, i) = {}
  <2>1. Found(segments, i, r) = NoRows
    BY <1>3, <1>4 DEF Found
  <2>2. {r} \cap DOMAIN Newest(segments, files, i) = {}
    BY <1>4 DEF Newest
  <2> QED
    BY <2>1, <2>2 DEF Part, NoRows
<1>5. CASE Holders(segments, files, r, i) # {}
  <2>1. Found(segments, i, r)
          = [x \in {r} |-> files[segments[MaxOf(Holders(segments, files, r, i))].file][r]]
    BY <1>2, <1>3, <1>5 DEF Found, LastAt
  <2>2. {r} \cap DOMAIN Newest(segments, files, i) = {r}
    BY <1>5 DEF Newest
  <2>3. Newest(segments, files, i)[r] = files[segments[MaxOf(Holders(segments, files, r, i))].file][r]
    BY <1>5 DEF Newest
  <2> QED
    BY <2>1, <2>2, <2>3 DEF Part
<1> QED
  BY <1>4, <1>5

\* At a segment that holds the row, the list shows that version.
LEMMA NewestHere ==
    ASSUME NEW list, NEW store, NEW r \in Rows, NEW i \in Nat, i >= 1,
           r \in DOMAIN store[list[i].file]
    PROVE  r \in DOMAIN Newest(list, store, i) /\ Newest(list, store, i)[r] = store[list[i].file][r]
<1> DEFINE H == Holders(list, store, r, i)
<1>1. i \in H
  BY DEF Holders
<1>2. MaxOf(H) \in H /\ MaxOf(H) >= i
  BY <1>1, LastHolder
<1>3. MaxOf(H) = i
  BY <1>2 DEF Holders
<1> QED
  BY <1>1, <1>3 DEF Newest

\* The same of the state after a step.
LEMMA ViewShownNext ==
    (TypeOK /\ SegmentsBacked)' => View' = Newest(segments', files', Len(segments'))
<1>1. TypeOK /\ SegmentsBacked => View = Newest(segments, files, Len(segments))
  BY ViewIsNewest
<1>2. (TypeOK /\ SegmentsBacked => View = Newest(segments, files, Len(segments)))'
  BY <1>1, PTL
<1> QED
  BY <1>2

\* The list grows, and the files it names stay on disk.
Grows == ListGrows /\ \A i \in 1 .. Len(segments) : segments[i].file \in DOMAIN files'

\* What a get is bound to answer with stays as the list grows.
LEMMA FoundStays ==
    ASSUME TypeOK, SegmentsBacked, Grows, NEW d \in Clients, held'[d].live,
           at'[d] \in 0 .. Len(segments)
    PROVE  Found(ListOf(d), at[d], call[d].row)' = Found(segments, at'[d], call'[d].row)
<1>1. Len(segments) \in Nat /\ ListOf(d)' = segments'
  BY DEF TypeOK, MemoryType, ListOf
<1>2. \A j \in 1 .. at'[d] : /\ segments'[j] = segments[j] /\ files'[segments[j].file] = files[segments[j].file]
                             /\ segments[j].file \in DOMAIN files'
  BY <1>1 DEF Grows, ListGrows
<1>3. \A j \in 1 .. at'[d] : segments[j].file \in DOMAIN files
  BY <1>1 DEF SegmentsBacked, Exists, TypeOK, MemoryType
<1> DEFINE was == {j \in 1 .. at'[d] : segments[j].file \in DOMAIN files
                                        /\ call'[d].row \in DOMAIN files[segments[j].file]}
           now == {j \in 1 .. at'[d] : segments'[j].file \in DOMAIN files'
                                        /\ call'[d].row \in DOMAIN files'[segments'[j].file]}
<1>4. was = now
  BY <1>2, <1>3
<1>5. Found(segments, at'[d], call'[d].row)
        = IF was # {} THEN [x \in {call'[d].row} |-> files[segments[MaxOf(was)].file][call'[d].row]] ELSE NoRows
  BY DEF Found, LastAt, Exists
<1>6. Found(ListOf(d), at[d], call[d].row)'
        = IF now # {} THEN [x \in {call'[d].row} |-> files'[segments'[MaxOf(now)].file][call'[d].row]] ELSE NoRows
  BY <1>1 DEF Found, LastAt, Exists
<1>7. was # {} => MaxOf(was) \in 1 .. at'[d]
  <2>1. was \in SUBSET (0 .. at'[d]) /\ at'[d] \in Nat
    BY <1>1
  <2>2. was \subseteq 1 .. at'[d]
    OBVIOUS
  <2> HIDE DEF was
  <2> QED
    BY <2>1, <2>2, MaxOfBounded
<1> HIDE DEF was, now
<1> QED
  BY <1>2, <1>4, <1>5, <1>6, <1>7

-----------------------------------------------------------------------------
(* The call a task is in, as the row store sees it. *)

JobFor(p, op, val, rows, found) ==
    CASE p = "idle" -> [kind |-> "none", arg |-> NoRows]
      [] p = "scanning" -> [kind |-> op, arg |-> NoRows]
      [] p = "probing" /\ (op = "get" \/ found = NoRows) -> [kind |-> "get", arg |-> found]
      [] p = "probing" /\ op = "update" /\ found # NoRows ->
           [kind |-> "write", arg |-> [r \in DOMAIN found |-> [found[r] EXCEPT !.val = val]]]
      [] p \in {"queued", "written"} /\ op = "compact" -> [kind |-> "compact", arg |-> NoRows]
      [] OTHER -> [kind |-> "write", arg |-> rows]

LEMMA JobIsFor ==
    ASSUME NEW c \in Clients
    PROVE  /\ AbstractJob(c) = JobFor(pc[c], call[c].op, call[c].val, hand[c],
                                      Found(ListOf(c), at[c], call[c].row))
           /\ AbstractJob(c)' = JobFor(pc'[c], call'[c].op, call'[c].val, hand'[c],
                                       Found(ListOf(c), at[c], call[c].row)')
BY DEF AbstractJob, JobFor

LEMMA JobCases ==
    ASSUME NEW op, NEW val, NEW rows, NEW found
    PROVE  /\ JobFor("idle", op, val, rows, found) = [kind |-> "none", arg |-> NoRows]
           /\ JobFor("scanning", op, val, rows, found) = [kind |-> op, arg |-> NoRows]
           /\ op # "compact" =>
                /\ JobFor("queued", op, val, rows, found) = [kind |-> "write", arg |-> rows]
                /\ JobFor("written", op, val, rows, found) = [kind |-> "write", arg |-> rows]
           /\ op = "compact" =>
                /\ JobFor("queued", op, val, rows, found) = [kind |-> "compact", arg |-> NoRows]
                /\ JobFor("written", op, val, rows, found) = [kind |-> "compact", arg |-> NoRows]
BY DEF JobFor

LEMMA JobGetting ==
    ASSUME NEW op, NEW val, NEW rows, NEW found, op = "get" \/ found = NoRows
    PROVE  JobFor("probing", op, val, rows, found) = [kind |-> "get", arg |-> found]
BY DEF JobFor

LEMMA JobUpdating ==
    ASSUME NEW op, op = "update", NEW val, NEW rows, NEW found, found # NoRows
    PROVE  JobFor("probing", op, val, rows, found)
             = [kind |-> "write", arg |-> [r \in DOMAIN found |-> [found[r] EXCEPT !.val = val]]]
BY DEF JobFor

ResultOf(c) == IF pc[c] = "idle" THEN hand[c] ELSE NoRows

\* The tasks other than c are in the same calls, for the row store too.
OthersStay(c) == \A d \in Clients \ {c} : /\ AbstractJob(d)' = AbstractJob(d)
                                          /\ ResultOf(d)' = ResultOf(d)

LEMMA OthersAreStill ==
    ASSUME RInv, Grows, NEW c \in Clients, Elsewhere(c),
           \A d \in Clients \ {c} : call'[d] = call[d] /\ held'[d] = held[d]
    PROVE  OthersStay(c)
<1> SUFFICES ASSUME NEW d \in Clients \ {c}
             PROVE  AbstractJob(d)' = AbstractJob(d) /\ ResultOf(d)' = ResultOf(d)
  BY DEF OthersStay
<1>1. /\ pc'[d] = pc[d] /\ at'[d] = at[d] /\ hand'[d] = hand[d] /\ call'[d] = call[d]
      /\ held'[d] = held[d]
  BY DEF Elsewhere
<1>2. TypeOK /\ SegmentsBacked
  BY DEF RInv, IInv, FilesInv
<1>3. CASE pc[d] = "probing"
  <2>1. held[d].live /\ held'[d].live /\ ListOf(d) = segments
    BY <1>1, <1>3 DEF RInv, ReadersLive, ListOf
  <2>2. at'[d] \in 0 .. Len(segments)
    BY <1>1, <1>2, <1>3, <2>1 DEF TypeOK, Ready, MemoryType
  <2>3. Found(ListOf(d), at[d], call[d].row)' = Found(ListOf(d), at[d], call[d].row)
    BY <1>1, <1>2, <2>1, <2>2, FoundStays
  <2> QED
    BY <1>1, <2>3, JobIsFor DEF ResultOf
<1>4. CASE pc[d] # "probing"
  <2>1. \A f, g : JobFor(pc[d], call[d].op, call[d].val, hand[d], f)
                = JobFor(pc[d], call[d].op, call[d].val, hand[d], g)
    BY <1>4 DEF JobFor
  <2> QED
    BY <1>1, <2>1, JobIsFor DEF ResultOf
<1> QED
  BY <1>3, <1>4

\* How a step of one task is one of the row store's.
LEMMA ToBegin ==
    ASSUME NEW c \in Clients, OthersStay(c), NEW kind, NEW arg, View' = View,
           AbstractJob(c) = [kind |-> "none", arg |-> NoRows],
           AbstractJob(c)' = [kind |-> kind, arg |-> arg], ResultOf(c)' = NoRows
    PROVE  Abstract!Begin(c, kind, arg)
BY DEF Abstract!Begin, Abstract!NoJob, Abstract!NoRows, NoRows, OthersStay, ResultOf

LEMMA ToFinish ==
    ASSUME NEW c \in Clients, OthersStay(c), NEW answer,
           AbstractJob(c)' = [kind |-> "none", arg |-> NoRows], ResultOf(c)' = answer
    PROVE  Abstract!Finish(c, answer)
BY DEF Abstract!Finish, Abstract!NoJob, Abstract!NoRows, NoRows, OthersStay, ResultOf

LEMMA ToStutter ==
    ASSUME NEW c \in Clients, OthersStay(c), View' = View,
           AbstractJob(c)' = AbstractJob(c), ResultOf(c)' = ResultOf(c)
    PROVE  UNCHANGED Abstract!vars
BY DEF Abstract!vars, OthersStay, ResultOf

\* The table does not change while the disk holds what it held and the list stays.
LEMMA ViewStays ==
    ASSUME IInv, IInv', Grows, Len(segments') = Len(segments)
    PROVE  View' = View
<1>1. TypeOK /\ SegmentsBacked /\ Len(segments) \in Nat
  BY DEF IInv, FilesInv, TypeOK, MemoryType
<1>2. View = Newest(segments, files, Len(segments))
  BY <1>1, ViewIsNewest
<1>3. View' = Newest(segments', files', Len(segments'))
  BY ViewShownNext DEF IInv, FilesInv
<1>4. \A i \in 1 .. Len(segments) : segments'[i] = segments[i] /\ files'[segments[i].file] = files[segments[i].file]
  BY DEF Grows, ListGrows
<1> QED
  BY <1>1, <1>2, <1>3, <1>4, NewestSame

-----------------------------------------------------------------------------
(* Every step is one of the row store's. *)

\* Only task c moves, or changes what it holds.
Alone(c) == /\ Elsewhere(c)
            /\ \A d \in Clients \ {c} : call'[d] = call[d] /\ held'[d] = held[d]
            /\ pc'[c] \in {"probing", "scanning"} => held'[c].live

LEMMA AloneLive ==
    ASSUME RInv, NEW c \in Clients, Alone(c)
    PROVE  ReadersLive'
BY DEF RInv, ReadersLive, Alone, Elsewhere

\* The step of one task, and the table, when the list stays.
LEMMA AloneStays ==
    ASSUME RInv, IInv', NEW c \in Clients, Alone(c), UNCHANGED <<files, segments>>
    PROVE  ReadersLive' /\ OthersStay(c) /\ View' = View /\ Grows
<1>1. TypeOK /\ SegmentsBacked /\ IInv
  BY DEF RInv, IInv, FilesInv
<1>2. Grows
  BY <1>1, ListStays DEF Grows, SegmentsBacked, Exists, TypeOK, MemoryType
<1>3. Len(segments') = Len(segments)
  OBVIOUS
<1> QED
  BY <1>1, <1>2, <1>3, AloneLive, OthersAreStill, ViewStays DEF Alone

LEMMA ReturnAlone ==
    ASSUME TypeOK, NEW c \in Clients, NEW outcome, NEW rows, Return(c, outcome, rows),
           \A d \in Clients \ {c} : held'[d] = held[d]
    PROVE  /\ Alone(c)
           /\ AbstractJob(c)' = [kind |-> "none", arg |-> NoRows] /\ ResultOf(c)' = rows
<1>1. pc'[c] = "idle" /\ hand'[c] = rows /\ Alone(c)
  BY DEF Return, Alone, Elsewhere, TypeOK, TaskType
<1> QED
  BY <1>1, JobIsFor, JobCases DEF ResultOf

LEMMA StartWriteAlone ==
    ASSUME TypeOK, NEW c \in Clients, NEW op, op # "compact", NEW rows, StartWrite(c, op, rows),
           \A d \in Clients \ {c} : held'[d] = held[d]
    PROVE  /\ Alone(c)
           /\ AbstractJob(c)' = [kind |-> "write", arg |-> rows] /\ ResultOf(c)' = NoRows
<1>1. pc'[c] = "queued" /\ hand'[c] = rows /\ call'[c].op = op /\ Alone(c)
  BY DEF StartWrite, NoCall, Alone, Elsewhere, TypeOK, TaskType
<1> QED
  BY <1>1, JobIsFor, JobCases DEF ResultOf

\* insert, insert_batch and delete begin.
LEMMA WriteBegins ==
    ASSUME RInv, IInv', NEW c \in Clients, NEW op, op # "compact", NEW rows \in RowMaps, rows # NoRows,
           pc[c] = "idle", StartWrite(c, op, rows), UNCHANGED <<files, segments, held>>
    PROVE  ReadersLive' /\ Abstract!BeginWrite(c)
<1>1. TypeOK
  BY DEF RInv, IInv
<1>2. /\ Alone(c) /\ AbstractJob(c)' = [kind |-> "write", arg |-> rows] /\ ResultOf(c)' = NoRows
  BY <1>1, StartWriteAlone
<1>3. AbstractJob(c) = [kind |-> "none", arg |-> NoRows]
  BY JobIsFor, JobCases
<1>4. Abstract!Begin(c, "write", rows)
  BY <1>2, <1>3, AloneStays, ToBegin
<1>5. rows \in Abstract!RowMaps /\ rows # Abstract!NoRows
  BY DEF Abstract!RowMaps, Abstract!Version, RowMaps, Version, Abstract!NoRows, NoRows
<1> QED
  BY <1>2, <1>4, <1>5, AloneStays DEF Abstract!BeginWrite

LEMMA WritesRefine ==
    ASSUME RInv, IInv', NEW c \in Clients,
           \/ \E v \in Vals : Insert(c, v) \/ InsertBatch(c, v)
           \/ \E row \in Rows : Delete(c, row)
    PROVE  ReadersLive' /\ Abstract!BeginWrite(c)
<1>1. counter \in Nat
  BY DEF RInv, IInv, TypeOK, MemoryType, DirectFlushAssumption
<1>2. CASE \E v \in Vals : Insert(c, v)
  <2>1. PICK v \in Vals : Insert(c, v)
    BY <1>2
  <2> DEFINE m == [r \in {counter} |-> [val |-> v, deleted |-> FALSE]]
  <2>2. m \in RowMaps
    BY <2>1, RowMapIntro DEF Insert, Version
  <2>3. DOMAIN m # DOMAIN NoRows
    BY DEF NoRows
  <2>4. pc[c] = "idle" /\ StartWrite(c, "insert", m) /\ UNCHANGED <<files, segments, held>>
    BY <2>1 DEF Insert, May, disk
  <2> HIDE DEF m
  <2> QED
    BY <2>2, <2>3, <2>4, WriteBegins
<1>3. CASE \E v \in Vals : InsertBatch(c, v)
  <2>1. PICK v \in Vals : InsertBatch(c, v)
    BY <1>3
  <2> DEFINE m == [r \in {counter, counter + 1} |-> [val |-> v, deleted |-> FALSE]]
  <2>2. m \in RowMaps
    <3>1. counter \in Rows /\ counter + 1 \in Rows
      BY <1>1, <2>1, DirectFlushAssumption DEF InsertBatch, Rows
    <3>2. {counter, counter + 1} \in SUBSET Rows
      BY <3>1
    <3>3. m \in [{counter, counter + 1} -> Version]
      BY DEF Version
    <3> QED
      BY <3>2, <3>3, RowMapIntro
  <2>3. DOMAIN m # DOMAIN NoRows
    BY DEF NoRows
  <2>4. pc[c] = "idle" /\ StartWrite(c, "insert_batch", m) /\ UNCHANGED <<files, segments, held>>
    BY <2>1 DEF InsertBatch, May, disk
  <2> HIDE DEF m
  <2> QED
    BY <2>2, <2>3, <2>4, WriteBegins
<1>4. CASE \E row \in Rows : Delete(c, row)
  <2>1. PICK row \in Rows : Delete(c, row)
    BY <1>4
  <2> DEFINE m == [r \in {row} |-> [val |-> NoVal, deleted |-> TRUE]]
  <2>2. m \in RowMaps
    BY RowMapIntro DEF Version
  <2>3. DOMAIN m # DOMAIN NoRows
    BY DEF NoRows
  <2>4. pc[c] = "idle" /\ StartWrite(c, "delete", m) /\ UNCHANGED <<files, segments, held>>
    BY <2>1 DEF Delete, May, disk
  <2> HIDE DEF m
  <2> QED
    BY <2>2, <2>3, <2>4, WriteBegins
<1> QED
  BY <1>2, <1>3, <1>4

\* The row store does not see the file.
LEMMA WriteSegmentRefines ==
    ASSUME RInv, IInv', NEW c \in Clients, WriteSegment(c)
    PROVE  ReadersLive' /\ UNCHANGED Abstract!vars
<1>1. /\ pc' = [pc EXCEPT ![c] = "written"]
      /\ files' = [f \in DOMAIN files \cup {NewFile} |-> IF f = NewFile THEN hand[c] ELSE files[f]]
      /\ UNCHANGED <<segments, call, held, at, page, hand>> /\ pc[c] = "queued"
  BY DEF WriteSegment, memory
<1>2. TypeOK /\ SegmentsBacked /\ Len(segments) \in Nat /\ DOMAIN segments = 1 .. Len(segments) /\ IInv
  BY DEF RInv, IInv, FilesInv, TypeOK, MemoryType
<1>3. NewFile \notin DOMAIN files
  BY <1>2 DEF NewFile, TypeOK, DiskType
<1>4. \A i \in 1 .. Len(segments) : segments[i].file \in DOMAIN files
  BY <1>2 DEF SegmentsBacked, Exists
<1>5. \A i \in 1 .. Len(segments) : /\ files'[segments[i].file] = files[segments[i].file]
                                    /\ segments[i].file \in DOMAIN files'
  <2> HIDE DEF NewFile
  <2> QED
    BY <1>1, <1>3, <1>4
<1>6. Len(segments') = Len(segments)
  BY <1>1
<1>7. Grows
  <2>1. Len(segments') \in Nat /\ Len(segments) <= Len(segments')
    BY <1>1, <1>2
  <2> QED
    BY <1>1, <1>5, <2>1 DEF Grows, ListGrows
<1>8. Alone(c) /\ pc'[c] = "written" /\ hand'[c] = hand[c] /\ call'[c] = call[c]
  BY <1>1, <1>2 DEF Alone, Elsewhere, TypeOK, TaskType
<1>9. AbstractJob(c)' = AbstractJob(c) /\ ResultOf(c)' = ResultOf(c)
  <2>1. CASE call[c].op = "compact"
    BY <1>1, <1>8, <2>1, JobIsFor, JobCases DEF ResultOf
  <2>2. CASE call[c].op # "compact"
    BY <1>1, <1>8, <2>2, JobIsFor, JobCases DEF ResultOf
  <2> QED
    BY <2>1, <2>2
<1> QED
  BY <1>2, <1>6, <1>7, <1>8, <1>9, AloneLive, OthersAreStill, ViewStays, ToStutter DEF Alone

LEMMA WriteFailsRefines ==
    ASSUME RInv, IInv', NEW c \in Clients, WriteFails(c)
    PROVE  ReadersLive' /\ Abstract!Fail(c)
<1>1. TypeOK /\ pc[c] = "queued" /\ Return(c, "error", NoRows) /\ UNCHANGED <<files, segments>>
  BY DEF RInv, IInv, WriteFails, disk
<1>2. \A d \in Clients \ {c} : held'[d] = held[d]
  BY <1>1 DEF WriteFails, LetGo, TypeOK, TaskType
<1>3. /\ Alone(c)
      /\ AbstractJob(c)' = [kind |-> "none", arg |-> NoRows] /\ ResultOf(c)' = NoRows
  BY <1>1, <1>2, ReturnAlone
<1>4. ReadersLive' /\ OthersStay(c) /\ View' = View
  BY <1>1, <1>3, AloneStays
<1>5. AbstractJob(c).kind \in {"write", "compact"}
  <2>1. CASE call[c].op = "compact"
    BY <1>1, <2>1, JobIsFor, JobCases
  <2>2. CASE call[c].op # "compact"
    BY <1>1, <2>2, JobIsFor, JobCases
  <2> QED
    BY <2>1, <2>2
<1>6. Abstract!Finish(c, NoRows)
  BY <1>3, <1>4, ToFinish
<1> QED
  BY <1>4, <1>5, <1>6 DEF Abstract!Fail, Abstract!NoRows, NoRows

LEMMA AppendSegmentRefines ==
    ASSUME RInv, IInv', NEW c \in Clients, AppendSegment(c)
    PROVE  ReadersLive' /\ Abstract!Commit(c)
<1>1. /\ pc[c] = "written" /\ call[c].op # "compact"
      /\ segments' = Append(segments, Describe(out[c], hand[c]))
      /\ Return(c, "true", NoRows) /\ files' = files /\ held' = held
  BY DEF AppendSegment, disk
<1>2. TypeOK /\ segments \in Seq(Segment) /\ IInv /\ SegmentsBacked /\ WrittenFileSurvives
  BY DEF RInv, IInv, FilesInv, TypeOK, MemoryType
<1>3. Describe(out[c], hand[c]) \in Segment /\ Describe(out[c], hand[c]).file = out[c]
  BY <1>1, <1>2, WrittenSegment
<1>4. /\ Len(segments) \in Nat /\ Len(segments') = Len(segments) + 1
      /\ \A i \in 1 .. Len(segments) : segments'[i] = segments[i]
      /\ segments'[Len(segments) + 1] = Describe(out[c], hand[c])
  <2>1. \A seg \in Segment : /\ Len(Append(segments, seg)) = Len(segments) + 1
                             /\ \A i \in 1 .. Len(segments) : Append(segments, seg)[i] = segments[i]
                             /\ Append(segments, seg)[Len(segments) + 1] = seg
    BY <1>2
  <2>2. Len(segments) \in Nat
    BY <1>2
  <2> QED
    BY <1>1, <1>3, <2>1, <2>2
<1>5. Grows
  <2>1. \A i \in 1 .. Len(segments) : segments[i].file \in DOMAIN files
    BY <1>2 DEF SegmentsBacked, Exists
  <2> QED
    BY <1>1, <1>4, <2>1 DEF Grows, ListGrows
<1>6. files[out[c]] = hand[c] /\ hand[c] \in RowMaps
  BY <1>1, <1>2 DEF WrittenFileSurvives, TypeOK, TaskType
<1>7. View' = Merge(View, hand[c])
  <2>1. View = Newest(segments, files, Len(segments))
    BY <1>2, ViewIsNewest
  <2>2. View' = Newest(segments', files, Len(segments) + 1)
    BY <1>1, <1>4, ViewShownNext DEF IInv, FilesInv
  <2>3. files[segments'[Len(segments) + 1].file] = hand[c] /\ DOMAIN hand[c] \subseteq Rows
    BY <1>3, <1>4, <1>6, RowMapElim
  <2>4. Newest(segments', files, Len(segments) + 1)
          = Merge(Newest(segments', files, Len(segments)), hand[c])
    BY <1>4, <2>3, NewestNext
  <2>5. Newest(segments', files, Len(segments)) = Newest(segments, files, Len(segments))
    BY <1>4, NewestSame
  <2> QED
    BY <2>1, <2>2, <2>4, <2>5
<1>8. /\ Alone(c)
      /\ AbstractJob(c)' = [kind |-> "none", arg |-> NoRows] /\ ResultOf(c)' = NoRows
  BY <1>1, <1>2, ReturnAlone
<1>9. ReadersLive' /\ OthersStay(c)
  BY <1>5, <1>8, AloneLive, OthersAreStill DEF Alone
<1>10. AbstractJob(c) = [kind |-> "write", arg |-> hand[c]]
  BY <1>1, JobIsFor, JobCases
<1>11. Abstract!Finish(c, NoRows)
  BY <1>8, <1>9, ToFinish
<1> QED
  BY <1>7, <1>9, <1>10, <1>11 DEF Abstract!Commit, Abstract!Overlay, Merge, Abstract!NoRows, NoRows

\* get and update decide at their start what they will answer or write.
LEMMA GetOrUpdateRefines ==
    ASSUME RInv, IInv', NEW c \in Clients, NEW op, NEW row \in Rows, NEW val,
           op = "update" => val \in Vals, GetOrUpdate(c, op, row, val)
    PROVE  ReadersLive' /\ Abstract!Next
<1> DEFINE start == NextProbed(segments, Len(segments), row)
<1>1. /\ TypeOK /\ SegmentsBacked /\ pc[c] = "idle" /\ UNCHANGED <<files, segments>>
      /\ Len(segments) \in Nat /\ segments \in Seq(Segment) /\ op \in {"get", "update"}
  BY DEF RInv, IInv, FilesInv, TypeOK, MemoryType, GetOrUpdate, May, disk, memory
<1>2. AbstractJob(c) = [kind |-> "none", arg |-> NoRows]
  BY <1>1, JobIsFor, JobCases
<1>3. CASE Return(c, "missing", NoRows) /\ UNCHANGED held
  <2>1. /\ Alone(c)
        /\ AbstractJob(c)' = [kind |-> "none", arg |-> NoRows] /\ ResultOf(c)' = NoRows
    BY <1>1, <1>3, ReturnAlone
  <2>2. ReadersLive' /\ OthersStay(c) /\ View' = View
    BY <1>1, <2>1, AloneStays
  <2>3. Abstract!Finish(c, NoRows)
    BY <2>1, <2>2, ToFinish
  <2>4. Abstract!ReturnNothing(c)
    BY <1>2, <2>2, <2>3 DEF Abstract!ReturnNothing, Abstract!NoJob, Abstract!NoRows, NoRows
  <2> QED
    BY <2>2, <2>4 DEF Abstract!Next
<1>4. CASE /\ start # 0
           /\ pc' = [pc EXCEPT ![c] = "probing"]
           /\ call' = [call EXCEPT ![c] = [op |-> op, row |-> row, val |-> val]]
           /\ held' = [held EXCEPT ![c] = LiveList]
           /\ at' = [at EXCEPT ![c] = start]
           /\ page' = [page EXCEPT ![c] = files[segments[start].file]]
           /\ hand' = [hand EXCEPT ![c] = NoRows]
  <2> PICK part : part = Part(View, row)
    OBVIOUS
  <2>1. start \in 0 .. Len(segments)
    BY <1>1, NextProbedType
  <2> HIDE DEF start
  <2>2. /\ pc'[c] = "probing" /\ call'[c] = [op |-> op, row |-> row, val |-> val]
        /\ held'[c].live /\ at'[c] = start /\ Alone(c)
    BY <1>1, <1>4 DEF LiveList, Alone, Elsewhere, TypeOK, TaskType
  <2>3. ReadersLive' /\ OthersStay(c) /\ View' = View /\ Grows
    BY <1>1, <2>2, AloneStays
  <2>4. Found(ListOf(c), at[c], call[c].row)' = Found(segments, start, row)
    <3>1. Found(ListOf(c), at[c], call[c].row)' = Found(segments, at'[c], call'[c].row)
      BY <1>1, <2>1, <2>2, <2>3, FoundStays
    <3>2. call'[c].row = row
      BY <2>2
    <3> QED
      BY <2>2, <3>1, <3>2
  <2>5. Found(segments, start, row) = part
    <3>1. \A j \in start + 1 .. Len(segments) : row \notin DOMAIN files[segments[j].file]
      BY <1>1, NoneAhead DEF start
    <3>2. Part(Newest(segments, files, Len(segments)), row) = Part(Newest(segments, files, start), row)
      BY <1>1, <2>1, <3>1, PartSkips
    <3> QED
      BY <1>1, <2>1, <3>2, FoundIsPart, ViewIsNewest
  <2>6. AbstractJob(c)' = JobFor("probing", op, val, hand'[c], part) /\ ResultOf(c)' = NoRows
    BY <2>2, <2>4, <2>5, JobIsFor DEF ResultOf
  <2>7. part = [x \in {row} \cap DOMAIN View |-> View[x]]
    BY DEF Part
  <2>8. CASE op = "get" \/ part = NoRows
    <3>1. AbstractJob(c)' = [kind |-> "get", arg |-> part]
      BY <2>6, <2>8, JobGetting
    <3>2. Abstract!Begin(c, "get", part)
      BY <1>2, <2>3, <2>6, <3>1, ToBegin
    <3>3. Abstract!BeginGet(c)
      BY <2>7, <3>2 DEF Abstract!BeginGet, Abstract!Begin
    <3> QED
      BY <2>3, <3>3 DEF Abstract!Next
  <2>9. CASE op = "update" /\ part # NoRows
    <3> DEFINE arg == [x \in {row} |-> [View[row] EXCEPT !.val = val]]
    <3>1. row \in DOMAIN View
      BY <2>7, <2>9 DEF NoRows
    <3>2. DOMAIN part = {row} /\ part[row] = View[row]
      BY <2>7, <3>1
    <3>3. AbstractJob(c)' = [kind |-> "write", arg |-> [r \in DOMAIN part |-> [part[r] EXCEPT !.val = val]]]
      BY <2>6, <2>9, JobUpdating
    <3>4. AbstractJob(c)' = [kind |-> "write", arg |-> arg]
      BY <3>2, <3>3
    <3>5. Abstract!Begin(c, "write", arg)
      <4> PICK merged : merged = arg
        OBVIOUS
      <4>1. AbstractJob(c)' = [kind |-> "write", arg |-> merged]
        BY <3>4
      <4>2. Abstract!Begin(c, "write", merged)
        BY <1>2, <2>3, <2>6, <4>1, ToBegin
      <4> QED
        BY <4>2 DEF Abstract!Begin
    <3>6. Abstract!BeginUpdate(c)
      BY <2>9, <3>1, <3>5 DEF Abstract!BeginUpdate, Abstract!Begin
    <3> QED
      BY <2>3, <3>6 DEF Abstract!Next
  <2> QED
    BY <1>1, <2>8, <2>9
<1> QED
  BY <1>3, <1>4 DEF GetOrUpdate

\* What a get knows at its position.
LEMMA ProbeKnows ==
    ASSUME RInv, NEW c \in Clients, pc[c] = "probing"
    PROVE  /\ TypeOK /\ SegmentsBacked /\ held[c].live /\ ListOf(c) = segments
           /\ at[c] \in 1 .. Len(segments) /\ Len(segments) \in Nat /\ segments \in Seq(Segment)
           /\ call[c].op \in {"get", "update"} /\ call[c].row \in Rows
           /\ page[c] = files[segments[at[c]].file]
           /\ Found(ListOf(c), at[c], call[c].row) = Part(Newest(segments, files, at[c]), call[c].row)
<1>1. /\ TypeOK /\ SegmentsBacked /\ held[c].live /\ ListOf(c) = segments
      /\ page[c] = files[segments[at[c]].file]
  BY DEF RInv, IInv, FilesInv, ReadersLive, ListOf, ReadersOK, ReaderOK
<1>2. /\ at[c] \in 1 .. Len(segments) /\ Len(segments) \in Nat /\ segments \in Seq(Segment)
      /\ call[c].op \in {"get", "update"} /\ call[c].row \in Rows
  BY <1>1 DEF TypeOK, MemoryType, Ready
<1>3. at[c] \in 0 .. Len(segments)
  BY <1>2
<1> QED
  BY <1>1, <1>2, <1>3, FoundIsPart

\* A get that goes on, or gives up, was not to find the row where it was.
LEMMA ProbeSkips ==
    ASSUME RInv, NEW c \in Clients, pc[c] = "probing", call[c].row \notin DOMAIN page[c]
    PROVE  LET next == NextProbed(segments, at[c] - 1, call[c].row)
           IN  /\ next \in 0 .. Len(segments)
               /\ Found(ListOf(c), at[c], call[c].row) = Part(Newest(segments, files, next), call[c].row)
<1> DEFINE next == NextProbed(segments, at[c] - 1, call[c].row)
<1>1. /\ TypeOK /\ SegmentsBacked /\ at[c] \in 1 .. Len(segments) /\ Len(segments) \in Nat
      /\ segments \in Seq(Segment) /\ page[c] = files[segments[at[c]].file]
      /\ Found(ListOf(c), at[c], call[c].row) = Part(Newest(segments, files, at[c]), call[c].row)
  BY ProbeKnows
<1>2. at[c] - 1 \in 0 .. Len(segments) /\ at[c] \in Nat
  BY <1>1
<1>3. next \in 0 .. at[c] - 1
  BY <1>1, <1>2, NextProbedType
<1>4. \A j \in next + 1 .. at[c] - 1 : call[c].row \notin DOMAIN files[segments[j].file]
  BY <1>1, <1>2, NoneAhead
<1> HIDE DEF next
<1>5. \A j \in next + 1 .. at[c] : j = at[c] \/ j \in next + 1 .. at[c] - 1
  BY <1>2, <1>3
<1>6. \A j \in next + 1 .. at[c] : call[c].row \notin DOMAIN files[segments[j].file]
  BY <1>1, <1>4, <1>5
<1>7. next \in 0 .. at[c] /\ next \in 0 .. Len(segments)
  BY <1>1, <1>2, <1>3
<1>8. Part(Newest(segments, files, at[c]), call[c].row) = Part(Newest(segments, files, next), call[c].row)
  BY <1>2, <1>6, <1>7, PartSkips
<1> QED
  BY <1>1, <1>7, <1>8 DEF next

LEMMA ProbeRefines ==
    ASSUME RInv, IInv', NEW c \in Clients, Probe(c)
    PROVE  ReadersLive' /\ [Abstract!Next]_Abstract!vars
<1> PICK row : row = call[c].row
  OBVIOUS
<1> PICK next : next = NextProbed(segments, at[c] - 1, row)
  OBVIOUS
<1> PICK found : found = Found(ListOf(c), at[c], row)
  OBVIOUS
<1>1. /\ pc[c] = "probing" /\ UNCHANGED <<files, segments>>
      /\ TypeOK /\ SegmentsBacked /\ held[c].live /\ ListOf(c) = segments
      /\ at[c] \in 1 .. Len(segments) /\ Len(segments) \in Nat
      /\ call[c].op \in {"get", "update"} /\ row \in Rows
      /\ page[c] = files[segments[at[c]].file]
      /\ found = Part(Newest(segments, files, at[c]), row)
  BY ProbeKnows DEF Probe, disk
<1>2. Exists(ListOf(c)[at[c]])
  BY <1>1 DEF SegmentsBacked, TypeOK, MemoryType
<1>3. LetGo(c) => \A d \in Clients \ {c} : held'[d] = held[d]
  BY <1>1 DEF LetGo, TypeOK, TaskType
<1>4. AbstractJob(c) = JobFor("probing", call[c].op, call[c].val, hand[c], found)
  BY <1>1, JobIsFor
<1>5. ResultOf(c) = NoRows
  BY <1>1 DEF ResultOf
<1>6. ASSUME NEW outcome, Return(c, outcome, found), LetGo(c),
             AbstractJob(c) = [kind |-> "get", arg |-> found]
      PROVE  ReadersLive' /\ [Abstract!Next]_Abstract!vars
  <2>1. /\ Alone(c)
        /\ AbstractJob(c)' = [kind |-> "none", arg |-> NoRows] /\ ResultOf(c)' = found
    BY <1>1, <1>3, <1>6, ReturnAlone
  <2>2. ReadersLive' /\ OthersStay(c) /\ View' = View
    BY <1>1, <2>1, AloneStays
  <2>3. Abstract!Finish(c, found)
    BY <2>1, <2>2, ToFinish
  <2>4. Abstract!EndGet(c)
    <3>1. AbstractJob(c).kind = "get" /\ AbstractJob(c).arg = found
      BY <1>6
    <3> QED
      BY <2>2, <2>3, <3>1 DEF Abstract!EndGet, Abstract!Finish
  <2> QED
    BY <2>2, <2>4 DEF Abstract!Next
<1>7. CASE row \in DOMAIN page[c] /\ GotVersion(c, page[c][row]) /\ LetGo(c)
  <2>1. found = [x \in {row} |-> page[c][row]]
    <3>1. at[c] \in Nat /\ at[c] >= 1 /\ row \in DOMAIN files[segments[at[c]].file]
      BY <1>1, <1>7
    <3>2. Part(Newest(segments, files, at[c]), row) = [x \in {row} |-> files[segments[at[c]].file][row]]
      BY <1>1, <3>1, NewestHere DEF Part
    <3> QED
      BY <1>1, <3>2
  <2>2. CASE call[c].op = "get"
    <3>1. AbstractJob(c) = [kind |-> "get", arg |-> found]
      BY <1>4, <2>2, JobGetting
    <3>2. Return(c, "found", found)
      BY <1>7, <2>1, <2>2 DEF GotVersion
    <3> QED
      BY <1>6, <1>7, <3>1, <3>2
  <2>3. CASE call[c].op = "update"
    <3> DEFINE arg == [r \in {row} |-> [page[c][row] EXCEPT !.val = call[c].val]]
    <3>1. StartWrite(c, "update", arg)
      BY <1>7, <2>3 DEF GotVersion
    <3>2. /\ Alone(c) /\ AbstractJob(c)' = [kind |-> "write", arg |-> arg] /\ ResultOf(c)' = NoRows
      BY <1>1, <1>3, <1>7, <3>1, StartWriteAlone
    <3>3. DOMAIN found = {row} /\ found[row] = page[c][row] /\ found # NoRows
      BY <2>1 DEF NoRows
    <3>4. AbstractJob(c) = [kind |-> "write", arg |-> [r \in DOMAIN found |-> [found[r] EXCEPT !.val = call[c].val]]]
      BY <1>4, <2>3, <3>3, JobUpdating
    <3>5. AbstractJob(c) = [kind |-> "write", arg |-> arg]
      BY <3>3, <3>4
    <3> QED
      BY <1>1, <1>5, <3>2, <3>5, AloneStays, ToStutter
  <2> QED
    BY <1>1, <2>2, <2>3
<1>8. CASE row \notin DOMAIN page[c] /\ next = 0 /\ Return(c, "missing", NoRows) /\ LetGo(c)
  <2>1. found = Part(Newest(segments, files, 0), row)
    BY <1>1, <1>8, ProbeSkips
  <2>2. found = NoRows
    BY <2>1, NewestNone DEF Part, NoRows
  <2>3. AbstractJob(c) = [kind |-> "get", arg |-> found]
    BY <1>4, <2>2, JobGetting
  <2> QED
    BY <1>6, <1>8, <2>2, <2>3
<1>9. CASE /\ row \notin DOMAIN page[c] /\ next # 0
           /\ at' = [at EXCEPT ![c] = next]
           /\ page' = [page EXCEPT ![c] = files[ListOf(c)[next].file]]
           /\ UNCHANGED <<pc, call, held, hand>>
  <2>1. next \in 0 .. Len(segments) /\ found = Part(Newest(segments, files, next), row)
    BY <1>1, <1>9, ProbeSkips
  <2>2. Found(segments, next, row) = found
    BY <1>1, <2>1, FoundIsPart
  <2>3. Alone(c) /\ at'[c] = next
    BY <1>1, <1>9 DEF Alone, Elsewhere, TypeOK, TaskType
  <2>4. ReadersLive' /\ OthersStay(c) /\ View' = View /\ Grows
    BY <1>1, <2>3, AloneStays
  <2>5. Found(ListOf(c), at[c], call[c].row)' = Found(segments, next, row)
    BY <1>1, <1>9, <2>1, <2>3, <2>4, FoundStays
  <2>6. AbstractJob(c)' = AbstractJob(c) /\ ResultOf(c)' = ResultOf(c)
    BY <1>9, <2>2, <2>5, JobIsFor DEF ResultOf
  <2> QED
    BY <2>4, <2>6, ToStutter
<1>10. \/ row \in DOMAIN page[c] /\ GotVersion(c, page[c][row]) /\ LetGo(c)
       \/ row \notin DOMAIN page[c] /\ next = 0 /\ Return(c, "missing", NoRows) /\ LetGo(c)
       \/ /\ row \notin DOMAIN page[c] /\ next # 0
          /\ at' = [at EXCEPT ![c] = next]
          /\ page' = [page EXCEPT ![c] = files[ListOf(c)[next].file]]
          /\ UNCHANGED <<pc, call, held, hand>>
  BY <1>1, <1>2 DEF Probe
<1> QED
  BY <1>7, <1>8, <1>9, <1>10

\* scan and compact begin, and are over at once on an empty table.
LEMMA ScanRefines ==
    ASSUME RInv, IInv', NEW c \in Clients, NEW op, ScanOrCompact(c, op)
    PROVE  ReadersLive' /\ Abstract!Next
<1>1. /\ TypeOK /\ SegmentsBacked /\ pc[c] = "idle" /\ UNCHANGED <<files, segments>>
      /\ op \in {"scan", "compact"} /\ ScanFrom(c, op, LiveList, 1, NoRows)
  BY DEF RInv, IInv, FilesInv, ScanOrCompact, May, disk
<1>2. AbstractJob(c) = [kind |-> "none", arg |-> NoRows]
  BY <1>1, JobIsFor, JobCases
<1>3. \A d \in Clients \ {c} : held'[d] = held[d]
  BY <1>1, TurnMovesOne
<1>4. ASSUME NEW outcome, Return(c, outcome, NoRows)
      PROVE  ReadersLive' /\ Abstract!Next
  <2>1. /\ Alone(c)
        /\ AbstractJob(c)' = [kind |-> "none", arg |-> NoRows] /\ ResultOf(c)' = NoRows
    BY <1>1, <1>3, <1>4, ReturnAlone
  <2>2. ReadersLive' /\ OthersStay(c) /\ View' = View
    BY <1>1, <2>1, AloneStays
  <2>3. Abstract!Finish(c, NoRows)
    BY <2>1, <2>2, ToFinish
  <2>4. Abstract!ReturnNothing(c)
    BY <1>2, <2>2, <2>3 DEF Abstract!ReturnNothing, Abstract!NoJob, Abstract!NoRows, NoRows
  <2> QED
    BY <2>2, <2>4 DEF Abstract!Next
<1>5. CASE /\ pc' = [pc EXCEPT ![c] = "scanning"]
           /\ call' = [call EXCEPT ![c] = [NoCall EXCEPT !.op = op]]
           /\ held' = [held EXCEPT ![c] = LiveList]
           /\ \E n : at' = [at EXCEPT ![c] = n]
           /\ \E p : page' = [page EXCEPT ![c] = p]
           /\ hand' = [hand EXCEPT ![c] = NoRows]
  <2>1. Alone(c) /\ pc'[c] = "scanning" /\ call'[c].op = op
    BY <1>1, <1>5 DEF Alone, Elsewhere, LiveList, NoCall, TypeOK, TaskType
  <2>2. ReadersLive' /\ OthersStay(c) /\ View' = View
    BY <1>1, <2>1, AloneStays
  <2>3. AbstractJob(c)' = [kind |-> op, arg |-> NoRows] /\ ResultOf(c)' = NoRows
    BY <2>1, JobIsFor, JobCases DEF ResultOf
  <2>4. Abstract!Begin(c, op, NoRows)
    BY <1>2, <2>2, <2>3, ToBegin
  <2>5. Abstract!BeginPass(c)
    BY <1>1, <2>4 DEF Abstract!BeginPass, Abstract!NoRows, NoRows
  <2> QED
    BY <2>2, <2>5 DEF Abstract!Next
<1>6. Active(NoRows) = NoRows
  BY DEF Active, Only, NoRows
<1> QED
  BY <1>1, <1>4, <1>5, <1>6 DEF ScanFrom, ScanEnds

\* A scan goes on unseen, and ends with the table as it is then; a compact with
\* nothing to keep changes nothing.
LEMMA ScanSegmentRefines ==
    ASSUME RInv, IInv', NEW c \in Clients, Snapshot(c), ScanSegment(c)
    PROVE  ReadersLive' /\ [Abstract!Next]_Abstract!vars
<1>1. /\ TypeOK /\ SegmentsBacked /\ pc[c] = "scanning" /\ UNCHANGED <<files, segments>>
      /\ held[c].live /\ ListOf(c) = segments
  BY DEF RInv, IInv, FilesInv, ScanSegment, disk, ReadersLive, ListOf
<1> PICK op : op = call[c].op
  OBVIOUS
<1>2. op \in {"scan", "compact"} /\ Exists(ListOf(c)[at[c]])
  BY <1>1 DEF TypeOK, Ready, TaskType, MemoryType, SegmentsBacked
<1> PICK rows : rows = Merge(hand[c], page[c])
  OBVIOUS
<1>3. ScanFrom(c, op, held[c], at[c] + 1, rows)
  BY <1>2 DEF ScanSegment
<1>4. \A d \in Clients \ {c} : held'[d] = held[d]
  BY <1>1, <1>3, TurnMovesOne
<1>5. AbstractJob(c) = [kind |-> op, arg |-> NoRows] /\ ResultOf(c) = NoRows
  BY <1>1, JobIsFor, JobCases DEF ResultOf
<1>6. CASE op = "scan" /\ Return(c, "scanned", rows)
  <2>1. /\ Alone(c)
        /\ AbstractJob(c)' = [kind |-> "none", arg |-> NoRows] /\ ResultOf(c)' = rows
    BY <1>1, <1>4, <1>6, ReturnAlone
  <2>2. ReadersLive' /\ OthersStay(c) /\ View' = View
    BY <1>1, <2>1, AloneStays
  <2>3. rows = View
    <3>1. pc'[c] = "idle" /\ reply'[c] = "scanned" /\ hand'[c] = rows
      BY <1>1, <1>6 DEF Return, TypeOK, TaskType
    <3> QED
      BY <1>1, <3>1 DEF Snapshot
  <2>4. Abstract!Finish(c, View)
    <3>1. Abstract!Finish(c, rows)
      BY <2>1, <2>2, ToFinish
    <3> QED
      BY <2>3, <3>1 DEF Abstract!Finish
  <2>5. Abstract!EndScan(c)
    BY <1>5, <1>6, <2>2, <2>4 DEF Abstract!EndScan
  <2> QED
    BY <2>2, <2>5 DEF Abstract!Next
<1>7. CASE op = "compact" /\ Return(c, "compacted", NoRows)
  <2>1. /\ Alone(c)
        /\ AbstractJob(c)' = [kind |-> "none", arg |-> NoRows] /\ ResultOf(c)' = NoRows
    BY <1>1, <1>4, <1>7, ReturnAlone
  <2>2. ReadersLive' /\ OthersStay(c) /\ View' = View
    BY <1>1, <2>1, AloneStays
  <2>3. Abstract!Finish(c, NoRows)
    BY <2>1, <2>2, ToFinish
  <2>4. Abstract!EndCompact(c)
    BY <1>5, <1>7, <2>2, <2>3 DEF Abstract!EndCompact, Abstract!NoRows, NoRows
  <2> QED
    BY <2>2, <2>4 DEF Abstract!Next
<1>8. CASE op = "compact" /\ \E kept : StartWrite(c, "compact", kept)
  <2>1. pc'[c] = "queued" /\ call'[c].op = "compact" /\ Alone(c)
    BY <1>1, <1>4, <1>8 DEF StartWrite, NoCall, Alone, Elsewhere, TypeOK, TaskType
  <2>2. ReadersLive' /\ OthersStay(c) /\ View' = View
    BY <1>1, <2>1, AloneStays
  <2>3. AbstractJob(c)' = [kind |-> "compact", arg |-> NoRows] /\ ResultOf(c)' = NoRows
    BY <2>1, JobIsFor, JobCases DEF ResultOf
  <2> QED
    BY <1>5, <1>8, <2>2, <2>3, ToStutter
<1>9. CASE /\ pc' = [pc EXCEPT ![c] = "scanning"]
           /\ call' = [call EXCEPT ![c] = [NoCall EXCEPT !.op = op]]
           /\ held' = [held EXCEPT ![c] = held[c]]
           /\ \E n : at' = [at EXCEPT ![c] = n]
           /\ \E p : page' = [page EXCEPT ![c] = p]
           /\ hand' = [hand EXCEPT ![c] = rows]
  <2>1. Alone(c) /\ pc'[c] = "scanning" /\ call'[c].op = op
    BY <1>1, <1>9 DEF Alone, Elsewhere, NoCall, TypeOK, TaskType
  <2>2. ReadersLive' /\ OthersStay(c) /\ View' = View
    BY <1>1, <2>1, AloneStays
  <2>3. AbstractJob(c)' = [kind |-> op, arg |-> NoRows] /\ ResultOf(c)' = NoRows
    BY <2>1, JobIsFor, JobCases DEF ResultOf
  <2> QED
    BY <1>5, <2>2, <2>3, ToStutter
<1> QED
  BY <1>2, <1>3, <1>6, <1>7, <1>8, <1>9 DEF ScanFrom, ScanEnds

\* Every step but those that replace the list, which compact and clear_table end with.
LEMMA RefinesUnlessReplaced ==
    ASSUME RInv, IInv', \A c \in Clients : Snapshot(c) /\ ~ClearTable(c) /\ ~InstallCompacted(c),
           ~Restart, [Next]_vars
    PROVE  ReadersLive' /\ [Abstract!Next]_Abstract!vars
<1>1. ASSUME NEW c \in Clients, Begin(c)
      PROVE  ReadersLive' /\ [Abstract!Next]_Abstract!vars
  <2>1. CASE \/ \E v \in Vals : Insert(c, v) \/ InsertBatch(c, v)
             \/ \E r \in Rows : Delete(c, r)
    BY <2>1, WritesRefine DEF Abstract!Next
  <2>2. ASSUME NEW r \in Rows, GetOrUpdate(c, "get", r, NoVal)
        PROVE  ReadersLive' /\ [Abstract!Next]_Abstract!vars
    BY <2>2, GetOrUpdateRefines
  <2>3. ASSUME NEW r \in Rows, NEW v \in Vals, GetOrUpdate(c, "update", r, v)
        PROVE  ReadersLive' /\ [Abstract!Next]_Abstract!vars
    BY <2>3, GetOrUpdateRefines
  <2>4. ASSUME NEW op, ScanOrCompact(c, op)
        PROVE  ReadersLive' /\ [Abstract!Next]_Abstract!vars
    BY <2>4, ScanRefines
  <2> QED
    BY <1>1, <2>1, <2>2, <2>3, <2>4 DEF Begin
<1>2. ASSUME NEW c \in Clients, Resume(c)
      PROVE  ReadersLive' /\ [Abstract!Next]_Abstract!vars
  <2>1. CASE WriteSegment(c)
    BY <2>1, WriteSegmentRefines
  <2>2. CASE WriteFails(c)
    BY <2>2, WriteFailsRefines DEF Abstract!Next
  <2>3. CASE AppendSegment(c)
    BY <2>3, AppendSegmentRefines DEF Abstract!Next
  <2> QED
    BY <1>2, <2>1, <2>2, <2>3, ProbeRefines, ScanSegmentRefines DEF Resume
<1>3. CASE UNCHANGED vars
  <2>1. ReadersLive'
    BY <1>3 DEF RInv, ReadersLive, vars, local
  <2>2. UNCHANGED Abstract!vars
    BY <1>3 DEF Abstract!vars, vars, disk, memory, local, View, Holding, Exists, AbstractJob, Found,
                LastAt, ListOf
  <2> QED
    BY <2>1, <2>2
<1> QED
  BY <1>1, <1>2, <1>3 DEF Next

\* What a task is in at the start, as the row store sees it.
LEMMA RefinesInit ==
    ASSUME Init
    PROVE  RInv /\ Abstract!Init
<1>1. IInv /\ ReadersOK /\ ReadersLive
  BY InitStep, FilesInit DEF IInv, Init, ReadersOK, ReaderOK, ReadersLive
<1>2. View = NoRows
  <2>1. TypeOK /\ SegmentsBacked /\ Len(segments) = 0
    BY <1>1 DEF IInv, FilesInv, Init
  <2> QED
    BY <2>1, ViewIsNewest, NewestNone
<1>3. \A c \in Clients : /\ AbstractJob(c) = [kind |-> "none", arg |-> NoRows]
                         /\ pc[c] = "idle" /\ hand[c] = NoRows
  <2>1. \A c \in Clients : pc[c] = "idle" /\ hand[c] = NoRows
    BY DEF Init
  <2> QED
    BY <2>1, JobIsFor, JobCases
<1>4. Abstract!Init
  BY <1>2, <1>3 DEF Abstract!Init, Abstract!NoJob, Abstract!NoRows, NoRows
<1> QED
  BY <1>1, <1>4 DEF RInv

\* As long as nobody compacts, clears or dies, the manager behaves as one map:
\* writes take effect at once or not at all, a get answers with the map as it was
\* when the call began, a scan with the map as it is when it ends.
THEOREM AppendsImplementRowStore ==
    ASSUME Operations \subseteq GrowingOperations
    PROVE  Spec => ImplementsRowStore
<1>1. Init => RInv /\ Abstract!Init
  BY RefinesInit
<1>2. RInv /\ [Next]_vars => RInv' /\ [Abstract!Next]_Abstract!vars
  <2> SUFFICES ASSUME RInv, [Next]_vars
               PROVE  RInv' /\ [Abstract!Next]_Abstract!vars
    OBVIOUS
  <2>1. IInv' /\ ReadersOK' /\ \A c \in Clients : Snapshot(c)
    BY TypeAndLockStep, FilesStep, ReadersStep DEF RInv, IInv
  <2>2. \A c \in Clients : ~ClearTable(c) /\ ~InstallCompacted(c)
    BY DEF ClearTable, May, InstallCompacted, RInv, IInv, TypeOK, TaskType, GrowingOperations
  <2>3. ~Restart
    BY DEF Restart, GrowingOperations
  <2> QED
    BY <2>1, <2>2, <2>3, RefinesUnlessReplaced DEF RInv
<1> QED
  BY <1>1, <1>2, PTL DEF Spec, ImplementsRowStore, Abstract!Spec

-----------------------------------------------------------------------------
(* What compact keeps, when one task has the table to itself. *)

\* The task walks the bound list, and what it is about to install is the table
\* without its deleted rows.
AloneOK(c) ==
    /\ pc[c] \in {"probing", "scanning"} => held[c].live
    /\ pc[c] \in Suspended /\ call[c].op = "compact" => held[c].live /\ hand[c] = Active(View)

CInv == IInv /\ ReadersOK /\ \A c \in Clients : AloneOK(c)

\* A scan past the end of the bound list has collected the table.
LEMMA LastTurn ==
    ASSUME IInv, NEW i \in 1 .. Len(segments) + 1, NextScanned(segments, i) > Len(segments)
    PROVE  Newest(segments, files, i - 1) = View
<1>1. TypeOK /\ SegmentsBacked /\ i \in Nat /\ i >= 1 /\ Len(segments) \in Nat
  BY DEF IInv, FilesInv, TypeOK, MemoryType
<1>2. NextScanned(segments, i) = i
  BY <1>1, NoneSkipped
<1>3. i - 1 = Len(segments)
  BY <1>1, <1>2
<1> QED
  BY <1>1, <1>3, ViewIsNewest

\* A task that leaves its call, or queues with a write of its own.
LEMMA AloneLeaves ==
    ASSUME TypeOK, NEW c \in Clients,
           \/ \E outcome, rows : Return(c, outcome, rows)
           \/ \E op, rows : StartWrite(c, op, rows) /\ op # "compact"
    PROVE  AloneOK(c)'
<1>1. CASE \E outcome, rows : Return(c, outcome, rows)
  <2>1. pc'[c] = "idle"
    BY <1>1 DEF Return, TypeOK, TaskType
  <2> QED
    BY <2>1 DEF AloneOK, Suspended
<1>2. CASE \E op, rows : StartWrite(c, op, rows) /\ op # "compact"
  <2>1. pc'[c] = "queued" /\ call'[c].op # "compact"
    BY <1>2 DEF StartWrite, NoCall, TypeOK, TaskType
  <2> QED
    BY <2>1 DEF AloneOK, Suspended
<1> QED
  BY <1>1, <1>2

\* A turn of the loop over the bound list.
LEMMA AloneTurns ==
    ASSUME IInv, IInv', NEW c \in Clients, NEW op, NEW ref, ref.live, NEW i \in 1 .. Len(segments) + 1,
           NEW rows, ScanFrom(c, op, ref, i, rows), UNCHANGED <<files, segments>>,
           rows = Newest(segments, files, i - 1)
    PROVE  AloneOK(c)'
<1>1. TypeOK /\ Grows /\ Len(segments') = Len(segments)
  BY ListStays DEF IInv, FilesInv, Grows, SegmentsBacked, Exists, TypeOK, MemoryType
<1>2. CASE NextScanned(segments, i) > Len(segments)
  <2>1. rows = View /\ View' = View
    BY <1>1, <1>2, LastTurn, ViewStays
  <2>2. ScanEnds(c, op, rows)
    BY <1>2 DEF ScanFrom
  <2>3. CASE StartWrite(c, "compact", Active(rows)) /\ held' = [held EXCEPT ![c] = LiveList]
    <3>1. pc'[c] = "queued" /\ hand'[c] = Active(rows) /\ held'[c].live
      BY <1>1, <2>3 DEF StartWrite, LiveList, TypeOK, TaskType
    <3>2. Active(View)' = Active(View)
      BY <2>1
    <3> QED
      BY <2>1, <3>1, <3>2 DEF AloneOK, Suspended
  <2>4. CASE \E outcome, rs : Return(c, outcome, rs)
    BY <1>1, <2>4, AloneLeaves
  <2> QED
    BY <2>2, <2>3, <2>4 DEF ScanEnds
<1>3. CASE ~(NextScanned(segments, i) > Len(segments))
  <2>1. pc' = [pc EXCEPT ![c] = "scanning"] /\ held' = [held EXCEPT ![c] = ref]
    BY <1>3 DEF ScanFrom
  <2>2. pc'[c] = "scanning" /\ held'[c].live
    BY <1>1, <2>1 DEF TypeOK, TaskType
  <2> QED
    BY <2>2 DEF AloneOK, Suspended
<1> QED
  BY <1>2, <1>3

\* The file of the new segment is written while the list stays as it was.
LEMMA AloneWrites ==
    ASSUME CInv, IInv', NEW c \in Clients, WriteSegment(c)
    PROVE  AloneOK(c)'
<1>1. /\ pc' = [pc EXCEPT ![c] = "written"]
      /\ files' = [f \in DOMAIN files \cup {NewFile} |-> IF f = NewFile THEN hand[c] ELSE files[f]]
      /\ UNCHANGED <<segments, call, held, at, page, hand>> /\ pc[c] = "queued"
  BY DEF WriteSegment, memory
<1>2. TypeOK /\ SegmentsBacked /\ Len(segments) \in Nat /\ DOMAIN segments = 1 .. Len(segments) /\ IInv
  BY DEF CInv, IInv, FilesInv, TypeOK, MemoryType
<1>3. NewFile \notin DOMAIN files
  BY <1>2 DEF NewFile, TypeOK, DiskType
<1>4. \A i \in 1 .. Len(segments) : segments[i].file \in DOMAIN files
  BY <1>2 DEF SegmentsBacked, Exists
<1>5. \A i \in 1 .. Len(segments) : /\ files'[segments[i].file] = files[segments[i].file]
                                    /\ segments[i].file \in DOMAIN files'
  <2> HIDE DEF NewFile
  <2> QED
    BY <1>1, <1>3, <1>4
<1>6. Len(segments') = Len(segments)
  BY <1>1
<1>7. Grows
  <2>1. Len(segments') \in Nat /\ Len(segments) <= Len(segments')
    BY <1>1, <1>2
  <2> QED
    BY <1>1, <1>5, <2>1 DEF Grows, ListGrows
<1>8. View' = View
  BY <1>2, <1>6, <1>7, ViewStays
<1>9. Active(View)' = Active(View)
  BY <1>8
<1>10. pc'[c] = "written" /\ hand'[c] = hand[c] /\ call'[c] = call[c] /\ held'[c] = held[c]
  BY <1>1, <1>2 DEF TypeOK, TaskType
<1>11. AloneOK(c)
  BY DEF CInv
<1> QED
  BY <1>1, <1>9, <1>10, <1>11 DEF AloneOK, Suspended

\* What compact installs shows the rows it has in hand.
LEMMA InstalledIsShown ==
    ASSUME CInv, IInv', NEW c \in Clients, InstallCompacted(c)
    PROVE  View' = Active(View)
<1>1. /\ pc[c] = "written" /\ call[c].op = "compact" /\ segments' = <<Describe(out[c], hand[c])>>
      /\ files' = Only(files, DOMAIN files \ (FilesOf(ListOf(c)) \ {out[c]}))
  BY DEF InstallCompacted
<1>2. TypeOK /\ out[c] \in DOMAIN files /\ files[out[c]] = hand[c] /\ hand[c] \in RowMaps
      /\ hand[c] = Active(View)
  BY <1>1 DEF CInv, IInv, FilesInv, WrittenFileSurvives, TypeOK, TaskType, AloneOK, Suspended
<1>3. files'[out[c]] = hand[c]
  BY <1>1, <1>2 DEF Only
<1>4. Describe(out[c], hand[c]).file = out[c]
  BY <1>1, <1>2, WrittenSegment
<1>5. Len(segments') = 0 + 1 /\ segments'[0 + 1].file = out[c]
  BY <1>1, <1>4
<1>6. View' = Newest(segments', files', 0 + 1)
  BY <1>5, ViewShownNext DEF IInv, FilesInv
<1>7. Newest(segments', files', 0 + 1) = Merge(Newest(segments', files', 0), hand[c])
  <2>1. DOMAIN hand[c] \subseteq Rows /\ files'[segments'[0 + 1].file] = hand[c]
    BY <1>2, <1>3, <1>5, RowMapElim
  <2> QED
    BY <2>1, NewestNext
<1>8. Merge(NoRows, hand[c]) = hand[c]
  <2>1. hand[c] = [r \in DOMAIN hand[c] |-> hand[c][r]]
    BY <1>2, RowMapElim
  <2>2. Merge(NoRows, hand[c]) = [r \in DOMAIN hand[c] |-> hand[c][r]]
    BY DEF Merge, NoRows
  <2> QED
    BY <2>1, <2>2
<1> QED
  BY <1>2, <1>6, <1>7, <1>8, NewestNone

LEMMA AloneStep ==
    ASSUME CInv, IInv', \A c, d \in Clients : c = d, [Next]_vars
    PROVE  /\ \A c \in Clients : AloneOK(c)'
           /\ \A c \in Clients : InstallCompacted(c) => View' = Active(View)
<1>1. TypeOK /\ IInv
  BY DEF CInv, IInv
<1>2. ASSUME NEW c \in Clients, Begin(c)
      PROVE  AloneOK(c)'
  <2>1. CASE \/ \E v \in Vals : Insert(c, v) \/ InsertBatch(c, v)
             \/ \E r \in Rows : Delete(c, r)
    <3>1. \E op, rows : StartWrite(c, op, rows) /\ op # "compact"
      <4>1. CASE \E v \in Vals : Insert(c, v)
        <5>1. PICK v \in Vals : Insert(c, v)
          BY <4>1
        <5>2. StartWrite(c, "insert", [r \in {counter} |-> [val |-> v, deleted |-> FALSE]])
          BY <5>1 DEF Insert
        <5> QED
          BY <5>2
      <4>2. CASE \E v \in Vals : InsertBatch(c, v)
        <5>1. PICK v \in Vals : InsertBatch(c, v)
          BY <4>2
        <5>2. StartWrite(c, "insert_batch",
                         [r \in {counter, counter + 1} |-> [val |-> v, deleted |-> FALSE]])
          BY <5>1 DEF InsertBatch
        <5> QED
          BY <5>2
      <4>3. CASE \E r \in Rows : Delete(c, r)
        <5>1. PICK row \in Rows : Delete(c, row)
          BY <4>3
        <5>2. StartWrite(c, "delete", [r \in {row} |-> [val |-> NoVal, deleted |-> TRUE]])
          BY <5>1 DEF Delete
        <5> QED
          BY <5>2
      <4> QED
        BY <2>1, <4>1, <4>2, <4>3
    <3> QED
      BY <1>1, <3>1, AloneLeaves
  <2>2. ASSUME NEW op, NEW row, NEW val, GetOrUpdate(c, op, row, val)
        PROVE  AloneOK(c)'
    <3>1. CASE Return(c, "missing", NoRows)
      BY <1>1, <3>1, AloneLeaves
    <3>2. CASE pc' = [pc EXCEPT ![c] = "probing"] /\ held' = [held EXCEPT ![c] = LiveList]
      <4>1. pc'[c] = "probing" /\ held'[c].live
        BY <1>1, <3>2 DEF LiveList, TypeOK, TaskType
      <4> QED
        BY <4>1 DEF AloneOK, Suspended
    <3> QED
      BY <2>2, <3>1, <3>2 DEF GetOrUpdate
  <2>3. ASSUME NEW op, ScanOrCompact(c, op)
        PROVE  AloneOK(c)'
    <3>1. /\ ScanFrom(c, op, LiveList, 1, NoRows) /\ UNCHANGED <<files, segments>>
          /\ LiveList.live /\ 1 \in 1 .. Len(segments) + 1
      BY <1>1, <2>3 DEF ScanOrCompact, disk, LiveList, TypeOK, MemoryType
    <3>2. NoRows = Newest(segments, files, 1 - 1)
      BY NewestNone
    <3> QED
      BY <1>1, <3>1, <3>2, AloneTurns
  <2>4. CASE ClearTable(c)
    BY <1>1, <2>4, AloneLeaves DEF ClearTable
  <2> QED
    BY <1>2, <2>1, <2>2, <2>3, <2>4 DEF Begin
<1>3. ASSUME NEW c \in Clients, Resume(c)
      PROVE  AloneOK(c)'
  <2>1. CASE Probe(c)
    <3>1. CASE GotVersion(c, page[c][call[c].row])
      BY <1>1, <3>1, AloneLeaves DEF GotVersion
    <3>2. CASE \E outcome, rows : Return(c, outcome, rows)
      BY <1>1, <3>2, AloneLeaves
    <3>3. CASE UNCHANGED <<pc, call, held, hand>>
      <4>1. pc'[c] = "probing" /\ held'[c].live
        BY <2>1, <3>3 DEF Probe, CInv, AloneOK
      <4> QED
        BY <4>1 DEF AloneOK, Suspended
    <3> QED
      BY <2>1, <3>1, <3>2, <3>3 DEF Probe
  <2>2. CASE ScanSegment(c)
    <3>1. CASE \E outcome, rows : Return(c, outcome, rows)
      BY <1>1, <3>1, AloneLeaves
    <3>2. CASE ScanFrom(c, call[c].op, held[c], at[c] + 1, Merge(hand[c], page[c]))
      <4>1. pc[c] = "scanning" /\ held[c].live /\ ReaderOK(c) /\ UNCHANGED <<files, segments>>
        BY <2>2 DEF ScanSegment, disk, CInv, AloneOK, ReadersOK
      <4>2. /\ at[c] \in Nat /\ at[c] + 1 \in 1 .. Len(segments) + 1 /\ at[c] - 1 \in Nat
            /\ (at[c] - 1) + 1 = at[c] /\ (at[c] + 1) - 1 = at[c]
        BY <1>1, <4>1 DEF TypeOK, TaskType, MemoryType, Ready, ListOf
      <4>3. /\ page[c] = files[segments[at[c]].file] /\ page[c] \in RowMaps
            /\ hand[c] = Newest(segments, files, at[c] - 1)
        BY <1>1, <4>1 DEF ReaderOK, TypeOK, TaskType
      <4>4. DOMAIN page[c] \subseteq Rows
        BY <4>3, RowMapElim
      <4>5. Newest(segments, files, at[c]) = Merge(hand[c], page[c])
        BY <4>2, <4>3, <4>4, NewestNext
      <4> QED
        BY <1>1, <3>2, <4>1, <4>2, <4>5, AloneTurns
    <3> QED
      BY <2>2, <3>1, <3>2 DEF ScanSegment
  <2>3. CASE WriteFails(c) \/ AppendSegment(c) \/ InstallCompacted(c)
    BY <1>1, <2>3, AloneLeaves DEF WriteFails, AppendSegment, InstallCompacted
  <2> QED
    BY <1>3, <2>1, <2>2, <2>3, AloneWrites DEF Resume
<1>4. CASE Restart
  <2>1. \A c \in Clients : pc'[c] = "idle"
    BY <1>4 DEF Restart
  <2> QED
    BY <2>1, InstalledIsShown DEF AloneOK, Suspended
<1>5. CASE UNCHANGED vars
  <2>1. View' = View /\ UNCHANGED <<pc, call, held, hand>>
    BY <1>5 DEF vars, disk, memory, local, View, Holding, Exists
  <2>2. Active(View)' = Active(View)
    BY <2>1
  <2> QED
    BY <2>1, <2>2, InstalledIsShown DEF CInv, AloneOK
<1> QED
  BY <1>2, <1>3, <1>4, <1>5, InstalledIsShown DEF Next

\* A compact that has the table to itself installs the rows the table shows, less
\* the deleted ones.
THEOREM CompactKeepsRows ==
    ASSUME \A c, d \in Clients : c = d
    PROVE  Spec => CompactKeepsLiveRows
<1>1. Init => CInv
  BY InitStep, FilesInit DEF CInv, IInv, Init, ReadersOK, ReaderOK, AloneOK, Suspended
<1>2. CInv /\ [Next]_vars => CInv'
  BY TypeAndLockStep, FilesStep, ReadersStep, AloneStep DEF CInv, IInv
<1>3. CInv /\ [Next]_vars => [\A c \in Clients : InstallCompacted(c) => View' = Active(View)]_vars
  BY TypeAndLockStep, FilesStep, AloneStep DEF CInv, IInv
<1> QED
  BY <1>1, <1>2, <1>3, PTL DEF Spec, CompactKeepsLiveRows

-----------------------------------------------------------------------------
(* The refinement, when one task has the table to itself. *)

\* compact ends by installing the live rows.
LEMMA InstallRefines ==
    ASSUME CInv, IInv', \A c, d \in Clients : c = d, NEW c \in Clients, InstallCompacted(c)
    PROVE  Abstract!EndCompact(c)
<1>1. TypeOK /\ pc[c] = "written" /\ call[c].op = "compact" /\ Return(c, "compacted", NoRows)
  BY DEF CInv, IInv, InstallCompacted
<1>2. AbstractJob(c).kind = "compact"
  BY <1>1, JobIsFor, JobCases
<1>3. OthersStay(c) /\ \A d \in Clients \ {c} : held'[d] = held[d]
  BY DEF OthersStay
<1>4. AbstractJob(c)' = [kind |-> "none", arg |-> NoRows] /\ ResultOf(c)' = NoRows
  BY <1>1, <1>3, ReturnAlone
<1>5. Abstract!Finish(c, NoRows)
  BY <1>3, <1>4, ToFinish
<1>6. View' = Active(View)
  BY InstalledIsShown
<1>7. Active(View) = Abstract!Live(View)
  BY DEF Active, Only, Abstract!Live
<1> QED
  BY <1>2, <1>5, <1>6, <1>7 DEF Abstract!EndCompact, Abstract!NoRows, NoRows

\* clear_table leaves an empty map.
LEMMA ClearRefines ==
    ASSUME CInv, IInv', \A c, d \in Clients : c = d, NEW c \in Clients, ClearTable(c)
    PROVE  Abstract!Clear(c)
<1>1. TypeOK /\ pc[c] = "idle" /\ Return(c, "true", NoRows) /\ segments' = <<>>
  BY DEF CInv, IInv, ClearTable, May
<1>2. AbstractJob(c) = [kind |-> "none", arg |-> NoRows]
  BY <1>1, JobIsFor, JobCases
<1>3. OthersStay(c) /\ \A d \in Clients \ {c} : held'[d] = held[d]
  BY DEF OthersStay
<1>4. AbstractJob(c)' = [kind |-> "none", arg |-> NoRows] /\ ResultOf(c)' = NoRows
  BY <1>1, <1>3, ReturnAlone
<1>5. Abstract!Finish(c, NoRows)
  BY <1>3, <1>4, ToFinish
<1>6. View' = NoRows
  <2>1. Len(segments') = 0
    BY <1>1
  <2> QED
    BY <2>1, ViewShownNext, NewestNone DEF IInv, FilesInv
<1> QED
  BY <1>2, <1>5, <1>6 DEF Abstract!Clear, Abstract!NoJob, Abstract!NoRows, NoRows

\* One task that may compact and clear too finds the manager to be one map, as
\* long as the process lives.
THEOREM SerialImplementsRowStore ==
    ASSUME \A c, d \in Clients : c = d, "restart" \notin Operations
    PROVE  Spec => ImplementsRowStore
<1>1. Init => CInv /\ Abstract!Init
  <2>1. Init => \A c \in Clients : AloneOK(c)
    BY DEF Init, AloneOK, Suspended
  <2> QED
    BY <2>1, RefinesInit DEF CInv, RInv
<1>2. CInv /\ [Next]_vars => CInv' /\ [Abstract!Next]_Abstract!vars
  <2> SUFFICES ASSUME CInv, [Next]_vars
               PROVE  CInv' /\ [Abstract!Next]_Abstract!vars
    OBVIOUS
  <2>1. IInv' /\ ReadersOK' /\ \A c \in Clients : Snapshot(c)
    BY TypeAndLockStep, FilesStep, ReadersStep DEF CInv, IInv
  <2>2. CInv'
    BY <2>1, AloneStep DEF CInv
  <2>3. RInv
    BY DEF CInv, RInv, ReadersLive, AloneOK
  <2>4. ~Restart
    BY DEF Restart
  <2>5. CASE \E c \in Clients : ClearTable(c) \/ InstallCompacted(c)
    BY <2>1, <2>2, <2>5, InstallRefines, ClearRefines DEF Abstract!Next
  <2>6. CASE \A c \in Clients : ~ClearTable(c) /\ ~InstallCompacted(c)
    BY <2>1, <2>2, <2>3, <2>4, <2>6, RefinesUnlessReplaced
  <2> QED
    BY <2>5, <2>6
<1> QED
  BY <1>1, <1>2, PTL DEF Spec, ImplementsRowStore, Abstract!Spec
=============================================================================
