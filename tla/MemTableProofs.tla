----------------------------- MODULE MemTableProofs -----------------------------
(***************************************************************************)
(* The four invariants of MemTable, for any limit and any number of        *)
(* memtables, segments and values.                                         *)
(*                                                                         *)
(* IInv is about who has which memtable: get_memtable replaces a full one  *)
(* before schedule_flush could refuse it.  On top of it, AllKept says that *)
(* what was inserted stays in memory, and WritesOK that the queue, the     *)
(* flush loop and flush_all never have one memtable between two of them,   *)
(* nor one that is on disk, and that the flush loop goes from older to     *)
(* newer.                                                                  *)
(***************************************************************************)
EXTENDS MemTable, SequenceTheorems, FiniteSetTheorems, TLAPS

States    == {"active", "immutable", "flushing", "flushed"}
Records   == [state : States, rows : Seq(Vals)]
MemTables == Seq(Records)

\* The active memtable is the newest one; those that wait for the flush loop, or
\* are in it, are older.
ActiveIsNewest ==
    /\ memtables \in MemTables
    /\ active = Len(memtables) /\ active > 0
    /\ queue \in Seq(1 .. active - 1)
    /\ flusher = [at |-> flusher.at, table |-> flusher.table, segment |-> flusher.segment]
    /\ flusher.at \in {"writing", "written"} => flusher.table \in 1 .. active - 1

\* What flush_all writes is not active, although it may still be in place.
ClosedIsInactive ==
    /\ closer = [at |-> closer.at, table |-> closer.table,
                 segment |-> closer.segment, shuts |-> closer.shuts]
    /\ closer.at \in {"writing", "written"} =>
         /\ closer.table \in 1 .. active
         /\ closer.table = active => memtables[active].state # "active"

IInv == ActiveIsNewest /\ ClosedIsInactive /\ FullIsActive

-----------------------------------------------------------------------------
\* A state changes in one memtable: it is still a sequence of memtables, as long.
LEMMA StateChange ==
    ASSUME memtables \in MemTables, NEW t \in 1 .. Len(memtables), NEW st \in States,
           NEW m, m = [memtables EXCEPT ![t].state = st]
    PROVE  m \in MemTables /\ Len(m) = Len(memtables)
  <1>1. memtables[t] \in Records
    BY DEF MemTables
  <1>2. [memtables[t] EXCEPT !.state = st] \in Records
    BY <1>1 DEF Records
  <1>3. m = [memtables EXCEPT ![t] = [memtables[t] EXCEPT !.state = st]]
    OBVIOUS
  <1> QED BY <1>2, <1>3, ExceptSeq DEF MemTables

LEMMA FirstTable ==
    <<NewTable>> \in MemTables /\ Len(<<NewTable>>) = 1 /\ <<NewTable>>[1].state = "active"
  <1>1. NewTable \in Records /\ NewTable.state = "active"
    BY DEF NewTable, Records, States
  <1> QED BY <1>1 DEF MemTables

LEMMA NoQueue == \A S : <<>> \in Seq(S)
  OBVIOUS

LEMMA InitInv == Init => IInv
  BY FirstTable, NoQueue DEF Init, IInv, ActiveIsNewest, ClosedIsInactive, FullIsActive, NoTask, NoClose

LEMMA RestartInv == ASSUME Restart PROVE IInv'
  BY FirstTable, NoQueue
  DEF Restart, NewManager, IInv, ActiveIsNewest, ClosedIsInactive, FullIsActive, NoTask, NoClose

\* Rotation, by whoever calls get_memtable; flush_all goes on to wait or ends.
LEMMA RotateInv ==
    ASSUME IInv, NEW rows \in Seq(Vals), Rotate(rows), UNCHANGED flusher,
           UNCHANGED closer \/ \E shuts \in BOOLEAN : AfterFlushAll(shuts)
    PROVE  IInv'
  <1>1. PICK m : m = [memtables EXCEPT ![active].state = "immutable"]
    OBVIOUS
  <1>2. /\ m \in MemTables /\ Len(m) = active
        /\ active \in 1 .. Len(memtables)
    <2>1. active \in 1 .. Len(memtables)
      BY DEF IInv, ActiveIsNewest, MemTables
    <2>2. memtables \in MemTables /\ "immutable" \in States
      BY DEF IInv, ActiveIsNewest, States
    <2> QED BY <1>1, <2>1, <2>2, StateChange DEF IInv, ActiveIsNewest
  <1>3. [NewTable EXCEPT !.rows = rows] \in Records
    BY DEF NewTable, Records, States
  <1>4. memtables' = Append(m, [NewTable EXCEPT !.rows = rows]) /\ active' = active + 1
    BY <1>1, <1>2 DEF Rotate, IInv, ActiveIsNewest
  <1>5. /\ memtables' \in MemTables /\ active' = Len(memtables')
        /\ \A u \in 1 .. active : memtables'[u] = m[u]
    BY <1>2, <1>3, <1>4 DEF MemTables
  <1>6. queue' \in Seq(1 .. active' - 1)
    <2>1. queue \in Seq(1 .. active - 1) /\ queue' = Append(queue, active)
      BY DEF Rotate, IInv, ActiveIsNewest
    <2>2. active \in Nat /\ active > 0 /\ 1 .. active - 1 \subseteq 1 .. active /\ active \in 1 .. active
      BY <1>2 DEF IInv, ActiveIsNewest
    <2>3. queue \in Seq(1 .. active)
      BY <2>1, <2>2, SeqMonotonic
    <2>4. Append(queue, active) \in Seq(1 .. active)
      BY <2>2, <2>3, AppendProperties
    <2>5. 1 .. active' - 1 = 1 .. active
      BY <1>4, <2>2
    <2> QED BY <2>1, <2>4, <2>5
  <1>7. ActiveIsNewest'
    BY <1>2, <1>4, <1>5, <1>6 DEF ActiveIsNewest, IInv
  <1>8. ClosedIsInactive'
    BY <1>2, <1>4 DEF ClosedIsInactive, IInv, AfterFlushAll, NoClose
  <1>9. FullIsActive'
    <2>1. memtables'[active'] = [NewTable EXCEPT !.rows = rows]
      BY <1>2, <1>3, <1>4, AppendProperties DEF MemTables
    <2> QED BY <2>1 DEF FullIsActive, NewTable
  <1> QED BY <1>7, <1>8, <1>9 DEF IInv

\* The steps that change one memtable's state: an older one, or the active one
\* while it is not full, and then it is not active.
LEMMA OneStateInv ==
    ASSUME ActiveIsNewest, FullIsActive, NEW t \in 1 .. active, NEW st \in States,
           memtables' = [memtables EXCEPT ![t].state = st], UNCHANGED active,
           t = active => ~Full
    PROVE  /\ memtables' \in MemTables /\ active' = Len(memtables') /\ FullIsActive'
           /\ t # active => memtables'[active].state = memtables[active].state
           /\ memtables'[t].state = st
  <1>1. memtables \in MemTables /\ active = Len(memtables) /\ active \in 1 .. Len(memtables)
    BY DEF ActiveIsNewest, MemTables
  <1>2. /\ memtables' \in MemTables /\ Len(memtables') = Len(memtables)
        /\ memtables'[t].state = st
        /\ memtables'[active].rows = memtables[active].rows
        /\ t # active => memtables'[active].state = memtables[active].state
    <2> DEFINE r == [memtables[t] EXCEPT !.state = st]
    <2>1. t \in 1 .. Len(memtables) /\ memtables[t] \in Records /\ DOMAIN memtables = 1 .. Len(memtables)
      BY <1>1 DEF MemTables
    <2>2. r \in Records /\ r.state = st /\ r.rows = memtables[t].rows
      BY <2>1 DEF Records
    <2>3. memtables' = [memtables EXCEPT ![t] = r]
      OBVIOUS
    <2> HIDE DEF r
    <2>4. memtables' \in MemTables /\ Len(memtables') = Len(memtables)
      BY <1>1, <2>1, <2>2, <2>3, ExceptSeq DEF MemTables
    <2> QED BY <1>1, <2>1, <2>2, <2>3, <2>4
  <1>3. FullIsActive'
    BY <1>1, <1>2 DEF FullIsActive, Full
  <1> QED BY <1>1, <1>2, <1>3

LEMMA InsertInv == ASSUME IInv, NEW v \in Vals, Insert(v) PROVE IInv'
  <1>1. CASE Rotate(<<v>>)
    <2>1. <<v>> \in Seq(Vals) /\ UNCHANGED flusher /\ UNCHANGED closer
      BY DEF Insert
    <2> QED BY <1>1, <2>1, RotateInv
  <1>2. CASE ~Rotate(<<v>>)
    <2>1. /\ memtables[active].state = "active"
          /\ memtables' = [memtables EXCEPT ![active].rows = Append(@, v)]
          /\ UNCHANGED <<active, queue, flusher, closer>>
      BY <1>2 DEF Insert
    <2>2. memtables \in MemTables /\ active \in 1 .. Len(memtables) /\ active = Len(memtables)
      BY DEF IInv, ActiveIsNewest, MemTables
    <2> DEFINE r == [memtables[active] EXCEPT !.rows = Append(@, v)]
    <2>3. r \in Records /\ r.state = "active"
      <3>1. memtables[active] \in Records
        BY <2>2 DEF MemTables
      <3>2. Append(memtables[active].rows, v) \in Seq(Vals)
        BY <3>1, AppendProperties DEF Records
      <3> QED BY <2>1, <3>1, <3>2 DEF Records
    <2>4. memtables' = [memtables EXCEPT ![active] = r]
      BY <2>1
    <2> HIDE DEF r
    <2>5. memtables' \in MemTables /\ Len(memtables') = Len(memtables) /\ memtables'[active] = r
      BY <2>2, <2>3, <2>4, ExceptSeq DEF MemTables
    <2> QED BY <2>1, <2>2, <2>3, <2>5 DEF IInv, ActiveIsNewest, ClosedIsInactive, FullIsActive
  <1> QED BY <1>1, <1>2

LEMMA FlushInv == ASSUME IInv, Flush PROVE IInv'
  <1>a. active \in Nat /\ active > 0 /\ "flushing" \in States /\ "flushed" \in States /\ "immutable" \in States
    BY DEF IInv, ActiveIsNewest, MemTables, States
  <1>1. ASSUME FlushPicks PROVE IInv'
    <2>1. Head(queue) \in 1 .. active - 1 /\ Tail(queue) \in Seq(1 .. active - 1)
      BY <1>1, HeadTailProperties DEF FlushPicks, IInv, ActiveIsNewest
    <2>2. /\ memtables' = [memtables EXCEPT ![Head(queue)].state = "flushing"]
          /\ queue' = Tail(queue) /\ UNCHANGED <<active, closer>>
          /\ flusher' = [at |-> "writing", table |-> Head(queue), segment |-> 0]
      BY <1>1 DEF FlushPicks
    <2>3. /\ memtables' \in MemTables /\ active' = Len(memtables') /\ FullIsActive'
          /\ memtables'[active].state = memtables[active].state
      <3>1. Head(queue) \in 1 .. active /\ Head(queue) # active
        BY <1>a, <2>1
      <3> QED BY <1>a, <2>2, <3>1, OneStateInv DEF IInv
    <2> QED BY <1>a, <2>1, <2>2, <2>3 DEF IInv, ActiveIsNewest, ClosedIsInactive
  <1>2. ASSUME FlushWrites PROVE IInv'
    BY <1>2 DEF FlushWrites, tables, IInv, ActiveIsNewest, ClosedIsInactive, FullIsActive, Full
  <1>3. ASSUME FlushFails PROVE IInv'
    <2>1. /\ memtables' = [memtables EXCEPT ![flusher.table].state = "immutable"]
          /\ flusher.table \in 1 .. active - 1 /\ flusher' = NoTask
          /\ UNCHANGED <<active, queue, closer>>
      BY <1>3 DEF FlushFails, IInv, ActiveIsNewest
    <2>2. /\ memtables' \in MemTables /\ active' = Len(memtables') /\ FullIsActive'
          /\ memtables'[active].state = memtables[active].state
      <3>1. flusher.table \in 1 .. active /\ flusher.table # active
        BY <1>a, <2>1
      <3> QED BY <1>a, <2>1, <3>1, OneStateInv DEF IInv
    <2> QED BY <2>1, <2>2 DEF IInv, ActiveIsNewest, ClosedIsInactive, NoTask
  <1>4. ASSUME FlushRegisters PROVE IInv'
    <2>1. /\ memtables' = [memtables EXCEPT ![flusher.table].state = "flushed"]
          /\ flusher.table \in 1 .. active - 1 /\ flusher' = [flusher EXCEPT !.at = "loading"]
          /\ UNCHANGED <<active, queue, closer>>
      BY <1>4 DEF FlushRegisters, IInv, ActiveIsNewest
    <2>2. /\ memtables' \in MemTables /\ active' = Len(memtables') /\ FullIsActive'
          /\ memtables'[active].state = memtables[active].state
      <3>1. flusher.table \in 1 .. active /\ flusher.table # active
        BY <1>a, <2>1
      <3> QED BY <1>a, <2>1, <3>1, OneStateInv DEF IInv
    <2> QED BY <2>1, <2>2 DEF IInv, ActiveIsNewest, ClosedIsInactive
  <1>5. ASSUME FlushLoads PROVE IInv'
    BY <1>5 DEF FlushLoads, IInv, ActiveIsNewest, ClosedIsInactive, FullIsActive, Full, NoTask
  <1> QED BY <1>1, <1>2, <1>3, <1>4, <1>5 DEF Flush

LEMMA FlushAllInv == ASSUME IInv, NEW shuts \in BOOLEAN, FlushAll(shuts) PROVE IInv'
  <1>1. CASE Rotate(<<>>) /\ AfterFlushAll(shuts)
    <2>1. <<>> \in Seq(Vals) /\ UNCHANGED flusher
      BY NoQueue DEF FlushAll
    <2> QED BY <1>1, <2>1, RotateInv
  <1>2. CASE AfterFlushAll(shuts) /\ UNCHANGED tables
    BY <1>2 DEF FlushAll, AfterFlushAll, NoClose, tables, IInv, ActiveIsNewest, ClosedIsInactive,
                FullIsActive, Full
  <1>3. CASE ~Full /\ FlushActive(shuts)
    <2>1. /\ memtables' = [memtables EXCEPT ![active].state = "immutable"]
          /\ closer' = [at |-> "writing", table |-> active, segment |-> 0, shuts |-> shuts]
          /\ UNCHANGED <<active, queue, flusher>>
      BY <1>3 DEF FlushAll, FlushActive
    <2>2. active \in 1 .. active /\ "immutable" \in States
      BY DEF IInv, ActiveIsNewest, MemTables, States
    <2>3. /\ memtables' \in MemTables /\ active' = Len(memtables') /\ FullIsActive'
          /\ memtables'[active].state = "immutable"
      BY <1>3, <2>1, <2>2, OneStateInv DEF IInv
    <2> QED BY <2>1, <2>2, <2>3 DEF IInv, ActiveIsNewest, ClosedIsInactive
  <1> QED BY <1>1, <1>2, <1>3 DEF FlushAll

LEMMA CloserInv ==
    ASSUME IInv, CloserWrites \/ CloserGoesOn \/ CloserFails \/ Stop PROVE IInv'
  <1>1. ASSUME CloserWrites PROVE IInv'
    BY <1>1 DEF CloserWrites, tables, IInv, ActiveIsNewest, ClosedIsInactive, FullIsActive, Full
  <1>2. ASSUME CloserGoesOn PROVE IInv'
    <2>1. /\ memtables' = [memtables EXCEPT ![closer.table].state = "flushed"]
          /\ closer.table \in 1 .. active /\ closer' \in {NoClose, [NoClose EXCEPT !.at = "waiting"]}
          /\ UNCHANGED <<active, queue, flusher>>
      BY <1>2 DEF CloserGoesOn, AfterFlushAll, IInv, ClosedIsInactive
    <2>2. closer.table = active => ~Full
      BY <1>2 DEF CloserGoesOn, IInv, ClosedIsInactive, FullIsActive
    <2>3. /\ memtables' \in MemTables /\ active' = Len(memtables') /\ FullIsActive'
      BY <2>1, <2>2, OneStateInv DEF IInv, States
    <2> QED BY <2>1, <2>3 DEF IInv, ActiveIsNewest, ClosedIsInactive, NoClose
  <1>3. ASSUME CloserFails PROVE IInv'
    BY <1>3 DEF CloserFails, tables, NoClose, IInv, ActiveIsNewest, ClosedIsInactive, FullIsActive, Full
  <1>4. ASSUME Stop PROVE IInv'
    BY <1>4 DEF Stop, tables, NoClose, NoTask, IInv, ActiveIsNewest, ClosedIsInactive, FullIsActive, Full
  <1> QED BY <1>1, <1>2, <1>3, <1>4

LEMMA NextInv == ASSUME IInv, [Next]_vars PROVE IInv'
  <1>1. ASSUME Touch PROVE IInv'
    <2>1. Rotate(<<>>) /\ <<>> \in Seq(Vals) /\ UNCHANGED flusher /\ UNCHANGED closer
      BY <1>1, NoQueue DEF Touch
    <2> QED BY <2>1, RotateInv
  <1>2. CASE UNCHANGED vars
    BY <1>2 DEF vars, tables, IInv, ActiveIsNewest, ClosedIsInactive, FullIsActive, Full
  <1> QED BY <1>1, <1>2, InsertInv, FlushInv, FlushAllInv, CloserInv, RestartInv DEF Next

\* get_memtable never replaces a memtable that flush_all has taken: make_immutable
\* does not raise inside it, whatever the limit and however flushes, failures,
\* shutdowns and restarts interleave.
THEOREM RotationNotRefused == Spec => []FullIsActive
  <1>1. IInv => FullIsActive
    BY DEF IInv
  <1> QED BY InitInv, NextInv, <1>1, PTL DEF Spec

\* No segment the writer writes is ever loaded by the reader: it looks for the
\* index where the footer begins.
THEOREM NoSegmentLoads == ~Loads
  BY DEF Loads, Loaded, Footer
-----------------------------------------------------------------------------
(* What was inserted stays in memory *)

\* A memtable that was replaced is among the immutable ones, and never leaves
\* them: no segment that could take its place ever loads.
AllKept ==
    /\ immutables \in Seq(Nat)
    /\ \A t \in 1 .. active - 1 : t \in ToSet(immutables)
    /\ \A v \in inserted : \E t \in 1 .. active : v \in ToSet(memtables[t].rows)

-----------------------------------------------------------------------------
(* What is written, and when *)

OnDisk(t) == \E s \in DOMAIN disk : disk[s].of = t

\* No rows are added to a memtable any more.
Closed(t) == t \in 1 .. active /\ memtables[t].state # "active"

\* A segment of this process holds the rows of a closed memtable, one segment each.
DiskOK ==
    /\ disk \in Seq([of : Nat, rows : Seq(Vals)])
    /\ \A s \in DOMAIN disk : disk[s].of # 0 =>
         Closed(disk[s].of) /\ disk[s].rows = memtables[disk[s].of].rows
    /\ \A s, r \in DOMAIN disk : s # r /\ disk[s].of # 0 => disk[s].of # disk[r].of

\* The queue holds, oldest first, memtables that are not on disk.
QueueOK ==
    /\ \A i \in DOMAIN queue : ~OnDisk(queue[i])
    /\ \A i, j \in DOMAIN queue : i < j => queue[i] < queue[j]

\* The flush loop is with a memtable older than those in the queue; until it has
\* written it, nobody has.
FlusherOK ==
    /\ flusher.at \in {"writing", "written"} => \A i \in DOMAIN queue : flusher.table < queue[i]
    /\ flusher.at = "writing" => Closed(flusher.table) /\ ~OnDisk(flusher.table)
    /\ flusher.at = "written" => flusher.segment \in DOMAIN disk /\ disk[flusher.segment].of = flusher.table

\* flush_all writes a memtable that neither the queue nor the flush loop has.
CloserOK ==
    closer.at = "writing" =>
        /\ Closed(closer.table) /\ ~OnDisk(closer.table)
        /\ \A i \in DOMAIN queue : queue[i] # closer.table
        /\ flusher.at = "writing" => flusher.table # closer.table

\* Every registered segment is of a memtable older than t, or of an earlier process.
RegisteredBefore(t) == \A i \in DOMAIN registry : disk[registry[i]].of < t

RegistryOK ==
    /\ registry \in Seq(DOMAIN disk)
    /\ \A i, j \in DOMAIN registry :
         i < j /\ disk[registry[j]].of # 0 => disk[registry[i]].of < disk[registry[j]].of
    /\ RegisteredBefore(active)
    /\ \A i \in DOMAIN queue : RegisteredBefore(queue[i])
    /\ flusher.at \in {"writing", "written"} => RegisteredBefore(flusher.table)

WritesOK == DiskOK /\ QueueOK /\ FlusherOK /\ CloserOK /\ RegistryOK
-----------------------------------------------------------------------------
\* What a step does to the memtables there are: the rows of a closed one never
\* change, and no row leaves.
TablesGrow ==
    /\ active' \in Nat /\ active <= active'
    /\ \A t \in 1 .. active :
         /\ ToSet(memtables[t].rows) \subseteq ToSet(memtables'[t].rows)
         /\ memtables[t].state # "active" =>
              memtables'[t].state # "active" /\ memtables'[t].rows = memtables[t].rows

\* One memtable changes its state.
LEMMA StateGrow ==
    ASSUME IInv, NEW t \in 1 .. active, NEW st \in States \ {"active"}, UNCHANGED active,
           memtables' = [memtables EXCEPT ![t].state = st]
    PROVE  /\ TablesGrow /\ memtables'[t].state = st
           /\ \A u \in 1 .. active : memtables'[u].rows = memtables[u].rows
  <1> DEFINE r == [memtables[t] EXCEPT !.state = st]
  <1>1. /\ memtables \in MemTables /\ active = Len(memtables) /\ active \in Nat
        /\ \A u \in 1 .. active : memtables[u] \in Records
    BY DEF IInv, ActiveIsNewest, MemTables
  <1>2. r.state = st /\ r.rows = memtables[t].rows
    BY <1>1 DEF Records
  <1>3. memtables' = [memtables EXCEPT ![t] = r]
    OBVIOUS
  <1> HIDE DEF r
  <1>4. \A u \in 1 .. active : memtables'[u] = IF u = t THEN r ELSE memtables[u]
    BY <1>1, <1>3 DEF MemTables
  <1>5. /\ memtables'[t].state = st
        /\ \A u \in 1 .. active : memtables'[u].rows = memtables[u].rows
        /\ \A u \in 1 .. active : memtables[u].state # "active" => memtables'[u].state # "active"
    BY <1>2, <1>4
  <1> QED
    BY <1>1, <1>5 DEF TablesGrow

\* The same, for the states a memtable is given.
LEMMA Changes ==
    ASSUME IInv, NEW t \in 1 .. active, NEW st \in {"immutable", "flushing", "flushed"}, active' = active,
           memtables' = [memtables EXCEPT ![t].state = st]
    PROVE  /\ TablesGrow /\ memtables'[t].state = st
           /\ \A u \in 1 .. active : memtables'[u].rows = memtables[u].rows
  <1>1. st \in States \ {"active"}
    BY DEF States
  <1> QED
    BY <1>1, StateGrow

\* A full memtable is replaced.
LEMMA RotateGrow ==
    ASSUME IInv, NEW rows \in Seq(Vals), Rotate(rows)
    PROVE  /\ TablesGrow /\ active' = active + 1 /\ active \in Nat \ {0}
           /\ memtables[active].state = "active"
           /\ memtables'[active].state = "immutable"
           /\ memtables'[active + 1].rows = rows
           /\ queue' = Append(queue, active) /\ immutables' = Append(immutables, active)
  <1>1. PICK m : m = [memtables EXCEPT ![active].state = "immutable"]
    OBVIOUS
  <1> DEFINE r == [memtables[active] EXCEPT !.state = "immutable"]
             new == [NewTable EXCEPT !.rows = rows]
  <1>2. /\ memtables \in MemTables /\ active = Len(memtables) /\ active \in Nat \ {0}
        /\ \A u \in 1 .. active : memtables[u] \in Records
    BY DEF IInv, ActiveIsNewest, MemTables
  <1>3. r.state = "immutable" /\ r.rows = memtables[active].rows /\ new.rows = rows
    BY <1>2 DEF Records, NewTable
  <1>4. m = [memtables EXCEPT ![active] = r]
    BY <1>1
  <1>5. /\ memtables' = Append(m, new) /\ active' = Len(memtables) + 1
        /\ queue' = Append(queue, active) /\ immutables' = Append(immutables, active)
        /\ memtables[active].state = "active"
    BY <1>1 DEF Rotate
  <1> HIDE DEF r, new
  <1>6. m \in Seq({memtables[u] : u \in 1 .. active} \cup {r}) /\ Len(m) = active
    BY <1>2, <1>4 DEF MemTables
  <1>7. /\ \A u \in 1 .. active : m[u] = IF u = active THEN r ELSE memtables[u]
        /\ \A u \in 1 .. active : memtables'[u] = m[u]
        /\ memtables'[active + 1] = new
    BY <1>2, <1>4, <1>5, <1>6 DEF MemTables
  <1>8. /\ memtables'[active].state = "immutable" /\ memtables'[active + 1].rows = rows
        /\ \A u \in 1 .. active : memtables'[u].rows = memtables[u].rows
        /\ \A u \in 1 .. active : memtables[u].state # "active" => memtables'[u].state # "active"
    BY <1>2, <1>3, <1>7
  <1>9. \A u \in 1 .. active : ToSet(memtables[u].rows) \subseteq ToSet(memtables'[u].rows)
    BY ONLY <1>8
  <1>10. active' = active + 1 /\ active' \in Nat /\ active <= active'
    BY <1>2, <1>5
  <1>11. TablesGrow
    BY ONLY <1>8, <1>9, <1>10, Zenon DEF TablesGrow
  <1> QED
    BY <1>2, <1>5, <1>8, <1>10, <1>11

\* A row joins the active memtable.
LEMMA AppendGrow ==
    ASSUME IInv, NEW v, memtables[active].state = "active", UNCHANGED active,
           memtables' = [memtables EXCEPT ![active].rows = Append(@, v)]
    PROVE  TablesGrow /\ v \in ToSet(memtables'[active].rows)
  <1> DEFINE r == [memtables[active] EXCEPT !.rows = Append(@, v)]
  <1>1. /\ memtables \in MemTables /\ active = Len(memtables) /\ active \in Nat \ {0}
        /\ \A u \in 1 .. active : memtables[u] \in Records
    BY DEF IInv, ActiveIsNewest, MemTables
  <1>2. memtables[active].rows \in Seq(Vals) /\ r.rows = Append(memtables[active].rows, v)
    BY <1>1 DEF Records
  <1>3. v \in ToSet(r.rows) /\ ToSet(memtables[active].rows) \subseteq ToSet(r.rows)
    BY <1>2 DEF ToSet
  <1>4. memtables' = [memtables EXCEPT ![active] = r]
    OBVIOUS
  <1> HIDE DEF r
  <1>5. \A u \in 1 .. active : memtables'[u] = IF u = active THEN r ELSE memtables[u]
    BY <1>1, <1>4 DEF MemTables
  <1>6. /\ memtables'[active] = r
        /\ \A u \in 1 .. active : u # active => memtables'[u] = memtables[u]
    BY <1>1, <1>5
  <1>7. /\ \A u \in 1 .. active : ToSet(memtables[u].rows) \subseteq ToSet(memtables'[u].rows)
        /\ \A u \in 1 .. active : memtables[u].state # "active" => memtables'[u] = memtables[u]
    BY <1>3, <1>6
  <1>8. TablesGrow
    <2>1. active' = active /\ active' \in Nat /\ active <= active'
      BY <1>1
    <2> QED
      BY ONLY <1>7, <2>1, Zenon DEF TablesGrow
  <1> QED
    BY <1>3, <1>6, <1>8

\* The steps that leave the memtables alone.
LEMMA SameGrow ==
    ASSUME IInv, UNCHANGED <<memtables, active>> PROVE TablesGrow
  BY DEF TablesGrow, IInv, ActiveIsNewest, MemTables

-----------------------------------------------------------------------------
\* Found: what an insertion adds is in a memtable that is active, or immutable.
LEMMA KeptIsFound == ASSUME IInv, AllKept PROVE InsertedIsFound
  <1>1. ASSUME NEW v \in inserted PROVE v \in Found
    <2>1. PICK t \in 1 .. active : v \in ToSet(memtables[t].rows)
      BY DEF AllKept
    <2>2. t \in {active} \cup ToSet(immutables)
      BY DEF AllKept, IInv, ActiveIsNewest, MemTables
    <2>3. v \in UNION {ToSet(memtables[u].rows) : u \in {active} \cup ToSet(immutables)}
      BY <2>1, <2>2
    <2> QED
      BY <2>3 DEF Found
  <1> QED
    BY <1>1 DEF InsertedIsFound

\* What is appended to a sequence joins its elements.
LEMMA AppendToSet ==
    ASSUME NEW S, NEW s \in Seq(S), NEW x \in S
    PROVE  ToSet(Append(s, x)) = ToSet(s) \cup {x} /\ Append(s, x) \in Seq(S)
  <1>1. /\ Append(s, x) \in Seq(S) /\ DOMAIN Append(s, x) = DOMAIN s \cup {Len(s) + 1}
        /\ Append(s, x)[Len(s) + 1] = x
        /\ \A i \in DOMAIN s : Append(s, x)[i] = s[i]
    OBVIOUS
  <1> QED
    BY <1>1 DEF ToSet

\* A rotation appends the memtable that was active to the immutable ones.
LEMMA RotateKept ==
    ASSUME IInv, AllKept, NEW rows \in Seq(Vals), Rotate(rows),
           inserted' \subseteq inserted \cup ToSet(rows)
    PROVE  AllKept'
  <1>1. /\ TablesGrow /\ active' = active + 1 /\ active \in Nat \ {0}
        /\ memtables'[active + 1].rows = rows /\ immutables' = Append(immutables, active)
    BY RotateGrow
  <1>2. ToSet(immutables') = ToSet(immutables) \cup {active} /\ immutables' \in Seq(Nat)
    <2>1. immutables \in Seq(Nat)
      BY DEF AllKept
    <2> QED
      BY <1>1, <2>1, AppendToSet
  <1>3. \A t \in 1 .. active' - 1 : t \in ToSet(immutables')
    BY <1>1, <1>2 DEF AllKept
  <1>4. ASSUME NEW v \in inserted' PROVE \E t \in 1 .. active' : v \in ToSet(memtables'[t].rows)
    <2>1. CASE v \in inserted
      <3>1. PICK t \in 1 .. active : v \in ToSet(memtables[t].rows)
        BY <2>1 DEF AllKept
      <3>2. v \in ToSet(memtables'[t].rows) /\ t \in 1 .. active'
        BY ONLY <1>1, <3>1 DEF TablesGrow
      <3> QED
        BY <3>2
    <2>2. CASE v \in ToSet(rows)
      BY <1>1, <2>2
    <2> QED BY <2>1, <2>2
  <1> QED
    BY <1>2, <1>3, <1>4 DEF AllKept

\* So does every other step: the callback of the flush loop raises before it lets go
\* of any memtable.
LEMMA KeptStep ==
    ASSUME IInv, AllKept, [Next]_vars PROVE AllKept'
  <1>1. ASSUME TablesGrow, UNCHANGED <<active, immutables, inserted>> PROVE AllKept'
    <2>1. \A v \in inserted : \E t \in 1 .. active : v \in ToSet(memtables'[t].rows)
      BY <1>1 DEF AllKept, TablesGrow
    <2> QED
      BY <1>1, <2>1 DEF AllKept
  <1>2. ASSUME NEW v \in Vals, Insert(v) PROVE AllKept'
    <2>1. CASE Rotate(<<v>>)
      <3>1. <<v>> \in Seq(Vals) /\ ToSet(<<v>>) = {v}
        BY DEF ToSet
      <3> QED
        BY <1>2, <2>1, <3>1, RotateKept DEF Insert
    <2>2. CASE ~Rotate(<<v>>)
      <3>1. /\ memtables[active].state = "active" /\ UNCHANGED <<active, immutables>>
            /\ memtables' = [memtables EXCEPT ![active].rows = Append(@, v)]
            /\ inserted' = inserted \cup {v}
        BY <1>2, <2>2 DEF Insert
      <3>2. active \in 1 .. active
        BY DEF IInv, ActiveIsNewest, MemTables
      <3>4. TablesGrow /\ v \in ToSet(memtables'[active].rows)
        BY <3>1, AppendGrow
      <3>3. \A w \in inserted' : \E t \in 1 .. active : w \in ToSet(memtables'[t].rows)
        BY <3>1, <3>2, <3>4 DEF AllKept, TablesGrow
      <3> QED
        BY <3>1, <3>3 DEF AllKept
    <2> QED BY <2>1, <2>2
  <1>3. ASSUME NEW rows \in {<<>>}, Rotate(rows), UNCHANGED inserted PROVE AllKept'
    BY <1>3, NoQueue, RotateKept
  <1>4. CASE Touch
    BY <1>3, <1>4 DEF Touch
  <1>5. ASSUME Flush PROVE AllKept'
    <2>1. UNCHANGED <<active, immutables, inserted>>
      BY <1>5, NoSegmentLoads DEF Flush, FlushPicks, FlushWrites, FlushFails, FlushRegisters, FlushLoads, tables
    <2>2. TablesGrow
      <3>1. CASE FlushPicks
        <4>1. Head(queue) \in 1 .. active - 1
          BY <3>1, HeadTailProperties DEF FlushPicks, IInv, ActiveIsNewest
        <4>2. Head(queue) \in 1 .. active
          BY <4>1 DEF IInv, ActiveIsNewest, MemTables
        <4> QED
          BY <3>1, <4>2, <2>1, Changes DEF FlushPicks
      <3>2. CASE FlushFails \/ FlushRegisters
        <4>1. flusher.table \in 1 .. active
          BY <3>2 DEF FlushFails, FlushRegisters, IInv, ActiveIsNewest, MemTables
        <4> QED
          BY <3>2, <4>1, <2>1, Changes DEF FlushFails, FlushRegisters
      <3>3. CASE FlushWrites \/ FlushLoads
        BY <3>3, SameGrow DEF FlushWrites, FlushLoads, tables
      <3> QED
        BY <1>5, <3>1, <3>2, <3>3 DEF Flush
    <2> QED
      BY <1>1, <2>1, <2>2
  <1>6. ASSUME NEW shuts \in BOOLEAN, FlushAll(shuts) PROVE AllKept'
    <2>1. CASE FlushActive(shuts)
      <3>1. active \in 1 .. active
        BY DEF IInv, ActiveIsNewest, MemTables
      <3> QED
        BY <1>1, <1>6, <2>1, <3>1, Changes DEF FlushAll, FlushActive
    <2>2. CASE UNCHANGED tables
      BY <1>1, <1>6, <2>2, SameGrow DEF FlushAll, tables
    <2> QED
      BY <1>3, <1>6, <2>1, <2>2 DEF FlushAll
  <1>7. CASE CloserGoesOn
    <2>1. closer.table \in 1 .. active
      BY <1>7 DEF CloserGoesOn, IInv, ClosedIsInactive
    <2> QED
      BY <1>1, <1>7, <2>1, Changes DEF CloserGoesOn
  <1>8. CASE CloserWrites \/ CloserFails \/ Stop \/ UNCHANGED vars
    BY <1>1, <1>8, SameGrow DEF CloserWrites, CloserFails, Stop, tables, vars
  <1>9. CASE Restart
    BY <1>9, NoQueue DEF Restart, NewManager, AllKept
  <1> QED
    BY <1>2, <1>4, <1>5, <1>6, <1>7, <1>8, <1>9 DEF Next

-----------------------------------------------------------------------------
\* A segment file is added: the others stay, and the new one is of t.
LEMMA DiskGrows ==
    ASSUME IInv, disk \in Seq([of : Nat, rows : Seq(Vals)]), NEW t \in 1 .. active, Writes(t)
    PROVE  /\ disk' \in Seq([of : Nat, rows : Seq(Vals)])
           /\ NewSegment \notin DOMAIN disk /\ DOMAIN disk' = DOMAIN disk \cup {NewSegment}
           /\ disk'[NewSegment].of = t /\ disk'[NewSegment].rows = memtables[t].rows
           /\ \A s \in DOMAIN disk : disk'[s] = disk[s]
  <1> DEFINE new == [of |-> t, rows |-> memtables[t].rows]
  <1>1. new \in [of : Nat, rows : Seq(Vals)]
    <2>1. memtables[t] \in Records
      BY DEF IInv, ActiveIsNewest, MemTables
    <2>2. t \in Nat
      BY DEF IInv, ActiveIsNewest, MemTables
    <2> QED
      BY <2>1, <2>2 DEF Records
  <1>2. disk' = Append(disk, new) /\ new.of = t /\ new.rows = memtables[t].rows
    BY DEF Writes
  <1> HIDE DEF new
  <1>3. /\ disk' \in Seq([of : Nat, rows : Seq(Vals)])
        /\ NewSegment \notin DOMAIN disk /\ DOMAIN disk' = DOMAIN disk \cup {NewSegment}
        /\ disk'[NewSegment] = new
        /\ \A s \in DOMAIN disk : disk'[s] = disk[s]
    BY <1>1, <1>2 DEF NewSegment
  <1> QED
    BY <1>2, <1>3

\* The segments there are stay right while the memtables grow.
LEMMA DiskStays ==
    ASSUME IInv, DiskOK, TablesGrow, UNCHANGED disk PROVE DiskOK'
  <1>1. ASSUME NEW s \in DOMAIN disk, disk[s].of # 0
        PROVE  Closed(disk[s].of)' /\ disk[s].rows = memtables'[disk[s].of].rows
    <2>1. Closed(disk[s].of) /\ disk[s].rows = memtables[disk[s].of].rows
      BY <1>1 DEF DiskOK
    <2>2. disk[s].of \in 1 .. active /\ memtables[disk[s].of].state # "active"
      BY <2>1 DEF Closed
    <2>3. disk[s].of \in 1 .. active'
      BY <2>2 DEF TablesGrow, IInv, ActiveIsNewest, MemTables
    <2> QED
      BY <2>1, <2>2, <2>3 DEF Closed, TablesGrow
  <1> QED
    BY <1>1 DEF DiskOK

\* A closed memtable that is not on disk is written.
LEMMA DiskWritten ==
    ASSUME IInv, DiskOK, NEW t, Closed(t), ~OnDisk(t), Writes(t), UNCHANGED <<memtables, active>>
    PROVE  DiskOK' /\ \A u : OnDisk(u)' => OnDisk(u) \/ u = t
  <1>1. t \in 1 .. active /\ disk \in Seq([of : Nat, rows : Seq(Vals)])
    BY DEF Closed, DiskOK
  <1>2. /\ disk' \in Seq([of : Nat, rows : Seq(Vals)])
        /\ NewSegment \notin DOMAIN disk /\ DOMAIN disk' = DOMAIN disk \cup {NewSegment}
        /\ disk'[NewSegment].of = t /\ disk'[NewSegment].rows = memtables[t].rows
        /\ \A s \in DOMAIN disk : disk'[s] = disk[s]
    BY <1>1, DiskGrows
  <1>3. \A u : Closed(u)' <=> Closed(u)
    BY DEF Closed
  <1>4. \A s \in DOMAIN disk' : disk'[s].of # 0 =>
           Closed(disk'[s].of) /\ disk'[s].rows = memtables[disk'[s].of].rows
    BY <1>2 DEF DiskOK
  <1>5. \A s, r \in DOMAIN disk' : s # r /\ disk'[s].of # 0 => disk'[s].of # disk'[r].of
    BY <1>1, <1>2 DEF DiskOK, OnDisk
  <1>6. DiskOK'
    BY <1>2, <1>3, <1>4, <1>5 DEF DiskOK, Closed
  <1>7. \A u : OnDisk(u)' => OnDisk(u) \/ u = t
    BY <1>2 DEF OnDisk
  <1> QED
    BY <1>6, <1>7

\* The registered segments are on disk, of memtables with numbers.
LEMMA RegistryNumbers ==
    ASSUME DiskOK, RegistryOK
    PROVE  \A i \in DOMAIN registry : registry[i] \in DOMAIN disk /\ disk[registry[i]].of \in Nat
  <1>1. \A i \in DOMAIN registry : registry[i] \in DOMAIN disk
    BY DEF RegistryOK
  <1>2. \A s \in DOMAIN disk : disk[s] \in [of : Nat, rows : Seq(Vals)]
    <2>1. disk \in Seq([of : Nat, rows : Seq(Vals)])
      BY DEF DiskOK
    <2>2. \A s \in DOMAIN disk : s \in 1 .. Len(disk)
      BY <2>1
    <2> QED
      BY <2>1, <2>2, ElementOfSeq
  <1> QED
    BY <1>1, <1>2

\* The steps after which nobody has anything new to write.
LEMMA WritesAside ==
    ASSUME IInv, WritesOK, TablesGrow, UNCHANGED <<disk, registry, queue>>,
           flusher' = flusher \/ flusher'.at \notin {"writing", "written"},
           closer' = closer \/ closer'.at # "writing"
    PROVE  WritesOK'
  <1> USE DEF WritesOK
  <1>1. DiskOK'
    BY DiskStays
  <1>2. \A t : OnDisk(t)' <=> OnDisk(t)
    BY DEF OnDisk
  <1>3. \A t : Closed(t) => Closed(t)'
    BY DEF Closed, TablesGrow, IInv, ActiveIsNewest, MemTables
  <1>4. QueueOK' /\ FlusherOK' /\ CloserOK'
    BY <1>2, <1>3 DEF QueueOK, FlusherOK, CloserOK
  <1>5. \A i \in DOMAIN registry : disk[registry[i]].of \in Nat
    BY RegistryNumbers
  <1>6. RegisteredBefore(active)'
    BY <1>5 DEF RegistryOK, RegisteredBefore, TablesGrow, IInv, ActiveIsNewest, MemTables
  <1>7. \A t : RegisteredBefore(t)' <=> RegisteredBefore(t)
    BY DEF RegisteredBefore
  <1>8. RegistryOK'
    BY <1>6, <1>7 DEF RegistryOK
  <1> QED
    BY <1>1, <1>4, <1>8

\* The oldest memtable of the queue is taken.
LEMMA WritesPicks == ASSUME IInv, WritesOK, FlushPicks PROVE WritesOK'
  <1> USE DEF WritesOK
  <1>1. PICK t \in 1 .. active : t = Head(queue)
    <2>1. Head(queue) \in 1 .. active - 1 /\ active \in Nat
      BY HeadTailProperties DEF FlushPicks, IInv, ActiveIsNewest, MemTables
    <2> QED
      BY <2>1
  <1>a. /\ DOMAIN queue = 1 .. Len(queue) /\ Len(queue) \in Nat \ {0} /\ t = queue[1]
        /\ DOMAIN queue' = 1 .. Len(queue) - 1 /\ \A i \in DOMAIN queue' : queue'[i] = queue[i + 1]
    <2>1. queue \in Seq(1 .. active - 1) /\ queue # <<>> /\ queue' = Tail(queue)
      BY DEF FlushPicks, IInv, ActiveIsNewest
    <2> QED
      BY <1>1, <2>1
  <1>2. /\ TablesGrow /\ memtables'[t].state = "flushing"
        /\ flusher' = [at |-> "writing", table |-> t, segment |-> 0]
        /\ UNCHANGED <<active, closer, disk, registry>>
    BY <1>1, Changes DEF FlushPicks, store
  <1>3. DiskOK'
    BY <1>2, DiskStays
  <1>4. \A x : OnDisk(x)' <=> OnDisk(x)
    BY <1>2 DEF OnDisk
  <1>5. \A x : Closed(x) => Closed(x)'
    BY <1>2 DEF Closed, TablesGrow
  <1>6. Closed(t)'
    BY <1>1, <1>2 DEF Closed
  <1>7. 1 \in DOMAIN queue /\ \A i \in DOMAIN queue' : i + 1 \in DOMAIN queue /\ 1 < i + 1
    BY <1>a
  <1>8. QueueOK'
    BY <1>a, <1>4, <1>7 DEF QueueOK
  <1>b. ~OnDisk(t) /\ \A i \in DOMAIN queue' : t < queue'[i]
    BY <1>a, <1>7 DEF QueueOK
  <1>9. FlusherOK'
    BY <1>2, <1>4, <1>6, <1>b DEF FlusherOK
  <1>10. CloserOK'
    BY <1>a, <1>2, <1>4, <1>5, <1>7 DEF CloserOK
  <1>11. \A x : RegisteredBefore(x)' <=> RegisteredBefore(x)
    BY <1>2 DEF RegisteredBefore
  <1>12. RegistryOK'
    BY <1>a, <1>2, <1>7, <1>11 DEF RegistryOK
  <1> QED
    BY <1>3, <1>8, <1>9, <1>10, <1>12

\* A segment is written: what was registered stays what it was.
LEMMA RegistryWritten ==
    ASSUME IInv, DiskOK, RegistryOK, NEW t \in 1 .. active, Writes(t), UNCHANGED <<registry, queue, active>>,
           flusher'.at \in {"writing", "written"} =>
               flusher.at \in {"writing", "written"} /\ flusher'.table = flusher.table
    PROVE  RegistryOK'
  <1>1. DOMAIN disk \subseteq DOMAIN disk' /\ \A s \in DOMAIN disk : disk'[s] = disk[s]
    BY DiskGrows DEF DiskOK
  <1>2. \A i \in DOMAIN registry : disk'[registry[i]] = disk[registry[i]]
    BY <1>1, RegistryNumbers
  <1>3. registry \in Seq(DOMAIN disk')
    BY <1>1, SeqMonotonic DEF RegistryOK
  <1>4. \A u : RegisteredBefore(u)' <=> RegisteredBefore(u)
    BY <1>2 DEF RegisteredBefore
  <1> QED
    BY <1>2, <1>3, <1>4 DEF RegistryOK

\* The flush loop writes the memtable it has taken.
LEMMA WritesFlushed == ASSUME IInv, WritesOK, FlushWrites PROVE WritesOK'
  <1> USE DEF WritesOK
  <1>1. PICK t : t = flusher.table /\ Closed(t) /\ ~OnDisk(t)
    BY DEF FlushWrites, FlusherOK
  <1>2. /\ Writes(t) /\ UNCHANGED <<memtables, active, queue, closer, registry>> /\ t \in 1 .. active
        /\ flusher.at = "writing" /\ \A i \in DOMAIN queue : t < queue[i]
    BY <1>1 DEF FlushWrites, tables, FlusherOK, Closed
  <1>3. flusher'.at = "written" /\ flusher'.table = t /\ flusher'.segment = NewSegment
    BY <1>1 DEF FlushWrites, IInv, ActiveIsNewest
  <1>4. DiskOK' /\ \A u : OnDisk(u)' => OnDisk(u) \/ u = t
    BY <1>1, <1>2, DiskWritten
  <1>5. NewSegment \in DOMAIN disk' /\ disk'[NewSegment].of = t
    BY <1>2, DiskGrows DEF DiskOK
  <1>6. \A i \in DOMAIN queue : queue[i] # t
    <2>1. \A i \in DOMAIN queue : queue[i] \in Nat
      BY DEF IInv, ActiveIsNewest
    <2> QED
      BY <1>2, <2>1
  <1>7. QueueOK'
    BY <1>2, <1>4, <1>6 DEF QueueOK
  <1>8. FlusherOK'
    BY <1>2, <1>3, <1>5 DEF FlusherOK
  <1>9. CloserOK'
    BY <1>1, <1>2, <1>3, <1>4 DEF CloserOK, Closed
  <1>10. RegistryOK'
    BY <1>1, <1>2, <1>3, RegistryWritten
  <1> QED
    BY <1>4, <1>7, <1>8, <1>9, <1>10

\* Its segment is registered: every other one is of an older memtable.
LEMMA WritesRegistered == ASSUME IInv, WritesOK, FlushRegisters PROVE WritesOK'
  <1> USE DEF WritesOK
  <1>1. PICK t, s : t = flusher.table /\ s = flusher.segment
    OBVIOUS
  <1>2. /\ t \in 1 .. active - 1 /\ active \in Nat /\ s \in DOMAIN disk /\ disk[s].of = t /\ RegisteredBefore(t)
        /\ registry' = Append(registry, s) /\ UNCHANGED <<active, queue, closer, disk>>
        /\ memtables' = [memtables EXCEPT ![t].state = "flushed"]
        /\ \A i \in DOMAIN queue : t < queue[i]
    BY <1>1 DEF FlushRegisters, IInv, ActiveIsNewest, MemTables, FlusherOK, RegistryOK
  <1>3. TablesGrow
    <2>1. t \in 1 .. active
      BY <1>2
    <2> QED
      BY <1>2, <2>1, Changes
  <1>4. flusher'.at = "loading"
    BY DEF FlushRegisters, IInv, ActiveIsNewest
  <1>5. DiskOK'
    BY <1>2, <1>3, DiskStays
  <1>6. \A u : (OnDisk(u)' <=> OnDisk(u)) /\ (Closed(u) => Closed(u)')
    BY <1>2, <1>3 DEF OnDisk, Closed, TablesGrow
  <1>7. QueueOK' /\ FlusherOK' /\ CloserOK'
    BY <1>2, <1>4, <1>6 DEF QueueOK, FlusherOK, CloserOK
  <1>8. registry \in Seq(DOMAIN disk)
    BY DEF RegistryOK
  <1>9. /\ registry' \in Seq(DOMAIN disk) /\ Len(registry) \in Nat
        /\ DOMAIN registry = 1 .. Len(registry) /\ DOMAIN registry' = 1 .. Len(registry) + 1
        /\ registry'[Len(registry) + 1] = s /\ \A i \in 1 .. Len(registry) : registry'[i] = registry[i]
    BY <1>2, <1>8
  <1>10. \A i \in 1 .. Len(registry) : disk[registry[i]].of < t
    BY <1>2, <1>9 DEF RegisteredBefore
  <1>11. \A i, j \in DOMAIN registry' :
           i < j /\ disk[registry'[j]].of # 0 => disk[registry'[i]].of < disk[registry'[j]].of
    <2> SUFFICES ASSUME NEW i \in DOMAIN registry', NEW j \in DOMAIN registry', i < j, disk[registry'[j]].of # 0
                 PROVE  disk[registry'[i]].of < disk[registry'[j]].of
      OBVIOUS
    <2>1. i \in 1 .. Len(registry)
      BY <1>9
    <2>2. CASE j = Len(registry) + 1
      BY <1>2, <1>9, <1>10, <2>1, <2>2
    <2>3. CASE j \in 1 .. Len(registry)
      BY <1>9, <2>1, <2>3 DEF RegistryOK
    <2> QED
      BY <1>9, <2>2, <2>3
  <1>12. ASSUME NEW u, t < u, RegisteredBefore(u) PROVE RegisteredBefore(u)'
    BY <1>2, <1>9, <1>12 DEF RegisteredBefore
  <1>13. RegisteredBefore(active)' /\ \A i \in DOMAIN queue : RegisteredBefore(queue[i])'
    BY <1>2, <1>12 DEF RegistryOK
  <1>14. RegistryOK'
    BY <1>2, <1>4, <1>9, <1>11, <1>13 DEF RegistryOK
  <1> QED
    BY <1>5, <1>7, <1>14

\* flush_all takes the active memtable: neither the queue nor the flush loop has it.
LEMMA WritesTaken == ASSUME IInv, WritesOK, NEW shuts \in BOOLEAN, FlushAll(shuts), FlushActive(shuts) PROVE WritesOK'
  <1> USE DEF WritesOK
  <1>1. /\ active \in 1 .. active /\ active \in Nat \ {0} /\ memtables[active].state = "active"
        /\ memtables' = [memtables EXCEPT ![active].state = "immutable"]
        /\ closer' = [at |-> "writing", table |-> active, segment |-> 0, shuts |-> shuts]
        /\ UNCHANGED <<active, queue, flusher, disk, registry>>
    BY DEF FlushAll, FlushActive, store, IInv, ActiveIsNewest, MemTables
  <1>2. TablesGrow /\ memtables'[active].state = "immutable"
    BY <1>1, Changes
  <1>3. ~OnDisk(active)
    BY <1>1 DEF OnDisk, DiskOK, Closed
  <1>4. /\ \A i \in DOMAIN queue : queue[i] # active
        /\ flusher.at = "writing" => flusher.table # active
    <2>1. \A i \in DOMAIN queue : queue[i] \in 1 .. active - 1
      BY DEF IInv, ActiveIsNewest
    <2>2. flusher.at = "writing" => flusher.table \in 1 .. active - 1
      BY DEF IInv, ActiveIsNewest
    <2> QED
      BY <1>1, <2>1, <2>2
  <1>5. DiskOK'
    BY <1>1, <1>2, DiskStays
  <1>6. \A u : (OnDisk(u)' <=> OnDisk(u)) /\ (Closed(u) => Closed(u)')
    BY <1>1, <1>2 DEF OnDisk, Closed, TablesGrow
  <1>7. QueueOK' /\ FlusherOK'
    BY <1>1, <1>6 DEF QueueOK, FlusherOK
  <1>8. CloserOK'
    BY <1>1, <1>2, <1>3, <1>4, <1>6 DEF CloserOK, Closed
  <1>9. \A u : RegisteredBefore(u)' <=> RegisteredBefore(u)
    BY <1>1 DEF RegisteredBefore
  <1>10. RegistryOK'
    BY <1>1, <1>9 DEF RegistryOK
  <1> QED
    BY <1>5, <1>7, <1>8, <1>10

\* flush_all writes what it has taken.
LEMMA WritesClosed == ASSUME IInv, WritesOK, CloserWrites PROVE WritesOK'
  <1> USE DEF WritesOK
  <1>1. PICK t : t = closer.table
    OBVIOUS
  <1>2. /\ Closed(t) /\ ~OnDisk(t) /\ Writes(t) /\ t \in 1 .. active
        /\ UNCHANGED <<memtables, active, queue, flusher, registry>>
        /\ \A i \in DOMAIN queue : queue[i] # t
        /\ flusher.at = "writing" => flusher.table # t
    BY <1>1 DEF CloserWrites, tables, CloserOK, Closed
  <1>3. closer'.at = "written"
    BY DEF CloserWrites, IInv, ClosedIsInactive
  <1>4. DiskOK' /\ \A u : OnDisk(u)' => OnDisk(u) \/ u = t
    BY <1>2, DiskWritten
  <1>5. /\ \A s \in DOMAIN disk : s \in DOMAIN disk' /\ disk'[s] = disk[s]
        /\ \A u : Closed(u)' <=> Closed(u)
    BY <1>2, DiskGrows DEF DiskOK, Closed
  <1>6. QueueOK' /\ FlusherOK' /\ CloserOK'
    BY <1>2, <1>3, <1>4, <1>5 DEF QueueOK, FlusherOK, CloserOK
  <1>7. RegistryOK'
    BY <1>2, RegistryWritten
  <1> QED
    BY <1>4, <1>6, <1>7

\* The thread of the cancelled flush loop still finishes.
LEMMA WritesStopped == ASSUME IInv, WritesOK, Stop PROVE WritesOK'
  <1> USE DEF WritesOK
  <1>1. /\ flusher'.at = "idle" /\ closer'.at = "stopped"
        /\ UNCHANGED <<memtables, active, queue, registry>>
    BY DEF Stop, NoTask, NoClose, tables
  <1>2. CASE UNCHANGED disk
    BY <1>1, <1>2, SameGrow, WritesAside
  <1>3. CASE disk' # disk
    <2>1. PICK t : t = flusher.table
      OBVIOUS
    <2>2. /\ Closed(t) /\ ~OnDisk(t) /\ Writes(t) /\ t \in 1 .. active
          /\ \A i \in DOMAIN queue : t < queue[i]
      BY <1>3, <2>1 DEF Stop, FlusherOK, Closed
    <2>3. DiskOK' /\ \A u : OnDisk(u)' => OnDisk(u) \/ u = t
      BY <1>1, <2>2, DiskWritten
    <2>4. \A i \in DOMAIN queue : queue[i] # t
      <3>1. \A i \in DOMAIN queue : queue[i] \in Nat
        BY DEF IInv, ActiveIsNewest
      <3> QED
        BY <2>2, <3>1
    <2>5. QueueOK' /\ FlusherOK' /\ CloserOK'
      BY <1>1, <2>3, <2>4 DEF QueueOK, FlusherOK, CloserOK
    <2>6. RegistryOK'
      BY <1>1, <2>2, RegistryWritten
    <2> QED
      BY <2>3, <2>5, <2>6
  <1> QED
    BY <1>2, <1>3

\* A rotation queues the memtable that was active: it is on no disk, and newer than
\* any that was queued or registered.
LEMMA WritesRotated ==
    ASSUME IInv, WritesOK, NEW rows \in Seq(Vals), Rotate(rows), UNCHANGED <<flusher, disk, registry>>,
           closer' = closer \/ closer'.at # "writing"
    PROVE  WritesOK'
  <1> USE DEF WritesOK
  <1>1. /\ TablesGrow /\ active' = active + 1 /\ active \in Nat \ {0}
        /\ memtables[active].state = "active" /\ queue' = Append(queue, active)
    BY RotateGrow
  <1>2. queue \in Seq(Nat)
    <2>1. queue \in Seq(1 .. active - 1) /\ 1 .. active - 1 \subseteq Nat
      BY DEF IInv, ActiveIsNewest
    <2> QED
      BY <2>1, SeqMonotonic
  <1>3. /\ Len(queue) \in Nat /\ DOMAIN queue = 1 .. Len(queue) /\ DOMAIN queue' = 1 .. Len(queue) + 1
        /\ queue'[Len(queue) + 1] = active
        /\ \A i \in 1 .. Len(queue) : queue'[i] = queue[i]
    BY <1>1, <1>2
  <1>4. \A i \in 1 .. Len(queue) : queue[i] \in 1 .. active - 1
    BY <1>3 DEF IInv, ActiveIsNewest
  <1>5. ~OnDisk(active)
    BY <1>1 DEF OnDisk, DiskOK, Closed
  <1>6. DiskOK'
    BY <1>1, DiskStays
  <1>7. \A u : (OnDisk(u)' <=> OnDisk(u)) /\ (Closed(u) => Closed(u)')
    BY <1>1 DEF OnDisk, Closed, TablesGrow
  <1>8. \A i \in DOMAIN queue' : ~OnDisk(queue'[i])
    BY <1>3, <1>5 DEF QueueOK
  <1>9. \A i, j \in DOMAIN queue' : i < j => queue'[i] < queue'[j]
    <2> SUFFICES ASSUME NEW i \in DOMAIN queue', NEW j \in DOMAIN queue', i < j PROVE queue'[i] < queue'[j]
      OBVIOUS
    <2>1. i \in 1 .. Len(queue)
      BY <1>3
    <2>2. CASE j = Len(queue) + 1
      BY <1>1, <1>3, <1>4, <2>1, <2>2
    <2>3. CASE j \in 1 .. Len(queue)
      BY <1>3, <2>1, <2>3 DEF QueueOK
    <2> QED
      BY <1>3, <2>2, <2>3
  <1>10. QueueOK'
    BY <1>7, <1>8, <1>9 DEF QueueOK
  <1>11. flusher.at \in {"writing", "written"} => flusher.table \in 1 .. active - 1
    BY DEF IInv, ActiveIsNewest
  <1>12. flusher.at \in {"writing", "written"} => \A i \in DOMAIN queue' : flusher.table < queue'[i]
    BY <1>1, <1>3, <1>11 DEF FlusherOK
  <1>13. FlusherOK'
    BY <1>7, <1>12 DEF FlusherOK
  <1>14. closer.at = "writing" => closer.table # active
    BY <1>1 DEF CloserOK, Closed
  <1>15. CloserOK'
    BY <1>3, <1>7, <1>14 DEF CloserOK
  <1>16. \A u : RegisteredBefore(u)' <=> RegisteredBefore(u)
    BY DEF RegisteredBefore
  <1>17. RegisteredBefore(active + 1)
    BY <1>1, RegistryNumbers DEF RegisteredBefore, RegistryOK
  <1>18. \A i \in DOMAIN queue' : RegisteredBefore(queue'[i])
    BY <1>3 DEF RegistryOK
  <1>19. RegistryOK'
    BY <1>1, <1>16, <1>17, <1>18 DEF RegistryOK
  <1> QED
    BY <1>6, <1>10, <1>13, <1>15, <1>19

\* A function on 1 .. n is a sequence.
LEMMA FunctionIsSeq == ASSUME NEW S, NEW n \in Nat, NEW f \in [1 .. n -> S] PROVE f \in Seq(S)
  OBVIOUS

\* What a restart keeps of a registry whose files all exist is all of it: in
\* particular, only segments that are on disk.
LEMMA ExistingOnDisk ==
    ASSUME RegistryOK PROVE Existing \in Seq(DOMAIN disk)
  <1> DEFINE kept  == {i \in DOMAIN registry : registry[i] \in DOMAIN disk}
             Sorted(f) == \A i, j \in DOMAIN f : i < j => f[i] < f[j]
             order == CHOOSE f \in [1 .. Cardinality(kept) -> kept] : Sorted(f)
  <1>1. registry \in Seq(DOMAIN disk)
    BY DEF RegistryOK
  <1>2. kept = 1 .. Len(registry) /\ Len(registry) \in Nat
    BY <1>1
  <1>3. Cardinality(kept) = Len(registry)
    <2>1. Cardinality(1 .. Len(registry)) = IF 1 > Len(registry) THEN 0 ELSE Len(registry) - 1 + 1
      BY <1>2, FS_Interval
    <2> HIDE DEF kept
    <2> QED
      BY <1>2, <2>1
  <1> DEFINE same == [i \in 1 .. Len(registry) |-> i]
  <1>4. same \in [1 .. Cardinality(kept) -> kept] /\ Sorted(same)
    BY <1>2, <1>3
  <1> HIDE DEF same, Sorted
  <1>5. order \in [1 .. Cardinality(kept) -> kept]
    BY <1>4
  <1>6. Existing = [i \in DOMAIN order |-> registry[order[i]]]
    BY DEF Existing, Sorted
  <1> HIDE DEF order, kept
  <1>7. order \in [1 .. Len(registry) -> 1 .. Len(registry)]
    BY <1>2, <1>3, <1>5
  <1>8. \A i \in 1 .. Len(registry) : registry[order[i]] \in DOMAIN disk
    BY <1>1, <1>7
  <1>9. Existing \in [1 .. Len(registry) -> DOMAIN disk]
    BY <1>6, <1>7, <1>8
  <1> QED
    BY <1>2, <1>9, FunctionIsSeq

\* A new process finds the segments of the earlier ones, and has nothing to write.
LEMMA WritesRestarted == ASSUME WritesOK, Restart PROVE WritesOK'
  <1> USE DEF WritesOK
  <1>1. /\ DOMAIN disk' = DOMAIN disk /\ \A s \in DOMAIN disk : disk'[s] = [disk[s] EXCEPT !.of = 0]
        /\ active' = 1 /\ queue' = <<>> /\ flusher'.at = "idle" /\ closer'.at = "idle"
    BY DEF Restart, NewManager, NoTask, NoClose
  <1>2. disk \in Seq([of : Nat, rows : Seq(Vals)])
    BY DEF DiskOK
  <1>3. \A s \in DOMAIN disk : disk[s] \in [of : Nat, rows : Seq(Vals)]
    <2>1. \A s \in DOMAIN disk : s \in 1 .. Len(disk)
      BY <1>2
    <2> QED
      BY <1>2, <2>1, ElementOfSeq
  <1>4. \A s \in DOMAIN disk : disk'[s].of = 0 /\ disk'[s] \in [of : Nat, rows : Seq(Vals)]
    BY <1>1, <1>3
  <1>5. disk' \in Seq([of : Nat, rows : Seq(Vals)])
    <2>1. DOMAIN disk = 1 .. Len(disk) /\ Len(disk) \in Nat
      BY <1>2
    <2>2. disk' \in [1 .. Len(disk) -> [of : Nat, rows : Seq(Vals)]]
      BY <1>1, <1>4, <2>1 DEF Restart, NewManager
    <2> QED
      BY <2>1, <2>2, FunctionIsSeq
  <1>6. DiskOK'
    BY <1>1, <1>4, <1>5 DEF DiskOK
  <1>7. QueueOK' /\ FlusherOK' /\ CloserOK'
    BY <1>1 DEF QueueOK, FlusherOK, CloserOK
  <1>8. registry' \in Seq(DOMAIN disk)
    BY ExistingOnDisk, NoQueue DEF Restart, NewManager, Readable
  <1>9. \A i \in DOMAIN registry' : registry'[i] \in DOMAIN disk
    BY <1>8
  <1>10. RegistryOK'
    BY <1>1, <1>4, <1>8, <1>9 DEF RegistryOK, RegisteredBefore
  <1> QED
    BY <1>6, <1>7, <1>10

\* Every step keeps what is written, and what may be written, right.
LEMMA WritesStep == ASSUME IInv, WritesOK, [Next]_vars PROVE WritesOK'
  <1>1. ASSUME NEW v \in Vals, Insert(v) PROVE WritesOK'
    <2>1. CASE Rotate(<<v>>)
      <3>1. <<v>> \in Seq(Vals)
        OBVIOUS
      <3> QED
        BY <1>1, <2>1, <3>1, WritesRotated DEF Insert, store
    <2>2. CASE ~Rotate(<<v>>)
      <3>1. TablesGrow
        BY <1>1, <2>2, AppendGrow DEF Insert
      <3> QED
        BY <1>1, <2>2, <3>1, WritesAside DEF Insert, store
    <2> QED BY <2>1, <2>2
  <1>2. ASSUME Touch PROVE WritesOK'
    BY <1>2, NoQueue, WritesRotated DEF Touch, store
  <1>3. CASE FlushFails
    <2>1. flusher.table \in 1 .. active
      BY <1>3 DEF FlushFails, IInv, ActiveIsNewest, MemTables
    <2>2. TablesGrow
      BY <1>3, <2>1, Changes DEF FlushFails
    <2> QED
      BY <1>3, <2>2, WritesAside DEF FlushFails, NoTask, store
  <1>4. CASE FlushLoads
    BY <1>4, SameGrow, WritesAside DEF FlushLoads, NoTask
  <1>5. ASSUME NEW shuts \in BOOLEAN, FlushAll(shuts) PROVE WritesOK'
    <2>1. CASE Rotate(<<>>) /\ AfterFlushAll(shuts)
      BY <1>5, <2>1, NoQueue, WritesRotated DEF FlushAll, AfterFlushAll, NoClose, store
    <2>2. CASE AfterFlushAll(shuts) /\ UNCHANGED tables
      BY <1>5, <2>2, SameGrow, WritesAside DEF FlushAll, AfterFlushAll, NoClose, store, tables
    <2>3. CASE FlushActive(shuts)
      BY <1>5, <2>3, WritesTaken
    <2> QED
      BY <1>5, <2>1, <2>2, <2>3 DEF FlushAll
  <1>6. CASE CloserGoesOn
    <2>1. closer.table \in 1 .. active
      BY <1>6 DEF CloserGoesOn, IInv, ClosedIsInactive
    <2>2. TablesGrow
      BY <1>6, <2>1, Changes DEF CloserGoesOn
    <2> QED
      BY <1>6, <2>2, WritesAside DEF CloserGoesOn, AfterFlushAll, NoClose, store
  <1>7. CASE CloserFails
    BY <1>7, SameGrow, WritesAside DEF CloserFails, NoClose, tables, store
  <1>8. CASE UNCHANGED vars
    BY <1>8, SameGrow, WritesAside DEF vars, tables, store
  <1> QED
    BY <1>1, <1>2, <1>3, <1>4, <1>5, <1>6, <1>7, <1>8, WritesPicks, WritesFlushed, WritesRegistered,
       WritesClosed, WritesStopped, WritesRestarted DEF Next, Flush

\* In the first process there is no segment, and nothing is inserted.
LEMMA DataInit == Init => AllKept /\ WritesOK
  BY NoQueue DEF Init, AllKept, WritesOK, DiskOK, QueueOK, FlusherOK, CloserOK, RegistryOK, RegisteredBefore,
                 NoTask, NoClose

\* The two hold, with IInv, in every state.
LEMMA DataInductive == Spec => [](IInv /\ AllKept /\ WritesOK)
  BY InitInv, DataInit, NextInv, KeptStep, WritesStep, PTL DEF Spec

\* Every value inserted in a process is found, at every moment of its memtable's way
\* to disk.
THEOREM InsertedAlwaysFound == Spec => []InsertedIsFound
  BY DataInductive, KeptIsFound, PTL

\* No memtable is written twice, and nothing is inserted behind a write.
THEOREM TablesWrittenOnce == Spec => []WrittenOnce
  <1>1. WritesOK => WrittenOnce
    BY DEF WritesOK, DiskOK, WrittenOnce
  <1> QED
    BY <1>1, DataInductive, PTL

\* The registry lists complete segments, in the order their memtables were filled.
THEOREM RegistryAlwaysInOrder == Spec => []RegistryInOrder
  <1>1. WritesOK => RegistryInOrder
    BY RegistryNumbers DEF WritesOK, RegistryOK, RegistryInOrder
  <1> QED
    BY <1>1, DataInductive, PTL
=============================================================================
