-------------------------------- MODULE MemTable --------------------------------
(***************************************************************************)
(* The memtable mode of the engine (src/src/database/engine/memtable.py,   *)
(* used by distributed.py when use_direct_flush is False): one table's     *)
(* MemTableManager with its FlushService and SSTableRegistry.              *)
(*                                                                         *)
(* The engine itself only inserts: update and delete go through            *)
(* range(table.row_count), which is empty in this mode, so rows get the    *)
(* identifiers 0, 1, ... of their memtable and are a sequence of values.   *)
(* No lock of this code is held across a suspension; an action is the code *)
(* between two calls of the executor or two waits.                         *)
(***************************************************************************)
EXTENDS Naturals, Sequences, SequencesExt

CONSTANTS
    Vals,         \* values of the column rows are looked up by
    EntryLimit,   \* MemTable.entry_limit
    MaxTables,    \* bound: memtables a process makes
    MaxSegments   \* bound: segment files

ASSUME MemTableAssumption ==
    EntryLimit \in Nat \ {0} /\ MaxTables \in Nat /\ MaxSegments \in Nat

VARIABLES
    memtables,   \* every memtable of this process, in order of creation
    active,      \* _active_memtables[table]
    immutables,  \* _immutable_memtables[table]
    queue,       \* _flush_queue
    flusher,     \* the task in _flush_loop
    closer,      \* the task in flush_all or close
    disk,        \* the segment files
    registry,    \* segments in the registry, in memory and, saved with it, on disk
    sstables,    \* segments with a reader in _sstables[table]
    open,        \* the engine's initialize got through
    inserted     \* values this process reported as inserted

tables == <<memtables, active, immutables, queue>>
store  == <<disk, registry, sstables>>
vars   == <<tables, flusher, closer, store, open, inserted>>

Segments == 1 .. MaxSegments
NoTask   == [at |-> "idle", table |-> 0, segment |-> 0]
NoClose  == [at |-> "idle", table |-> 0, segment |-> 0, shuts |-> FALSE]
NewTable == [state |-> "active", rows |-> <<>>]

-----------------------------------------------------------------------------
(* A segment file ends in four offsets of 8 bytes, in this order, and 4 bytes of
   magic.  SSTableReader goes back 28 bytes from the end and takes three. *)

Footer == <<"bloom", "data", "index", "footer">>

Loaded == [i \in 1 .. 3 |-> Footer[i + (8 * Len(Footer) + 4 - 28) \div 8]]

\* It then reads the index at the third of them.  Anywhere else it finds a count
\* of entries, and runs past the end of the file: struct.error.
Loads == Loaded[3] = "index"

-----------------------------------------------------------------------------
Init ==
    /\ memtables = <<NewTable>> /\ active = 1 /\ immutables = <<>> /\ queue = <<>>
    /\ flusher = NoTask /\ closer = NoClose
    /\ disk = <<>> /\ registry = <<>> /\ sstables = <<>>
    /\ open = TRUE /\ inserted = {}

-----------------------------------------------------------------------------
(* get_memtable and insert *)

Ready == open /\ closer.at # "stopped"

Full == Len(memtables[active].rows) >= EntryLimit

\* A full memtable joins the immutable ones and is queued; the new one takes
\* `rows`.  schedule_flush would raise, in the middle of this, if the memtable were
\* not active: that it always is, is the property FullIsActive.
Rotate(rows) ==
    /\ Full /\ memtables[active].state = "active"
    /\ Len(memtables) < MaxTables
    /\ active' = Len(memtables) + 1
    /\ immutables' = Append(immutables, active)
    /\ queue' = Append(queue, active)
    /\ memtables' = Append([memtables EXCEPT ![active].state = "immutable"],
                           [NewTable EXCEPT !.rows = rows])

\* A memtable that is not active any more raises, and nothing changes.
Insert(v) ==
    /\ Ready
    /\ \/ /\ ~Full /\ memtables[active].state = "active"
          /\ memtables' = [memtables EXCEPT ![active].rows = Append(@, v)]
          /\ UNCHANGED <<active, immutables, queue>>
       \/ Rotate(<<v>>)
    /\ inserted' = inserted \cup {v}
    /\ UNCHANGED <<flusher, closer, store, open>>

\* count, get_table_info and commit call get_memtable, too.
Touch == Ready /\ Rotate(<<>>) /\ UNCHANGED <<flusher, closer, store, open, inserted>>

-----------------------------------------------------------------------------
(* The flush loop *)

NewSegment == Len(disk) + 1

\* Mutant: the newest memtable of the queue first.
FlushPicksLast ==
    /\ flusher.at = "idle" /\ closer.at # "stopped"
    /\ queue # <<>>
    /\ queue' = Front(queue)
    /\ memtables' = [memtables EXCEPT ![Last(queue)].state = "flushing"]
    /\ flusher' = [at |-> "writing", table |-> Last(queue), segment |-> 0]
    /\ UNCHANGED <<active, immutables, closer, store, open, inserted>>

FlushPicks ==
    /\ flusher.at = "idle" /\ closer.at # "stopped"
    /\ queue # <<>>
    /\ queue' = Tail(queue)
    /\ memtables' = [memtables EXCEPT ![Head(queue)].state = "flushing"]
    /\ flusher' = [at |-> "writing", table |-> Head(queue), segment |-> 0]
    /\ UNCHANGED <<active, immutables, closer, store, open, inserted>>

\* The executor's thread writes the file; `of` remembers the memtable.
Writes(t) == disk' = Append(disk, [of |-> t, rows |-> memtables[t].rows])

FlushWrites ==
    /\ flusher.at = "writing" /\ NewSegment \in Segments
    /\ Writes(flusher.table)
    /\ flusher' = [flusher EXCEPT !.at = "written", !.segment = NewSegment]
    /\ UNCHANGED <<tables, closer, registry, sstables, open, inserted>>

\* Mutant: the exception leaves the loop.
FlushDies ==
    /\ flusher.at = "writing"
    /\ memtables' = [memtables EXCEPT ![flusher.table].state = "immutable"]
    /\ flusher' = [NoTask EXCEPT !.at = "dead"]
    /\ UNCHANGED <<active, immutables, queue, closer, store, open, inserted>>

\* Writing raised: the memtable is immutable again, and not queued.
FlushFails ==
    /\ flusher.at = "writing"
    /\ memtables' = [memtables EXCEPT ![flusher.table].state = "immutable"]
    /\ flusher' = NoTask
    /\ UNCHANGED <<active, immutables, queue, closer, store, open, inserted>>

\* The loop goes on: the memtable is flushed, the callback registers the segment
\* and saves the registry, and waits for the reader to load.
FlushRegisters ==
    /\ flusher.at = "written"
    /\ memtables' = [memtables EXCEPT ![flusher.table].state = "flushed"]
    /\ registry' = Append(registry, flusher.segment)
    /\ flusher' = [flusher EXCEPT !.at = "loading"]
    /\ UNCHANGED <<active, immutables, queue, closer, disk, sstables, open, inserted>>

Unflushed == SelectSeq(immutables, LAMBDA t : memtables[t].state # "flushed")

\* Mutant: the memtable is let go of first.
FlushLetsGoFirst ==
    /\ flusher.at = "loading"
    /\ sstables' = IF Loads THEN Append(sstables, flusher.segment) ELSE sstables
    /\ immutables' = Unflushed
    /\ flusher' = NoTask
    /\ UNCHANGED <<memtables, active, queue, closer, disk, registry, open, inserted>>

\* The callback adds the reader and then lets go of flushed memtables, unless
\* loading raised, which the loop prints.
FlushLoads ==
    /\ flusher.at = "loading"
    /\ sstables' = IF Loads THEN Append(sstables, flusher.segment) ELSE sstables
    /\ immutables' = IF Loads THEN Unflushed ELSE immutables
    /\ flusher' = NoTask
    /\ UNCHANGED <<memtables, active, queue, closer, disk, registry, open, inserted>>

-----------------------------------------------------------------------------
(* flush_all, and close, which is flush_all, wait_for_pending_flushes and stop *)

\* flush_all is through: close goes on to wait.
AfterFlushAll(shuts) == closer' = IF shuts THEN [NoClose EXCEPT !.at = "waiting"] ELSE NoClose

\* flush_immediately: make_immutable raises if the memtable was not active,
\* flush_all ends there, and close with it.
FlushActive(shuts) ==
    /\ memtables[active].rows # <<>> /\ memtables[active].state = "active"
    /\ memtables' = [memtables EXCEPT ![active].state = "immutable"]
    /\ closer' = [at |-> "writing", table |-> active, segment |-> 0, shuts |-> shuts]
    /\ UNCHANGED <<active, immutables, queue>>

\* Mutant: the memtable that is written stays active.
FlushAllKeepsActive(shuts) ==
    /\ Ready /\ closer.at = "idle"
    /\ \/ Rotate(<<>>) /\ AfterFlushAll(shuts)
       \/ memtables[active].rows = <<>> /\ shuts /\ AfterFlushAll(shuts) /\ UNCHANGED tables
       \/ /\ ~Full /\ memtables[active].rows # <<>>
          /\ closer' = [at |-> "writing", table |-> active, segment |-> 0, shuts |-> shuts]
          /\ UNCHANGED tables
    /\ UNCHANGED <<flusher, store, open, inserted>>

\* Mutant: flush_all takes the active memtable as it is.
FlushAllNoRotation(shuts) ==
    /\ Ready /\ closer.at = "idle"
    /\ \/ memtables[active].rows = <<>> /\ shuts /\ AfterFlushAll(shuts) /\ UNCHANGED tables
       \/ FlushActive(shuts)
    /\ UNCHANGED <<flusher, store, open, inserted>>

\* get_memtable leaves a full memtable to the flush loop, and its new one is
\* empty, as one that has no rows yet: there is nothing to write.
FlushAll(shuts) ==
    /\ Ready /\ closer.at = "idle"
    /\ \/ Rotate(<<>>) /\ AfterFlushAll(shuts)
       \/ memtables[active].rows = <<>> /\ shuts /\ AfterFlushAll(shuts) /\ UNCHANGED tables
       \/ ~Full /\ FlushActive(shuts)
    /\ UNCHANGED <<flusher, store, open, inserted>>

CloserWrites ==
    /\ closer.at = "writing" /\ NewSegment \in Segments
    /\ Writes(closer.table)
    /\ closer' = [closer EXCEPT !.at = "written", !.segment = NewSegment]
    /\ UNCHANGED <<tables, flusher, registry, sstables, open, inserted>>

\* The memtable is flushed; its segment is told to nobody.
CloserGoesOn ==
    /\ closer.at = "written"
    /\ memtables' = [memtables EXCEPT ![closer.table].state = "flushed"]
    /\ AfterFlushAll(closer.shuts)
    /\ UNCHANGED <<active, immutables, queue, flusher, store, open, inserted>>

\* Writing raised: flush_all and close end, the memtable stays immutable.
CloserFails ==
    /\ closer.at = "writing"
    /\ closer' = NoClose
    /\ UNCHANGED <<tables, flusher, store, open, inserted>>

\* The queue is empty, or has been waited for long enough: the flush loop is
\* cancelled wherever it is.  The thread that writes for it may still finish.
Stop ==
    /\ closer.at = "waiting"
    /\ closer' = [NoClose EXCEPT !.at = "stopped"]
    /\ flusher' = NoTask
    /\ \/ UNCHANGED disk
       \/ flusher.at = "writing" /\ NewSegment \in Segments /\ Writes(flusher.table)
    /\ UNCHANGED <<tables, registry, sstables, open, inserted>>

-----------------------------------------------------------------------------
(* The process dies, or ends, and a new one opens the same directory: the
   registry is read, with the entries whose file exists, and register_table loads
   a reader for each.  If one does not load, initialize raises, and raises again
   in every call that begins with it. *)

\* The entries whose file exists, in the order of the registry.
Existing ==
    LET kept  == {i \in DOMAIN registry : registry[i] \in DOMAIN disk}
        order == CHOOSE f \in [1 .. Cardinality(kept) -> kept] :
                   \A i, j \in DOMAIN f : i < j => f[i] < f[j]
    IN  [i \in DOMAIN order |-> registry[order[i]]]

\* A process that dies while it saves leaves a registry that is not read at all.
Readable ==
    {Existing}
        \cup IF flusher.at = "written" THEN {<<>>} ELSE {}

NewManager ==
    /\ memtables' = <<NewTable>> /\ active' = 1 /\ immutables' = <<>>
    /\ flusher' = NoTask /\ closer' = NoClose /\ inserted' = {}
    /\ registry' \in Readable
    /\ open' = (Loads \/ registry' = <<>>)
    /\ sstables' = IF Loads THEN registry' ELSE <<>>
    /\ disk' = [s \in DOMAIN disk |-> [disk[s] EXCEPT !.of = 0]]

Restart == NewManager /\ queue' = <<>>

-----------------------------------------------------------------------------
Flush == FlushPicks \/ FlushWrites \/ FlushFails \/ FlushRegisters \/ FlushLoads

Next ==
    \/ \E v \in Vals : Insert(v)
    \/ Touch \/ Flush
    \/ \E shuts \in BOOLEAN : FlushAll(shuts)
    \/ CloserWrites \/ CloserGoesOn \/ CloserFails \/ Stop \/ Restart

Spec == Init /\ [][Next]_vars

\* The flush loop and its thread go on; nobody has to call.
FairSpec == Spec /\ WF_vars(Flush)

-----------------------------------------------------------------------------
(* Properties *)

TypeOK ==
    /\ memtables \in Seq([state : {"active", "immutable", "flushing", "flushed"}, rows : Seq(Vals)])
    /\ active \in DOMAIN memtables
    /\ \A i \in DOMAIN immutables : immutables[i] \in DOMAIN memtables
    /\ \A i \in DOMAIN queue : queue[i] \in DOMAIN memtables
    /\ flusher \in [at : {"idle", "writing", "written", "loading"},
                    table : DOMAIN memtables \cup {0}, segment : DOMAIN disk \cup {0}]
    /\ closer \in [at : {"idle", "writing", "written", "waiting", "stopped"},
                   table : DOMAIN memtables \cup {0}, segment : DOMAIN disk \cup {0}, shuts : BOOLEAN]
    /\ disk \in Seq([of : DOMAIN memtables \cup {0}, rows : Seq(Vals)])
    /\ registry \in Seq(DOMAIN disk) /\ sstables \in Seq(DOMAIN disk)
    /\ open \in BOOLEAN /\ inserted \subseteq Vals

\* find_by_column walks the active memtable, the immutable ones and the readers.
Found ==
    UNION {ToSet(memtables[t].rows) : t \in {active} \cup ToSet(immutables)}
        \cup UNION {ToSet(disk[s].rows) : s \in ToSet(sstables)}

\* Every value inserted in this process is found by its column, at every moment
\* of its memtable's way to disk, whether the flush loop, flush_all or a failure
\* takes it there.
InsertedIsFound == inserted \subseteq Found

\* A memtable that has reached its limit has not been taken by flush_all, so that
\* get_memtable, which replaces it before it asks, is never refused half-way.
FullIsActive == Full => memtables[active].state = "active"

\* The flush loop and flush_all never write one memtable twice, and what either
\* wrote is what the memtable holds: nothing is inserted behind the write.
WrittenOnce ==
    /\ \A s, r \in DOMAIN disk : s # r /\ disk[s].of # 0 => disk[s].of # disk[r].of
    /\ \A s \in DOMAIN disk : disk[s].of # 0 => disk[s].rows = memtables[disk[s].of].rows

\* A registered segment has been written in full, also when the process dies between
\* its steps, and the registry lists segments in the order their memtables were
\* filled: the later one holds the newer rows.
RegistryInOrder ==
    /\ \A i \in DOMAIN registry : registry[i] \in DOMAIN disk
    /\ \A i, j \in DOMAIN registry :
         i < j /\ disk[registry[j]].of # 0 => disk[registry[i]].of < disk[registry[j]].of

\* A memtable that was queued leaves the queue, whatever happens to those before
\* it, unless the engine is shut down.
QueueDrains ==
    \A t \in 1 .. MaxTables : t \in ToSet(queue) ~> t \notin ToSet(queue) \/ closer.at = "stopped"
=============================================================================
