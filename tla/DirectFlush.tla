------------------------------ MODULE DirectFlush ------------------------------
(***************************************************************************)
(* DirectFlushManager (src/src/database/engine/direct_flush.py) for one    *)
(* table: every write makes a new immutable segment file, the manager      *)
(* keeps the list of segment descriptors in memory, reads walk that list,  *)
(* compact and clear_table bind a fresh list to the table.                 *)
(*                                                                         *)
(* The manager is a set of coroutines of one event loop.  An action is the *)
(* code between two awaits that really suspend: waiting for the writer's   *)
(* lock, and the executor's file write or file read.  The manager's own    *)
(* lock is never held across an await once initialize is over, so it is    *)
(* never contended and does not appear.                                    *)
(***************************************************************************)
EXTENDS Naturals, Sequences, FiniteSets

CONSTANTS
    Clients,     \* tasks that call the manager
    Vals,        \* what a row's columns can hold
    NoVal,       \* the columns of a tombstone: there are none
    MaxRows,     \* bound: row identifiers are below MaxRows
    MaxFiles,    \* bound: at most MaxFiles segment files are ever written
    Operations   \* the methods the clients call

ASSUME DirectFlushAssumption ==
    /\ MaxRows \in Nat /\ MaxFiles \in Nat
    /\ NoVal \notin Vals
    /\ Operations \subseteq
         {"insert", "insert_batch", "update", "delete", "get", "scan",
          "compact", "clear", "restart"}

VARIABLES
    files,       \* segment files on disk: file number -> the rows in it
    written,     \* number of segment files ever created, the last one's number
    segments,    \* the list object bound to _segments[table]
    counter,     \* _row_counters[table]
    lockQueue,   \* DirectFlushWriter._lock: its holder, then the waiters in order
    pc,          \* where each client is suspended
    call,        \* the call each client is in
    held,        \* the list object each client reads: the bound one, or a former one
    at,          \* its position in that list
    page,        \* the rows of the file it is waiting to read
    hand,        \* rows each client has collected, is to write or has returned
    out,         \* the file each client has just written
    reply        \* outcome of each client's last call

disk   == <<files, written>>
memory == <<segments, counter, lockQueue>>
local  == <<pc, call, held, at, page, hand, out, reply>>
vars   == <<disk, memory, local>>

Rows     == 0 .. MaxRows - 1
FileNums == 1 .. MaxFiles

\* A row as stored: its columns, and whether it carries '__deleted__'.
Version == [val : Vals \cup {NoVal}, deleted : BOOLEAN]
RowMaps == UNION {[R -> Version] : R \in SUBSET Rows}
NoRows  == [r \in {} |-> r]

\* TableSegment: the descriptor kept in memory for one file.
Segment == [file : FileNums, min : Rows, max : Rows, entries : Nat]

\* A task's reference to a list object.  The bound list grows in place; one
\* that was replaced is kept alive, as it was, by the tasks that hold it.
NoList     == [live |-> FALSE, kept |-> <<>>]
LiveList   == [live |-> TRUE, kept |-> <<>>]
ListOf(c)  == IF held[c].live THEN segments ELSE held[c].kept
Detached   == [c \in Clients |-> IF held[c].live THEN [live |-> FALSE, kept |-> segments]
                                 ELSE held[c]]
NoCall     == [op |-> "none", row |-> 0, val |-> NoVal]

MinOf(R) == CHOOSE r \in R : \A x \in R : r <= x
MaxOf(R) == CHOOSE r \in R : \A x \in R : r >= x
Larger(a, b) == IF a >= b THEN a ELSE b

Describe(f, rows) == [file |-> f, min |-> MinOf(DOMAIN rows),
                      max |-> MaxOf(DOMAIN rows), entries |-> Cardinality(DOMAIN rows)]

\* Mutant: a version already collected is not overridden.
MergeOldest(old, new) == [r \in DOMAIN old \cup DOMAIN new |->
                            IF r \in DOMAIN old THEN old[r] ELSE new[r]]

\* dict.update: the entries of new override those of old.
Merge(old, new) == [r \in DOMAIN old \cup DOMAIN new |->
                      IF r \in DOMAIN new THEN new[r] ELSE old[r]]
Only(rows, R)   == [r \in DOMAIN rows \cap R |-> rows[r]]
Active(rows)    == Only(rows, {r \in DOMAIN rows : ~rows[r].deleted})

FilesOf(list)      == {list[i].file : i \in DOMAIN list}
Exists(seg)        == seg.file \in DOMAIN files
\* Mutant: the last row of a segment is taken to be outside it.
CoversBelow(seg, row) == seg.min <= row /\ row < seg.max
Covers(seg, row)   == seg.min <= row /\ row <= seg.max

\* Where a scan stops next at or after position i: the next segment whose file
\* exists, or one past the end; the code skips the others without suspending.
NextScanned(list, i) ==
    LET ahead == {j \in i .. Len(list) : Exists(list[j])}
    IN  IF ahead = {} THEN Len(list) + 1 ELSE MinOf(ahead)

\* Mutant: get walks the list from its oldest segment.
NextProbedOldest(list, i, row) ==
    LET back == {j \in 1 .. i : Covers(list[j], row) /\ Exists(list[j])}
    IN  IF back = {} THEN 0 ELSE MinOf(back)

\* Where get stops next at or before position i, 0 when nothing is left.
NextProbed(list, i, row) ==
    LET back == {j \in 1 .. i : Covers(list[j], row) /\ Exists(list[j])}
    IN  IF back = {} THEN 0 ELSE MaxOf(back)

-----------------------------------------------------------------------------
Init ==
    /\ files = NoRows /\ written = 0
    /\ segments = <<>>
    /\ counter = 0
    /\ lockQueue = <<>>
    /\ pc = [c \in Clients |-> "idle"]
    /\ call = [c \in Clients |-> NoCall]
    /\ held = [c \in Clients |-> NoList]
    /\ at = [c \in Clients |-> 0]
    /\ page = [c \in Clients |-> NoRows]
    /\ hand = [c \in Clients |-> NoRows]
    /\ out = [c \in Clients |-> 0]
    /\ reply = [c \in Clients |-> "none"]

May(c, op) == pc[c] = "idle" /\ op \in Operations

\* Leave the call, or fall through it without suspending, with an outcome and
\* the rows it returns.
Return(c, outcome, rows) ==
    /\ pc' = [pc EXCEPT ![c] = "idle"]
    /\ call' = [call EXCEPT ![c] = NoCall]
    /\ at' = [at EXCEPT ![c] = 0]
    /\ page' = [page EXCEPT ![c] = NoRows]
    /\ hand' = [hand EXCEPT ![c] = rows]
    /\ out' = [out EXCEPT ![c] = 0]
    /\ reply' = [reply EXCEPT ![c] = outcome]

LetGo(c) == held' = [held EXCEPT ![c] = NoList]

\* async with writer._lock: join the queue with the rows to write.
StartWrite(c, op, rows) ==
    /\ pc' = [pc EXCEPT ![c] = "queued"]
    /\ call' = [call EXCEPT ![c] = [NoCall EXCEPT !.op = op]]
    /\ at' = [at EXCEPT ![c] = 0]
    /\ page' = [page EXCEPT ![c] = NoRows]
    /\ hand' = [hand EXCEPT ![c] = rows]
    /\ lockQueue' = Append(lockQueue, c)
    /\ UNCHANGED <<out, reply>>

-----------------------------------------------------------------------------
(* Writes *)

\* get_next_row_id and insert, called back to back by _local_insert.
Insert(c, v) ==
    /\ May(c, "insert")
    /\ counter \in Rows
    /\ counter' = counter + 1
    /\ StartWrite(c, "insert", [r \in {counter} |-> [val |-> v, deleted |-> FALSE]])
    /\ UNCHANGED <<disk, segments, held>>

\* insert_batch of two rows whose identifiers were drawn just before.
InsertBatch(c, v) ==
    /\ May(c, "insert_batch")
    /\ counter + 1 \in Rows
    /\ counter' = counter + 2
    /\ StartWrite(c, "insert_batch",
                  [r \in {counter, counter + 1} |-> [val |-> v, deleted |-> FALSE]])
    /\ UNCHANGED <<disk, segments, held>>

\* delete appends a tombstone version.
Delete(c, row) ==
    /\ May(c, "delete")
    /\ StartWrite(c, "delete", [r \in {row} |-> [val |-> NoVal, deleted |-> TRUE]])
    /\ UNCHANGED <<disk, segments, counter, held>>

\* _generate_segment_id: a name no file ever had.
NewFile == written + 1

\* _write_segment_sync in the executor, for the holder of the writer's lock.
WriteSegment(c) ==
    /\ pc[c] = "queued" /\ Head(lockQueue) = c
    /\ written < MaxFiles
    /\ written' = written + 1
    /\ files' = [f \in DOMAIN files \cup {NewFile} |->
                   IF f = NewFile THEN hand[c] ELSE files[f]]
    /\ pc' = [pc EXCEPT ![c] = "written"]
    /\ out' = [out EXCEPT ![c] = NewFile]
    /\ UNCHANGED <<memory, call, held, at, page, hand, reply>>

\* Mutant: the lock is not released when the executor raises.
WriteFailsKeepsLock(c) ==
    /\ pc[c] = "queued" /\ Head(lockQueue) = c
    /\ Return(c, "error", NoRows) /\ LetGo(c)
    /\ UNCHANGED <<disk, segments, counter, lockQueue>>

\* The executor raises (disk full): the lock is released, the caller fails.
WriteFails(c) ==
    /\ pc[c] = "queued" /\ Head(lockQueue) = c
    /\ lockQueue' = Tail(lockQueue)
    /\ Return(c, "error", NoRows) /\ LetGo(c)
    /\ UNCHANGED <<disk, segments, counter>>

\* The rest of insert, insert_batch, update and delete: the segment joins the
\* list bound now and the row counter covers its rows.
AppendSegment(c) ==
    /\ pc[c] = "written" /\ call[c].op # "compact"
    /\ segments' = Append(segments, Describe(out[c], hand[c]))
    /\ counter' = Larger(counter, MaxOf(DOMAIN hand[c]) + 1)
    /\ lockQueue' = Tail(lockQueue)
    /\ Return(c, "true", NoRows)
    /\ UNCHANGED <<disk, held>>

-----------------------------------------------------------------------------
(* Reads *)

\* The end of get, for get itself and for the read half of update: update
\* merges the new columns into the version found and appends the result.
GotVersion(c, ver) ==
    IF call[c].op = "get"
      THEN Return(c, "found", [r \in {call[c].row} |-> ver]) /\ UNCHANGED lockQueue
      ELSE StartWrite(c, "update", [r \in {call[c].row} |-> [ver EXCEPT !.val = call[c].val]])

\* get and update begin: reversed(list) starts at the list's present end.
GetOrUpdate(c, op, row, val) ==
    LET start == NextProbed(segments, Len(segments), row)
    IN  /\ op \in {"get", "update"}
        /\ May(c, op)
        /\ IF start = 0
             THEN Return(c, "missing", NoRows) /\ UNCHANGED held
             ELSE /\ pc' = [pc EXCEPT ![c] = "probing"]
                  /\ call' = [call EXCEPT ![c] = [op |-> op, row |-> row, val |-> val]]
                  /\ held' = [held EXCEPT ![c] = LiveList]
                  /\ at' = [at EXCEPT ![c] = start]
                  /\ page' = [page EXCEPT ![c] = files[segments[start].file]]
                  /\ hand' = [hand EXCEPT ![c] = NoRows]
                  /\ UNCHANGED <<out, reply>>
        /\ UNCHANGED <<disk, memory>>

\* The executor has looked for the row in one segment that covers it, whose file
\* was there when the task suspended: if it is gone now, it was opened too late or
\* read in time.
Probe(c) ==
    LET seg  == ListOf(c)[at[c]]
        next == NextProbed(ListOf(c), at[c] - 1, call[c].row)
    IN  /\ pc[c] = "probing"
        /\ \/ /\ ~Exists(seg)                              \* FileNotFoundError
              /\ Return(c, "error", NoRows) /\ LetGo(c) /\ UNCHANGED lockQueue
           \/ /\ call[c].row \in DOMAIN page[c]
              /\ GotVersion(c, page[c][call[c].row]) /\ LetGo(c)
           \/ /\ call[c].row \notin DOMAIN page[c] /\ next = 0
              /\ Return(c, "missing", NoRows) /\ LetGo(c) /\ UNCHANGED lockQueue
           \/ /\ call[c].row \notin DOMAIN page[c] /\ next # 0
              /\ at' = [at EXCEPT ![c] = next]
              /\ page' = [page EXCEPT ![c] = files[ListOf(c)[next].file]]
              /\ UNCHANGED <<pc, call, held, hand, out, reply, lockQueue>>
        /\ UNCHANGED <<disk, segments, counter>>

\* After the loop of scan: scan returns; compact drops the deleted rows, takes
\* hold of the list that is bound now and queues for the writer.
ScanEnds(c, op, rows) ==
    IF op = "scan"
      THEN Return(c, "scanned", rows) /\ LetGo(c) /\ UNCHANGED lockQueue
    ELSE IF Active(rows) = NoRows
      THEN Return(c, "compacted", NoRows) /\ LetGo(c) /\ UNCHANGED lockQueue
    ELSE StartWrite(c, "compact", Active(rows)) /\ held' = [held EXCEPT ![c] = LiveList]

\* One turn of the loop: go to the next segment on disk, or past the end.
ScanFrom(c, op, ref, i, rows) ==
    LET list == IF ref.live THEN segments ELSE ref.kept
        next == NextScanned(list, i)
    IN  IF next > Len(list)
          THEN ScanEnds(c, op, rows)
          ELSE /\ pc' = [pc EXCEPT ![c] = "scanning"]
               /\ call' = [call EXCEPT ![c] = [NoCall EXCEPT !.op = op]]
               /\ held' = [held EXCEPT ![c] = ref]
               /\ at' = [at EXCEPT ![c] = next]
               /\ page' = [page EXCEPT ![c] = files[list[next].file]]
               /\ hand' = [hand EXCEPT ![c] = rows]
               /\ UNCHANGED <<out, reply, lockQueue>>

\* scan (get_all, find_by_column, find_all_by_column) and compact begin.
ScanOrCompact(c, op) ==
    /\ op \in {"scan", "compact"}
    /\ May(c, op)
    /\ ScanFrom(c, op, LiveList, 1, NoRows)
    /\ UNCHANGED <<disk, segments, counter>>

\* The executor has read one segment; later segments override earlier ones.
\* The loop runs over the list object itself: what is appended meanwhile counts.
\* A file that is gone now was opened too late or read in time.
ScanSegment(c) ==
    LET seg == ListOf(c)[at[c]]
    IN  /\ pc[c] = "scanning"
        /\ \/ ScanFrom(c, call[c].op, held[c], at[c] + 1, Merge(hand[c], page[c]))
           \/ ~Exists(seg) /\ Return(c, "error", NoRows) /\ LetGo(c) /\ UNCHANGED lockQueue
        /\ UNCHANGED <<disk, segments, counter>>

-----------------------------------------------------------------------------
(* Replacing the list *)

\* The rest of compact: bind a list of the new segment alone, remove the files
\* of the list taken hold of before the write.
InstallCompacted(c) ==
    /\ pc[c] = "written" /\ call[c].op = "compact"
    /\ segments' = <<Describe(out[c], hand[c])>>
    /\ files' = Only(files, DOMAIN files \ (FilesOf(ListOf(c)) \ {out[c]}))
    /\ lockQueue' = Tail(lockQueue)
    /\ Return(c, "compacted", NoRows)
    /\ held' = [Detached EXCEPT ![c] = NoList]
    /\ UNCHANGED <<written, counter>>

\* Mutant: clear_table removes the files and forgets the list.
ClearTableKeepsList(c) ==
    /\ May(c, "clear")
    /\ files' = Only(files, DOMAIN files \ FilesOf(segments))
    /\ counter' = 0
    /\ Return(c, "true", NoRows)
    /\ UNCHANGED <<written, segments, lockQueue, held>>

\* Mutant: clear_table empties the table's directory.
ClearTableEmptiesDirectory(c) ==
    /\ May(c, "clear")
    /\ files' = NoRows
    /\ segments' = <<>>
    /\ counter' = 0
    /\ Return(c, "true", NoRows)
    /\ held' = Detached
    /\ UNCHANGED <<written, lockQueue>>

\* clear_table: remove the files, bind an empty list, reset the counter.
ClearTable(c) ==
    /\ May(c, "clear")
    /\ files' = Only(files, DOMAIN files \ FilesOf(segments))
    /\ segments' = <<>>
    /\ counter' = 0
    /\ Return(c, "true", NoRows)
    /\ held' = Detached
    /\ UNCHANGED <<written, lockQueue>>

-----------------------------------------------------------------------------
(* The end of the process *)

\* Where a writer puts its files, and where initialize looks for them.
WriterDirectory     == <<"base_path", "table_name">>
InitializeDirectory == <<"base_path">>
Loadable == IF InitializeDirectory = WriterDirectory THEN DOMAIN files ELSE {}

\* os.listdir gives the files in no particular order.
Orders(S) == {q \in [1 .. Cardinality(S) -> S] :
                \A i, j \in DOMAIN q : q[i] = q[j] => i = j}

\* The process dies and a new one runs initialize and register_table.
Restart ==
    /\ "restart" \in Operations
    /\ \E order \in Orders(Loadable) :
         /\ segments' = [i \in DOMAIN order |-> Describe(order[i], files[order[i]])]
         /\ counter' = IF order = <<>> THEN 0
                       ELSE MaxOf(UNION {DOMAIN files[f] : f \in Loadable}) + 1
    /\ lockQueue' = <<>>
    /\ pc' = [c \in Clients |-> "idle"]
    /\ call' = [c \in Clients |-> NoCall]
    /\ held' = [c \in Clients |-> NoList]
    /\ at' = [c \in Clients |-> 0]
    /\ page' = [c \in Clients |-> NoRows]
    /\ hand' = [c \in Clients |-> NoRows]
    /\ out' = [c \in Clients |-> 0]
    /\ reply' = [c \in Clients |-> "none"]
    /\ UNCHANGED disk

-----------------------------------------------------------------------------
Begin(c) ==
    \/ \E v \in Vals : Insert(c, v) \/ InsertBatch(c, v)
    \/ \E r \in Rows : Delete(c, r) \/ GetOrUpdate(c, "get", r, NoVal)
    \/ \E r \in Rows, v \in Vals : GetOrUpdate(c, "update", r, v)
    \/ \E op \in {"scan", "compact"} : ScanOrCompact(c, op)
    \/ ClearTable(c)

Resume(c) ==
    \/ Probe(c)
    \/ ScanSegment(c)
    \/ WriteSegment(c)
    \/ WriteFails(c)
    \/ AppendSegment(c)
    \/ InstallCompacted(c)

Next == (\E c \in Clients : Begin(c) \/ Resume(c)) \/ Restart

Spec == Init /\ [][Next]_vars

\* The event loop resumes every task whose lock or executor future is ready;
\* nobody is obliged to call.
FairSpec == Spec /\ \A c \in Clients : WF_vars(Resume(c))

-----------------------------------------------------------------------------
(* Properties *)

\* Row r's newest version is in the last listed segment that holds r.
Holding(r) == {i \in DOMAIN segments : Exists(segments[i]) /\ r \in DOMAIN files[segments[i].file]}
View == [r \in {x \in Rows : Holding(x) # {}} |-> files[segments[MaxOf(Holding(r))].file][r]]

DiskType ==
    /\ written \in 0 .. MaxFiles
    /\ files \in [DOMAIN files -> RowMaps] /\ DOMAIN files \subseteq 1 .. written

MemoryType ==
    /\ segments \in Seq(Segment)
    /\ counter \in 0 .. MaxRows
    /\ lockQueue \in Seq(Clients)

TaskType ==
    /\ pc \in [Clients -> {"idle", "queued", "written", "probing", "scanning"}]
    /\ call \in [Clients -> [op : Operations \cup {"none"}, row : Rows \cup {0},
                            val : Vals \cup {NoVal}]]
    /\ held \in [Clients -> [live : BOOLEAN, kept : Seq(Segment)]]
    /\ at \in [Clients -> Nat]
    /\ page \in [Clients -> RowMaps]
    /\ hand \in [Clients -> RowMaps]
    /\ out \in [Clients -> 0 .. written]
    /\ reply \in [Clients -> {"none", "true", "found", "missing", "scanned",
                            "compacted", "error"}]

\* What each suspended task has at hand when it resumes: a reader a position in
\* its list and the row it looks for, a writer some rows and a written file.
Ready(c) ==
    /\ pc[c] \in {"probing", "scanning"} => at[c] \in 1 .. Len(ListOf(c))
    /\ pc[c] = "probing" => call[c].op \in {"get", "update"} /\ call[c].row \in Rows
    /\ pc[c] = "scanning" => call[c].op \in {"scan", "compact"}
    /\ pc[c] \in {"queued", "written"} => hand[c] # NoRows
    /\ pc[c] = "written" => out[c] # 0

TypeOK == DiskType /\ MemoryType /\ TaskType /\ \A c \in Clients : Ready(c)

\* The writer's lock is held or awaited by exactly the clients suspended in a
\* write, once each, and only the holder can have written its file.
LockOK ==
    /\ \A i, j \in DOMAIN lockQueue : lockQueue[i] = lockQueue[j] => i = j
    /\ {lockQueue[i] : i \in DOMAIN lockQueue} = {c \in Clients : pc[c] \in {"queued", "written"}}
    /\ \A c \in Clients : pc[c] = "written" => Head(lockQueue) = c

\* Every segment the table lists has its file, and the descriptor in memory
\* tells that file's rows: whatever clear_table and compact, on their own or
\* against each other and against writers, remove from the disk, they never
\* leave the manager with a segment it cannot read.
SegmentsBacked ==
    \A i \in DOMAIN segments :
        /\ Exists(segments[i])
        /\ segments[i] = Describe(segments[i].file, files[segments[i].file])

\* A file that a task has written and not yet listed is still there, with the
\* rows the task will list it for, until the task resumes: no clear_table and no
\* compact that runs in between removes it.
WrittenFileSurvives ==
    \A c \in Clients : pc[c] = "written" =>
        out[c] \in DOMAIN files /\ files[out[c]] = hand[c]

\* Nothing refers to a file before it is listed: neither the bound list nor a
\* former one that a task still holds names the file another task has just
\* written, or a file that is not written yet.
WrittenFileUnlisted ==
    /\ FilesOf(segments) \subseteq 1 .. written
    /\ \A d \in Clients : FilesOf(held[d].kept) \subseteq 1 .. written
    /\ \A c \in Clients : pc[c] = "written" =>
         /\ out[c] \notin FilesOf(segments)
         /\ \A d \in Clients : out[c] \notin FilesOf(held[d].kept)

\* A scan whose list is still the bound one when it ends returns the newest
\* version of every row at that moment, although it suspended on every segment
\* while others appended.
ScanIsSnapshot ==
    [][\A c \in Clients :
         /\ pc[c] = "scanning" /\ held[c].live
         /\ pc'[c] = "idle" /\ reply'[c] = "scanned"
         => hand'[c] = View]_vars

\* compact "Removes deleted rows and old versions" (line 573): what it installs
\* shows the live rows the table showed just before.
CompactKeepsLiveRows ==
    [][\A c \in Clients : InstallCompacted(c) => View' = Active(View)]_vars

\* "Initialize manager and load existing segments" (line 370): a restart loses
\* no row.
RestartLoadsSegments == [][Restart => View' = View]_vars

\* Every call returns: the lock is handed on whatever the holder's fate.
EveryCallReturns == \A c \in Clients : pc[c] # "idle" ~> pc[c] = "idle"
=============================================================================
