# Verification of Tanako-bot

Tanako-bot is a Discord security bot that keeps its data in a home-grown
columnar database.  The bot processes reach the database through a websocket;
the database is one process (`server.py`) that writes immutable segment files.
Everything is Python on `asyncio`: within a process one coroutine runs at a time
and others run only where it suspends.  Paths below are relative to `src/`.

This directory holds TLA+ models of the parts that carry state across a
suspension, a message or a crash, the TLC runs that check them, and theorems
about them that TLAPS checks.

## Inventory

| part | state | operations | hard behaviour | what makes it correct |
|---|---|---|---|---|
| direct flush engine, `src/database/engine/direct_flush.py` | segment files, list of segments per table, next row identifier, one writer's lock per table | insert, insert_batch, update, delete, get, scan, compact, clear_table, initialize | suspends on every file read and write; lists are replaced under readers; restart | listed segments are readable; one map of newest versions; restart and compact lose nothing; calls return |
| table server, `src/database/server/api.py` with `engine/distributed.py` | tables over an engine, connections, one lock | insert, update, delete, select, find_one, find_by_id, count, exists, table operations | requests of many connections serialized by one lock; errors turned into replies | replies tell what happened; primary keys are unique |
| query cache, `engine/cache.py` | LRU map with size and time limits | get, set, invalidate_table | entries outlive writes | answers belong to the question asked; size limit |
| websocket client, `engine/ws_client.py` | socket, pending futures, reconnect flags | connect, disconnect, request, receive loop, reconnect | time-outs, late answers, lost connections, two tasks connecting | an answer reaches its own caller only; every request ends |
| repositories, `src/database/repositories/` | a cache of read and saved rows per process | save, get, list, delete for guilds, users, levels, cases, tickets, filters, metrics | find-then-insert with other tasks and processes between; caches across processes | a save that returned is stored, once |
| memtable engine, `engine/memtable.py` | active and immutable memtables, flush queue, SSTables, registry file | insert, get, scan, flush, compact, recover | background flush and compaction against readers; crash between file steps | newest version wins; nothing flushed is lost; queue drains |
| cluster, `engine/cluster.py` | hash ring, peers, connections, distributed cache | join, heartbeat, clean-up, request with retries, fetch, invalidate, fan-out | partial failure, stale caches, repeated requests | ring and registry agree; no answer to the wrong request |
| transactions, `engine/transaction.py` | transactions, write-ahead log | begin, add, commit, abort, recover, checkpoint | crash in a record; failing callbacks | committed transactions are recovered, others are not |
| indexes, `engine/index.py` | B-tree, hash index, manager | insert, delete, search, range | node splits, deletion in inner nodes | the same set of pairs as inserted |
| queries, `engine/query.py`; storage, `engine/storage.py` | none; column buffers | filter, sort, limit, aggregate; encode, decode, partitions | boundaries | against a reference definition; round trip |
| cogs, `src/bot/cogs/` | windows of recent events, lockdowns, counters in shared configurations, tickets, conversations | Discord event handlers, commands, periodic loops | handlers interleave at each await on a shared object | limits hold; lockdowns end; numbers are unique; messages reach whom they are for |
| cooldowns and helpers, `src/utils/` | buckets per user | acquire, reset | time boundaries | never more uses than allowed |
| models, configuration, `main.py` | data classes; heartbeat task | conversion; start, stop | repeated on_ready | one heartbeat |
| legacy engine, `engine/legacy.py` over `engine/storage.py` | one table in memory and in a file, a transaction | insert, update, delete, vacuum, create, drop, commit | saves that overlap, fail to encode or to write | the file is the table |
| crypto, `engine/crypto.py` | none | tokens, checksums | | |

How they interact: a cog's handler calls a repository of its process's
`RepositoryRegistry`; the repository calls `DatabaseClient.request`, which sends a
message under a fresh `request_id` and waits for a future; the server's handler
of that connection runs the request under one lock on `DistributedColumnarDB`;
that engine, in the default direct-flush mode, calls `DirectFlushManager` and the
query cache.  Answers come back through the client's receive loop.

`PROJECT.json` lists every component with its status and every hazard found, at
its line, with the property that covers it or the reason why none does.

## Modules

| module | models | uses |
|---|---|---|
| `DirectFlush` | `DirectFlushManager` with its writer and reader, one table, several tasks | |
| `RowStore` | what that manager promises: one map from row identifiers to versions | |
| `DirectFlushRefines` | the refinement mapping from the first to the second | `DirectFlush`, `RowStore` |
| `DirectFlushProofs` | theorems about `DirectFlush` | `DirectFlush`, TLAPS |
| `LruCache` | `LRUCache.get` and `set` as operators on a sequence | |
| `TableServer` | `DatabaseAPIServer` and `DistributedColumnarDB` over one table, with the query cache | `LruCache` |
| `Repository` | the repositories and `DatabaseClient.request` of several bot processes, composed with the server | `TableServer` |
| `RepositoryProofs` | theorems about `Repository`, `TableServer` and `LruCache` | `Repository`, TLAPS |
| `DatabaseClient` | the websocket client's connection against a server that stops, starts and loses connections | |
| `DatabaseClientProofs` | theorems about `DatabaseClient` | `DatabaseClient`, TLAPS |
| `MemTable` | `MemTableManager`, `FlushService` and `SSTableRegistry` of one table, with what of the engine calls them | |
| `MemTableProofs` | theorems about `MemTable` | `MemTable`, TLAPS |
| `Transactions` | the transaction manager and its write-ahead log, with what a cut-off append leaves | |
| `BTreeIndex` | the classes of the B-tree and the hash index of one column, given the same calls | |
| `Query` | the query builder's groups and the executor | |
| `ColumnarDB` | the legacy engine's table, file and transaction | |
| `ClusterRing` | a node's registry of peers and its hash ring | |
| `ClusterReads` | the node client's requests and the distributed cache, against owners that change | |
| `FanOut` | one fan-out read or query | |
| `Clock` | the time of a bot, and what is younger than an interval | |
| `AntiRaid`, `AntiNuke`, `AutoMod` | the cogs that count recent events and act on them | `Clock` |
| `Cooldown` | the token bucket and the sliding window | `Clock` |
| `SharedRows` | numbers, warnings and levels in objects that a repository remembers and handlers share | |
| `Tickets` | a member's tickets, read and saved by overlapping handlers, with the answers of the query cache | |
| `SecretChat` | profiles, conversations and relayed messages of the secret chat | |
| `CogsProofs` | theorems about `SharedRows`, `AntiRaid`, `AntiNuke`, `AutoMod` and `Cooldown`, and about `Clock`'s windows | TLAPS |
| `EngineProofs` | theorems about `ClusterRing`, `ClusterReads`, `FanOut`, `ColumnarDB`, `Transactions` and `Query` | TLAPS |
| `TicketsProofs`, `SecretChatProofs` | theorems about `Tickets` and `SecretChat` | TLAPS |
| `MCDirectFlush`, `MCRepository` | values for the runs | |
| `MCRows`, `MCCogs`, `MCEngine` | the parts that share no state in one run each: `MCRepository`, `SharedRows` and `Tickets` in the first | |

### DirectFlush

An action is the code between two suspensions.  The calls that suspend are the
wait for the writer's lock (`async with self._lock`, line 69) and
`run_in_executor` for a file write (76, 103) or a file read (207, 283, 315).  The manager's own
lock is held across no suspension after `initialize`, so it is never contended
and is left out.

- `files` is the directory, a file's rows being its contents: a segment file is
  written once and never changed.  Writing it is one step, and it may fail
  (`WriteFails`): the exception leaves the `async with`, so the lock passes on.
- `segments` is the list bound to `_segments[table]`.  A task that walks a list
  holds the list object, not the name: `held[c].live` says that it is still the
  bound one (appends are then visible to it, as Python's list iteration makes
  them), and `Detached` gives a task the list as it was when it was replaced.
- `lockQueue` is the asyncio lock: holder first, then waiters in order of arrival.
- `pc`: `queued` (waiting for the lock or the executor's write), `written` (the
  file is there, the task has not resumed), `probing` (get), `scanning`.
- `page` is what the executor's read brings: it may have been read before another
  task removed the file, or fail after it.
- `update` is a get that goes on to an insert; `delete` an insert of a tombstone;
  `compact` a scan that goes on to a write and `InstallCompacted`.
- `Restart` loses memory and all tasks, a written file staying on disk unlisted,
  and runs `initialize`.

### TableServer and Repository

`handle_request` holds one lock for the whole request and one handler per
connection takes its messages in order, so a request is one step of whichever
connection comes next.  Used by one caller at a time, `DirectFlushManager` is a
`RowStore` (run `df_serial`), so the table is a map.  `update` and `delete` walk
`range(table.row_count)`, which is 0 in direct-flush mode; cache keys are hashes
of `QueryBuilder.to_dict()`, which leaves the conditions out; `invalidate_table`
looks for the table's name in those hashes.  `RowCount`, `CacheKey` and
`NamesTable` say exactly that, each at the place where a repair would go.

In `Repository` each task is in at most one call.  `Save` asks `find_by_id` and
goes on, in `Continue`, to an update or an insert, then to the process's cache.
`Receive` is the receive loop; `Timeout` forgets the future while the request
stays on its way; `Restart` kills a process, keeps any first part of what it had
sent, and opens a new connection.  A call records two ghosts, whether its key had
a row when it began and which key `find_by_id` answered with.

### DatabaseClient

`Repository` takes the connection for granted; `DatabaseClient` is the life of
one.  An action is again the code between two suspensions, here `await` of
`websockets.connect`, `send`, a future, `asyncio.sleep` and the end of a
cancelled task.

- `connected`, `ws`, `receiveTask` and `pending` are the attributes of those
  names.  Each socket has the receive loop that the connect which opened it
  created, and `reads` is the socket that loop took from `_ws` when it first ran,
  which may be a later one.
- `spawned` counts `_reconnect` tasks that have not run yet, `repair` is the one
  that holds `_reconnecting`, `closer` the one task in `disconnect`.
- `socket` is what the transport will tell: `closed` by the server in the normal
  way, or `lost`.  `asked` are the requests whose answers are on their way.
- Two loops that read one socket: the library raises an error in the second
  (external), which then does what a lost connection does.

A server that closes normally ends the receive loop without an exception, so
nothing is repaired: this is the exception in `ConnectedIsRead`.  And while
`disconnect` waits, or after it, a `_reconnect` that slept, or another task's
connect, may open a new socket, since `_reconnect_task` is never set; the
properties about connections therefore speak of a client nobody has closed.

### MemTable

The engine's other mode.  No lock of this code is held across a suspension; an
action is the code between two calls of the executor or two waits.

- `memtables` are all `MemTable` objects a process has made, and `active`,
  `immutables` and `queue` the places that refer to one by its number.  The engine
  only inserts here (`row_count` is 0, so `update` and `delete` find nothing), hence a
  memtable is a sequence of values.  `Rotate` is `get_memtable` on a full one.
- `flusher` is the task in `_flush_loop`: it takes a memtable from the queue,
  waits for the thread that writes the file, registers the segment in the
  completion callback, and waits there for the reader to load it.
- `closer` is a task in `flush_all`, or in `close`, which goes on to wait for the
  queue, not for the flush under way, and then cancels the loop.  `flush_all` makes
  the active memtable immutable where it is: from then on every insert raises, until
  a restart, and its segment is in no registry.
- `disk`, `registry` and `sstables` are segment files, entries, and loaded readers.

`Footer` and `Loaded` are the last bytes of a segment as `SSTableWriter` writes them
and as `SSTableReader` takes them apart: the writer's footer is 36 bytes long and
the reader goes back 28, so what it takes for the index's offset is the footer's
own.  Loading raises for every segment.  The flush callback prints that, and flushed
memtables stay in memory; a new process that finds an entry in the registry
does not get through `initialize`.  A registry that was being saved when the process
died is not read at all.  The rest of the module follows `Loads`, so that it
models the repaired reader, too.

A new memtable begins again with identifier 0, so a row is found by its column
(`Found`) and not always by its identifier.

### Transactions

`TransactionManager` holds its lock while a record is appended, so one record is
under way.  `held` are the objects that callers hold and `known` is
`_transactions`: `recover` puts new objects into the second and leaves the first
alone.  `AppendRaises` and `Dies` leave nothing, a part or all of the record; a part is
`Torn`, and `Readings` says what `WriteAheadLog.recover` makes of a file with torn
records: one torn in its length ends the file, one torn later raises at the end
of the file or swallows what follows.  What was read are entries by their places, file and
position, so that their order is said without joining files; `Operations` and `StateOf` say what
`TransactionManager.recover` makes of them, and `known` keeps only the state.  `RecoveryReads` and `RecoveryEnds` are two steps,
since no lock is held between.  The program never calls `recover` and `cleanup`;
the module calls them at any time.

### BTreeIndex and Query

Neither suspends, so each call is a step, and the question is whether the data
structure means what it should after any sequence of calls.  A B-tree node holds
keys, sets of row numbers and children; nodes are split on the way down and never
merged.  `BTreeIndex` models the classes, which `database/__init__.py` lists in its `__all__`, and gives both the same
calls: insert, delete of a row, delete of a key with all its rows, clear.  Deleting
one row leaves an inner node's key without rows; deleting the whole key takes it out of an inner node and leaves
that node's children as they are, one too many (`broken`): such a tree goes wrong, and `IndexesAgree` excepts it.

The manager in front of them is not modelled, because it never gives an index a key.  Its `build_index`,
`insert_to_index` and `update_index` ask `if index:` (index.py:336, 342, 348), the classes define
`__len__` as their size and no `__bool__`, and an index is made empty: it is false, the key is dropped, and it stays
empty.  The legacy engine's calls of the manager therefore do nothing, and what reads an index finds no row in it.

`Query` models groups as places, because `or_where`
makes a new outermost group that shares the old one's contents while later
conditions go to the new one; `Evaluate` gives every group the rows, by their places in
the table, for which it is true.  Beside the groups runs what the calls mean (`open`): a stack of open
groups with the rows of every condition in them, in which nothing is shared.  Order, limit, distinct, pages and
grouped sums are operators, compared in every state.

### ColumnarDB

A task holds the database's lock for an insert, update or delete, and commit,
vacuum and creating an index save without it.  `Encodes` is the part of a save
before the file is written, under the storage manager's lock for the table;
errors of encoding and of writing are answered with `False`, which nobody looks at.
`unsaved` says that memory holds what no save has or will have in the file.
`DropTable` is possible under a save that waits, which then writes the dropped
object and brings its file back.  `Place` is the place from which a row came that a deletion has moved.  The table's
indexes stay empty (see `BTreeIndex`) and are left out.

### ClusterRing, ClusterReads, FanOut

No lock is held over a suspension, so in `ClusterRing` a handler is a step.
Times are ages.  A registration carries the sender's record of a heartbeat, by
its clock, and replaces the receiver's.  The hash function is a constant
(`Layouts`), and a lookup is the member whose next virtual node is nearest (`Nearest`), as a
bisection finds it.  `Replicas` are the members that are met first behind a guild's place.

`ClusterReads` is what a node asks of owners, with the ring's answers as `owner`:
up to three tries over one connection per node, a blacklist, and the cache.  All
tries are sent with the first one's identifier while each waits under its own, so
only the first can be answered (`Expected`); a kept connection is asked for an
attribute it does not have, so a second request to a node fails (`Tries`); the end of one
connection's reader fails every future (`Closes`).  Of a version only its lag is kept, the time since it was
replaced.  What others own is external: no code in `src/` answers these
requests.  `FanOut` is one `fan_out_read` or `fan_out_query`: the choice of a node per
cluster, the tasks, and each strategy's way to one answer.

### The cogs

`Clock` counts up to a bound; `Younger` is the list comprehension by which every
window is cut, and `Recent` the sum that counts one without cutting it.  Times are
noted as they come, so what is too old is at the front.  In `AntiRaid` only a guild whose configuration is not yet
remembered makes a handler suspend before it counts (`Asks`, `HasConfig`), and the
clean-up loop suspends in each alert (`SweepGoesOn`): a lockdown that a moderator ends meanwhile
raises a `KeyError` that stops the loop for good.  In `AntiNuke` an event and the audit log entry
it is about are apart, and the handler takes whichever entry is newest.  `AutoMod` has
handlers that delete, warn and time out with the violations they have read.

The interval in which `AutoMod` counts is the setting's, which a command may change at any time to any
value (`SetsInterval`), also to one above what the tracker's clean-up leaves.

`SharedRows` is the object that all handlers of a process get from a repository's
cache and change in place.  Where the repository remembers nothing, each makes
its own (`torn`).  A case is stored as a row of its own: `SaveCase` updates the row of a number that has one, with
an effect or none (run `repo_update`), and inserts another, unless the query cache holds the answer of some `find_one` about
cases.  That answer is given for any case, because the cache's key leaves the conditions out; `find_by_id`
falls back to it, the save takes the update path and stores nothing, and the sanction follows.
`misleads` says that such an answer is cached (`LooksUp`, the command `case`), `spoilt` which numbers it has cost
a case, or had one before the process began.

`Tickets` are not remembered; handlers save what they made of what they read.  Both questions they ask may be answered
from the query cache: the list of a member's tickets, against the limit (`listed`: what is cached leaves room or does not, and
may be another member's), and the row of a channel (`found`, perhaps another channel's, of whosever ticket).  So two creations
one after the other may both pass, a close may close another ticket than that of the channel it then deletes, and a new ticket
may not be stored at all.  `excused` are the open tickets that such a slip, or an overlap, has made one too many.

`SecretChat` has the conversations, a dictionary, and the
profiles, rows that are looked up by user and by nickname, with look-ups that may be misled, too.

### MCRows, MCCogs, MCEngine

Their modules share no state (but a clock), so that a state of the product would show nothing that a
state of one part does not.  A behaviour picks a part at its start and takes
steps of that part alone; the run is the sum of the parts' state spaces, not the product.

## Runs

| run | instance | question | outcome |
|---|---|---|---|
| `df_concurrent` | 2 tasks, 2 rows, 3 files, 1 value, every method, restarts | do list and disk stay consistent, is a scan a snapshot of its end? | holds, 6.6 million states |
| `df_serial` | 1 task, 2 rows, 4 files, 2 values, no restart | is the engine a `RowStore` for one caller, does compact keep live rows? | holds |
| `df_append` | 2 tasks, inserts, batches, deletes, gets, scans, with fairness | is it a `RowStore` for concurrent callers that append and read, does every call return? | holds |
| `df_restart` | 1 task, insert and restart | does `initialize` load the segments? | no |
| `df_compact_race` | 2 tasks, insert and compact | does compact keep the rows? | not those inserted meanwhile |
| `repo` | the three parts of `MCRows`: 2 bots with a task each, 2 keys, 3 connections, 3 calls, cache of 1, every method, restarts; 2 handlers of a shared object; 2 handlers of 2 tickets, limit 1 | where do second rows and missing rows come from? are numbers, levels and ticket limits right? | only from overlapping first saves, and from a cached row of another key; they are, with the exceptions each property names; 3.7 million states |
| `repo_duplicate` | 2 bots, 2 saves of one key | are primary keys unique? | no |
| `repo_update` | 2 bots, 2 saves, 2 values | does an update change the row? | no |
| `client` | 2 tasks, 5 sockets, 2 calls, 2 faults, with fairness | does every future belong to a waiting request, is a lost connection always being repaired, and in the end repaired? | holds, 1.1 million states |
| `memtable` | limit of 2 rows, 2 values, 3 memtables, 3 segments, with fairness | are inserted values findable on their way to disk, is nothing written twice, does the queue drain? | holds, 870,000 states |
| `engine` | the seven parts of `MCEngine`: index, log, query, legacy engine, ring, reads, fan-out | do the indexes agree, is recovery true, are query and file what they stand for, are owners live and do guilds move to replicas, are reads fresh and writes done once, is a fan-out one answer? | holds, 1.6 million states |
| `cogs` | the five parts of `MCCogs`, with fairness of the anti-raid loop | are raids, spam and nukes noticed, do limits and lockdowns hold, do messages stay private? | holds, 1.0 million states |

Bounds.  Two tasks suffice for every pair of methods to meet at every pair of
suspensions; the engine treats tasks alike, so they are symmetric.  Three files
let one segment be listed, one be compacted into, and one appear in between;
with four (`df_serial`) a compaction is followed by an update.  Two rows
give segments that cover both, either, or overlap.  In `repo`, two keys tell an
answer for one key from an answer for another, three calls let two overlap and a
third come after, a cache of one entry is always full, three connections allow
one restart; of a shared object, three changes by two handlers let a number be taken while
another is stored and saved, a second object is one that was made beside the first, two days have one midnight; with a limit of one, two tickets let a
second be made where there is no room for it.  In `client`, two tasks can both find no connection, two faults let a
connection be lost while the loss before it is repaired, and the other bounds are
large enough that five sockets are never all in use.
In `memtable`, a limit of two lets `flush_all` meet a memtable that has rows and is
not full, three memtables let one be written, one wait and one be active, and
each has a segment.
In `engine`, nine entries make a tree of order 2 three levels deep, which keys leave and enter again; two transactions
and four calls let one be torn, aborted or recovered beside another; four builder
calls nest and share groups; two tasks, three rows and six calls let a row move while a save
waits.
Of the cluster, three ring nodes with two virtual nodes each, in turn and side by side,
let an owner and its first replica both leave; two callers of one key and one
remote node share connection, blacklist and cache; two clusters, one with two nodes, answer a
fan-out.  Transactions, tasks and callers are symmetric.
In `cogs`, limits are two, so that one event is not enough, and each memory is longer
than its window, but for spam, whose interval is set below and above the memory; the clock's last unit is 5, enough for a window, a
lockdown and a clean-up after them; two handlers overlap in every place where
they suspend; one nickname and two users let both want it.  Where a bound is reached the
calls that would pass it are disabled, so tasks may stop there:
`CHECK_DEADLOCK FALSE`.

Fairness.  `FairSpec` asks that a task that can resume does (`WF(Resume(c))`): the
event loop runs ready callbacks in order, the executor finishes its file
operations with a result or an exception, and the asyncio lock wakes its first
waiter.  `client` asks the same of callers, loops and repairs: connecting,
sleeping and time-outs end; `memtable` of the flush loop and its thread; `cogs` of the
anti-raid clean-up, which `discord.ext.tasks` calls every 5 minutes, and of time.  Nobody is obliged to call, nothing is assumed of
`Restart` or of the server; `LossIsRepaired` speaks of behaviours in which the
server is up from some point on.

What the four violations mean.  `df_restart`: after a restart no table shows its
rows, and identifiers are reused.  `df_compact_race`: a row
inserted while `compact` writes disappears, file included.  `repo_duplicate`: two bots, or two tasks of one
bot, that first save a key together leave two rows for good.  `repo_update`: in the default
mode the second save of anything is not stored; the process that saved sees its
own cache and not the table.

The exception in `SaveLeavesRow` is real, too: `find_by_id` of an absent key falls
back to `find_one`, and the query cache may answer that with the row last cached
for another value of the same column; the save then takes the update path and
nothing is stored.

## Proofs

`DirectFlushProofs` proves, for any number of tasks, values, rows and files:

- `TypeCorrect`: `Spec => []TypeOK`
- `WriterLockHeld`: `Spec => []LockOK`
- `ListedSegmentsReadable`: `Spec => []SegmentsBacked`
- `WrittenFileKept`: `Spec => []WrittenFileSurvives`
- `ScansAreSnapshots`: `Spec => ScanIsSnapshot`
- `CompactKeepsRows`: if there is one task, `Spec => CompactKeepsLiveRows`
- `AppendsImplementRowStore`: if nobody compacts, clears or dies, `Spec => ImplementsRowStore`
- `SerialImplementsRowStore`: if there is one task and it does not die, `Spec => ImplementsRowStore`

The only assumption is `DirectFlushAssumption` (natural bounds, `NoVal` not a
value, operations among the nine named), which TLC evaluates in every run.

`TypeOK /\ LockOK` is inductive by itself.  `TypeOK` alone is not: that a task in
`written` has a file needs that it alone holds the lock.  `SegmentsBacked` is not
inductive: a step that lists a written file needs that the file is still there
with those rows (`WrittenFileSurvives`), and a step that removes files needs
that none of them is one another task has written and not listed
(`WrittenFileUnlisted`), in the bound list or in a former list a task still
holds.  The inductive invariant is `IInv`: all five together, of which `df_concurrent` checks
`SegmentsBacked` and `WrittenFileSurvives` on its instance (a reader's position outside its list, which `TypeOK` excludes,
would stop TLC there too).  `LockOK` enters because at most one task is between writing and
listing a file, which is why a new file's number is nobody's.  The proof has one
lemma per action, and lemmas on `Describe` and on least and greatest elements of
a finite set of rows, on which `min` and `max` of a descriptor rest.

The other theorems rest on what the first `n` segments of a list show, `Newest(list, store, n)`: the next
segment is merged over it (`NewestNext`), what is appended later does not change it (`NewestSame`), and the
table, `View`, is what the whole list shows (`ViewIsNewest`).  `ReadersOK` says that a scan of the bound list has collected
just that up to its position; no segment of the list is skipped, since all have their files.  The
step to the snapshot is then the last turn of the loop.

A get is bound to answer with what the list shows of its row up to its position.  That this does not
change as it walks needs that a segment it skips, because the row is outside `min` and
`max`, does not hold the row (`HeldIsCovered`).  `RInv` adds to `IInv` and `ReadersOK` that
every reader walks the bound list (`ReadersLive`), which the hypotheses of the two refinement theorems
guarantee.  They are needed: `df_compact_race` and `df_restart` refute what they exclude.  With one
task, `AloneOK` says that a compact about to install has the live rows of the present table in hand.

`MemTableProofs` proves, for any limit, values, and numbers of memtables and segments:

- `RotationNotRefused`: `Spec => []FullIsActive`
- `InsertedAlwaysFound`: `Spec => []InsertedIsFound`
- `TablesWrittenOnce`: `Spec => []WrittenOnce`
- `RegistryAlwaysInOrder`: `Spec => []RegistryInOrder`

`FullIsActive` is not inductive: a step of the flush loop could make a full active
memtable immutable if it were one of those queued, and one of `flush_all` could go
on with a memtable that has filled up meanwhile.  `IInv` adds that the active memtable is the
newest and the queue and the flush loop have older ones (`ActiveIsNewest`), and
that the one `flush_all` writes is not active (`ClosedIsInactive`), hence not full.

For the other three, `AllKept` says that every memtable that was replaced is among the
immutable ones, and `WritesOK` who has which memtable: none of the queue is on disk and the
queue is in order (`QueueOK`); the flush loop's is older than those, and nobody has written it
before it does (`FlusherOK`); the one of `flush_all` is neither's (`CloserOK`); a segment
of this process holds the rows of a memtable that is closed for good, one segment each (`DiskOK`);
and what is registered is older than all that will be (`RegistryOK`).  `TablesGrow`, the action property
that the rows of a closed memtable never change, is what carries `DiskOK` over a step.
The assumption is `MemTableAssumption`.  `NoSegmentLoads` records that `Loads` is
false for the footer as it is, and `InsertedAlwaysFound` rests on it: a memtable leaves the
immutable ones only when its segment loads.

`RepositoryProofs` proves, for any processes, tasks, keys, values, cache sizes and bounds:

- `RepositoryTypeCorrect`: `Spec => []TypeOK`
- `FirstSavesInsert`: `Spec => []OnlyFirstSavesInsert`
- `SavesLeaveRows`: `Spec => SaveLeavesRow`

Whether a save inserts depends on an answer that was given earlier, perhaps from the query cache, and
has been on its way since.  The invariant follows that answer from its source.  No row ever leaves the table, so `Known`
rows stay known: every entry of the cache and every response under way holds only rows whose key has a row (`CacheTyped`,
`BoxesTyped`).  Each request under way asks for what its task waits for (`AskedForKey`, `AskedToInsert`), over the connection its
task has (`OwnMail`), with a number nobody else has (`Numbered`); an answer that there is no row was given to a save
that began without one (`AnsweredTruly`), and one that an insert succeeded left a row (`InsertedTruly`).
`SavesLeaveRows` is an action property from the same invariant.  The sizes and the uniqueness of the
keys of the LRU cache are part of `TypeOK`; lemmas `GetCached` and `SetCached` say what `get` and `set` preserve.
Assumed are `RepositoryAssumption` (there is a process, and a connection for each) and `TableServerAssumption`.

`DatabaseClientProofs` proves, for any numbers of tasks, sockets, calls and faults:

- `ClientTypeCorrect`: `Spec => []TypeOK`
- `FuturesOwned`: `Spec => []PendingOwned`
- `RepairAlwaysUnderWay`: `Spec => []RepairUnderWay`
- `ConnectedAlwaysRead`: `Spec => []ConnectedIsRead`

`PendingOwned` needs that a task has the number of a call exactly while it is in one, and none twice
(`Numbered`); without it the answer to one call could resolve the future of another.
`RepairUnderWay` needs `PendingOwned`, without which a step could take a task that connects for one that has
its answer.  With the types they are `IInv`.  The assumption is `DatabaseClientAssumption`.

`TicketsProofs` proves, for any limit and any number of handlers and tickets:

- `TicketsLimited`: `TicketSpec => []OpenTicketsLimited`

A handler counts open tickets, suspends, and creates one.  `IInv` adds that at most one
handler is sure of what it counted (`OneSure`), having begun while nobody created a ticket and by a list that did not hide
too many, and that there is room left for it (`RoomLeft`); a save may close tickets meanwhile, and where it opens one
the property's exception holds.  What the cache says of a channel enters only in the types, since nothing is concluded from
whose row was read.  `TicketAssumption` says that tickets are finitely many.

`SecretChatProofs` proves, for any users, nicknames and coroutines:

- `SecretsAreKept`: `ChatSpec => []SecretsKept`

A coroutine keeps a partner it has read while conversations change.  `IInv` says of every partner
in a conversation, and of every message under way, that the writer
connected to the receiver or has heard from it (`Known`), and of every nickname past its check that
nobody else has it (`Names`), unless a look-up was misled or two registrations raced.

`EngineProofs` proves, for any callers, keys, nodes, guilds, clusters, weights, times and tries, and any tasks, identifiers and values of the legacy engine, any transactions, calls and incidents of the log, and any tables and conditions of queries:

- `ReportedWritesDoneOnce`: `ReadsSpec => []WritesDoneOnce`
- `ReadsServedFresh`: `ReadsSpec => []ServedFresh`
- `OwnersAreLive`: `RingSpec => []OwnerIsLive`
- `OwnersMoveRightly`: `RingSpec => OwnerMoves`
- `AnswersAreWhole`: `FanSpec => []AnswerIsWhole`
- `FileAlwaysTable`: `DbSpec => []FileIsTable`
- `RecoveryAlwaysTrue`: `TxnSpec => []RecoveryIsTrue`
- `FiltersAlwaysMeant`: `QuerySpec => []FilterAsMeant`, the first part of `QueryPart`
- `GroupsNeverCircle`: `QuerySpec => []NoCircle`, so that `evaluate` returns

A write may be handled in each of its tries.  `IInv` counts: in the first try it was not handled before it was
sent, and once if its answer is on the way; and no other try's answer is expected.

`FreshInv` follows a version from its owner into the cache.  The owner of a key has its current version
(`OwnersCurrent`), and a call asks who owns it when it is called; from then on the lag of what the asked node has is
at most the time the call has waited, in its first try, the only one that is answered (`Timely`); an entry's lag is at most its age and the
two time-outs (`EntryOK`).  A new version, by whoever and whomever's the key becomes, sets lags to 0 and breaks none of these (`NewVersionsFresh`).

`OwnerIsLive` needs that a peer in the ring is known (`KnownInRing`), and `SweptLately`: silence is no longer than the age of
a peer's record and the skew, and, since the clean-up has taken away those whose record was too old, no longer than time-out, skew
and the time since the clean-up.  That a lookup gives a member needs that a ring with the local node has a nearest one.

`OwnerMoves` needs that what is remembered is still the nearest node (`CacheIsNearest`).  Then a step is a change of how many virtual
nodes there are, and it compares two rings: a node with as many virtual nodes or more is no farther (`MoreIsNearer`), and no two nodes
are equally far (`FarsDiffer`), so whoever loses a guild without losing weight loses it to one that gained some (`NearestMoves`).
`RingAssumption` says that no two virtual nodes fall on one position, as hashes of 128 bits practically do not.

`FanInv` says of a fan-out that has not returned that the answers it has seen have no rows, and of one that has
that nobody runs and what it returned is what the strategy makes of the outcomes.  That a merge misses no key rests on the
first of those that gave it (`MergedWhole`).  `FanAssumption` says that a registry has a node once.

`FileIsTable` speaks of moments when nobody is at work.  `SaveInv` says how they come about: as long as no change is lost,
the table is in the file and nobody writes, or a task is writing it, or a task waits for the storage manager's lock with that table, and will
encode what the table is then (`SavedOrToBe`).  Only the holder of that lock writes (`WriterHasLock`), so that no older table is
put over a newer one.  `ColumnarAssumption` says that `Nobody` is no task, and no identifier 0, which stands for
no condition.

`RecoveryIsTrue` speaks of what a recovery has read.  `LogInv` says what there is to read: of an active transaction
the log has the operations of its object, those whose append raised and the one being appended; of one whose caller was told
that it is committed, its commit and the operations the caller was told of (`LoggedOK`); unless records of it were cleaned up.
A commit in the log, or read from it, was asked for, and it raised, is being appended, or its transaction is no longer active and
its caller was told of no abort (`CommitOK`).  Operations are in the order of their numbers
(`NumbersOK`), which is what recovery's order rests on; a record appended goes behind smaller numbers (`WithRecord`), and a file removed takes
away only what is counted as cleaned (`FilesLeft`).  What has been read stays true, whatever is appended or cleaned up meanwhile (`ReadKept`).

`FilterAsMeant` compares the groups with the stack of what the calls mean.  A group's rows are a solution of equations, one for each
group.  `BuilderInv` leaves out the equation of the group that is being filled: whatever rows that one had, the others would
have a solution (`Solvable`), in which the items of the groups still open have the rows the stack has for them, and each open group ends with the
next (`Chained`).  A condition adds to the equation left out; a new group brings one more and closes the one it is put into
(`StartBuilt`); and `or_where` and `group_end` close all, which gives the outermost group the rows of `Closed`
(`ClosedFound`).  So there is a solution (`FullSolution`), evaluating finds one (`EvaluateFound`), and every one gives the
outermost group what the calls mean (`CompleteFound`).  `QueryAssumption` says that conditions are told from groups.
`NoCircle` ranks groups, each above those it holds: one that is started comes below all, one of `or_where` above all.

`CogsProofs` proves, for any guilds, users, handlers, thresholds and times:

- `NumbersTakenOnce`: `SharedSpec => []CountedOnce`
- `SanctionsHaveCases`: `SharedSpec => []SanctionHasCase`
- `LevelsAddUp`: `SharedSpec => []LevelsKept`
- `LockdownsLast`: `RaidSpec => LockdownNotCutShort`
- `RaidsNoticed`: `RaidSpec => RaidNoticed`
- `MutedOnTime`: `ModSpec => []MutedInTime`
- `SpamActedOn`: `ModSpec => SpamNoticed`
- `PunishedJustly`: `NukeSpec => []PunishedForOwnActs`
- `RatesAlwaysKept`: `CoolSpec => []RatesKept`

`CountedOnce` gives each number as the row's at the start and the count of such deeds so far, so that a gap, a repetition or an
object that begins at 0 beside a row breaks it.  It holds as long as all handlers have one object.  `OneObject` says when they have: while nobody
remembers one, at most one handler is at work, and afterwards each uses the one that is
remembered.  `Once` adds what makes the step inductive: the number that the object in use has come to (`Reached`) is the start and the number
of deeds.  `SanctionHasCase` adds that what is stored under a number that is not `spoilt`
is the case that took it (`CasesOK`) and that a handler that has gone on from storing has stored, or its number is spoilt (`Sanctioned`).  That nobody
replaces another's case rests on `CountedOnce`: two cases of the process have different numbers.  `LevelsKept` adds that the object in use counts all messages of its day and that none is of a
later one (`DailyOK`), and that every level adds up, also the one a handler has been sent (`LevelsOK`).  What the levels up to one
cost is a recursive function; that it satisfies its equation is shown by a polynomial that does (`ClosedStep`).
`SharedAssumption` says that a row found at the start is one the cog saved and that a gain is less than the first level
costs, as 15 to 25 are than 155.

The windows share one argument.  `Covers(s, whole, age, time)` says that `s` is the end of `whole`, the times there
ever were, and that none of those it lacks is younger than `age`.  It outlives the passing of time, a new time, and any
clean-up whose memory is at least `age` (`CoversLater`, `CoversAppend`, `CoversYounger`); then as many are recent in
the one as in the other (`CoversRecent`), so nothing is overlooked for having been forgotten.  That anti-raid
remembers joins (10 minutes) for at least the interval, which its command keeps between 5 and 60 seconds, is in `AntiRaidAssumption`.  Automod's interval is a setting that
may pass the tracker's 60 seconds: `SpamNoticed` asks for the messages of the interval or of the memory, whichever is shorter, and
`AutoModAssumption` compares nothing.

For `MutedInTime` the handlers that act are counted: `PaidFor` says that, unless a violation was counted behind a
handler's back, one at most acts, on enough violations, and none has been used twice.
For `PunishedForOwnActs`, what a user has counted and the events of theirs still waiting for a handler are together no more
than their entries (`Counted`), since the i-th entry has a target of its own (`Targeted`).
For `RatesKept`, `LeftInBucket` balances, for each use, what the uses since then took and what is left against a full bucket and
what has flowed in; `DroppedFull` is why a bucket that is cleaned up takes nothing with it; `Spaced` says of the window that whoever
comes as many places later as it takes comes a whole window later.

Only model-checked:

- liveness, which is beyond this prover: that calls return, queues drain, connections are repaired and lockdowns end;
- nothing of `DirectFlush` but the return of calls; what its refinement theorems exclude, two runs refute;
- of `engine`: `IndexPart`, since `BTreeIndex` computes with recursive operators, which this prover takes in
  no module it proves about; and of `QueryPart` what comes after filtering: order, pages, distinct rows and sums
  by group, which are folds over sequences and would need induction over data.

## Not modelled

In the modelled parts: `os.remove` failures (caught and printed), `close`,
encodings of rows and files, the contents of columns other than the key,
`insert_many`, `count`, `exists` and table administration, the second engine the
server builds for its additional tables, death of the server process (what the
bots see of it is `ServerStops`), and `request`'s wait in `send`.
In `MemTable`: readers of segments and compaction, which have no segment to work on,
`update` and `delete`, which the engine does not reach, skip list, bloom filter and
encoding, and `insert_many`.  `TypeOK` of `MemTable` is stated and in no run; that of `DatabaseClient` is proved.

In the cluster: the registry's own connections (joining, sending heartbeats,
broadcasting), the message that invalidates one key, statistics, and `get_healthy_nodes`, which only
the fan-out's `healthy` stands for.  `join_cluster` stops at the first seed, reachable or not;
nothing in `src/` serves a peer's requests, and `server.py` starts no cluster by default.
A send that raises `ConnectionClosed` and is tried again, and a request that is sent although its answer
cannot arrive, are in none of these properties' way and are left out, too.
In `Query`, operators that look into strings; of `engine/index.py`, the manager, whose indexes stay empty; in
`ColumnarDB`, these indexes, flags of columns (which loading loses), backup and restore, auto
increment and the query cache; the encodings of `storage.py`, pure functions of bytes.

In the cogs: commands that set exemptions and thresholds other than the spam interval, automod's main switch, the
messages the bot writes, and everything that only reads or only calls Discord; of automod, a mute threshold below 1.
`SharedRows` lets a repository that remembers nothing find its row whenever there is one and nothing else: an answer of the query cache to the
same question about another guild, member or level is `Repository`'s matter.  The filter cog
reads its rules from the database for each message and saves them whole; such saves, and
their having no effect, are `Repository`'s.  `host_check`, `metrics`, `logging`,
`welcome`, `admin` and `utility` present, forward or periodically save counters.  `main.py`
starts another heartbeat task at each repeated `on_ready`.  Models, helpers,
validators, permissions, embeds and crypto keep no state.

## Plan

1. The registry's connections: joining through a seed, heartbeats that are sent and lost.
2. Table administration of the server, with the second engine it makes.
3. The filter cog's configuration and the periodic saves of the metrics cog.
4. Column encodings of `storage.py` as operators, against what decoding gives.
