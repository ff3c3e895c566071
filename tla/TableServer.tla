------------------------------- MODULE TableServer -------------------------------
(***************************************************************************)
(* DatabaseAPIServer (src/src/database/server/api.py) over one table of    *)
(* DistributedColumnarDB (src/src/database/engine/distributed.py) in       *)
(* direct-flush mode, as started without a cluster.                        *)
(*                                                                         *)
(* handle_request runs a whole request under the server's lock, and one    *)
(* handler per connection takes the messages of that connection one at a   *)
(* time: a request is one step here, of whichever connection the lock      *)
(* admits next.  Used by one caller at a time, DirectFlushManager is a map *)
(* from row identifiers to rows (RowStore); that map is `rows`.            *)
(***************************************************************************)
EXTENDS Naturals, Sequences, FiniteSets, LruCache

CONSTANTS
    Conns,       \* connections, each the websocket of one bot process
    Ids,         \* request_id of every message
    Keys,        \* values of the column rows are looked up by
    Vals,        \* values of the other columns
    NoKey,       \* no condition
    MaxRows,     \* bound: row identifiers are below MaxRows
    CacheSize    \* max_size of the query cache

ASSUME TableServerAssumption ==
    MaxRows \in Nat /\ CacheSize \in Nat \ {0} /\ NoKey \notin Keys

VARIABLES
    rows,        \* the newest version of every row: row identifier -> row
    counter,     \* _row_counters[table]
    queryCache,  \* query_cache._cache
    inbox,       \* messages sent over each connection and not handled yet
    outbox,      \* responses sent back and not received yet
    open         \* connections whose process is still there

serverVars == <<rows, counter, queryCache, inbox, outbox, open>>

RowIds   == 0 .. MaxRows - 1
Row      == [key : Keys, val : Vals]
Actions  == {"insert", "update", "delete", "select", "find_one", "find_by_id"}
Requests == [id : Ids, action : Actions, key : Keys \cup {NoKey}, val : Vals]
Replies  == [id : Ids, success : BOOLEAN, found : Seq(Row)]

\* scan returns the rows in the order of their identifiers.
IdsOf(key) == {r \in DOMAIN rows : key \in {NoKey, rows[r].key}}
InOrder(S) == CHOOSE q \in [1 .. Cardinality(S) -> S] :
                 \A i, j \in DOMAIN q : i < j => q[i] < q[j]
Matching(key) == LET ids == InOrder(IdsOf(key)) IN [i \in DOMAIN ids |-> rows[ids[i]]]
First(q) == SubSeq(q, 1, IF q = <<>> THEN 0 ELSE 1)

\* The cache key of a select: QueryBuilder.to_dict leaves the conditions out, so
\* that a query on a column tells no value of it from another.
CacheKey(key, limit) == [conditional |-> key # NoKey, limit |-> limit]

\* table.row_count: nothing in direct-flush mode ever raises it, and update and
\* delete look for the rows to change among range(table.row_count).
RowCount == 0
Affected(key) == {i \in 0 .. RowCount - 1 : i \in IdsOf(key)}

\* invalidate_table drops the keys that contain the table's name; keys are the
\* hexadecimal digits of a hash, which contain no table's name.
NamesTable(cacheKey) == FALSE
Invalidated == IF \E i \in DOMAIN queryCache : NamesTable(queryCache[i].key)
                 THEN SelectSeq(queryCache, LAMBDA e : ~NamesTable(e.key))
                 ELSE queryCache

ServerInit ==
    /\ rows = [r \in {} |-> r] /\ counter = 0
    /\ queryCache = <<>>
    /\ inbox = [c \in Conns |-> <<>>]
    /\ outbox = [c \in Conns |-> <<>>]

\* The handler of connection c takes its next message, a request of that action.
Take(c, action) ==
    /\ inbox[c] # <<>> /\ Head(inbox[c]).action = action
    /\ inbox' = [inbox EXCEPT ![c] = Tail(@)]

\* A response to a connection whose process has gone reaches nobody.
Respond(c, success, found) ==
    /\ outbox' = IF c \notin open THEN outbox
                 ELSE [outbox EXCEPT ![c] =
                   Append(@, [id |-> Head(inbox[c]).id, success |-> success, found |-> found])]
    /\ UNCHANGED open

\* insert: the next identifier, a segment of one row, no check of the key.
ExecInsert(c) ==
    LET req == Head(inbox[c])
    IN  /\ Take(c, "insert")
        /\ counter \in RowIds
        /\ rows' = [r \in DOMAIN rows \cup {counter} |->
                      IF r = counter THEN [key |-> req.key, val |-> req.val] ELSE rows[r]]
        /\ counter' = counter + 1
        /\ queryCache' = Invalidated
        /\ Respond(c, TRUE, <<>>)

\* Mutant: the exception of the write is swallowed.
ExecInsertFailsSilently(c) ==
    /\ Take(c, "insert")
    /\ counter \in RowIds
    /\ counter' = counter + 1
    /\ Respond(c, TRUE, <<>>)
    /\ UNCHANGED <<rows, queryCache>>

\* insert whose segment cannot be written: the identifier is spent, the lock is
\* released, the exception becomes an error response.
ExecInsertFails(c) ==
    /\ Take(c, "insert")
    /\ counter \in RowIds
    /\ counter' = counter + 1
    /\ Respond(c, FALSE, <<>>)
    /\ UNCHANGED <<rows, queryCache>>

\* update and delete under a condition: no row is affected, the reply says so.
ExecUpdate(c) ==
    LET req == Head(inbox[c])
    IN  /\ Take(c, "update")
        /\ rows' = [r \in DOMAIN rows |->
                      IF r \in Affected(req.key) THEN [rows[r] EXCEPT !.val = req.val] ELSE rows[r]]
        /\ queryCache' = Invalidated
        /\ Respond(c, TRUE, <<>>)
        /\ UNCHANGED counter

ExecDelete(c) ==
    /\ Take(c, "delete")
    /\ rows' = [r \in DOMAIN rows \ Affected(Head(inbox[c]).key) |-> rows[r]]
    /\ queryCache' = Invalidated
    /\ Respond(c, TRUE, <<>>)
    /\ UNCHANGED counter

\* select with a limit or none: a cached answer to a query of the same shape, or
\* a scan, whose filtered result is cached.
Select(c, key, limit) ==
    LET shape == CacheKey(key, limit)
        fresh == IF limit = 1 THEN First(Matching(key)) ELSE Matching(key)
        kept  == AfterGet(queryCache, shape)
    IN  IF Hit(queryCache, shape)
          THEN /\ queryCache' = kept
               /\ Respond(c, TRUE, Entry(queryCache, shape).value)
          ELSE /\ queryCache' = AfterSet(kept, shape, fresh, CacheSize)
               /\ Respond(c, TRUE, fresh)

ExecSelect(c) ==
    /\ Take(c, "select")
    /\ Select(c, Head(inbox[c]).key, 0)
    /\ UNCHANGED <<rows, counter>>

ExecFindOne(c) ==
    /\ Take(c, "find_one")
    /\ Select(c, Head(inbox[c]).key, 1)
    /\ UNCHANGED <<rows, counter>>

\* Mutant: find_by_id asks the query cache before it scans.
ExecFindByIdCached(c) ==
    /\ Take(c, "find_by_id")
    /\ Select(c, Head(inbox[c]).key, 1)
    /\ UNCHANGED <<rows, counter>>

\* find_by_id: the first row of the scan; only without one, find_one. (Indexes
\* created for a new table stay empty, so the lookup between the two finds none.)
ExecFindById(c) ==
    LET key == Head(inbox[c]).key
    IN  /\ Take(c, "find_by_id")
        /\ IF Matching(key) # <<>>
             THEN Respond(c, TRUE, First(Matching(key))) /\ UNCHANGED queryCache
             ELSE Select(c, key, 1)
        /\ UNCHANGED <<rows, counter>>

\* Time passes: a cached answer reaches its ttl_seconds.
CacheExpires ==
    /\ \E i \in DOMAIN queryCache :
         ~queryCache[i].expired /\ queryCache' = AfterExpiry(queryCache, i)
    /\ UNCHANGED <<rows, counter, inbox, outbox, open>>

Exec(c) ==
    \/ ExecInsert(c) \/ ExecInsertFails(c) \/ ExecUpdate(c) \/ ExecDelete(c)
    \/ ExecSelect(c) \/ ExecFindOne(c) \/ ExecFindById(c)

ServerTypeOK ==
    /\ DOMAIN rows \subseteq 0 .. counter - 1 /\ \A r \in DOMAIN rows : rows[r] \in Row
    /\ counter \in 0 .. MaxRows
    /\ Len(queryCache) <= CacheSize
    /\ \A i, j \in DOMAIN queryCache : queryCache[i].key = queryCache[j].key => i = j
    /\ inbox \in [Conns -> Seq(Requests)]
    /\ outbox \in [Conns -> Seq(Replies)]
    /\ open \subseteq Conns /\ \A c \in Conns \ open : outbox[c] = <<>>
=============================================================================
