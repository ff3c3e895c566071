-------------------------------- MODULE ClusterReads --------------------------------
(***************************************************************************)
(* What a node reads from, and writes to, the owners of the guilds it does *)
(* not own (cluster.py): the requests of the node client, each tried up to *)
(* three times over a connection per node, and the distributed cache of    *)
(* their answers.                                                          *)
(*                                                                         *)
(* The owner of a key is the ring's answer for its guild, with members     *)
(* joining and leaving (ClusterRing).  The owners themselves are external: *)
(* each has what was written to a key while it was the owner, answers a    *)
(* read with that, and may answer late, with an error or not at all.  No   *)
(* lock is held over a suspension.                                         *)
(*                                                                         *)
(* Times are ages: how long ago something was, up to a cap beyond which    *)
(* nothing compares it.  Of what is read, only its lag is kept: how long   *)
(* it has not been the current version any more.                           *)
(***************************************************************************)
EXTENDS Integers, Sequences, FiniteSets, SequencesExt

CONSTANTS
    Callers,            \* coroutines
    Keys,               \* pairs of a guild and a table
    Remotes,            \* the other nodes
    Self,               \* the local one
    Ttl,                \* ttl_seconds of the cache
    RequestTimeout,     \* REQUEST_TIMEOUT
    ConnectTime,        \* three times CONNECT_TIMEOUT, and the pauses
    BlacklistDuration,  \* BLACKLIST_DURATION
    MaxTries,           \* MAX_RETRIES
    MaxCacheSize,       \* MAX_CACHE_SIZE
    MaxSockets          \* bound: connections that are open at once

ASSUME ReadsAssumption ==
    /\ Self \notin Remotes /\ MaxTries \in Nat \ {0} /\ MaxCacheSize \in Nat \ {0}
    /\ Ttl \in Nat /\ RequestTimeout \in Nat /\ ConnectTime \in Nat

VARIABLES
    owner,    \* of each key: the ring's
    behind,   \* the lag of what a node has of a key
    members,  \* the other nodes in the ring
    cache,    \* _cache: an entry for a key, or NoEntry
    kept,     \* nodes with a connection in _connections
    sockets,  \* connections to each node that are open
    failed,   \* _failed_nodes: how long ago connecting to a node failed, or NotFailed
    caller    \* where each coroutine is suspended

netVars  == <<kept, sockets, failed>>
ringSide == <<owner, behind, members>>
readVars == <<ringSide, cache, netVars, caller>>

Current    == -1    \* the lag of the current version
Unanswered == -2
NotFailed  == 100
NoEntry    == [age |-> -1]
Idle       == [at |-> "idle"]
LongestLag == Ttl + RequestTimeout + ConnectTime

ReadsInit ==
    /\ owner \in [Keys -> Remotes \cup {Self}]
    /\ behind = [n \in Remotes |-> [k \in Keys |-> IF n = owner[k] THEN Current ELSE LongestLag + 1]]
    /\ members = Remotes /\ cache = [k \in Keys |-> NoEntry]
    /\ kept = {} /\ sockets = [n \in Remotes |-> 0] /\ failed = [n \in Remotes |-> NotFailed]
    /\ caller = [c \in Callers |-> Idle]

-----------------------------------------------------------------------------
(* Requests *)

Call(op, k) == [at |-> "new", op |-> op, key |-> k, node |-> owner[k], try |-> 1,
                since |-> 0, answer |-> Unanswered, doomed |-> FALSE, done |-> 0]

\* A try failed otherwise than by a ConnectionError, which ends the request: the next
\* follows a pause.
Retries(call) == IF call.try < MaxTries THEN [call EXCEPT !.at = "pausing", !.since = 0, !.answer = Unanswered] ELSE Idle

\* A try, up to its first suspension.  A kept connection is asked whether it is open,
\* which connections of the library's do not answer: an AttributeError.
Tries(call) ==
    IF failed[call.node] # NotFailed THEN Idle
    ELSE IF call.node \in kept THEN Retries(call)
    ELSE [call EXCEPT !.at = "connecting"]

TriesAgain(c) ==
    /\ caller[c].at = "pausing"
    /\ caller' = [caller EXCEPT ![c] = Tries([caller[c] EXCEPT !.try = @ + 1])]
    /\ UNCHANGED <<ringSide, cache, netVars>>

\* Connected: the connection is kept in the place of another's, and the request is sent
\* on it, unless its future has failed meanwhile.
Connects(c) ==
    LET call == caller[c]
    IN  /\ call.at = "connecting" /\ FoldFunction(+, 0, sockets) < MaxSockets
        /\ kept' = kept \cup {call.node}
        /\ sockets' = [sockets EXCEPT ![call.node] = @ + 1]
        /\ caller' = [caller EXCEPT ![c] = IF call.doomed THEN Idle ELSE [call EXCEPT !.at = "sent", !.since = 0]]
        /\ UNCHANGED <<ringSide, cache, failed>>

\* No connection was made in as many tries.
NotConnected(c) ==
    /\ caller[c].at = "connecting"
    /\ failed' = [failed EXCEPT ![caller[c].node] = 0]
    /\ caller' = [caller EXCEPT ![c] = Idle]
    /\ UNCHANGED <<ringSide, cache, kept, sockets>>

\* What was the current version is so no longer.
Replaced(lag) == IF lag = Current THEN 0 ELSE lag

\* These keys get new versions.  Each is with its owner of now alone; what other nodes
\* and the cache have, and what answers carry that are under way, is replaced.
NewVersions(keys, callers, entries) ==
    /\ behind' = [n \in Remotes |-> [k \in Keys |-> IF k \notin keys THEN behind[n][k]
                                                   ELSE IF n = owner'[k] THEN Current ELSE Replaced(behind[n][k])]]
    /\ cache' = [k \in Keys |-> IF k \in keys /\ entries[k] # NoEntry THEN [entries[k] EXCEPT !.lag = Replaced(@)] ELSE entries[k]]
    /\ caller' = [c \in Callers |-> IF callers[c] # Idle /\ callers[c].op = "read" /\ callers[c].key \in keys
                                    THEN [callers[c] EXCEPT !.answer = Replaced(@)] ELSE callers[c]]

\* The node reads what it has; or writes, which makes a new version if it is the owner.
Handled(c) ==
    LET call == caller[c]
    IN  /\ call.at = "sent" /\ call.answer = Unanswered /\ UNCHANGED <<owner, members, netVars>>
        /\ IF call.op = "read"
           THEN /\ caller' = [caller EXCEPT ![c].answer = behind[call.node][call.key]]
                /\ UNCHANGED <<behind, cache>>
           ELSE NewVersions({call.key} \cap {k \in Keys : owner[k] = call.node},
                            [caller EXCEPT ![c].answer = Current, ![c].done = @ + 1], cache)

\* Mutant: a try is waited for under the identifier it is sent with.
ExpectedAlways(call) == TRUE

\* Every try is sent with the identifier of the first, and waited for under its own.
Expected(call) == call.try = 1

Answers(c) ==
    /\ caller[c].at = "sent" /\ caller[c].answer # Unanswered /\ Expected(caller[c])
    /\ caller' = [caller EXCEPT ![c].at = "answered"]
    /\ UNCHANGED <<ringSide, cache, netVars>>

\* An answer with an error.
Refuses(c) ==
    /\ caller[c].at = "sent" /\ Expected(caller[c])
    /\ caller' = [caller EXCEPT ![c] = Retries(@)]
    /\ UNCHANGED <<ringSide, cache, netVars>>

TimesOut(c) ==
    /\ caller[c].at = "sent" /\ caller[c].since = RequestTimeout
    /\ caller' = [caller EXCEPT ![c] = Retries(@)]
    /\ UNCHANGED <<ringSide, cache, netVars>>

\* The end of _handle_responses: a connection to the node is closed; the one that is
\* kept is forgotten, be it another, and every future fails, of whatever node.
Closes(n) ==
    /\ sockets[n] > 0 /\ sockets' = [sockets EXCEPT ![n] = @ - 1]
    /\ kept' = kept \ {n}
    /\ caller' = [c \in Callers |-> CASE caller[c].at = "connecting" -> [caller[c] EXCEPT !.doomed = TRUE]
                                      [] caller[c].at = "sent" -> Idle
                                      [] OTHER -> caller[c]]
    /\ UNCHANGED <<ringSide, cache, failed>>

\* The owner writes to a key of its own accord, or another's.
OwnerWrites(k) ==
    /\ UNCHANGED <<owner, members, netVars>> /\ NewVersions({k}, caller, cache)

-----------------------------------------------------------------------------
(* The cache *)

Cached == {k \in Keys : cache[k] # NoEntry}

\* Mutant: entries are served for twice as long.
ExpiredLate(entry) == entry.age > 2 * Ttl

\* is_expired
Expired(entry) == entry.age > Ttl

\* get: from the cache; or the entry that expired is dropped, and the owner is asked.
GetData(c, k) ==
    /\ caller[c] = Idle
    /\ k \in Cached => Expired(cache[k])
    /\ cache' = [cache EXCEPT ![k] = NoEntry]
    /\ caller' = IF owner[k] = Self THEN caller ELSE [caller EXCEPT ![c] = Tries(Call("read", k))]
    /\ UNCHANGED <<ringSide, netVars>>

\* write_data, which leaves the cache alone.
WriteData(c, k) ==
    /\ caller[c] = Idle /\ owner[k] # Self
    /\ caller' = [caller EXCEPT ![c] = Tries(Call("write", k))]
    /\ UNCHANGED <<ringSide, cache, netVars>>

\* _evict_oldest, a tenth of the entries: those that were fetched first.
Evictions ==
    IF Cardinality(Cached) < MaxCacheSize THEN {{}}
    ELSE {gone \in SUBSET Cached :
            /\ Cardinality(gone) = Max({1, Cardinality(Cached) \div 10})
            /\ \A k \in gone, other \in Cached \ gone : cache[k].age >= cache[other].age}

\* The coroutine goes on with the answer, which it puts into the cache if it is what it
\* read.
Resumes(c) ==
    LET call == caller[c]
    IN  /\ call.at = "answered" /\ caller' = [caller EXCEPT ![c] = Idle]
        /\ IF call.op = "read"
           THEN \E gone \in Evictions :
                  cache' = [k \in Keys |-> IF k = call.key THEN [lag |-> call.answer, from |-> call.node, age |-> 0]
                                           ELSE IF k \in gone THEN NoEntry ELSE cache[k]]
           ELSE UNCHANGED cache
        /\ UNCHANGED <<ringSide, netVars>>

\* _cleanup_loop
CleansCache ==
    /\ cache' = [k \in Keys |-> IF k \in Cached /\ Expired(cache[k]) THEN NoEntry ELSE cache[k]]
    /\ cache' # cache
    /\ UNCHANGED <<ringSide, netVars, caller>>

-----------------------------------------------------------------------------
(* The ring, and time *)

\* invalidate_from_node
Invalidated(n) == [k \in Keys |-> IF k \in Cached /\ cache[k].from = n THEN NoEntry ELSE cache[k]]

\* A member leaves or falls silent: its keys go to others, and what it sent is dropped.
\* What it is still to send is not.
MemberLeaves(n) ==
    LET mine == {k \in Keys : owner[k] = n}
    IN  /\ n \in members /\ members' = members \ {n}
        /\ \E to \in [mine -> members' \cup {Self}] : owner' = [k \in Keys |-> IF k \in mine THEN to[k] ELSE owner[k]]
        /\ NewVersions(mine, caller, Invalidated(n))
        /\ UNCHANGED netVars

\* A node joins: some keys are its own now, and their entries stay.
MemberJoins(n) ==
    /\ n \notin members /\ members' = members \cup {n}
    /\ \E moved \in SUBSET Keys :
          /\ owner' = [k \in Keys |-> IF k \in moved THEN n ELSE owner[k]]
          /\ NewVersions(moved, caller, cache)
    /\ UNCHANGED netVars

Later(lag) == IF lag < 0 THEN lag ELSE Min({lag + 1, LongestLag + 1})

\* Nobody who is due is passed over, and a blacklisting ends.
TimeGoesOn ==
    /\ \A c \in Callers :
          /\ caller[c].at # "answered"
          /\ caller[c].at = "sent" => caller[c].since < RequestTimeout
          /\ caller[c].at = "connecting" => caller[c].since < ConnectTime
    /\ caller' = [c \in Callers |-> IF caller[c].at \in {"sent", "connecting"}
                                    THEN [caller[c] EXCEPT !.since = @ + 1, !.answer = Later(@)] ELSE caller[c]]
    /\ failed' = [n \in Remotes |-> IF failed[n] >= BlacklistDuration THEN NotFailed ELSE failed[n] + 1]
    /\ behind' = [n \in Remotes |-> [k \in Keys |-> Later(behind[n][k])]]
    /\ cache' = [k \in Keys |-> IF k \in Cached THEN [cache[k] EXCEPT !.age = Min({@ + 1, 2 * Ttl + 1}), !.lag = Later(@)] ELSE NoEntry]
    /\ UNCHANGED <<owner, members, kept, sockets>>

ReadsNext ==
    \/ \E c \in Callers :
          \/ \E k \in Keys : GetData(c, k) \/ WriteData(c, k)
          \/ TriesAgain(c) \/ Connects(c) \/ NotConnected(c)
          \/ Handled(c) \/ Answers(c) \/ Refuses(c) \/ TimesOut(c) \/ Resumes(c)
    \/ \E n \in Remotes : Closes(n) \/ MemberLeaves(n) \/ MemberJoins(n)
    \/ \E k \in Keys : OwnerWrites(k)
    \/ CleansCache \/ TimeGoesOn

ReadsSpec == ReadsInit /\ [][ReadsNext]_readVars

-----------------------------------------------------------------------------
\* What a read is served, from the cache or with the owner's answer, had been the current
\* version, the ring's owner's last write, no longer ago than the cache keeps an entry, a
\* request waits for its answer and a connection takes to be made together: through
\* members that join and leave while they are asked, late answers and invalidations that
\* they overtake.
ServedFresh ==
    /\ \A k \in Cached : ~Expired(cache[k]) => cache[k].lag <= LongestLag
    /\ \A c \in Callers : caller[c].at = "answered" => caller[c].answer <= RequestTimeout + ConnectTime

\* A write that is reported as done was done once, although a request is sent again
\* after a time-out, an error and the loss of its connection, and may be handled each time.
WritesDoneOnce == \A c \in Callers : caller[c].at = "answered" /\ caller[c].op = "write" => caller[c].done = 1
=============================================================================
