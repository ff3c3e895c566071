------------------------------- MODULE Repository -------------------------------
(***************************************************************************)
(* The repositories of the bot (src/src/database/repositories) over their  *)
(* DatabaseClient (src/src/database/engine/ws_client.py) and the table     *)
(* server: several bot processes, each with one connection and a cache of  *)
(* what it read and saved, whose tasks save and read rows of one table.    *)
(* A save is a find_by_id followed by an update or an insert, and other    *)
(* tasks run between the two.                                              *)
(***************************************************************************)
EXTENDS TableServer

CONSTANTS
    Bots,        \* bot processes
    Tasks,       \* coroutines that use a repository
    BotOf,       \* the process of each
    MaxConns,    \* bound: connections ever opened
    MaxCalls,    \* bound: repository calls ever made that send a request
    Methods      \* the repository methods the tasks call

\* Where a call is suspended; a call is in each of them at most once.
Waiting == {"looking", "updating", "inserting", "getting", "reading"}

ASSUME RepositoryAssumption ==
    /\ IsFiniteSet(Bots) /\ Bots # {} /\ MaxConns \in Nat /\ Cardinality(Bots) <= MaxConns
    /\ Conns = 1 .. MaxConns
    /\ BotOf \in [Tasks -> Bots]
    /\ MaxCalls \in Nat /\ Ids = (1 .. MaxCalls) \X Waiting
    /\ Methods \subseteq {"save", "get", "lookup", "list", "remove", "restart"}

VARIABLES
    conn,        \* each process's connection
    opened,      \* connections opened so far
    calls,       \* calls made so far
    pc,          \* what each task awaits
    job,         \* the call each task is in
    repoCache    \* _cache of each process's repository: key -> val

taskVars == <<calls, pc, job>>
vars     == <<serverVars, conn, opened, taskVars, repoCache>>

NoEntry == [k \in {} |-> k]

\* A call: its number, the key and value it saves or asks for, and two ghosts:
\* whether the key had a row when the call began, and the key of the row that
\* find_by_id answered.
NoJob == [call |-> 0]
Jobs  == [call : 1 .. MaxCalls, key : Keys \cup {NoKey}, val : Vals, stored : BOOLEAN,
          found : Keys \cup {NoKey}]

Init ==
    /\ ServerInit
    /\ opened = Cardinality(Bots)
    /\ \E f \in [Bots -> 1 .. opened] : (\A a, b \in Bots : f[a] = f[b] => a = b) /\ conn = f
    /\ open = 1 .. opened
    /\ calls = 0
    /\ pc = [t \in Tasks |-> "idle"]
    /\ job = [t \in Tasks |-> NoJob]
    /\ repoCache = [b \in Bots |-> NoEntry]

ConnOf(t) == conn[BotOf[t]]

\* request: a future under a fresh request_id, the message, the wait.
Send(t, action, j, state) ==
    /\ inbox' = [inbox EXCEPT ![ConnOf(t)] =
                   Append(@, [id |-> <<j.call, state>>, action |-> action,
                              key |-> j.key, val |-> j.val])]
    /\ pc' = [pc EXCEPT ![t] = state]
    /\ job' = [job EXCEPT ![t] = j]

\* The call of a task ends, by a return or by an exception.
End(t) ==
    /\ pc' = [pc EXCEPT ![t] = "idle"]
    /\ job' = [job EXCEPT ![t] = NoJob]
    /\ UNCHANGED inbox

May(t, method) == pc[t] = "idle" /\ method \in Methods

\* A call that begins with a request.
Ask(t, method, action, key, val, state) ==
    /\ May(t, method)
    /\ calls < MaxCalls
    /\ calls' = calls + 1
    /\ Send(t, action, [call |-> calls + 1, key |-> key, val |-> val,
                        stored |-> IdsOf(key) # {}, found |-> NoKey], state)
    /\ UNCHANGED <<rows, counter, queryCache, outbox, open, conn, opened, repoCache>>

-----------------------------------------------------------------------------
\* save_config, save_user_data, save_level, save_ticket, save_case ... begin.
Save(t, key, val) == Ask(t, "save", "find_by_id", key, val, "looking")

\* get_config, get_user_data, get_user_level: a find_by_id, unless the process
\* has read or saved the key before (then nothing changes).
Get(t, key, val) ==
    /\ key \notin DOMAIN repoCache[BotOf[t]]
    /\ Ask(t, "get", "find_by_id", key, val, "getting")

\* get_by_channel and get_case, get_user_cases and get_all_node_status,
\* delete_secret_user and delete_host_check: one request, its answer returned.
Lookup(t, key, val) == Ask(t, "lookup", "find_one", key, val, "reading")
List(t, key, val)   == Ask(t, "list", "select", key, val, "reading")
Remove(t, key, val) == Ask(t, "remove", "delete", key, val, "reading")

Remember(t, val) ==
    repoCache' = [repoCache EXCEPT ![BotOf[t]] =
                    [k \in DOMAIN @ \cup {job[t].key} |-> IF k = job[t].key THEN val ELSE @[k]]]

\* The task of a reply goes on.
Continue(t, reply) ==
    \/ /\ ~reply.success
       /\ End(t) /\ UNCHANGED repoCache
    \/ /\ reply.success /\ pc[t] = "looking" /\ reply.found # <<>>
       /\ Send(t, "update", [job[t] EXCEPT !.found = reply.found[1].key], "updating")
       /\ UNCHANGED repoCache
    \/ /\ reply.success /\ pc[t] = "looking" /\ reply.found = <<>>
       /\ Send(t, "insert", job[t], "inserting")
       /\ UNCHANGED repoCache
    \/ /\ reply.success /\ pc[t] \in {"updating", "inserting"}
       /\ End(t) /\ Remember(t, job[t].val)
    \/ /\ reply.success /\ pc[t] = "getting"
       /\ End(t)
       /\ IF reply.found = <<>> THEN UNCHANGED repoCache ELSE Remember(t, reply.found[1].val)
    \/ /\ reply.success /\ pc[t] = "reading"
       /\ End(t) /\ UNCHANGED repoCache

\* _pending_requests holds the request_id.
Awaits(t, reply) == pc[t] # "idle" /\ reply.id = <<job[t].call, pc[t]>>

\* _receive_loop takes one response of the process's connection; one that nobody
\* waits for any more is dropped.
Receive(b) ==
    LET reply == Head(outbox[conn[b]])
    IN  /\ outbox[conn[b]] # <<>>
        /\ outbox' = [outbox EXCEPT ![conn[b]] = Tail(@)]
        /\ IF \E t \in Tasks : Awaits(t, reply)
             THEN \E t \in Tasks : Awaits(t, reply) /\ Continue(t, reply)
             ELSE UNCHANGED <<inbox, pc, job, repoCache>>
        /\ UNCHANGED <<rows, counter, queryCache, open, conn, opened, calls>>

\* wait_for gives up: the future is forgotten, the caller gets TimeoutError; the
\* request is still on its way.
Timeout(t) ==
    /\ pc[t] # "idle"
    /\ End(t)
    /\ UNCHANGED <<rows, counter, queryCache, outbox, open, conn, opened, calls, repoCache>>

\* A bot process dies and a new one connects.  The server may still handle any
\* first part of what the old connection brought; nobody reads its responses.
Restart(b) ==
    /\ "restart" \in Methods /\ opened < MaxConns
    /\ opened' = opened + 1
    /\ conn' = [conn EXCEPT ![b] = opened + 1]
    /\ open' = (open \ {conn[b]}) \cup {opened + 1}
    /\ \E n \in 0 .. Len(inbox[conn[b]]) :
         inbox' = [inbox EXCEPT ![conn[b]] = SubSeq(@, 1, n)]
    /\ outbox' = [outbox EXCEPT ![conn[b]] = <<>>]
    /\ pc' = [t \in Tasks |-> IF BotOf[t] = b THEN "idle" ELSE pc[t]]
    /\ job' = [t \in Tasks |-> IF BotOf[t] = b THEN NoJob ELSE job[t]]
    /\ repoCache' = [repoCache EXCEPT ![b] = NoEntry]
    /\ UNCHANGED <<rows, counter, queryCache, calls>>

Call(t) ==
    \/ \E key \in Keys, val \in Vals :
         Save(t, key, val) \/ Get(t, key, val) \/ Lookup(t, key, val) \/ Remove(t, key, val)
    \/ \E key \in Keys \cup {NoKey}, val \in Vals : List(t, key, val)

Serve(c) == Exec(c) /\ UNCHANGED <<conn, opened, taskVars, repoCache>>

Next ==
    \/ \E t \in Tasks : Call(t) \/ Timeout(t)
    \/ \E c \in Conns : Serve(c)
    \/ \E b \in Bots : Receive(b) \/ Restart(b)
    \/ CacheExpires /\ UNCHANGED <<conn, opened, taskVars, repoCache>>

Spec == Init /\ [][Next]_vars

-----------------------------------------------------------------------------
TypeOK ==
    /\ ServerTypeOK
    /\ opened \in Conns /\ conn \in [Bots -> 1 .. opened]
    /\ open = {conn[b] : b \in Bots} /\ Cardinality(open) = Cardinality(Bots)
    /\ calls \in 0 .. MaxCalls
    /\ pc \in [Tasks -> Waiting \cup {"idle"}]
    /\ \A t \in Tasks : IF pc[t] = "idle" THEN job[t] = NoJob ELSE job[t] \in Jobs
    /\ \A b \in Bots : DOMAIN repoCache[b] \subseteq Keys

\* A task inserts a row for a key only if the key had none when its save began:
\* two rows of a key come from overlapping first saves and from nothing else,
\* whatever is cached, late, lost with its process or answered to nobody.
OnlyFirstSavesInsert ==
    \A t \in Tasks : pc[t] = "inserting" => ~job[t].stored

\* The task's save ends with the reply received, one of success.
Saved(t) ==
    /\ pc[t] \in {"updating", "inserting"} /\ pc'[t] = "idle"
    /\ outbox' # outbox /\ conn' = conn /\ Head(outbox[ConnOf(t)]).success

\* A save that returns leaves a row of its key in the table, unless find_by_id
\* had answered it with the row of another key.
SaveLeavesRow ==
    [][\A t \in Tasks : Saved(t) =>
         \/ IdsOf(job[t].key) # {}
         \/ pc[t] = "updating" /\ job[t].found # job[t].key]_vars

\* The key column is the table's primary key (api.py:130): no two rows share one.
PrimaryKeyUnique ==
    \A r, s \in DOMAIN rows : rows[r].key = rows[s].key => r = s

\* The update of a stored row "appends new version" (direct_flush.py:559): a save
\* that took the update path and returned has its row in the table.
UpdateTakesEffect ==
    [][\A t \in Tasks : Saved(t) /\ pc[t] = "updating" /\ job[t].found = job[t].key
         => \E r \in IdsOf(job[t].key) : rows[r].val = job[t].val]_vars
=============================================================================
