----------------------------------- MODULE FanOut -----------------------------------
(***************************************************************************)
(* The reads a cluster manager fans out (fan_out_read, fan_out_query in    *)
(* cluster.py): one node of each cluster of peers, and the local reader,   *)
(* are asked at once, each for so long, and the rows of those who answer   *)
(* are made into one answer.                                               *)
(*                                                                         *)
(* One call.  A row is its key, as _generate_row_key makes it, and whose   *)
(* version it is.  What a node answers is its own affair: any rows, none,  *)
(* which is also what a refusal is turned into, or nothing in time.        *)
(***************************************************************************)
EXTENDS Naturals, Sequences, FiniteSets, SequencesExt

CONSTANTS
    FanPeers,    \* the registry's peers in its order: a sequence of [node, cluster]
    LocalReader, \* who is asked first
    RowKeys

Nodes == {peer.node : peer \in ToSet(FanPeers)}

ASSUME FanAssumption ==
    /\ FanPeers \in Seq(ToSet(FanPeers)) /\ LocalReader \notin Nodes
    /\ \A p, q \in ToSet(FanPeers) : p.node = q.node => p = q

VARIABLES
    how,       \* fan_out_query, or merge_strategy of fan_out_read
    asked,     \* the tasks, in the order they were made
    outcome,   \* of each task: what became of it, and the keys of its rows
    finished,  \* tasks that ended, in that order: response_times and failed_clusters
    seen,      \* tasks that asyncio.wait has given the call
    answer     \* what the call returned: rows; or NoAnswer

fanVars == <<how, asked, outcome, finished, seen, answer>>

Outcome(what, keys) == [is |-> what, keys |-> keys]
Strategies == {"union", "first_positive", "fastest", "query"}
NoAnswer == [returned |-> FALSE, rows |-> {}]
Answer(rows) == [returned |-> TRUE, rows |-> rows]

FanInit ==
    /\ how = "none" /\ asked = <<>> /\ outcome = <<>>
    /\ finished = <<>> /\ seen = {} /\ answer = NoAnswer

-----------------------------------------------------------------------------
(* Asking *)

\* _group_nodes_by_cluster: clusters in the order their first peers come.
Clusters == {peer.cluster : peer \in ToSet(FanPeers)}
Group(c) == {peer.node : peer \in {p \in ToSet(FanPeers) : p.cluster = c}}

FirstPeer(c) == CHOOSE i \in DOMAIN FanPeers : FanPeers[i].cluster = c /\ \A k \in 1..i - 1 : FanPeers[k].cluster # c
InOrder(clusters) == \A i, j \in DOMAIN clusters : i < j => FirstPeer(clusters[i]) < FirstPeer(clusters[j])

\* _select_random_node_per_cluster: a healthy node of each cluster that has one.
Selections(healthy) ==
    LET ready == {c \in Clusters : Group(c) \cap healthy # {}}
        many  == Cardinality(ready)
    IN  {choice \in [1..many -> healthy] :
            \E order \in [1..many -> ready] : InOrder(order) /\ \A i \in 1..many : choice[i] \in Group(order[i])}

\* Every task is made before any of them runs.
FansOut(strategy, healthy) ==
    /\ how = "none" /\ how' = strategy
    /\ \E choice \in Selections(healthy) : asked' = <<LocalReader>> \o choice
    /\ outcome' = [who \in ToSet(asked') |-> Outcome("running", {})]
    /\ UNCHANGED <<finished, seen, answer>>

Running == {who \in DOMAIN outcome : outcome[who].is = "running"}

Ends(who, what) ==
    /\ who \in Running
    /\ outcome' = [outcome EXCEPT ![who] = what] /\ finished' = Append(finished, who)
    /\ UNCHANGED <<how, asked, seen, answer>>

Replies(who, keys) == Ends(who, Outcome("answered", keys))

\* An error, or the time-out of wait_for: no rows.
FailsToReply(who) == Ends(who, Outcome("failed", {}))

KeysFrom(who) == outcome[who].keys
RowsFrom(who) == {[key |-> k, by |-> who] : k \in KeysFrom(who)}

-----------------------------------------------------------------------------
(* Making one answer of the answers *)

\* Of the rows with a key, the one that comes first in the order is kept.
MergedBy(order) ==
    UNION {{row \in RowsFrom(order[i]) : \A j \in 1..i - 1 : row.key \notin KeysFrom(order[j])} : i \in DOMAIN order}

\* Mutant: the answers are merged as they come.
MergedAsTheyCome == MergedBy(finished)

\* gather gives the answers in the order of the tasks.
Merged == MergedBy(asked)

CancelsRest == outcome' = [who \in DOMAIN outcome |-> IF who \in Running THEN Outcome("cancelled", {}) ELSE outcome[who]]

Gathers ==
    /\ how \in {"union", "query"} /\ asked # <<>> /\ Running = {} /\ ~answer.returned
    /\ answer' = Answer(Merged)
    /\ UNCHANGED <<how, asked, outcome, finished, seen>>

Done == (DOMAIN outcome \ Running) \ seen

\* The first of those that are done when the call is woken, in whatever order, that has
\* rows; or the others are waited for; or there are none.
TakesFirstPositive ==
    /\ how = "first_positive" /\ Done # {} /\ ~answer.returned /\ seen' = seen \cup Done
    /\ IF \E who \in Done : KeysFrom(who) # {}
       THEN /\ \E who \in Done : KeysFrom(who) # {} /\ answer' = Answer(RowsFrom(who))
            /\ CancelsRest
       ELSE /\ answer' = IF Running = {} THEN Answer({}) ELSE answer
            /\ UNCHANGED outcome
    /\ UNCHANGED <<how, asked, finished>>

\* Whoever is done first, with rows or without.
TakesFastest ==
    /\ how = "fastest" /\ Done # {} /\ ~answer.returned /\ seen' = seen \cup Done
    /\ \E who \in Done : answer' = Answer(RowsFrom(who))
    /\ CancelsRest
    /\ UNCHANGED <<how, asked, finished>>

FanNext ==
    \/ \E strategy \in Strategies, healthy \in SUBSET Nodes : FansOut(strategy, healthy)
    \/ \E who \in Running : FailsToReply(who) \/ \E keys \in SUBSET RowKeys : Replies(who, keys)
    \/ Gathers \/ TakesFirstPositive \/ TakesFastest

FanSpec == FanInit /\ [][FanNext]_fanVars

-----------------------------------------------------------------------------
\* What a fan-out returns: merged, every key that anyone asked answered with, once, and
\* the local reader's version of it if it has one, in whatever order they answered; the
\* first positive answer whole, and no rows only if nobody asked has any to give; the
\* fastest answer whole.  No two of a cluster are asked.
AnswerIsWhole ==
    LET rows == answer.rows
        keys == {row.key : row \in rows}
        gave == {who \in DOMAIN outcome : KeysFrom(who) # {}}
    IN  answer.returned =>
            /\ \A row, other \in rows : row.key = other.key => row = other
            /\ \A who \in gave : how \in {"union", "query"} => KeysFrom(who) \subseteq keys
            /\ how \in {"union", "query"} => RowsFrom(LocalReader) \subseteq rows
            /\ how \in {"first_positive", "fastest"} => rows = {} \/ \E who \in gave : rows = RowsFrom(who)
            /\ how = "first_positive" /\ rows = {} => gave = {} /\ Running = {}
            /\ \A c \in Clusters : \A node, other \in Group(c) \cap ToSet(asked) : node = other
=============================================================================
