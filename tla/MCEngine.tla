---------------------------------- MODULE MCEngine ----------------------------------
(***************************************************************************)
(* The parts of the engine that share no state in one run: a behaviour     *)
(* picks one part at its start, and the others stay as they began.  What   *)
(* the parts of the cluster would share, the owner of a key, ClusterReads  *)
(* takes to be any.                                                        *)
(***************************************************************************)
EXTENDS BTreeIndex, Transactions, Query, ColumnarDB, ClusterRing, ClusterReads, FanOut, TLC

CONSTANTS
    EngineParts,   \* of "index", "txn", "query", "legacy", "ring", "reads" and "fanout"
    T1, T2, D1, D2, C1, C2   \* what is interchangeable of Txns, DbTasks, Callers

VARIABLE engine

interchangeable == Permutations({T1, T2}) \cup Permutations({D1, D2}) \cup Permutations({C1, C2})

\* Eight values of the column, one of them in two rows: enough for three levels.
SomeEntries == {<<k, 1>> : k \in 1..8} \cup {<<4, 2>>}

\* Two tables of three rows, with values that are equal, smaller and missing.
Row(a, b) == [a |-> a, b |-> b]
SomeData == {<<Row(1, 2), Row(1, 0), Row(2, 1)>>, <<Row(0, 1), Row(2, 2), Row(1, 2)>>}
SomeConditions == {[column |-> "a", operator |-> "=", value |-> 1],
                   [column |-> "b", operator |-> ">", value |-> 1],
                   [column |-> "a", operator |-> "IS NULL", value |-> 0]}

\* Three nodes with two virtual nodes each, once in turn and once beside each other.
Laid(order) == [v \in RingNodes \X (1..2) |-> CHOOSE i \in DOMAIN order : order[i] = v]
SomeLayouts == {Laid(<<<<"p", 1>>, <<"q", 1>>, <<"me", 1>>, <<"q", 2>>, <<"p", 2>>, <<"me", 2>>>>),
                Laid(<<<<"me", 2>>, <<"p", 1>>, <<"q", 2>>, <<"me", 1>>, <<"q", 1>>, <<"p", 2>>>>)}
SomeHashes == [g \in RingGuilds |-> IF g = "g0" THEN 0 ELSE 4]

\* A registration with a heartbeat of now, of long ago, and of a clock that is ahead.
SomeClaims == {0, 2, -1}

\* Two nodes of one cluster and one of another.
SomePeers == <<[node |-> "a1", cluster |-> "A"], [node |-> "b1", cluster |-> "B"], [node |-> "a2", cluster |-> "A"]>>

Init ==
    /\ engine \in EngineParts
    /\ IndexInit /\ TxnInit /\ QueryInit /\ DbInit /\ RingInit /\ ReadsInit /\ FanInit
    /\ engine = "query" \/ data = (CHOOSE rows \in DataSets : TRUE)
    /\ engine = "ring" \/ (layout = (CHOOSE l \in Layouts : TRUE) /\ vnodes[Me] = VnodeCount(Max(Weights)))
    /\ engine = "reads" \/ \A k \in Keys : owner[k] = Self

Next ==
    \/ engine = "index" /\ IndexNext /\ UNCHANGED <<engine, txnVars, queryVars, dbVars, ringVars, readVars, fanVars>>
    \/ engine = "txn" /\ TxnNext /\ UNCHANGED <<engine, indexVars, queryVars, dbVars, ringVars, readVars, fanVars>>
    \/ engine = "query" /\ QueryNext /\ UNCHANGED <<engine, indexVars, txnVars, dbVars, ringVars, readVars, fanVars>>
    \/ engine = "legacy" /\ DbNext /\ UNCHANGED <<engine, indexVars, txnVars, queryVars, ringVars, readVars, fanVars>>
    \/ engine = "ring" /\ RingNext /\ UNCHANGED <<engine, indexVars, txnVars, queryVars, dbVars, readVars, fanVars>>
    \/ engine = "reads" /\ ReadsNext /\ UNCHANGED <<engine, indexVars, txnVars, queryVars, dbVars, ringVars, fanVars>>
    \/ engine = "fanout" /\ FanNext /\ UNCHANGED <<engine, indexVars, txnVars, queryVars, dbVars, ringVars, readVars>>

vars == <<engine, indexVars, txnVars, queryVars, dbVars, ringVars, readVars, fanVars>>

Spec == Init /\ [][Next]_vars

-----------------------------------------------------------------------------
\* Properties of the parts whose variables do not satisfy them from the start.

\* Tree and hash index hold what was put in and not removed, in order and balance.
IndexPart == engine = "index" => IndexesAgree

\* The builder's groups select the rows that its calls mean.
QueryPart == engine = "query" => QueryAnswers
=============================================================================
