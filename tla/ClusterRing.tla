--------------------------------- MODULE ClusterRing ---------------------------------
(***************************************************************************)
(* A node's registry of its peers and its ring of virtual nodes            *)
(* (cluster.py): which node it takes for the owner of a guild, as peers    *)
(* register, are told of by others, send heartbeats, fall silent and leave.*)
(*                                                                         *)
(* No lock is held over a suspension, so a handler is one step.  Times are *)
(* ages: an age grows with the clock up to a cap, beyond which nothing     *)
(* compares it.  A registration carries the peer's own record of its last  *)
(* heartbeat, by the clock of whoever sends it: old, or ahead of ours.     *)
(***************************************************************************)
EXTENDS Integers, FiniteSets, FiniteSetsExt

CONSTANTS
    RingNodes,         \* identifiers of nodes
    Me,                \* the local one
    RingGuilds,        \* guilds
    GuildHash,         \* where a guild falls on the ring
    Layouts,           \* where virtual nodes fall: sets of pairs <<node, number>> -> position
    HashSpace,         \* the ring's length
    VirtualNodes,      \* virtual nodes of a node of weight 1
    Weights,           \* weights of nodes, in halves
    HeartbeatTimeout,  \* HEARTBEAT_TIMEOUT
    CleanupInterval,   \* CLEANUP_INTERVAL
    Claims,            \* ages of the last heartbeat in a registration
    Skew               \* how far ahead of ours a sender's clock can be

\* int(virtual_nodes * weight), and one at least
VnodeCount(weight) == Max({1, (VirtualNodes * weight) \div 2})

\* The virtual nodes there can be; no two fall on one position.
Spots == UNION {RingNodes \X (1..VnodeCount(w)) : w \in Weights}

Unset == "unset"

ASSUME RingAssumption ==
    /\ IsFiniteSet(RingNodes) /\ Unset \notin RingNodes
    /\ Me \in RingNodes /\ GuildHash \in [RingGuilds -> Int]
    /\ HashSpace \in Nat \ {0} /\ VirtualNodes \in Nat /\ Weights \subseteq Nat
    /\ \A l \in Layouts : \A a, b \in Spots : l[a] \in 0..HashSpace - 1 /\ (l[a] = l[b] => a = b)
    /\ HeartbeatTimeout \in Nat /\ CleanupInterval \in Nat \ {0} /\ Skew \in Nat
    /\ Claims \subseteq Int /\ \A claim \in Claims : claim >= -Skew

VARIABLES
    layout,      \* what the hash function gives
    vnodes,      \* the ring: how many virtual nodes each node has there; 0, if it is not there
    guildCache,  \* _guild_cache: the owner a guild was found to have, or Unset
    age,         \* _peers: time since a peer's last_heartbeat, or Unknown
    quiet,       \* time since a message was last heard from or about a peer
    sinceSweep   \* time since the clean-up

ringVars == <<layout, vnodes, guildCache, age, quiet, sinceSweep>>

Peers   == RingNodes \ {Me}
Unknown == -Skew - 1
Longest == HeartbeatTimeout + CleanupInterval + Skew   \* without a word, in the ring
Uncached == [g \in RingGuilds |-> Unset]

RingInit ==
    /\ layout \in Layouts
    /\ \E weight \in Weights : vnodes = [n \in RingNodes |-> IF n = Me THEN VnodeCount(weight) ELSE 0]
    /\ guildCache = Uncached
    /\ age = [n \in Peers |-> Unknown] /\ quiet = [n \in Peers |-> 0]
    /\ sinceSweep = 0

-----------------------------------------------------------------------------
(* Looking up *)

Members == {n \in RingNodes : vnodes[n] > 0}

\* How far behind a guild's position a node's next virtual node is, round the ring.
Distance(g, n) == Min({(layout[<<n, i>>] - GuildHash[g]) % HashSpace : i \in 1..vnodes[n]})

\* Whose virtual node is the first from the guild on.
Nearest(g) == CHOOSE n \in Members : \A m \in Members : Distance(g, n) <= Distance(g, m)

\* Members that a walk round the ring from a guild meets before a node.
Ahead(g, n) == {m \in Members : Distance(g, m) < Distance(g, n)}

\* get_replica_nodes: so many as a walk meets behind the owner.
Replicas(g, count) == {n \in Members : Cardinality(Ahead(g, n)) \in 1..count}

\* get_node_for_guild: what it answers, and what it does.
Owner(g) == IF guildCache[g] \in Members THEN guildCache[g] ELSE Nearest(g)

LooksUp(g) ==
    /\ guildCache' = [guildCache EXCEPT ![g] = Owner(g)]
    /\ UNCHANGED <<layout, vnodes, age, quiet, sinceSweep>>

-----------------------------------------------------------------------------
(* The ring *)

\* Mutant: the lookups of before stay.
AddNodeKeepsLookups(n, weight) ==
    /\ vnodes' = [vnodes EXCEPT ![n] = IF @ = 0 THEN VnodeCount(weight) ELSE @]
    /\ UNCHANGED guildCache

\* add_node: a node that is there already stays as it is.
AddNode(n, weight) ==
    IF n \in Members THEN UNCHANGED <<vnodes, guildCache>>
    ELSE /\ vnodes' = [vnodes EXCEPT ![n] = VnodeCount(weight)]
         /\ guildCache' = Uncached

RemoveNodes(gone) ==
    /\ vnodes' = [n \in RingNodes |-> IF n \in gone THEN 0 ELSE vnodes[n]]
    /\ guildCache' = IF gone \cap Members = {} THEN guildCache ELSE Uncached

UpdateNodeWeight(n, weight) ==
    /\ n \in Members
    /\ vnodes' = [vnodes EXCEPT ![n] = VnodeCount(weight)] /\ guildCache' = Uncached
    /\ UNCHANGED <<layout, age, quiet, sinceSweep>>

-----------------------------------------------------------------------------
(* The registry *)

\* register and cluster_state: _add_peer takes the sender's record in the place of its own.
AddPeer(n, weight, claim) ==
    /\ AddNode(n, weight)
    /\ age' = [age EXCEPT ![n] = claim] /\ quiet' = [quiet EXCEPT ![n] = 0]
    /\ UNCHANGED <<layout, sinceSweep>>

\* A heartbeat of a node nobody told of is dropped.
Heartbeat(n) ==
    /\ age[n] # Unknown
    /\ age' = [age EXCEPT ![n] = 0] /\ quiet' = [quiet EXCEPT ![n] = 0]
    /\ UNCHANGED <<layout, vnodes, guildCache, sinceSweep>>

\* _remove_peer, of several.
RemovePeers(gone) ==
    /\ RemoveNodes(gone)
    /\ age' = [n \in Peers |-> IF n \in gone THEN Unknown ELSE age[n]]
    /\ quiet' = [n \in Peers |-> IF n \in gone THEN 0 ELSE quiet[n]]

\* node_leave
Leaves(n) ==
    /\ age[n] # Unknown /\ RemovePeers({n}) /\ UNCHANGED <<layout, sinceSweep>>

\* Mutant: a late peer is kept up to a clean-up period longer.
LateGenerously == {n \in Peers : age[n] > HeartbeatTimeout + CleanupInterval}

Late == {n \in Peers : age[n] > HeartbeatTimeout}

CleanUp ==
    /\ sinceSweep = CleanupInterval /\ sinceSweep' = 0
    /\ RemovePeers(Late) /\ UNCHANGED layout

Aged(a, cap) == IF a = Unknown THEN a ELSE Min({a + 1, cap})

\* The loop is woken when it is due.
TimePasses ==
    /\ sinceSweep < CleanupInterval /\ sinceSweep' = sinceSweep + 1
    /\ age' = [n \in Peers |-> Aged(age[n], Longest + 1)]
    /\ quiet' = [n \in Peers |-> IF age[n] = Unknown THEN 0 ELSE Aged(quiet[n], Longest + 1)]
    /\ UNCHANGED <<layout, vnodes, guildCache>>

RingNext ==
    \/ \E g \in RingGuilds : LooksUp(g)
    \/ \E n \in RingNodes, weight \in Weights : UpdateNodeWeight(n, weight)
    \/ \E n \in Peers :
          \/ \E weight \in Weights, claim \in Claims : AddPeer(n, weight, claim)
          \/ Heartbeat(n) \/ Leaves(n)
    \/ CleanUp \/ TimePasses

RingSpec == RingInit /\ [][RingNext]_ringVars

-----------------------------------------------------------------------------
\* Whether a lookup is new or remembered, the node it gives is the local one or a peer
\* that was heard of no longer ago than the time-out, the clean-up's period and the skew
\* of the senders' clocks together: a guild is not kept with a silent node, whatever
\* peers tell of each other and however a known peer registers again.
OwnerIsLive == \A g \in RingGuilds : Owner(g) = Me \/ (age[Owner(g)] # Unknown /\ quiet[Owner(g)] <= Longest)

\* A guild moves only to a node that joins or gains weight, or from one that leaves or
\* loses weight; and when its owner leaves, alone or with others, it moves to the first
\* of its replicas that stays.
OwnerMove ==
    \A g \in RingGuilds :
        LET was == Owner(g)
            is  == Owner(g)'
            staying == Replicas(g, Cardinality(RingNodes)) \cap Members'
        IN  \/ was = is
            \/ vnodes'[is] > vnodes[is]
            \/ vnodes'[was] > 0 /\ vnodes'[was] < vnodes[was]
            \/ vnodes'[was] = 0 /\ is \in staying /\ Ahead(g, is) \cap staying = {}

OwnerMoves == [][OwnerMove]_ringVars
=============================================================================
