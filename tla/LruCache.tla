-------------------------------- MODULE LruCache --------------------------------
(***************************************************************************)
(* LRUCache (src/src/database/engine/cache.py): an OrderedDict, oldest     *)
(* entry first, as a sequence of entries [key, value, expired].  `expired` *)
(* says that the entry's ttl_seconds have passed; an expired entry stays   *)
(* until somebody asks for it.                                             *)
(***************************************************************************)
EXTENDS Naturals, Sequences

HasKey(q, k)  == \E i \in DOMAIN q : q[i].key = k
Place(q, k)   == CHOOSE i \in DOMAIN q : q[i].key = k
Entry(q, k)   == q[Place(q, k)]
Without(q, k) == IF HasKey(q, k)
                   THEN SubSeq(q, 1, Place(q, k) - 1) \o SubSeq(q, Place(q, k) + 1, Len(q))
                   ELSE q

\* get finds an entry, and it is not too old.
Hit(q, k) == HasKey(q, k) /\ ~Entry(q, k).expired

\* What get leaves: a hit becomes the youngest entry, a miss drops an expired one.
AfterGet(q, k) == IF Hit(q, k) THEN Append(Without(q, k), Entry(q, k)) ELSE Without(q, k)

\* Mutant: room is made only once the cache is over its size.
MakeRoomLate(q, size) == IF Len(q) <= size THEN q ELSE SubSeq(q, Len(q) - size + 2, Len(q))

\* The while loop of set: the oldest entries go until there is room for one.
MakeRoom(q, size) == IF Len(q) < size THEN q ELSE SubSeq(q, Len(q) - size + 2, Len(q))

\* set: the new entry replaces one of its key and is the youngest.
AfterSet(q, k, v, size) ==
    Append(MakeRoom(Without(q, k), size), [key |-> k, value |-> v, expired |-> FALSE])

\* An entry's time to live runs out.
AfterExpiry(q, i) == [q EXCEPT ![i].expired = TRUE]
=============================================================================
