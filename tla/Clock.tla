---------------------------------- MODULE Clock ----------------------------------
(***************************************************************************)
(* The clock the cogs and limiters read (datetime.now, time.time): whole   *)
(* units, moved on by nobody in particular.                                *)
(***************************************************************************)
EXTENDS Naturals, Sequences, FiniteSets

CONSTANT MaxTime   \* bound: the clock stops there

VARIABLE now

Tick == now < MaxTime /\ now' = now + 1

\* Those of a sequence of times that are younger than `age`: a time exactly as old as
\* that is not.  Times are noted as they come, so those that are too old are its first.
Younger(times, age) ==
    SubSeq(times, Cardinality({i \in DOMAIN times : times[i] + age <= now}) + 1, Len(times))

\* How many are.
Recent(times, age) == Cardinality({i \in DOMAIN times : times[i] + age > now})
=============================================================================
