---------------------------------- MODULE Cooldown ----------------------------------
(***************************************************************************)
(* The limiters of src/src/utils/cooldown.py, for one command and one      *)
(* caller: the token buckets of CooldownManager, or the sliding window of  *)
(* RateLimiter.  Every method holds the limiter's lock.                    *)
(*                                                                         *)
(* A bucket's tokens are counted in parts, BucketPer to a token, so that   *)
(* BucketRate parts flow in per unit of time (in the code they are floats).*)
(***************************************************************************)
EXTENDS Clock, FiniteSets

CONSTANTS
    BucketRate,    \* CommandCooldown.rate
    BucketPer,     \* CommandCooldown.per
    WindowMax,     \* RateLimiter.max_requests
    WindowLength,  \* RateLimiter.window_seconds
    MaxUses        \* bound: uses that are allowed

ASSUME CooldownAssumption ==
    /\ BucketRate \in Nat \ {0} /\ BucketPer \in Nat \ {0}
    /\ WindowMax \in Nat /\ WindowLength \in Nat /\ MaxUses \in Nat

VARIABLES
    limiter,    \* "bucket" or "window"
    bucket,     \* the caller's bucket, or NoBucket
    uses,       \* times the manager has allowed, since the last reset
    requests,   \* _requests of the limiter
    granted     \* times the limiter has allowed, since the last reset

coolVars == <<now, limiter, bucket, uses, requests, granted>>

NoBucket == [tokens |-> 0, last |-> 0]
Full     == BucketRate * BucketPer

AtMost(a, b) == IF a <= b THEN a ELSE b

CoolInit ==
    /\ now = 1 /\ limiter \in {"bucket", "window"} /\ bucket = NoBucket /\ uses = <<>>
    /\ requests = <<>> /\ granted = <<>>

-----------------------------------------------------------------------------
(* CooldownManager *)

\* Mutant: looking does not move the time of the last look.
RefilledAgain(b) == [tokens |-> AtMost(Full, b.tokens + (now - b.last) * BucketRate), last |-> b.last]

\* get_tokens: what has flowed in since the last look, up to a full bucket.
Refilled(b) == [tokens |-> AtMost(Full, b.tokens + (now - b.last) * BucketRate), last |-> now]

\* check_cooldown: a new bucket is full.
Checks ==
    LET b == Refilled(IF bucket = NoBucket THEN [tokens |-> Full, last |-> now] ELSE bucket)
    IN  /\ Len(uses) < MaxUses
        /\ IF b.tokens >= BucketPer
           THEN bucket' = [b EXCEPT !.tokens = @ - BucketPer] /\ uses' = Append(uses, now)
           ELSE bucket' = b /\ UNCHANGED uses
        /\ UNCHANGED <<now, limiter, requests, granted>>

\* get_remaining_cooldown looks, too.
Looks ==
    /\ bucket # NoBucket /\ bucket' = Refilled(bucket)
    /\ UNCHANGED <<now, limiter, uses, requests, granted>>

\* reset_cooldown; register_cooldown drops the bucket.
Resets ==
    /\ bucket' \in {NoBucket} \cup (IF bucket = NoBucket THEN {} ELSE {[tokens |-> Full, last |-> now]})
    /\ uses' = <<>>
    /\ UNCHANGED <<now, limiter, requests, granted>>

\* cleanup_expired: buckets nobody looked at for twice their period.
CleansBuckets ==
    /\ bucket' = IF bucket # NoBucket /\ now - bucket.last > 2 * BucketPer THEN NoBucket ELSE bucket
    /\ UNCHANGED <<now, limiter, uses, requests, granted>>

-----------------------------------------------------------------------------
(* RateLimiter *)

IsAllowed ==
    LET recent == Younger(requests, WindowLength)
    IN  /\ Len(granted) < MaxUses
        /\ IF Len(recent) < WindowMax
           THEN requests' = Append(recent, now) /\ granted' = Append(granted, now)
           ELSE requests' = recent /\ UNCHANGED granted
        /\ UNCHANGED <<now, limiter, bucket, uses>>

ResetWindow ==
    /\ requests' = <<>> /\ granted' = <<>>
    /\ UNCHANGED <<now, limiter, bucket, uses>>

CleansWindow ==
    /\ requests' = Younger(requests, WindowLength)
    /\ UNCHANGED <<now, limiter, bucket, uses, granted>>

CoolTick == Tick /\ UNCHANGED <<limiter, bucket, uses, requests, granted>>

CoolNext ==
    \/ limiter = "bucket" /\ (Checks \/ Looks \/ Resets \/ CleansBuckets)
    \/ limiter = "window" /\ (IsAllowed \/ ResetWindow \/ CleansWindow)
    \/ CoolTick

CoolSpec == CoolInit /\ [][CoolNext]_coolVars

-----------------------------------------------------------------------------
Within(times, from, to) == Cardinality({i \in DOMAIN times : from <= times[i] /\ times[i] <= to})

\* However checks, looks and clean-ups alternate: from any moment to any later one the
\* manager allows at most a full bucket and what flows in between, and the limiter
\* allows in any window at most its number.
RatesKept ==
    \A from, to \in 1 .. now :
        from <= to =>
            /\ Within(uses, from, to) * BucketPer <= Full + (to - from) * BucketRate
            /\ to - from < WindowLength => Within(granted, from, to) <= WindowMax
=============================================================================
