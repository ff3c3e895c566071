--------------------------------- MODULE AntiRaid ---------------------------------
(***************************************************************************)
(* AntiRaidCog (src/src/bot/cogs/moderation/anti_raid.py): joins are       *)
(* counted per guild, too many in a short time start a lockdown, during    *)
(* which members who join are kicked, and a periodic loop ends lockdowns.  *)
(*                                                                         *)
(* A step is the code between two suspensions.  get_config suspends only   *)
(* for a guild whose configuration the repository does not hold yet;       *)
(* alerts, kicks and bans suspend, but a join does nothing to the cog's    *)
(* state after them.                                                       *)
(***************************************************************************)
EXTENDS Clock

CONSTANTS
    RaidGuilds,        \* guilds with a configuration and an alert channel
    RaidTasks,         \* handlers that wait for a configuration
    JoinThreshold,     \* settings.join_threshold
    JoinInterval,      \* settings.join_interval
    LockdownDuration,  \* settings.lockdown_duration
    JoinMemory,        \* the 10 minutes of cleanup_cache
    MaxJoins           \* bound: members counted in a guild

ASSUME AntiRaidAssumption ==
    /\ JoinThreshold \in Nat \ {0} /\ LockdownDuration \in Nat /\ MaxJoins \in Nat /\ MaxTime \in Nat
    /\ JoinInterval \in Nat /\ JoinMemory \in Nat /\ JoinInterval <= JoinMemory

VARIABLES
    configs,    \* guilds whose configuration the repository holds
    enabled,    \* settings.enabled
    waiting,    \* what each handler does when it has the configuration
    joinCache,  \* join_cache
    lockdown,   \* lockdown_guilds: when each lockdown ends, 0 for no lockdown
    sweep,      \* the cleanup loop, and the guilds it has not come to
    counted,    \* times of all members the cog has counted
    meddled     \* a lockdown was ended by hand while the loop was waiting

raidVars == <<now, configs, enabled, waiting, joinCache, lockdown, sweep, counted, meddled>>

NoHandler == [does |-> "idle"]
Asleep    == [at |-> "asleep", todo |-> {}]

RaidInit ==
    /\ now = 1 /\ configs = {} /\ enabled = [g \in RaidGuilds |-> TRUE]
    /\ waiting = [t \in RaidTasks |-> NoHandler]
    /\ joinCache = [g \in RaidGuilds |-> <<>>] /\ lockdown = [g \in RaidGuilds |-> 0]
    /\ sweep = Asleep
    /\ counted = [g \in RaidGuilds |-> <<>>] /\ meddled = FALSE

Locked(g) == lockdown[g] # 0

-----------------------------------------------------------------------------
(* Members who join *)

\* Bound: a lockdown ends before the clock stops, and members counted are few.
RoomFor(g) == now + LockdownDuration < MaxTime /\ Len(counted[g]) < MaxJoins

\* Disabled, or in lockdown (the member is kicked), or counted.
Joins(g) ==
    LET recent == Append(Younger(joinCache[g], JoinInterval), now)
    IN  IF ~enabled[g] \/ Locked(g)
        THEN UNCHANGED <<joinCache, lockdown, counted>>
        ELSE /\ RoomFor(g)
             /\ joinCache' = [joinCache EXCEPT ![g] = recent]
             /\ counted' = [counted EXCEPT ![g] = Append(@, now)]
             /\ lockdown' = IF Len(recent) >= JoinThreshold
                            THEN [lockdown EXCEPT ![g] = now + LockdownDuration]
                            ELSE lockdown

OnMemberJoin(g) ==
    /\ g \in configs /\ Joins(g)
    /\ UNCHANGED <<now, configs, enabled, waiting, sweep, meddled>>

\* The handler asks the database; so does a moderator's command.
Asks(t, g) ==
    /\ g \notin configs /\ waiting[t] = NoHandler
    /\ \/ waiting' = [waiting EXCEPT ![t] = [does |-> "join", guild |-> g]]
       \/ ~Locked(g) /\ waiting' = [waiting EXCEPT ![t] = [does |-> "start", guild |-> g]]
    /\ UNCHANGED <<now, configs, enabled, joinCache, lockdown, sweep, counted, meddled>>

-----------------------------------------------------------------------------
(* The command antiraid lockdown, and enable and disable *)

StartsLockdown(g) ==
    /\ now + LockdownDuration < MaxTime
    /\ lockdown' = [lockdown EXCEPT ![g] = now + LockdownDuration]
    /\ UNCHANGED <<joinCache, counted>>

LockdownStart(g) ==
    /\ g \in configs /\ ~Locked(g) /\ StartsLockdown(g)
    /\ UNCHANGED <<now, configs, enabled, waiting, sweep, meddled>>

\* The configuration is there: the handler goes on with what it was doing.
HasConfig(t) ==
    /\ waiting[t] # NoHandler
    /\ configs' = configs \cup {waiting[t].guild}
    /\ waiting' = [waiting EXCEPT ![t] = NoHandler]
    /\ \/ waiting[t].does = "join" /\ Joins(waiting[t].guild)
       \/ waiting[t].does = "start" /\ StartsLockdown(waiting[t].guild)
    /\ UNCHANGED <<now, enabled, sweep, meddled>>

LockdownEnd(g) ==
    /\ Locked(g)
    /\ lockdown' = [lockdown EXCEPT ![g] = 0]
    /\ meddled' = (meddled \/ sweep.at = "alerting")
    /\ UNCHANGED <<now, configs, enabled, waiting, joinCache, sweep, counted>>

SetEnabled(g) ==
    /\ g \in configs
    /\ enabled' = [enabled EXCEPT ![g] = ~@]
    /\ UNCHANGED <<now, configs, waiting, joinCache, lockdown, sweep, counted, meddled>>

-----------------------------------------------------------------------------
(* cleanup_cache *)

Expired(g) == now > lockdown[g]

\* Mutant: the lockdown ends after the alert, as it was decided before it.
SweepOverLate(todo) ==
    \E passed \in SUBSET {g \in todo : Locked(g) /\ ~Expired(g)} :
        \/ passed = todo /\ sweep' = Asleep /\ UNCHANGED lockdown
        \/ \E g \in todo \ passed :
              /\ lockdown' = [lockdown EXCEPT ![g] = 0]
              /\ sweep' = [at |-> "alerting", todo |-> todo \ (passed \cup {g})]

\* The loop goes on through `todo`, in any order, over guilds whose lockdown has not
\* expired, to one whose lockdown it ends and whose alert it waits for, or to one that
\* is in no lockdown any more: the KeyError ends the loop for good (external:
\* discord.ext.tasks).
SweepOver(todo) ==
    \E passed \in SUBSET {g \in todo : Locked(g) /\ ~Expired(g)} :
        \/ passed = todo /\ sweep' = Asleep /\ UNCHANGED lockdown
        \/ \E g \in todo \ passed :
              \/ /\ Locked(g) /\ Expired(g)
                 /\ lockdown' = [lockdown EXCEPT ![g] = 0]
                 /\ sweep' = [at |-> "alerting", todo |-> todo \ (passed \cup {g})]
              \/ /\ ~Locked(g) /\ sweep' = [at |-> "dead", todo |-> {}]
                 /\ UNCHANGED lockdown

\* Mutant: the cache is emptied.
SweepsEmpty ==
    /\ sweep.at = "asleep"
    /\ joinCache' = [g \in RaidGuilds |-> <<>>]
    /\ SweepOver({g \in RaidGuilds : Locked(g)})
    /\ UNCHANGED <<now, configs, enabled, waiting, counted, meddled>>

Sweeps ==
    /\ sweep.at = "asleep"
    /\ joinCache' = [g \in RaidGuilds |-> Younger(joinCache[g], JoinMemory)]
    /\ SweepOver({g \in RaidGuilds : Locked(g)})
    /\ UNCHANGED <<now, configs, enabled, waiting, counted, meddled>>

\* Mutant: an alert that cannot be sent ends the loop.
SweepGoesOnOnce ==
    /\ sweep.at = "alerting"
    /\ sweep' = [sweep EXCEPT !.at = "dead"]
    /\ UNCHANGED <<now, configs, enabled, waiting, joinCache, lockdown, counted, meddled>>

SweepGoesOn ==
    /\ sweep.at = "alerting"
    /\ SweepOver(sweep.todo)
    /\ UNCHANGED <<now, configs, enabled, waiting, joinCache, counted, meddled>>

RaidTick == Tick /\ UNCHANGED <<configs, enabled, waiting, joinCache, lockdown, sweep, counted, meddled>>

-----------------------------------------------------------------------------
RaidNext ==
    \/ \E g \in RaidGuilds : OnMemberJoin(g) \/ LockdownStart(g) \/ LockdownEnd(g) \/ SetEnabled(g)
    \/ \E t \in RaidTasks, g \in RaidGuilds : Asks(t, g)
    \/ \E t \in RaidTasks : HasConfig(t)
    \/ Sweeps \/ SweepGoesOn \/ RaidTick

RaidSpec == RaidInit /\ [][RaidNext]_raidVars

-----------------------------------------------------------------------------
(* Properties *)

\* Whatever the clean-up does to the cache, and however many handlers waited for the
\* configuration: the member who makes it too many in the interval, counting all who
\* were let in, starts a lockdown.
RaidNoticed ==
    [][\A g \in RaidGuilds :
          counted'[g] # counted[g] /\ Recent(counted'[g], JoinInterval) >= JoinThreshold
              => lockdown'[g] # 0]_raidVars

\* A lockdown is ended by hand, or when its time is over: also a lockdown that
\* started, or was started anew, while the clean-up was waiting.
LockdownNotCutShort ==
    [][\A g \in RaidGuilds :
          Locked(g) /\ lockdown'[g] = 0 => Expired(g) \/ LockdownEnd(g)]_raidVars

\* Every lockdown ends, unless a moderator ended one just while the loop was
\* waiting, which may have ended the loop.
LockdownEnds == \A g \in RaidGuilds : Locked(g) ~> ~Locked(g) \/ meddled
=============================================================================
