----------------------------------- MODULE MCCogs -----------------------------------
(***************************************************************************)
(* The cogs and limiters of the bot in one run.  They share the clock and  *)
(* nothing else, so a state of their product would say nothing that one of *)
(* its parts does not: a behaviour picks one part at its start, and the    *)
(* others stay as they began.                                              *)
(***************************************************************************)
EXTENDS AntiRaid, AntiNuke, AutoMod, Cooldown, SecretChat

CONSTANT Parts   \* of "raid", "nuke", "mod", "limits" and "chat"

VARIABLE part

\* One member whose two channels, or roles, are gone is enough: the tracker keeps kinds
\* apart.  The parts that are not picked begin in one state.
Init ==
    /\ part \in Parts
    /\ RaidInit /\ NukeInit /\ ModInit /\ CoolInit /\ ChatInit
    /\ part = "nuke" \/ kind = "bans"
    /\ part = "mod" \/ interval = (CHOOSE length \in SpamIntervals : TRUE)
    /\ part = "limits" \/ limiter = "window"

\* What each part changes; the clock is everybody's.
raidState  == <<configs, enabled, waiting, joinCache, lockdown, sweep, counted, meddled>>
nukeState  == <<kind, audit, events, actions, trusted, punished>>
modState   == <<settings, interval, tracked, violations, watcher, sent, offences, timeouts, spared, doubled>>
coolState  == <<limiter, bucket, uses, requests, granted>>

Raid == RaidNext /\ UNCHANGED <<part, nukeState, modState, coolState, chatVars>>
Nuke == NukeNext /\ UNCHANGED <<part, raidState, modState, coolState, chatVars>>
Mod  == ModNext /\ UNCHANGED <<part, raidState, nukeState, coolState, chatVars>>
Cool == CoolNext /\ UNCHANGED <<part, raidState, nukeState, modState, chatVars>>
Chat == ChatNext /\ UNCHANGED <<part, now, raidState, nukeState, modState, coolState>>

Next ==
    \/ part = "raid" /\ Raid
    \/ part = "nuke" /\ Nuke
    \/ part = "mod" /\ Mod
    \/ part = "limits" /\ Cool
    \/ part = "chat" /\ Chat

vars == <<part, now, raidState, nukeState, modState, coolState, chatVars>>

\* The periodic loop of the anti-raid cog is woken again and again, and the bot resumes
\* a coroutine whose request is answered; time goes on.  (Up to the last unit of time.)
Fairness ==
    part = "raid" => WF_raidVars(RaidTick) /\ WF_raidVars(Sweeps) /\ WF_raidVars(SweepGoesOn)

Spec == Init /\ [][Next]_vars /\ Fairness

-----------------------------------------------------------------------------
\* Too many joins in a while start a lockdown, too many messages in a while are acted on.
Noticed == RaidNoticed /\ SpamNoticed
=============================================================================
