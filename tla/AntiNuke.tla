--------------------------------- MODULE AntiNuke ---------------------------------
(***************************************************************************)
(* AntiNukeCog and its ActionTracker                                       *)
(* (src/src/bot/cogs/moderation/anti_nuke.py).  Discord tells the bot that *)
(* a channel, a role or a member is gone and not who did it: the handler   *)
(* asks for the newest entry of the audit log, counts it for its author,   *)
(* and punishes an author who has done it too often within a minute.       *)
(***************************************************************************)
EXTENDS Clock, FiniteSets

CONSTANTS
    NukeUsers,      \* moderators who act
    Kinds,          \* of action: attributes of ActionTracker
    ActThreshold,   \* the kind's limit in settings
    ActWindow,      \* the minute
    ActMemory,      \* the 5 minutes of ActionTracker.cleanup
    FreshEntry,     \* age below which an entry is taken for the event: 5 seconds
    MaxActs         \* bound: entries of the audit log, events of a target, and kicks counted
                    \* when another member leaves

ASSUME AntiNukeAssumption ==
    /\ ActThreshold \in Nat \ {0} /\ ActWindow \in Nat /\ ActMemory \in Nat /\ FreshEntry \in Nat
    /\ MaxActs \in Nat

VARIABLES
    kind,      \* the kind of action; the tracker keeps kinds, and guilds, apart
    audit,     \* the audit log of that kind: who, when, and to whom or what
    events,    \* how many events of a target have a handler waiting for the log
    actions,   \* the tracker: times counted, by user
    trusted,   \* settings.trusted_users
    punished   \* users who have been punished

nukeVars == <<now, kind, audit, events, actions, trusted, punished>>

Targets == 1 .. MaxActs

\* Handlers that compare the entry's target with the event's, and those that look
\* at the entry's age.
ChecksTarget == Kinds \ {"role_deletes", "webhook_creates"}
ChecksAge    == Kinds \cap {"kicks", "webhook_creates"}

\* A deleted channel, or a created role, is never the target a second time; a member
\* who was kicked may come back, leave, and be kicked again.
OneTarget == Kinds \cap {"channel_deletes", "channel_creates", "role_creates"}

NukeInit ==
    /\ now = 1 /\ kind \in Kinds
    /\ audit = <<>> /\ events = [x \in Targets |-> 0]
    /\ actions = [u \in NukeUsers |-> <<>>]
    /\ trusted = {} /\ punished = {}

-----------------------------------------------------------------------------
\* A moderator acts: the entry is written and the event sent.  The target is new, or,
\* where that can be, an earlier one.
Acts(u) ==
    /\ Len(audit) < MaxActs
    /\ \E target \in Targets :
          /\ target <= Len(audit) => kind \notin OneTarget
          /\ target <= Len(audit) + 1 /\ events[target] < MaxActs
          /\ audit' = Append(audit, [by |-> u, at |-> now, target |-> target])
          /\ events' = [events EXCEPT ![target] = @ + 1]
    /\ UNCHANGED <<now, kind, actions, trusted, punished>>

\* A member who was kicked comes back and leaves: the same event, and no entry.
Leaves ==
    /\ kind = "kicks" /\ \A u \in NukeUsers : Len(actions[u]) < MaxActs
    /\ \E i \in DOMAIN audit :
          /\ events[audit[i].target] = 0
          /\ events' = [events EXCEPT ![audit[i].target] = @ + 1]
    /\ UNCHANGED <<now, kind, audit, actions, trusted, punished>>

\* Mutant: the target is not compared.
MatchesAny(entry, target) == kind \in ChecksAge => now - entry.at < FreshEntry

\* The entry counts for the event.
Matches(entry, target) ==
    /\ kind \in ChecksTarget => entry.target = target
    /\ kind \in ChecksAge => now - entry.at < FreshEntry

\* A member who can be punished: the owner, a higher role and who has left cannot.
Punishes(u, times) == u \notin trusted /\ Recent(times, ActWindow) >= ActThreshold

\* The answer to a handler's question is the newest entry, as of the moment it was
\* given: another one may be newer by now, and the event's own may not be there yet.
\* What follows, to the punishment, suspends nowhere, the configuration being known.
Handles ==
    \E target \in Targets, newest \in 0 .. Len(audit) :
        /\ events[target] > 0
        /\ events' = [events EXCEPT ![target] = @ - 1]
        /\ IF newest # 0 /\ Matches(audit[newest], target)
           THEN LET u == audit[newest].by
                    times == Append(actions[u], now)
                IN  /\ actions' = [actions EXCEPT ![u] = times]
                    /\ \/ Punishes(u, times) /\ punished' = punished \cup {u}
                       \/ UNCHANGED punished
           ELSE UNCHANGED <<actions, punished>>
        /\ UNCHANGED <<now, kind, audit, trusted>>

\* cleanup_tracker
CleansUp ==
    /\ actions' = [u \in NukeUsers |-> Younger(actions[u], ActMemory)]
    /\ UNCHANGED <<now, kind, audit, events, trusted, punished>>

\* The command antinuke trust.
Trusts(u) ==
    /\ trusted' = IF u \in trusted THEN trusted \ {u} ELSE trusted \cup {u}
    /\ UNCHANGED <<now, kind, audit, events, actions, punished>>

NukeTick == Tick /\ UNCHANGED <<kind, audit, events, actions, trusted, punished>>

NukeNext ==
    \/ \E u \in NukeUsers : Acts(u) \/ Trusts(u)
    \/ Leaves \/ Handles \/ CleansUp \/ NukeTick

NukeSpec == NukeInit /\ [][NukeNext]_nukeVars

-----------------------------------------------------------------------------
ActsOf(u) == {i \in DOMAIN audit : audit[i].by = u}

\* However late handlers ask and however answers and entries overtake each other: who
\* is punished has done it as often as the limit says, for what cannot happen to one
\* target twice.  (For roles deleted, webhooks, kicks and bans an entry can
\* be counted for several events.)
PunishedForOwnActs ==
    kind \in OneTarget => \A u \in punished : Cardinality(ActsOf(u)) >= ActThreshold
=============================================================================
