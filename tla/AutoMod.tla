---------------------------------- MODULE AutoMod ----------------------------------
(***************************************************************************)
(* AutoModCog and its SpamTracker (src/src/bot/cogs/security/automod.py):  *)
(* the messages of one member of one guild are counted; one that makes it  *)
(* too many in a short time, or offends in another way, is deleted and is  *)
(* a violation, and whoever has enough violations is timed out.            *)
(*                                                                         *)
(* A step is the code between two suspensions.  Before a handler has the   *)
(* guild's configuration it changes nothing, and afterwards it reads it    *)
(* from the object all handlers and commands share.  What the warning does *)
(* to the member's data is in SharedRows.                                  *)
(***************************************************************************)
EXTENDS Clock, FiniteSets

CONSTANTS
    Watchers,        \* coroutines that handle messages
    SpamThreshold,   \* settings.spam_threshold
    SpamIntervals,   \* what settings.spam_interval may be set to
    SpamMemory,      \* the 60 seconds of SpamTracker.cleanup
    MuteThreshold,   \* settings.mute_threshold
    MaxMessages,     \* bound: messages that are counted
    MaxOffences      \* bound: violations

ASSUME AutoModAssumption ==
    /\ IsFiniteSet(Watchers)
    /\ SpamThreshold \in Nat /\ MuteThreshold \in Nat \ {0}
    /\ SpamIntervals \subseteq Nat /\ SpamMemory \in Nat

VARIABLES
    settings,    \* which of automod's features are on
    interval,    \* settings.spam_interval
    tracked,     \* SpamTracker.messages: times
    violations,  \* SpamTracker.violations
    watcher,     \* where each handler is suspended, and the violations it has read
    sent,        \* times of all messages that were counted
    offences,    \* all violations ever
    timeouts,    \* how often the member was timed out
    spared,      \* enough violations led to no time-out, as the code means them to
    doubled      \* a violation was counted while enough of them were being acted on

modVars == <<now, settings, interval, tracked, violations, watcher, sent, offences, timeouts, spared, doubled>>

Features == {"anti_spam", "warn_on_violation", "mute_on_repeated"}
Watching == [at |-> "watching", count |-> 0]

ModInit ==
    /\ now = 1 /\ settings = Features /\ interval \in SpamIntervals
    /\ tracked = <<>> /\ violations = 0 /\ watcher = [w \in Watchers |-> Watching]
    /\ sent = <<>> /\ offences = 0 /\ timeouts = 0 /\ spared = FALSE /\ doubled = FALSE

Turn(w, at, count) == watcher' = [watcher EXCEPT ![w] = [at |-> at, count |-> count]]

-----------------------------------------------------------------------------
(* on_message *)

\* get_message_count, the new message included, against the threshold.
Spam(times, window) == Recent(times, window) >= SpamThreshold

\* A message whose author is not exempt: it is counted, and deleted if it is spam or
\* offends otherwise (capitals, invitations, links, emojis, mentions, newlines).
OnMessage(w, offends) ==
    LET recent == IF "anti_spam" \in settings THEN Append(tracked, now) ELSE tracked
        deleting == {x \in Watchers : watcher[x].at = "deleting"}
    IN  /\ watcher[w] = Watching
        /\ Len(sent) < MaxMessages /\ offences + Cardinality(deleting) < MaxOffences
        /\ tracked' = recent
        /\ sent' = IF recent = tracked THEN sent ELSE Append(sent, now)
        /\ Turn(w, IF (recent # tracked /\ Spam(recent, interval)) \/ offends THEN "deleting" ELSE "watching", 0)
        /\ UNCHANGED <<now, settings, interval, violations, offences, timeouts, spared, doubled>>

-----------------------------------------------------------------------------
(* _take_action *)

\* Mutant: it takes one violation more.
RepeatedLate(count) == count > MuteThreshold

Repeated(count) == count >= MuteThreshold

\* The member is to be timed out, or the handler is through but for its notice.
Decides(w, count) ==
    IF "mute_on_repeated" \in settings /\ Repeated(count)
    THEN Turn(w, "muting", count) /\ UNCHANGED spared
    ELSE /\ watcher' = [watcher EXCEPT ![w] = Watching]
         /\ spared' = (spared \/ ("mute_on_repeated" \notin settings /\ count >= MuteThreshold))

Acted == {w \in Watchers : watcher[w].count >= MuteThreshold}

\* The message is deleted, or cannot be: the violation is counted, and the member warned.
CountsViolation(w) ==
    /\ watcher[w].at = "deleting"
    /\ violations' = violations + 1 /\ offences' = offences + 1
    /\ doubled' = (doubled \/ Acted # {})
    /\ IF "warn_on_violation" \in settings THEN Turn(w, "warning", violations + 1) /\ UNCHANGED spared
                                           ELSE Decides(w, violations + 1)
    /\ UNCHANGED <<now, settings, interval, tracked, sent, timeouts>>

\* The warning is saved.
Warned(w) ==
    /\ watcher[w].at = "warning"
    /\ Decides(w, watcher[w].count)
    /\ UNCHANGED <<now, settings, interval, tracked, violations, sent, offences, timeouts, doubled>>

\* The time-out is in force; what other handlers have read of the violations stays.
TimesMemberOut(w) ==
    /\ watcher[w].at = "muting"
    /\ violations' = 0 /\ timeouts' = timeouts + 1
    /\ watcher' = [watcher EXCEPT ![w] = Watching]
    /\ UNCHANGED <<now, settings, interval, tracked, sent, offences, spared, doubled>>

\* A request fails, the bot may not time the member out, or has no data of the member
\* (making some raises a NameError): the handler is through.
Breaks(w) ==
    /\ watcher[w] # Watching
    /\ watcher' = [watcher EXCEPT ![w] = Watching]
    /\ spared' = (spared \/ watcher[w].count >= MuteThreshold)
    /\ UNCHANGED <<now, settings, interval, tracked, violations, sent, offences, timeouts, doubled>>

-----------------------------------------------------------------------------
(* cleanup_task and the commands *)

Forgets ==
    /\ tracked' = Younger(tracked, SpamMemory)
    /\ UNCHANGED <<now, settings, interval, violations, watcher, sent, offences, timeouts, spared, doubled>>

\* automod toggle; while automod is disabled, no message is handled.
Toggle(feature) ==
    /\ settings' = IF feature \in settings THEN settings \ {feature} ELSE settings \cup {feature}
    /\ UNCHANGED <<now, interval, tracked, violations, watcher, sent, offences, timeouts, spared, doubled>>

\* automod threshold; nobody compares the interval with what the tracker remembers.
SetsInterval(length) ==
    /\ interval' = length
    /\ UNCHANGED <<now, settings, tracked, violations, watcher, sent, offences, timeouts, spared, doubled>>

ModTick == Tick /\ UNCHANGED <<settings, interval, tracked, violations, watcher, sent, offences, timeouts, spared, doubled>>

ModNext ==
    \/ \E w \in Watchers : \/ \E offends \in BOOLEAN : OnMessage(w, offends)
                           \/ CountsViolation(w) \/ Warned(w) \/ TimesMemberOut(w) \/ Breaks(w)
    \/ \E feature \in Features : Toggle(feature)
    \/ \E length \in SpamIntervals : SetsInterval(length)
    \/ Forgets \/ ModTick

ModSpec == ModInit /\ [][ModNext]_modVars

-----------------------------------------------------------------------------
(* Properties *)

\* What is surely remembered of the interval.
Remembered == IF interval < SpamMemory THEN interval ELSE SpamMemory

\* The message that makes it too many in the interval, or in that part of it that the
\* tracker remembers, is acted on, counting all that were sent while spam was looked for:
\* whatever the clean-up has forgotten by then, however the interval was changed and
\* whatever handlers of earlier messages are still doing.
SpamNoticed ==
    [][sent' # sent /\ Spam(sent', Remembered) =>
         \E w \in Watchers : watcher[w] = Watching /\ watcher'[w].at = "deleting"]_modVars

\* Enough violations time the member out, once: those that are left are fewer than
\* enough, but for the handlers that are acting on them, unless a request failed or
\* time-outs were off; and each time-out had as many violations of its own, unless one
\* was counted while another handler was acting on those before it.
MutedInTime ==
    /\ spared \/ violations < MuteThreshold + Cardinality(Acted)
    /\ doubled \/ timeouts * MuteThreshold <= offences
=============================================================================
