--------------------------------- MODULE SecretChat ---------------------------------
(***************************************************************************)
(* SecretChatCog (src/src/bot/cogs/utility/secret_chat.py) and the rows of *)
(* secret_users it keeps through UtilityRepository: users take a nickname, *)
(* connect to one, and the bot relays what they write to it to whomever    *)
(* they talk with; whoever gets a message talks with its writer from then. *)
(*                                                                         *)
(* A step is the code between two suspensions; what nobody else can see    *)
(* (replies, deleted commands) is left out.  What the database does is in  *)
(* TableServer: an update and a delete change nothing, and a look-up may   *)
(* be answered with what it answered another one of the same columns.      *)
(***************************************************************************)
EXTENDS Naturals, FiniteSets

CONSTANTS
    ChatUsers,
    Nicknames,
    ChatTasks,    \* coroutines that handle messages and commands
    Nobody        \* no user

ASSUME ChatAssumption == Nobody \notin ChatUsers

VARIABLES
    profiles,       \* rows of secret_users
    conversations,  \* _active_conversations
    chat,           \* where each coroutine is suspended
        \* histories:
    chosen,         \* <<a, b>>: a connected to b
    relayed,        \* <<a, b>>: a message of a has reached b
    misled,         \* a look-up was answered with another one's answer
    raced           \* a nickname was stored while another user was past its check

chatVars == <<profiles, conversations, chat, chosen, relayed, misled, raced>>
accounts == <<profiles, raced>>
talk == <<conversations, chosen, relayed>>

NoProfile == [user |-> Nobody, nickname |-> "none"]
Listening == [at |-> "listening"]

ChatInit ==
    /\ profiles = {} /\ conversations = [u \in ChatUsers |-> Nobody]
    /\ chat = [t \in ChatTasks |-> Listening]
    /\ chosen = {} /\ relayed = {} /\ misled = FALSE /\ raced = FALSE

Suspends(t, state) == chat' = [chat EXCEPT ![t] = state]
Listens(t) == Suspends(t, Listening)

\* find_by_id and select: a row that is asked for, if there is one; or any other answer.
LooksUp(wanted, answer) ==
    /\ answer \in profiles \cup {NoProfile}
    /\ misled' = (misled \/ IF wanted = {} THEN answer # NoProfile ELSE answer \notin wanted)

Of(u) == {profile \in profiles : profile.user = u}
Called(n) == {profile \in profiles : profile.nickname = n}

-----------------------------------------------------------------------------
(* on_message and _relay_message *)

\* The writer's partner is read before the first suspension, and kept.
Writes(t, u) ==
    /\ chat[t] = Listening /\ conversations[u] # Nobody
    /\ Suspends(t, [at |-> "relaying", user |-> u, target |-> conversations[u]])
    /\ UNCHANGED <<accounts, talk, misled>>

FindsWriter(t, answer) ==
    /\ chat[t].at = "relaying" /\ LooksUp(Of(chat[t].user), answer)
    /\ IF answer = NoProfile THEN Listens(t) ELSE Suspends(t, [chat[t] EXCEPT !.at = "sending"])
    /\ UNCHANGED <<accounts, talk>>

\* Discord: the message is with its receiver, and send has not returned.
Reaches(t) ==
    /\ chat[t].at = "sending"
    /\ relayed' = relayed \cup {<<chat[t].user, chat[t].target>>}
    /\ Suspends(t, [chat[t] EXCEPT !.at = "sent"])
    /\ UNCHANGED <<accounts, conversations, chosen, misled>>

Sent(t) ==
    /\ chat[t].at = "sent"
    /\ conversations' = [conversations EXCEPT ![chat[t].target] = chat[t].user]
    /\ Listens(t)
    /\ UNCHANGED <<accounts, chosen, relayed, misled>>

\* Mutant: the receiver talks with the writer whether the message could be sent or not.
BreaksOffOpened(t) ==
    /\ chat[t] # Listening
    /\ conversations' = IF chat[t].at = "sending" THEN [conversations EXCEPT ![chat[t].target] = chat[t].user] ELSE conversations
    /\ Listens(t)
    /\ UNCHANGED <<accounts, chosen, relayed, misled>>

\* The receiver is not found or takes no messages, or a request fails: the coroutine ends
\* where it is.  An insert that timed out and is handled later is one that still waits.
BreaksOff(t) ==
    /\ chat[t] # Listening
    /\ Listens(t)
    /\ UNCHANGED <<accounts, talk, misled>>

-----------------------------------------------------------------------------
(* secret register, connect, disconnect, delete *)

Register(t, u, n) ==
    /\ chat[t] = Listening
    /\ Suspends(t, [at |-> "checking", user |-> u, nickname |-> n])
    /\ UNCHANGED <<accounts, talk, misled>>

ChecksNickname(t, answer) ==
    /\ chat[t].at = "checking" /\ LooksUp(Called(chat[t].nickname), answer)
    /\ IF answer.user \in {Nobody, chat[t].user} THEN Suspends(t, [chat[t] EXCEPT !.at = "registering"])
                                                 ELSE Listens(t)
    /\ UNCHANGED <<accounts, talk>>

\* save_secret_user: who has a row has it updated.
FindsOwn(t, answer) ==
    /\ chat[t].at = "registering" /\ LooksUp(Of(chat[t].user), answer)
    /\ IF answer = NoProfile THEN Suspends(t, [chat[t] EXCEPT !.at = "inserting"]) ELSE Listens(t)
    /\ UNCHANGED <<accounts, talk>>

PastCheck(n) == {t \in ChatTasks : chat[t].at \in {"registering", "inserting"} /\ chat[t].nickname = n}

Inserts(t) ==
    /\ chat[t].at = "inserting"
    /\ profiles' = profiles \cup {[user |-> chat[t].user, nickname |-> chat[t].nickname]}
    /\ raced' = (raced \/ \E other \in PastCheck(chat[t].nickname) : chat[other].user # chat[t].user)
    /\ Listens(t)
    /\ UNCHANGED <<talk, misled>>

Connect(t, u, n) ==
    /\ chat[t] = Listening
    /\ Suspends(t, [at |-> "connecting", user |-> u, nickname |-> n])
    /\ UNCHANGED <<accounts, talk, misled>>

FindsSelf(t, answer) ==
    /\ chat[t].at = "connecting" /\ LooksUp(Of(chat[t].user), answer)
    /\ IF answer = NoProfile THEN Listens(t) ELSE Suspends(t, [chat[t] EXCEPT !.at = "seeking"])
    /\ UNCHANGED <<accounts, talk>>

FindsTarget(t, answer) ==
    /\ chat[t].at = "seeking" /\ LooksUp(Called(chat[t].nickname), answer)
    /\ IF answer.user \in {Nobody, chat[t].user}
       THEN UNCHANGED <<conversations, chosen>>
       ELSE /\ conversations' = [conversations EXCEPT ![chat[t].user] = answer.user]
            /\ chosen' = chosen \cup {<<chat[t].user, answer.user>>}
    /\ Listens(t)
    /\ UNCHANGED <<accounts, relayed>>

Disconnect(u) ==
    /\ conversations' = [conversations EXCEPT ![u] = Nobody]
    /\ UNCHANGED <<accounts, chat, chosen, relayed, misled>>

\* delete_account: whoever it finds leaves the conversation; the row stays.
DeleteAccount(t, u) ==
    /\ chat[t] = Listening
    /\ Suspends(t, [at |-> "deleting", user |-> u])
    /\ UNCHANGED <<accounts, talk, misled>>

FindsAccount(t, answer) ==
    /\ chat[t].at = "deleting" /\ LooksUp(Of(chat[t].user), answer)
    /\ conversations' = IF answer = NoProfile THEN conversations ELSE [conversations EXCEPT ![chat[t].user] = Nobody]
    /\ Listens(t)
    /\ UNCHANGED <<accounts, chosen, relayed>>

ChatNext ==
    \/ \E t \in ChatTasks, u \in ChatUsers :
        Writes(t, u) \/ DeleteAccount(t, u) \/ \E n \in Nicknames : Register(t, u, n) \/ Connect(t, u, n)
    \/ \E t \in ChatTasks, answer \in profiles \cup {NoProfile} :
        \/ FindsWriter(t, answer) \/ ChecksNickname(t, answer) \/ FindsOwn(t, answer)
        \/ FindsSelf(t, answer) \/ FindsTarget(t, answer) \/ FindsAccount(t, answer)
    \/ \E t \in ChatTasks : Reaches(t) \/ Sent(t) \/ Inserts(t) \/ BreaksOff(t)
    \/ \E u \in ChatUsers : Disconnect(u)

ChatSpec == ChatInit /\ [][ChatNext]_chatVars

-----------------------------------------------------------------------------
\* What a user writes reaches only whom they connected to or have heard from, however
\* connects, disconnects and messages under way interleave; and unless two registered it
\* at once, or the database answered one with another's row, a nickname is one user's.
SecretsKept ==
    /\ \A pair \in relayed : pair \in chosen \/ <<pair[2], pair[1]>> \in relayed
    /\ misled \/ raced \/ \A p, q \in profiles : p.nickname = q.nickname => p.user = q.user
=============================================================================
