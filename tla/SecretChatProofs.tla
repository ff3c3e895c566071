------------------------------ MODULE SecretChatProofs ------------------------------
(***************************************************************************)
(* SecretsKept of SecretChat, for any number of users, nicknames and       *)
(* coroutines.  It is not inductive: a coroutine keeps the partner it has  *)
(* read while conversations change, and keeps the outcome of its check of  *)
(* a nickname while others register.  IInv says what each of them knows.   *)
(***************************************************************************)
EXTENDS SecretChat, TLAPS

Relay   == [at : {"relaying", "sending", "sent"}, user : ChatUsers, target : ChatUsers]
Naming  == [at : {"checking", "registering", "inserting", "connecting", "seeking"},
            user : ChatUsers, nickname : Nicknames]
Leaving == [at : {"deleting"}, user : ChatUsers]

ChatTypeOK ==
    /\ profiles \subseteq [user : ChatUsers, nickname : Nicknames]
    /\ conversations \in [ChatUsers -> ChatUsers \cup {Nobody}]
    /\ chat \in [ChatTasks -> {Listening} \cup Relay \cup Naming \cup Leaving]
    /\ chosen \subseteq ChatUsers \X ChatUsers /\ relayed \subseteq ChatUsers \X ChatUsers
    /\ misled \in BOOLEAN /\ raced \in BOOLEAN

\* a may write to b: it connected to b, or has heard from b.
Acquainted(a, b) == <<a, b>> \in chosen \/ <<b, a>> \in relayed

\* Whoever is in a conversation, and every message under way.
PartnersAcquainted == \A u \in ChatUsers : conversations[u] # Nobody => Acquainted(u, conversations[u])
MessagesAcquainted ==
    \A t \in ChatTasks : chat[t].at \in {"relaying", "sending", "sent"} => Acquainted(chat[t].user, chat[t].target)
SentIsRelayed == \A t \in ChatTasks : chat[t].at = "sent" => <<chat[t].user, chat[t].target>> \in relayed
RelayedAcquainted == \A pair \in relayed : pair \in chosen \/ <<pair[2], pair[1]>> \in relayed

\* A nickname is one user's, and one that has passed the check is nobody else's.
NicknamesUnique == misled \/ raced \/ \A p, q \in profiles : p.nickname = q.nickname => p.user = q.user
CheckedIsFree ==
    misled \/ raced \/ \A t \in ChatTasks, p \in profiles :
        chat[t].at \in {"registering", "inserting"} /\ p.nickname = chat[t].nickname => p.user = chat[t].user

Known == PartnersAcquainted /\ MessagesAcquainted /\ SentIsRelayed /\ RelayedAcquainted
Names == NicknamesUnique /\ CheckedIsFree

IInv == ChatTypeOK /\ Known /\ Names

-----------------------------------------------------------------------------
\* Every step leaves profiles, conversations and coroutines of their types.
LEMMA TypeStep ==
    ASSUME ChatTypeOK, ChatNext PROVE ChatTypeOK'
  <1> USE ChatAssumption DEF ChatTypeOK, Relay, Naming, Leaving, accounts, talk, Suspends, Listens, Listening,
          NoProfile
  <1>1. ASSUME NEW t \in ChatTasks, NEW u \in ChatUsers, Writes(t, u)
        PROVE  ChatTypeOK'
    BY <1>1 DEF Writes
  <1>2. ASSUME NEW t \in ChatTasks, NEW u \in ChatUsers, DeleteAccount(t, u)
        PROVE  ChatTypeOK'
    BY <1>2 DEF DeleteAccount
  <1>3. ASSUME NEW t \in ChatTasks, NEW u \in ChatUsers, NEW n \in Nicknames, Register(t, u, n)
        PROVE  ChatTypeOK'
    BY <1>3 DEF Register
  <1>4. ASSUME NEW t \in ChatTasks, NEW u \in ChatUsers, NEW n \in Nicknames, Connect(t, u, n)
        PROVE  ChatTypeOK'
    BY <1>4 DEF Connect
  <1>5. ASSUME NEW t \in ChatTasks, NEW answer \in profiles \cup {NoProfile}, FindsWriter(t, answer)
        PROVE  ChatTypeOK'
    BY <1>5 DEF FindsWriter, LooksUp
  <1>6. ASSUME NEW t \in ChatTasks, NEW answer \in profiles \cup {NoProfile}, ChecksNickname(t, answer)
        PROVE  ChatTypeOK'
    BY <1>6 DEF ChecksNickname, LooksUp
  <1>7. ASSUME NEW t \in ChatTasks, NEW answer \in profiles \cup {NoProfile}, FindsOwn(t, answer)
        PROVE  ChatTypeOK'
    BY <1>7 DEF FindsOwn, LooksUp
  <1>8. ASSUME NEW t \in ChatTasks, NEW answer \in profiles \cup {NoProfile}, FindsSelf(t, answer)
        PROVE  ChatTypeOK'
    BY <1>8 DEF FindsSelf, LooksUp
  <1>9. ASSUME NEW t \in ChatTasks, NEW answer \in profiles \cup {NoProfile}, FindsTarget(t, answer)
        PROVE  ChatTypeOK'
    BY <1>9 DEF FindsTarget, LooksUp
  <1>10. ASSUME NEW t \in ChatTasks, NEW answer \in profiles \cup {NoProfile}, FindsAccount(t, answer)
        PROVE  ChatTypeOK'
    BY <1>10 DEF FindsAccount, LooksUp
  <1>11. ASSUME NEW t \in ChatTasks, Reaches(t)
        PROVE  ChatTypeOK'
    BY <1>11 DEF Reaches
  <1>12. ASSUME NEW t \in ChatTasks, Sent(t)
        PROVE  ChatTypeOK'
    BY <1>12 DEF Sent
  <1>13. ASSUME NEW t \in ChatTasks, Inserts(t)
        PROVE  ChatTypeOK'
    BY <1>13 DEF Inserts
  <1>14. ASSUME NEW t \in ChatTasks, BreaksOff(t)
        PROVE  ChatTypeOK'
    BY <1>14 DEF BreaksOff
  <1>15. ASSUME NEW u \in ChatUsers, Disconnect(u)
        PROVE  ChatTypeOK'
    BY <1>15 DEF Disconnect
  <1> QED
    BY <1>1, <1>2, <1>3, <1>4, <1>5, <1>6, <1>7, <1>8, <1>9, <1>10, <1>11, <1>12, <1>13, <1>14, <1>15 DEF ChatNext

\* A partner is taken from a connect or a message, and both are remembered.
LEMMA KnownStep ==
    ASSUME ChatTypeOK, Known, ChatNext PROVE Known'
  <1> USE ChatAssumption DEF ChatTypeOK, Relay, Naming, Leaving, accounts, talk, Suspends, Listens, Listening,
          NoProfile, Known, PartnersAcquainted, MessagesAcquainted, SentIsRelayed, RelayedAcquainted, Acquainted
  <1>1. ASSUME NEW t \in ChatTasks, NEW u \in ChatUsers, Writes(t, u)
        PROVE  Known'
    BY <1>1 DEF Writes
  <1>2. ASSUME NEW t \in ChatTasks, NEW u \in ChatUsers, DeleteAccount(t, u)
        PROVE  Known'
    BY <1>2 DEF DeleteAccount
  <1>3. ASSUME NEW t \in ChatTasks, NEW u \in ChatUsers, NEW n \in Nicknames, Register(t, u, n)
        PROVE  Known'
    BY <1>3 DEF Register
  <1>4. ASSUME NEW t \in ChatTasks, NEW u \in ChatUsers, NEW n \in Nicknames, Connect(t, u, n)
        PROVE  Known'
    BY <1>4 DEF Connect
  <1>5. ASSUME NEW t \in ChatTasks, NEW answer \in profiles \cup {NoProfile}, FindsWriter(t, answer)
        PROVE  Known'
    BY <1>5 DEF FindsWriter, LooksUp
  <1>6. ASSUME NEW t \in ChatTasks, NEW answer \in profiles \cup {NoProfile}, ChecksNickname(t, answer)
        PROVE  Known'
    BY <1>6 DEF ChecksNickname, LooksUp
  <1>7. ASSUME NEW t \in ChatTasks, NEW answer \in profiles \cup {NoProfile}, FindsOwn(t, answer)
        PROVE  Known'
    BY <1>7 DEF FindsOwn, LooksUp
  <1>8. ASSUME NEW t \in ChatTasks, NEW answer \in profiles \cup {NoProfile}, FindsSelf(t, answer)
        PROVE  Known'
    BY <1>8 DEF FindsSelf, LooksUp
  <1>9. ASSUME NEW t \in ChatTasks, NEW answer \in profiles \cup {NoProfile}, FindsTarget(t, answer)
        PROVE  Known'
    BY <1>9 DEF FindsTarget, LooksUp
  <1>10. ASSUME NEW t \in ChatTasks, NEW answer \in profiles \cup {NoProfile}, FindsAccount(t, answer)
        PROVE  Known'
    BY <1>10 DEF FindsAccount, LooksUp
  <1>11. ASSUME NEW t \in ChatTasks, Reaches(t)
        PROVE  Known'
    BY <1>11 DEF Reaches
  <1>12. ASSUME NEW t \in ChatTasks, Sent(t)
        PROVE  Known'
    BY <1>12 DEF Sent
  <1>13. ASSUME NEW t \in ChatTasks, Inserts(t)
        PROVE  Known'
    BY <1>13 DEF Inserts
  <1>14. ASSUME NEW t \in ChatTasks, BreaksOff(t)
        PROVE  Known'
    BY <1>14 DEF BreaksOff
  <1>15. ASSUME NEW u \in ChatUsers, Disconnect(u)
        PROVE  Known'
    BY <1>15 DEF Disconnect
  <1> QED
    BY <1>1, <1>2, <1>3, <1>4, <1>5, <1>6, <1>7, <1>8, <1>9, <1>10, <1>11, <1>12, <1>13, <1>14, <1>15 DEF ChatNext

\* A nickname that passes its check is nobody else's until it is stored, or a race is noted.
LEMMA NamesStep ==
    ASSUME ChatTypeOK, Names, ChatNext PROVE Names'
  <1> USE ChatAssumption DEF ChatTypeOK, Relay, Naming, Leaving, accounts, talk, Suspends, Listens, Listening,
          NoProfile, Names, NicknamesUnique, CheckedIsFree
  <1>1. ASSUME NEW t \in ChatTasks, NEW u \in ChatUsers, Writes(t, u)
        PROVE  Names'
    BY <1>1 DEF Writes
  <1>2. ASSUME NEW t \in ChatTasks, NEW u \in ChatUsers, DeleteAccount(t, u)
        PROVE  Names'
    BY <1>2 DEF DeleteAccount
  <1>3. ASSUME NEW t \in ChatTasks, NEW u \in ChatUsers, NEW n \in Nicknames, Register(t, u, n)
        PROVE  Names'
    BY <1>3 DEF Register
  <1>4. ASSUME NEW t \in ChatTasks, NEW u \in ChatUsers, NEW n \in Nicknames, Connect(t, u, n)
        PROVE  Names'
    BY <1>4 DEF Connect
  <1>5. ASSUME NEW t \in ChatTasks, NEW answer \in profiles \cup {NoProfile}, FindsWriter(t, answer)
        PROVE  Names'
    BY <1>5 DEF FindsWriter, LooksUp
  <1>6. ASSUME NEW t \in ChatTasks, NEW answer \in profiles \cup {NoProfile}, ChecksNickname(t, answer)
        PROVE  Names'
    <2> USE <1>6 DEF ChecksNickname, LooksUp, Called
    <2>1. NicknamesUnique'
      OBVIOUS
    <2>2. CASE answer.user \notin {Nobody, chat[t].user}
      BY <2>2
    <2>3. CASE answer.user \in {Nobody, chat[t].user}
      <3> DEFINE next == [chat[t] EXCEPT !.at = "registering"]
      <3>1. /\ chat' = [chat EXCEPT ![t] = next] /\ next.nickname = chat[t].nickname /\ next.user = chat[t].user
            /\ profiles' = profiles /\ raced' = raced /\ (misled => misled')
        BY <2>3
      <3>2. SUFFICES ASSUME ~misled', ~raced, NEW p \in profiles, p.nickname = chat[t].nickname
                     PROVE  p.user = chat[t].user
        BY <3>1
      <3>3. answer \in Called(chat[t].nickname)
        BY <3>2
      <3>4. answer \in profiles /\ answer.user = chat[t].user /\ answer.nickname = p.nickname
        BY <2>3, <3>2, <3>3
      <3> QED
        BY <3>1, <3>2, <3>4
    <2> QED
      BY <2>1, <2>2, <2>3
  <1>7. ASSUME NEW t \in ChatTasks, NEW answer \in profiles \cup {NoProfile}, FindsOwn(t, answer)
        PROVE  Names'
    BY <1>7 DEF FindsOwn, LooksUp
  <1>8. ASSUME NEW t \in ChatTasks, NEW answer \in profiles \cup {NoProfile}, FindsSelf(t, answer)
        PROVE  Names'
    BY <1>8 DEF FindsSelf, LooksUp
  <1>9. ASSUME NEW t \in ChatTasks, NEW answer \in profiles \cup {NoProfile}, FindsTarget(t, answer)
        PROVE  Names'
    BY <1>9 DEF FindsTarget, LooksUp
  <1>10. ASSUME NEW t \in ChatTasks, NEW answer \in profiles \cup {NoProfile}, FindsAccount(t, answer)
        PROVE  Names'
    BY <1>10 DEF FindsAccount, LooksUp
  <1>11. ASSUME NEW t \in ChatTasks, Reaches(t)
        PROVE  Names'
    BY <1>11 DEF Reaches
  <1>12. ASSUME NEW t \in ChatTasks, Sent(t)
        PROVE  Names'
    BY <1>12 DEF Sent
  <1>13. ASSUME NEW t \in ChatTasks, Inserts(t)
        PROVE  Names'
    <2> DEFINE new == [user |-> chat[t].user, nickname |-> chat[t].nickname]
    <2> USE <1>13 DEF Inserts
    <2>1. profiles' = profiles \cup {new} /\ chat' = [chat EXCEPT ![t] = Listening] /\ misled' = misled
      OBVIOUS
    <2>2. SUFFICES ASSUME ~misled, ~raced' PROVE Names'
      BY <2>1
    <2>3. ~raced /\ \A other \in ChatTasks :
              chat[other].at \in {"registering", "inserting"} /\ chat[other].nickname = new.nickname
                  => chat[other].user = new.user
      BY <2>2 DEF PastCheck
    <2>4. \A p \in profiles : p.nickname = new.nickname => p.user = new.user
      BY <2>2, <2>3
    <2>5. NicknamesUnique'
      BY <2>1, <2>2, <2>3, <2>4
    <2>6. CheckedIsFree'
      BY <2>1, <2>2, <2>3, <2>4
    <2> QED
      BY <2>5, <2>6
  <1>14. ASSUME NEW t \in ChatTasks, BreaksOff(t)
        PROVE  Names'
    BY <1>14 DEF BreaksOff
  <1>15. ASSUME NEW u \in ChatUsers, Disconnect(u)
        PROVE  Names'
    BY <1>15 DEF Disconnect
  <1> QED
    BY <1>1, <1>2, <1>3, <1>4, <1>5, <1>6, <1>7, <1>8, <1>9, <1>10, <1>11, <1>12, <1>13, <1>14, <1>15 DEF ChatNext

-----------------------------------------------------------------------------
\* The relay of secret_chat.py sends what a user writes only to whom the user connected to
\* or has heard from, and its nicknames are one user's but for races and misled look-ups.
THEOREM SecretsAreKept == ChatSpec => []SecretsKept
  <1>1. ChatInit => IInv
    <2> SUFFICES ASSUME ChatInit PROVE IInv
      OBVIOUS
    <2> USE DEF ChatInit, Listening
    <2>1. ChatTypeOK
      BY DEF ChatTypeOK
    <2>2. Known
      BY ChatAssumption DEF Known, PartnersAcquainted, MessagesAcquainted, SentIsRelayed, RelayedAcquainted
    <2>3. Names
      BY DEF Names, NicknamesUnique, CheckedIsFree
    <2> QED
      BY <2>1, <2>2, <2>3 DEF IInv
  <1>2. IInv /\ [ChatNext]_chatVars => IInv'
    <2> SUFFICES ASSUME IInv, [ChatNext]_chatVars PROVE IInv'
      OBVIOUS
    <2>1. CASE ChatNext
      BY <2>1, TypeStep, KnownStep, NamesStep DEF IInv
    <2>2. CASE UNCHANGED chatVars
      BY <2>2 DEF chatVars, IInv, ChatTypeOK, Known, Names, PartnersAcquainted, MessagesAcquainted,
         SentIsRelayed, RelayedAcquainted, Acquainted, NicknamesUnique, CheckedIsFree
    <2> QED
      BY <2>1, <2>2
  <1>3. IInv => SecretsKept
    BY DEF IInv, Known, Names, RelayedAcquainted, NicknamesUnique, SecretsKept
  <1> QED
    BY <1>1, <1>2, <1>3, PTL DEF ChatSpec
=============================================================================
