------------------------------ MODULE CliServer ------------------------------
(***************************************************************************)
(* The server of Shark 2.0: one process that keeps users, chats and        *)
(* messages in memory (ChatSystem) and answers one request at a time.      *)
(* Its state is gone when it ends.                                         *)
(*                                                                         *)
(* A chat is chats[id]; ids are given in order.  Message m of a chat is    *)
(* the m-th one.  A login that is registered twice is one user.            *)
(***************************************************************************)
EXTENDS Integers, SequencesExt, FiniteSetsExt, Ordered

CONSTANT Logins

\* listed is FALSE for a chat that was given up: it is in _chatIdChatMap, but in no
\* user's list.
Chat == [members : SUBSET Logins, lastRead : [Logins -> Nat], by : Seq(Logins), listed : BOOLEAN]

\* free is _freeChatServerIdSet.
Store == [users : SUBSET Logins, chats : Seq(Chat), free : SUBSET Nat]

\* What becomes of a request.
Replies(s, body) == [store |-> s, fate |-> "reply", body |-> body]
RepliesEmpty(s) == [store |-> s, fate |-> "empty", body |-> <<>>]
IsSilent(s) == [store |-> s, fate |-> "silent", body |-> <<>>]
DiesOf(s) == [store |-> s, fate |-> "dies", body |-> <<>>]

-----------------------------------------------------------------------------
(* Users *)

LoginChecked(s, r) == Replies(s, r.login \in s.users)

\* RqFrClientCheckLogPassword for the password the user has.
PasswordChecked(s, r) == Replies(s, r.login \in s.users)

\* Mutant of UserCreated: the user is not put into _loginUserMap.
UserForgotten(s, r) == Replies(s, TRUE)

UserCreated(s, r) == Replies([s EXCEPT !.users = @ \cup {r.login}], TRUE)

Messages(chat) == [m \in DOMAIN chat.by |-> [id |-> m, by |-> chat.by[m]]]

\* A chat and its messages as u gets them.
Packet(s, i, u) ==
    [id |-> i, members |-> s.chats[i].members, read |-> s.chats[i].lastRead[u],
     msgs |-> Messages(s.chats[i])]

\* The user's chat list.
ListOf(s, u) ==
    InKeyOrder({i \in DOMAIN s.chats : s.chats[i].listed /\ u \in s.chats[i].members},
               Len(s.chats), [i \in DOMAIN s.chats |-> i])

\* registerOnDeviceDataSrv follows the pointer findUserByLogin returns.
DataOf(s, r) ==
    IF r.login \notin s.users THEN DiesOf(s)
    ELSE Replies(s, [k \in DOMAIN ListOf(s, r.login) |->
                       Packet(s, ListOf(s, r.login)[k], r.login)])

\* One unknown login, and nothing is sent.
UsersData(s, r) == IF r.logins \subseteq s.users THEN Replies(s, r.logins) ELSE IsSilent(s)

\* text is the set of logins that match.
Found(s, r) == IF r.text \cap s.users = {} THEN RepliesEmpty(s) ELSE Replies(s, r.text \cap s.users)

-----------------------------------------------------------------------------
(* Chats *)

\* Mutant of Added: the new message is the first one.
AddedBefore(chat, u) == [chat EXCEPT !.by = <<u>> \o @, !.lastRead[u] = Len(chat.by) + 1]

\* Chat::addMessageToChat: a message is read by its sender.
Added(chat, u) == [chat EXCEPT !.by = Append(@, u), !.lastRead[u] = Len(chat.by) + 1]

NewChat(members) ==
    [members |-> members, lastRead |-> [u \in Logins |-> 0], by |-> <<>>, listed |-> TRUE]

\* systemInitForTest: the users, and two chats of which these messages are in.
SeedUsers == {"a", "e", "s", "v", "m", "f", "ver", "y"}

\* All of them added one after the other.
Holding(chat, by) ==
    [chat EXCEPT !.by = by,
                 !.lastRead = [u \in Logins |-> Max({0} \cup {m \in DOMAIN by : by[m] = u})]]

FirstChat == Holding(NewChat({"a", "e"}), <<"e", "a", "e">>)

SecondChat == Holding(NewChat({"a", "e", "s", "m", "y"}), <<"e", "a", "s", "e", "s">>)

\* createNewChatId: the least id that was given up, or a new one.
NextId(s) == IF s.free = {} THEN Len(s.chats) + 1 ELSE Min(s.free)

\* Mutant of Abandoned: the id is not given back.
AbandonedForGood(s, r) ==
    [s EXCEPT !.chats = Append(@, [NewChat({}) EXCEPT !.listed = FALSE])]

\* createNewChatSrv for a login that is not known: the chat stays in
\* _chatIdChatMap, with the participants added so far, under an id that is free.
Abandoned(s, r) ==
    [s EXCEPT !.free = @ \cup {NextId(s)},
              !.chats = IF NextId(s) \in DOMAIN @ THEN @
                        ELSE Append(@, [NewChat({}) EXCEPT !.listed = FALSE])]

\* Every message of the draft is added; the first one was never read by name.
Created(s, r) ==
    LET first == NewChat(r.members)
    IN  [s EXCEPT !.chats = Append(@, [first EXCEPT !.by = [m \in 1 .. r.count |-> r.author],
                                                    !.lastRead[r.author] = r.count])]

\* An id that is given again still stands for the chat that was given up, which gets
\* the messages; the new chat has none, nor has it if their author is not known.
\* The answer then follows begin() of the empty multimap.
ChatCreated(s, r) ==
    CASE ~(r.members \subseteq s.users)                  -> RepliesEmpty(Abandoned(s, r))
      [] r.members \subseteq s.users /\ s.free = {} /\ r.author \in s.users
                                                         -> Replies(Created(s, r),
                                                              [chat |-> NextId(s), message |-> 1])
      [] OTHER                                           -> DiesOf(s)

\* createNewMessageSrv asks for the chat and the sender, not whether they belong.
MessageCreated(s, r) ==
    IF r.chat \in DOMAIN s.chats /\ r.author \in s.users
    THEN Replies([s EXCEPT !.chats[r.chat] = Added(@, r.author)], Len(s.chats[r.chat].by) + 1)
    ELSE RepliesEmpty(s)

\* setLastReadMessageId takes any id.
ReadSet(s, r) ==
    IF r.chat \in DOMAIN s.chats /\ r.login \in s.users
    THEN Replies([s EXCEPT !.chats[r.chat].lastRead[r.login] = r.message], TRUE)
    ELSE Replies(s, FALSE)

-----------------------------------------------------------------------------

\* routingRequestsFromClient.
Route(s, r) ==
    CASE r.type = "checkLogin"    -> LoginChecked(s, r)
      [] r.type = "checkPassword" -> PasswordChecked(s, r)
      [] r.type = "createUser"    -> UserCreated(s, r)
      [] r.type = "register"      -> DataOf(s, r)
      [] r.type = "getUsers"      -> UsersData(s, r)
      [] r.type = "search"        -> Found(s, r)
      [] r.type = "createChat"    -> ChatCreated(s, r)
      [] r.type = "createMessage" -> MessageCreated(s, r)
      [] r.type = "setLastRead"   -> ReadSet(s, r)

-----------------------------------------------------------------------------

\* As after the start: no chat was given up, and each is one of users and has a message.
Settled(s) ==
    /\ s.free = {}
    /\ \A i \in DOMAIN s.chats : /\ s.chats[i].listed
                                 /\ s.chats[i].members \subseteq s.users
                                 /\ s.chats[i].by # <<>>
=============================================================================
