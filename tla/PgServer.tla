------------------------------ MODULE PgServer ------------------------------
(***************************************************************************)
(* The server of Shark 3.0 Postgres: one process that answers one request  *)
(* at a time with SQL statements.  Its tables, its two chats and the       *)
(* statements that write are those of the Qt server (ChatSql, SeedData);   *)
(* what it does around them is its own.  Every start drops the schema and  *)
(* creates the database anew.                                              *)
(***************************************************************************)
EXTENDS SeedData, Ordered, FiniteSetsExt

\* initDatabaseOnServer.  The second chat is a transaction of its own.
FirstChatOnly(order) == FirstLoaded(order)
BothChats(first, second) == SecondLoaded(FirstLoaded(first), second)

\* What becomes of a request.
Replies(s, body) == [store |-> s, fate |-> "reply", body |-> body]
IsSilent(s) == [store |-> s, fate |-> "silent", body |-> <<>>]
RepliesEmpty(s) == [store |-> s, fate |-> "empty", body |-> <<>>]
DiesOf(s) == [store |-> s, fate |-> "dies", body |-> <<>>]

\* A result without rows is given to PQclear, and again in the handler of the
\* exception that is thrown for it: free is called twice with one address.
ClearsTwice(s) == [store |-> s, fate |-> "undefined", body |-> <<>>]

-----------------------------------------------------------------------------
(* Users *)

LoginChecked(s, r) == Replies(s, r.login \in s.users)

\* For the password the user has.
PasswordChecked(s, r) == Replies(s, r.login \in s.users)

\* Mutant of UserCreated: the insert is not committed.
UserForgotten(s, r) == Replies(s, r.login \notin s.users)

\* users.login is unique: for a login that is taken the statement fails.
UserCreated(s, r) ==
    IF r.login \in s.users THEN Replies(s, FALSE) ELSE Replies(UserAdded(s, r.login), TRUE)

\* The messages of chat c, as the client's multimap has them: by their times.
InOrder(s, c) ==
    InKeyOrder({m \in MessageIds(s) : s.messages[m].chat = c}, Len(s.messages),
               [m \in MessageIds(s) |-> s.messages[m].ts])

\* Chat c and its messages as u gets them.
Packet(s, c, u) ==
    LET list == InOrder(s, c)
    IN  [id |-> c, members |-> Members(s, c), read |-> s.chats[c].lastRead[u],
         msgs |-> [k \in DOMAIN list |-> [id |-> list[k], by |-> s.messages[list[k]].sender]]]

\* getChatListSQL, in the order of the ids.
ListOf(s, u) ==
    InKeyOrder({c \in ChatIds(s) : TakesPart(s, u, c)}, Len(s.chats), [c \in ChatIds(s) |-> c])

\* registerOnDeviceDataSrvSQL.
DataOf(s, r) ==
    IF r.login \in s.users
    THEN Replies(s, [k \in DOMAIN ListOf(s, r.login) |->
                       Packet(s, ListOf(s, r.login)[k], r.login)])
    ELSE ClearsTwice(s)

\* One unknown login, and nothing is sent.
UsersData(s, r) == IF r.logins \subseteq s.users THEN Replies(s, r.logins) ELSE IsSilent(s)

\* getUsersByTextPartSQL leaves out who asks.
Matches(s, r) == (r.text \ {r.login}) \cap s.users

Found(s, r) == IF Matches(s, r) = {} THEN ClearsTwice(s) ELSE Replies(s, Matches(s, r))

-----------------------------------------------------------------------------
(* Chats *)

\* Clocks agree: a new message is younger than all others.
Now(s) == 1 + Max({0} \cup {s.messages[m].ts : m \in MessageIds(s)})

\* Mutant of ChatCreated: the two ids of the answer are swapped.
ChatCreatedSwapped(s, r) ==
    IF r.members = {} THEN RepliesEmpty(s)
    ELSE IF r.author \in s.users
    THEN Replies(ChatAdded(s, r.author, r.members, Now(s)),
                 [chat |-> Len(s.messages) + 1, message |-> Len(s.chats) + 1])
    ELSE DiesOf(OrphanChatAdded(s))

\* createChatAndMessageSQL adds the first message of the draft.  For a chat without
\* participants its text is no statement, and no packet is put in the answer.  It
\* reads the ids from the first row of the result; when the author does not exist
\* there is none, and a string is made of a null pointer.
ChatCreated(s, r) ==
    IF r.members = {} THEN RepliesEmpty(s)
    ELSE IF r.author \in s.users
    THEN Replies(ChatAdded(s, r.author, r.members, Now(s)),
                 [chat |-> Len(s.chats) + 1, message |-> Len(s.messages) + 1])
    ELSE DiesOf(OrphanChatAdded(s))

\* Mutant of MessageCreated: nothing asks for the chat.
MessageAnywhere(s, r) ==
    IF r.author \in s.users
    THEN Replies([s EXCEPT !.messages = Append(@, [chat |-> r.chat, sender |-> r.author,
                                                   ts |-> Now(s), rows |-> {r.author},
                                                   read |-> {r.author}])],
                 Len(s.messages) + 1)
    ELSE DiesOf(s)

\* createMessageSQL asks for the chat and the author, not whether they belong; for
\* the id of a message that was not added, see ChatCreated.
MessageCreated(s, r) ==
    IF r.chat \in ChatIds(s) /\ r.author \in s.users
    THEN Replies(MessageAdded(s, r.author, r.chat, Now(s)), Len(s.messages) + 1)
    ELSE DiesOf(s)

\* setLastReadMessageSQL: FALSE when the foreign key refuses the message or no row
\* was updated.
ReadSet(s, r) ==
    LET pointer == TakesPart(s, r.login, r.chat)
        refused == pointer /\ ~IsMessageOf(s, r.message, r.chat)
        nothing == ~pointer /\ ReadUpTo(s, r.login, r.chat, r.message) = {}
    IN  IF refused \/ nothing THEN Replies(s, FALSE)
        ELSE Replies(ReadMarked(s, r.login, r.chat, r.message), TRUE)

-----------------------------------------------------------------------------

\* Mutant of SilentOnError: a message that was not created is not answered either.
SilentOnPost == {"register", "getUsers", "search", "createMessage"}

\* The requests whose handler returns without sending when execSQL has no result;
\* the others are answered with FALSE, or with a list without packets.
SilentOnError == {"register", "getUsers", "search"}

\* What registerOnDeviceDataSrvSQL still sends when a later one of its statements
\* fails: the chats it could read, and the messages it could read.
Parts(packets) ==
    LET ids == {packets[k].id : k \in DOMAIN packets}
        part(read, full) ==
            LET list == SelectSeq(packets, LAMBDA p : p.id \in read)
            IN  [k \in DOMAIN list |-> IF list[k].id \in full THEN list[k]
                                       ELSE [list[k] EXCEPT !.msgs = <<>>]]
    IN  {part(read, full) : read \in SUBSET ids, full \in SUBSET ids} \ {packets}

\* routingRequestsFromClient.
PgHandle(s, r) ==
    CASE r.type = "checkLogin"    -> LoginChecked(s, r)
      [] r.type = "checkPassword" -> PasswordChecked(s, r)
      [] r.type = "createUser"    -> UserCreated(s, r)
      [] r.type = "register"      -> DataOf(s, r)
      [] r.type = "getUsers"      -> UsersData(s, r)
      [] r.type = "search"        -> Found(s, r)
      [] r.type = "createChat"    -> ChatCreated(s, r)
      [] r.type = "createMessage" -> MessageCreated(s, r)
      [] r.type = "setLastRead"   -> ReadSet(s, r)

-----------------------------------------------------------------------------

\* What clients get to see: every message is from a participant of its chat, and
\* nobody takes part in a chat without messages.
Inhabited(s) ==
    /\ \A m \in MessageIds(s) : s.messages[m].sender \in Members(s, s.messages[m].chat)
    /\ \A c \in ChatIds(s) : Members(s, c) # {} => \E m \in MessageIds(s) : s.messages[m].chat = c
=============================================================================
