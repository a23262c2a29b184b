------------------------------- MODULE ChatSql -------------------------------
(***************************************************************************)
(* The SQL statements of the Shark 3.0 Qt server that write chats,         *)
(* messages and read marks, as operators on the value of the PostgreSQL    *)
(* database.  Each writer is one statement with data-modifying CTEs, so    *)
(* all its reads see the database as it was before the statement, and its  *)
(* writes appear together or not at all.                                   *)
(*                                                                         *)
(* Ids come from bigserial sequences: chat c is chats[c], message m is     *)
(* messages[m], and a fresh id is one more than the last one.              *)
(***************************************************************************)
EXTENDS Integers, Sequences

CONSTANT Logins         \* values a login can take

\* One row of "chats" with its rows of "participants": who takes part, and
\* last_read_message_id of each (0 stands for NULL, as the server reads it).
ChatRow == [members : SUBSET Logins, lastRead : [Logins -> Nat]]

\* One row of "messages" with its rows of "message_status": the logins that
\* have a row, and those whose row says READ (the others: NOT DELIVERED).
MessageRow == [chat : Nat, sender : Logins, ts : Nat,
               rows : SUBSET Logins, read : SUBSET Logins]

\* The database.  "tables" is FALSE while the schema has no tables.
Store == [tables : BOOLEAN, users : SUBSET Logins,
          chats : Seq(ChatRow), messages : Seq(MessageRow)]

EmptyStore == [tables |-> FALSE, users |-> {}, chats |-> <<>>, messages |-> <<>>]

ChatIds(s) == DOMAIN s.chats
MessageIds(s) == DOMAIN s.messages
Members(s, c) == s.chats[c].members

\* A user who has a status row for m that is not READ.
Unread(s, m, u) == u \in s.messages[m].rows \ s.messages[m].read

\* Mutants of MarkRead: the update forgets its condition on the user; the
\* update replaces what others have read.
MarkReadForAll(msgs, u, ms) ==
    [m \in DOMAIN msgs |->
        IF m \in ms THEN [msgs[m] EXCEPT !.read = msgs[m].rows] ELSE msgs[m]]
MarkReadReplacing(msgs, u, ms) ==
    [m \in DOMAIN msgs |-> IF m \in ms THEN [msgs[m] EXCEPT !.read = {u}] ELSE msgs[m]]

\* Set to READ the rows of u for the messages in ms.
MarkRead(msgs, u, ms) ==
    [m \in DOMAIN msgs |->
        IF m \in ms THEN [msgs[m] EXCEPT !.read = @ \cup {u}] ELSE msgs[m]]

\* insert ... into public.users
UserAdded(s, u) == [s EXCEPT !.users = @ \cup {u}]

\* Mutants of PreviousUnread: posting marks nothing; the condition on the chat
\* is forgotten.
NoPrevious(s, u, c, t) == {}
PreviousInAnyChat(s, u, c, t) ==
    {m \in MessageIds(s) : s.messages[m].ts < t /\ Unread(s, m, u)}

\* messages_prev_list: what posting at time t marks as read for the sender.
PreviousUnread(s, u, c, t) ==
    {m \in MessageIds(s) : /\ s.messages[m].chat = c
                           /\ s.messages[m].ts < t
                           /\ Unread(s, m, u)}

\* Mutant of MessageAdded: no NOT DELIVERED rows.
MessageAddedForSender(s, u, c, t) ==
    [s EXCEPT !.messages = Append(MarkRead(@, u, PreviousUnread(s, u, c, t)),
                                  [chat |-> c, sender |-> u, ts |-> t,
                                   rows |-> {u}, read |-> {u}])]

\* CreateMessageSQL.  Nothing asks whether u takes part in c.
MessageAdded(s, u, c, t) ==
    LET new == [chat |-> c, sender |-> u, ts |-> t,
                rows |-> Members(s, c) \cup {u}, read |-> {u}]
        row == [s.chats[c] EXCEPT !.lastRead =
                  [w \in Logins |-> IF w = u /\ u \in Members(s, c)
                                    THEN Len(s.messages) + 1
                                    ELSE s.chats[c].lastRead[w]]]
    IN  [s EXCEPT !.messages = Append(MarkRead(s.messages, u, PreviousUnread(s, u, c, t)), new),
                  !.chats = [s.chats EXCEPT ![c] = row]]

\* Mutant of ChatAdded: NULL becomes -1.
ChatAddedWithNull(s, u, list, t) ==
    [s EXCEPT !.chats = Append(@, [members |-> (list \cap s.users) \cup {u},
                                   lastRead |-> [w \in Logins |-> -1]])]

\* CreateChatWithInitialMessageSQL for a sender the database knows: logins it
\* does not know are dropped from the list of participants.
ChatAdded(s, u, list, t) ==
    LET others == list \cap s.users
        m      == Len(s.messages) + 1
        first  == [chat |-> Len(s.chats) + 1, sender |-> u, ts |-> t,
                   rows |-> others \cup {u}, read |-> {u}]
        row    == [members |-> others \cup {u},
                   lastRead |-> [w \in Logins |-> IF w = u THEN m ELSE 0]]
    IN  [s EXCEPT !.messages = Append(@, first), !.chats = Append(@, row)]

\* The same statement for a sender that does not exist: every insert but the
\* one into "chats" selects from an empty user_record.
OrphanChatAdded(s) ==
    [s EXCEPT !.chats = Append(@, [members |-> {}, lastRead |-> [w \in Logins |-> 0]])]

\* Mutant of ReadUpTo: only the message the client names is marked.
ReadUpToExactly(s, u, c, m) ==
    {k \in MessageIds(s) : k = m /\ s.messages[k].chat = c /\ Unread(s, k, u)}

\* messages_record_list: the unread messages of the chat that are not younger
\* than message m.  A message that does not exist has time stamp NULL.
ReadUpTo(s, u, c, m) ==
    {k \in MessageIds(s) : /\ m \in MessageIds(s)
                           /\ s.messages[k].chat = c
                           /\ s.messages[k].ts <= s.messages[m].ts
                           /\ Unread(s, k, u)}

\* The participants row that last_read_update updates, if any.
TakesPart(s, u, c) == c \in ChatIds(s) /\ u \in Members(s, c)

\* Mutant of IsMessageOf: the foreign key is on the message id alone.
IsAnyMessage(s, m, c) == m \in MessageIds(s)

\* participants_last_read_fk: (chat_id, last_read_message_id) is a message.
IsMessageOf(s, m, c) == m \in MessageIds(s) /\ s.messages[m].chat = c

\* SetLastReadMessageSQL when the foreign key accepts it.
ReadMarked(s, u, c, m) ==
    LET row == [s.chats[c] EXCEPT !.lastRead = [@ EXCEPT ![u] = m]]
    IN  [s EXCEPT !.messages = MarkRead(@, u, ReadUpTo(s, u, c, m)),
                  !.chats = IF TakesPart(s, u, c) THEN [s.chats EXCEPT ![c] = row] ELSE @]

-----------------------------------------------------------------------------
(* What the schema and the writers together keep true of the database.     *)

\* The foreign keys to "users": participants and senders exist.
ReferencesExist(s) ==
    /\ \A c \in ChatIds(s) : Members(s, c) \subseteq s.users
    /\ \A m \in MessageIds(s) : s.messages[m].sender \in s.users

\* Message m is in a chat; it has a status row for its sender and for everyone
\* in the chat, and for nobody else; the sender has read it.
RowsComplete(s, m) ==
    /\ s.messages[m].chat \in ChatIds(s)
    /\ s.messages[m].rows = Members(s, s.messages[m].chat) \cup {s.messages[m].sender}
    /\ s.messages[m].sender \in s.messages[m].read
    /\ s.messages[m].read \subseteq s.messages[m].rows

StatusRowsComplete(s) == \A m \in MessageIds(s) : RowsComplete(s, m)

\* The read pointer of a participant is a message of that chat which that
\* participant has read; nobody else has a read pointer.
PointsToRead(s, c, u) ==
    LET m == s.chats[c].lastRead[u]
    IN  m # 0 => /\ u \in Members(s, c)
                 /\ IsMessageOf(s, m, c)
                 /\ u \in s.messages[m].read

PointerIsRead(s) == \A c \in ChatIds(s), u \in Logins : PointsToRead(s, c, u)

\* Message m does not hide behind the read pointer of u: if it was there before
\* the message the pointer names, and is older by its time stamp, u has read it.
\* (The client counts as unread only what is younger than the pointer, so a
\* message that breaks this is never shown as new.)
NotHidden(s, c, u, m) ==
    LET p == s.chats[c].lastRead[u]
    IN  /\ u \in Members(s, c)
        /\ p # 0 /\ m < p
        /\ s.messages[m].chat = c
        /\ s.messages[m].ts < s.messages[p].ts
        => u \in s.messages[m].read

NothingUnreadBehindPointer(s) ==
    \A c \in ChatIds(s), u \in Logins, m \in MessageIds(s) : NotHidden(s, c, u, m)

Consistent(s) == /\ ReferencesExist(s)
                 /\ StatusRowsComplete(s)
                 /\ PointerIsRead(s)
                 /\ NothingUnreadBehindPointer(s)
==============================================================================
