------------------------------ MODULE ChatStore ------------------------------
(***************************************************************************)
(* The part of the Shark 3.0 Qt server that writes the database, one       *)
(* request at a time: a processor runs one SQL statement (or, for          *)
(* InitDatabase, two transactions and two more statements) over the only   *)
(* PostgreSQL connection of the process and answers, or does not answer,   *)
(* or takes the process down with an exception nobody catches.             *)
(***************************************************************************)
EXTENDS ChatSql

CONSTANTS
    Requesters,     \* bound: the logins whose clients send requests
    MaxStamp,       \* bound: client clocks show 1 .. MaxStamp
    MaxMessages,    \* bound on the messages in the database
    MaxChats,       \* bound on the chats in the database
    FirstSeeds,     \* databases the first transaction of InitDatabase can leave
    FullSeeds       \* databases both transactions can leave

ASSUME StoreAssumption ==
    /\ Requesters \subseteq Logins
    /\ {MaxStamp, MaxMessages, MaxChats} \subseteq Nat
    /\ \A s \in FirstSeeds \cup FullSeeds : s \in Store /\ Consistent(s)

VARIABLES
    db,         \* the database
    linked,     \* the connection to PostgreSQL works; nothing ever reopens it
    up,         \* the server process runs
    last        \* the request handled last, and what its client was told

vars == <<db, linked, up, last>>

Stamps == 1 .. MaxStamp
Operations == {"start", "CreateUser", "CreateChat", "CreateMessage",
               "SetLastRead", "InitDatabase"}
Results == {"ok", "failed", "silence", "crash"}

TypeOK == /\ db \in Store
          /\ linked \in BOOLEAN
          /\ up \in BOOLEAN
          /\ last \in [op : Operations, user : Logins, result : Results]

Init == /\ db = EmptyStore
        /\ linked = TRUE
        /\ up = TRUE
        /\ \E u \in Requesters : last = [op |-> "start", user |-> u, result |-> "ok"]

-----------------------------------------------------------------------------
\* The request ends with the given result, or the process is killed before it
\* has answered.
Finish(op, u, result) ==
    \E r \in {result, "crash"} : /\ last' = [op |-> op, user |-> u, result |-> r]
                                 /\ up' = (r # "crash")

\* The statement is carried out and the request ends with the given result.
Carry(op, u, s, result) == /\ linked
                           /\ db' = s
                           /\ linked' = linked
                           /\ Finish(op, u, result)

\* The statement fails and execSQL returns null: an error of the database
\* leaves it as it was; a connection that breaks may do so after the commit,
\* and from then on every statement fails.
Fail(op, u, s, result) ==
    /\ \/ db' = db /\ linked' = linked
       \/ linked /\ linked' = FALSE /\ db' \in {db, s}
    /\ Finish(op, u, result)

CreateUser(u) ==
    /\ up
    /\ \/ /\ db.tables /\ u \notin db.users
          /\ \/ Carry("CreateUser", u, UserAdded(db, u), "ok")
             \/ Fail("CreateUser", u, UserAdded(db, u), "failed")
       \/ /\ ~db.tables \/ u \in db.users
          /\ Fail("CreateUser", u, db, "failed")

\* The list of participants is what the client sends; an empty one makes the
\* statement a syntax error.  With an unknown sender the statement succeeds and
\* returns no row: PQgetvalue gives a null pointer, push_back turns it into
\* std::logic_error, and no handler up to main catches that.
CreateChat(u, list, t) ==
    /\ up
    /\ Len(db.chats) < MaxChats /\ Len(db.messages) < MaxMessages
    /\ \/ /\ db.tables /\ list # {} /\ u \in db.users
          /\ \/ Carry("CreateChat", u, ChatAdded(db, u, list, t), "ok")
             \/ Fail("CreateChat", u, ChatAdded(db, u, list, t), "silence")
       \/ /\ db.tables /\ list # {} /\ u \notin db.users
          /\ \/ Carry("CreateChat", u, OrphanChatAdded(db), "crash")
             \/ Fail("CreateChat", u, OrphanChatAdded(db), "silence")
       \/ /\ ~db.tables \/ list = {}
          /\ Fail("CreateChat", u, db, "silence")

\* As above: no row when the sender or the chat is not there, and std::stoul of
\* a null pointer takes the process down.
CreateMessage(u, c, t) ==
    /\ up
    /\ Len(db.messages) < MaxMessages
    /\ \/ /\ db.tables /\ u \in db.users /\ c \in ChatIds(db)
          /\ \/ Carry("CreateMessage", u, MessageAdded(db, u, c, t), "ok")
             \/ Fail("CreateMessage", u, MessageAdded(db, u, c, t), "silence")
       \/ /\ db.tables /\ ~(u \in db.users /\ c \in ChatIds(db))
          /\ \/ Carry("CreateMessage", u, db, "crash")
             \/ Fail("CreateMessage", u, db, "silence")
       \/ /\ ~db.tables
          /\ Fail("CreateMessage", u, db, "silence")

\* Mutant of SetLastRead: only the rows of message_status_update are counted.
SetLastReadCountingMessages(u, c, m) ==
    /\ up
    /\ IF db.tables /\ (TakesPart(db, u, c) => IsMessageOf(db, m, c))
       THEN Carry("SetLastRead", u, ReadMarked(db, u, c, m),
                  IF ReadUpTo(db, u, c, m) = {} THEN "failed" ELSE "ok")
       ELSE Fail("SetLastRead", u, db, "failed")

\* Refused by the foreign key, or no row updated, the answer is false.
SetLastRead(u, c, m) ==
    LET accepted == TakesPart(db, u, c) => IsMessageOf(db, m, c)
        touched  == TakesPart(db, u, c) \/ ReadUpTo(db, u, c, m) # {}
    IN  /\ up
        /\ \/ /\ db.tables /\ accepted /\ touched
              /\ \/ Carry("SetLastRead", u, ReadMarked(db, u, c, m), "ok")
                 \/ Fail("SetLastRead", u, ReadMarked(db, u, c, m), "failed")
           \/ /\ ~(db.tables /\ accepted /\ touched)
              /\ Fail("SetLastRead", u, db, "failed")

\* DROP SCHEMA, CREATE SCHEMA, then one transaction for the tables, the users
\* and the first chat, and one for the second chat.  Each may be the one that
\* fails, or after which the process is killed; what came before it stays.
InitDatabase(u) ==
    /\ up
    /\ \/ \E s \in FullSeeds : Carry("InitDatabase", u, s, "ok")
       \/ \E s \in {db, EmptyStore} \cup FirstSeeds :
              Carry("InitDatabase", u, s, "failed")
       \/ \E s \in {EmptyStore} \cup FirstSeeds \cup FullSeeds :
              Fail("InitDatabase", u, s, "failed")

\* Whoever runs the server starts it again: a new process, a new connection.
Restart == /\ ~up \/ ~linked
           /\ up' = TRUE /\ linked' = TRUE
           /\ UNCHANGED <<db, last>>

Next == \/ \E u \in Requesters :
              \/ CreateUser(u)
              \/ InitDatabase(u)
              \/ \E list \in SUBSET Logins, t \in Stamps : CreateChat(u, list, t)
              \/ \E c \in 1 .. MaxChats, t \in Stamps : CreateMessage(u, c, t)
              \/ \E c \in 1 .. MaxChats, m \in 0 .. MaxMessages : SetLastRead(u, c, m)
        \/ Restart

Spec == Init /\ [][Next]_vars

-----------------------------------------------------------------------------
(* Properties *)

\* Every message has exactly the status rows of its chat's participants and of
\* its sender (message_status_record, message_status_part_record).
StatusRows == StatusRowsComplete(db)

\* A participant's last_read_message_id names a message of the same chat that
\* has status READ for that participant, whatever ids a client sends.
Pointers == PointerIsRead(db)

\* With clients whose clocks disagree: no message that was stored before the
\* one last_read_message_id names, and is older, still waits to be read.
NothingHidden == NothingUnreadBehindPointer(db)

\* The inductive invariant: the parts above and the foreign keys.
Inv == TypeOK /\ Consistent(db)

\* Short of a new InitDatabase a message stays as it was stored, and a status
\* READ is final, through failures, crashes and restarts.
MessagesKept ==
    [][last'.op # "InitDatabase" =>
         \A m \in MessageIds(db) :
            /\ m \in MessageIds(db')
            /\ db'.messages[m] = [db.messages[m] EXCEPT !.read = db'.messages[m].read]
            /\ db.messages[m].read \subseteq db'.messages[m].read]_vars

\* A request marks nothing as read for anyone but the login it was sent for,
\* and nothing in a chat which that login has no message status in.
OnlyOwnMarks ==
    [][last'.op # "InitDatabase" =>
         \A m \in MessageIds(db) :
            db'.messages[m].read \ db.messages[m].read
              \subseteq {last'.user} \cap db.messages[m].rows]_vars

\* A request answered with false, or not answered by a server that goes on,
\* has changed nothing, unless it was InitDatabase or PostgreSQL went away.
FailureHasNoEffect ==
    [][(/\ last'.result \in {"failed", "silence"}
        /\ last'.op # "InitDatabase"
        /\ linked') => db' = db]_vars

\* What the store promises whoever reads it, see Mailbox: a message is new to
\* everyone in its chat but its sender, exactly once, until they read it.
Box == INSTANCE Mailbox WITH
          groups <- [c \in ChatIds(db) |-> Members(db, c)],
          log    <- [m \in MessageIds(db) |->
                        [group |-> db.messages[m].chat, sender |-> db.messages[m].sender]],
          unread <- [u \in Logins |-> {m \in MessageIds(db) : Unread(db, m, u)}],
          recreated <- last.op = "InitDatabase"
BoxSpec == Box!Spec
==============================================================================
