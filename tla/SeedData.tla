------------------------------- MODULE SeedData -------------------------------
(***************************************************************************)
(* The rows DatabaseInitSqlBuilder puts into a new database: eight users   *)
(* and two chats.  Each chat is one statement; the inserts of its WITH run *)
(* in an order PostgreSQL does not specify, so the message ids may come in *)
(* any order: "order" maps the k-th id handed out to the message it is of. *)
(* Time stamps are seconds after 1743508800000 ms.                         *)
(***************************************************************************)
EXTENDS ChatSql, Functions, FiniteSets

SeedUsers == {"a", "e", "s", "v", "m", "f", "ver", "y"}

\* A message of the seed: sender, time, and whose status row says READ.
Row(u, t, read) == [sender |-> u, ts |-> t, read |-> read]

FirstChatMessages == << Row("e", 0, {"e", "a"}),
                        Row("a", 300, {"e", "a"}),
                        Row("e", 420, {"e"}) >>

\* last_read_message_id of each participant, as a position in the list above.
FirstChatPointers == [e |-> 3, a |-> 2]

SecondChatMessages == << Row("e", 3600, {"e", "a", "s"}),
                         Row("a", 3720, {"e", "a", "s"}),
                         Row("s", 4215, {"e", "s"}),
                         Row("e", 4329, {"e", "s"}),
                         Row("s", 5580, {"s"}) >>

SecondChatPointers == [e |-> 4, a |-> 2, s |-> 5, m |-> 0, y |-> 0]

\* One statement that inserts a chat, its messages with a status row for every
\* participant, and the participants.
ChatLoaded(s, list, pointers, order) ==
    LET c       == Len(s.chats) + 1
        base    == Len(s.messages)
        members == DOMAIN pointers
        message(i) == [chat |-> c, sender |-> list[i].sender, ts |-> list[i].ts,
                       rows |-> members, read |-> list[i].read]
        id(i)   == IF i = 0 THEN 0 ELSE base + AntiFunction(order)[i]
    IN  [s EXCEPT !.messages = @ \o [k \in DOMAIN list |-> message(order[k])],
                  !.chats = Append(@, [members |-> members,
                                       lastRead |-> [u \in Logins |->
                                          IF u \in members THEN id(pointers[u]) ELSE 0]])]

FirstLoaded(order) ==
    ChatLoaded([EmptyStore EXCEPT !.tables = TRUE, !.users = SeedUsers],
               FirstChatMessages, FirstChatPointers, order)

SecondLoaded(s, order) == ChatLoaded(s, SecondChatMessages, SecondChatPointers, order)

Orders(list) == Bijection(DOMAIN list, DOMAIN list)

AllFirst == {FirstLoaded(p) : p \in Orders(FirstChatMessages)}
AllFull == {SecondLoaded(s, p) : s \in AllFirst, p \in Orders(SecondChatMessages)}

\* Whatever the order of the ids, the seed is a consistent database.
ASSUME SeedIsConsistent == \A s \in AllFirst \cup AllFull : s \in Store /\ Consistent(s)
==============================================================================
