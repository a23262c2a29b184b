---------------------------- MODULE MCClientChats ----------------------------
(* The user "a" and another, "e".  In chat 1 "a" has written, "e" has answered
   and "a" has read the answer; in chat 2 "e" has written and "a" has not read. *)
EXTENDS ClientChats

MCLogins == {"a", "e"}

Row(a, e) == [members |-> MCLogins, lastRead |-> [a |-> a, e |-> e]]
Message(c, u, t, read) == [chat |-> c, sender |-> u, ts |-> t, rows |-> MCLogins, read |-> read]

MCStore == [tables |-> TRUE, users |-> MCLogins,
            chats |-> <<Row(2, 2), Row(0, 3)>>,
            messages |-> <<Message(1, "a", 1, MCLogins), Message(1, "e", 2, MCLogins),
                           Message(2, "e", 3, {"e"})>>]
==============================================================================
