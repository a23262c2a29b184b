----------------------------- MODULE MCChatStore -----------------------------
(* Three logins: "a" and "e" are in the seed, "n" may register.  The chats of
   the seed are cut down to one message each, with the READ and NOT DELIVERED
   rows and the NULL pointer that the real ones have (SeedData has those). *)
EXTENDS ChatStore

MCLogins == {"a", "e", "n"}

Both == {"a", "e"}

SeedRow(a, e) == [members |-> Both, lastRead |-> [a |-> a, e |-> e, n |-> 0]]

SeedMessage(c, u, t) == [chat |-> c, sender |-> u, ts |-> t, rows |-> Both, read |-> {u}]

First == [tables |-> TRUE, users |-> Both,
          chats |-> <<SeedRow(0, 1)>>, messages |-> <<SeedMessage(1, "e", 2)>>]

Full == [First EXCEPT !.chats = Append(@, SeedRow(2, 0)),
                      !.messages = Append(@, SeedMessage(2, "a", 1))]

MCFirstSeeds == {First}
MCFullSeeds == {Full}
==============================================================================
