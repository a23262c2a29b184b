---- MODULE MCCliSystem ----
EXTENDS CliSystem
\* The first chat of systemInitForTest and its users, and all of it; "n" is nobody.
MCSeed == [users |-> {"a", "e"}, chats |-> <<FirstChat>>, free |-> {}]
MCWholeSeed == [users |-> SeedUsers, chats |-> <<FirstChat, SecondChat>>, free |-> {}]
MCSymmetry == Permutations(Clients)
====
