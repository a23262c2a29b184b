---- MODULE MCPgSystem ----
EXTENDS PgSystem
\* The users of the database and its first chat; "n" is nobody.
MCSeed == FirstChatOnly(<<1, 2, 3>>)
MCLogins == SeedUsers \cup {"n"}
MCSymmetry == Permutations(Clients)
\* Bound: the server ends or statements fail, not both, and a creation that may have
\* failed leaves room for two that did not.
MCMishaps == (stops = 0 \/ failures = 0) /\ writes <= 2 + failures
====
