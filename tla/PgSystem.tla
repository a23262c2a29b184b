------------------------------ MODULE PgSystem ------------------------------
(***************************************************************************)
(* Shark 3.0 Postgres: console clients and the server of PgServer.  The    *)
(* clients are those of Shark 2.0, whose actions are those of Console and  *)
(* are named here one by one, but for the choice of the participants of a  *)
(* new chat.                                                               *)
(***************************************************************************)
EXTENDS PgServer

CONSTANTS Clients, Typed, Seed, MaxWrites, MaxStops, MaxTries,    \* see Console
          MaxFailures       \* bound on the statements that fail

VARIABLES server, slot, link, client, stale, stops, writes,       \* see Console
          failures          \* how many statements have failed

vars == <<server, slot, link, client, stale, stops, writes, failures>>

C == INSTANCE Console WITH Handle <- PgHandle

ASSUME PgSeedAssumption == Seed \in Store /\ Consistent(Seed) /\ Inhabited(Seed)

ASSUME PgTypedAssumption == Typed \subseteq Logins

\* No client is taken for the free slot.
ASSUME PgClientsAssumption == C!None \notin Clients

Init == C!Init /\ failures = 0

\* The server's process.
Start == C!Start
Stop == C!Stop

\* The client's process, and who uses it.
Launch(c) == C!Launch(c)
Gone(c) == C!Gone(c)
NewLogin(c, u) == C!NewLogin(c, u)
CreateUser(c) == C!CreateUser(c)
CheckLogin(c, u) == C!CheckLogin(c, u)
CheckPassword(c) == C!CheckPassword(c)
Cancel(c) == C!Cancel(c)
SignIn(c) == C!SignIn(c)
LoadChat(c) == C!LoadChat(c)
LoadMessages(c) == C!LoadMessages(c)

\* chooseParticipants: one search, and one of its results, or any of them by their
\* numbers.  "," is nobody, and a chat without participants is composed all the same.
Choose(c, text, picked, alone) ==
    LET me == client[c]
        r  == C!RqFindUserByPart(me.user, text)
    IN  /\ C!In(c, "main")
        /\ \/ /\ C!Answered(c, r) /\ picked \subseteq C!Reply(r).body
              /\ C!Is(c, [me EXCEPT
                       !.menu = "draft", !.known = @ \cup picked,
                       !.draft.alone = alone,
                       !.draft.members = picked \cup (IF alone THEN {me.user} ELSE {})])
              /\ UNCHANGED stale
           \/ C!Unanswered(c, r) /\ C!Untouched
           \/ C!Hangs(c, r)

SendDraft(c) == C!SendDraft(c)
GiveUp(c) == C!GiveUp(c)
OpenChat(c, i) == C!OpenChat(c, i)
Post(c) == C!Post(c)
CloseChat(c) == C!CloseChat(c)
Logout(c) == C!Logout(c)

-----------------------------------------------------------------------------
(* Statements that fail                                                    *)

\* execSQL has no result for a statement of r: it failed, or the connection to
\* PostgreSQL broke, perhaps when the statement was carried out.
Fails(c, r) ==
    /\ C!Reaches(c)
    /\ failures < MaxFailures /\ failures' = failures + 1
    /\ \E s \in {server.store, C!Reply(r).store} : server' = [server EXCEPT !.store = s]
    /\ writes' = writes + (IF C!Creates(r) THEN 1 ELSE 0) /\ writes' <= MaxWrites
    /\ slot' = c
    /\ link' = [link EXCEPT ![c] = IF r.type \in SilentOnError THEN "asked" ELSE "ok"]
    /\ stale' = stale \cup {c}
    /\ UNCHANGED stops

\* The client takes FALSE for an answer: the login is free or unknown, the password
\* is wrong, the user was not created.
EntranceFails(c) ==
    LET me == client[c]
    IN  \/ /\ C!In(c, "entrance")
           /\ \E u \in Typed \ me.known :
                 /\ Fails(c, C!RqCheckLogin(u))
                 /\ C!Untouched \/ C!Is(c, [me EXCEPT !.menu = "signup", !.user = u])
        \/ /\ C!In(c, "password") /\ me.user \notin me.known
           /\ Fails(c, C!RqCheckPassword(me.user)) /\ C!Untouched
        \/ /\ C!In(c, "signup") /\ Fails(c, C!RqCreateUser(me.user))
           /\ C!Is(c, [me EXCEPT !.menu = "entrance", !.user = C!None])
        \/ /\ C!In(c, "signin") /\ Fails(c, C!RqRegister(me.user)) /\ C!Untouched

\* The user is found, but not all of the chats and messages.
SignInPartly(c) ==
    LET r == C!RqRegister(client[c].user)
    IN  /\ C!In(c, "signin")
        /\ failures < MaxFailures /\ failures' = failures + 1
        /\ C!Answered(c, r)
        /\ \E packets \in Parts(C!Reply(r).body) : C!Is(c, C!SignedIn(c, packets))
        /\ UNCHANGED stale

\* The client tries to send the chat again, shows as read what was not reported, and
\* gives up a message.
ChatFails(c) ==
    LET me == client[c]
        missing == me.queue[me.at + 1].members \ me.known
    IN  \/ /\ C!In(c, "loading") /\ me.at < Len(me.queue) /\ missing # {}
           /\ Fails(c, C!RqGetUsers(missing)) /\ C!Untouched
        \/ /\ C!In(c, "main")
           /\ \E text \in (SUBSET Typed) \ {{}} : Fails(c, C!RqFindUserByPart(me.user, text))
           /\ C!Untouched
        \/ /\ C!In(c, "draft") /\ me.draft.tries < MaxTries
           /\ Fails(c, C!RqCreateChat(me.user, me.draft))
           /\ C!Is(c, [me EXCEPT !.draft.tries = @ + 1])
        \/ /\ C!In(c, "main") /\ ~C!ListFails(me.copy)
           /\ \E i \in DOMAIN me.copy :
                 LET last == C!LastId(me.copy[i])
                 IN  /\ last # me.copy[i].read
                     /\ Fails(c, C!RqSetLastRead(me.user, me.copy[i].id, last))
                     /\ C!Is(c, C!Opened(me, i))
        \/ /\ C!In(c, "chat") /\ Fails(c, C!RqCreateMessage(me.user, me.copy[me.at].id))
           /\ C!Untouched

-----------------------------------------------------------------------------

EntranceStep(c) ==
    \/ Launch(c) \/ Gone(c) \/ Cancel(c) \/ CreateUser(c) \/ CheckPassword(c) \/ SignIn(c)
    \/ \E u \in Typed : NewLogin(c, u) \/ CheckLogin(c, u)

ChatStep(c) ==
    \/ LoadChat(c) \/ LoadMessages(c) \/ Logout(c)
    \/ \E text \in (SUBSET Typed) \ {{}} :
          \/ \E picked \in SUBSET text : Choose(c, text, picked, FALSE)
          \/ \E v \in text : Choose(c, text, {v}, TRUE)
    \/ SendDraft(c) \/ GiveUp(c)
    \/ \E i \in DOMAIN client[c].copy : OpenChat(c, i)
    \/ Post(c) \/ CloseChat(c)

FailedStep(c) == EntranceFails(c) \/ SignInPartly(c) \/ ChatFails(c)

Next == \/ /\ Start \/ Stop \/ \E c \in Clients : EntranceStep(c) \/ ChatStep(c)
           /\ UNCHANGED failures
        \/ \E c \in Clients : FailedStep(c)

Spec == Init /\ [][Next]_vars

-----------------------------------------------------------------------------
(* Properties *)

\* Whatever clients send, also those that know chats and messages of a database
\* that is gone, the foreign keys, status rows and read pointers stay consistent.
StoreConsistent == Consistent(server.store)

\* As long as no statement has failed and the database is the one clients have
\* logged in to, the one request that ends the server, or leaves a client waiting
\* for ever, is a search; and no client follows a null pointer.
OnlySearchHurts ==
    failures = 0 =>
        /\ stops = 0 => \A c \in Clients : /\ link[c] = "asked" => client[c].menu = "main"
                                           /\ client[c].why = C!None
        /\ server.ended \notin {C!None, "stopped", "search"} => stops >= 2

\* A statement that fails can leave a client waiting for ever at the login too, and
\* give it a list of chats it dies of; but no client is misled into a request that
\* ends the server.
FailuresStayLocal ==
    /\ stops = 0 => \A c \in Clients :
          link[c] = "asked" => client[c].menu \in {"main", "signin", "loading"}
    /\ server.ended \notin {C!None, "stopped", "search"} => stops >= 2

\* A client none of whose statements failed since it logged in shows what the server
\* would send it, and counts as unread what others wrote after the user's read
\* pointer and last message (see Console).
CopiesFaithful == C!CopiesFaithful
=============================================================================
