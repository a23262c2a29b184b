------------------------------- MODULE Console -------------------------------
(***************************************************************************)
(* The console client of Shark 2.0 (and of Shark 3.0 Postgres, where only  *)
(* the participants of a new chat are chosen in another way), its          *)
(* connection to the server, and the server's single slot.                 *)
(* What a server does with a request is the operator Handle of a module of *)
(* its own.                                                                *)
(*                                                                         *)
(* A client is one thread that waits for every answer, and the server      *)
(* serves whom it has accepted until that client leaves.  So a request and *)
(* its answer are one step, which a client cannot take while another one   *)
(* is in the slot.  Clocks agree: a new message is the youngest of its     *)
(* chat.                                                                   *)
(***************************************************************************)
EXTENDS Integers, FiniteSets, SequencesExt

CONSTANTS
    Clients,        \* processes
    Logins,
    Typed,          \* those that are typed in at the clients
    Seed,           \* what the server knows after its start
    Handle(_, _),   \* what it does with a request, see Reply
    MaxWrites,      \* bound on the users, chats and messages that are created
    MaxStops,       \* bound: how often the server is stopped, and started again
    MaxTries        \* bound on the failed attempts to send a new chat

VARIABLES
    server,     \* [up, store, ended: for the properties, how it ended last]
    slot,       \* ServerSession::_connection: the client in it, or None
    link,       \* per client: its socket
    client,     \* per client: ChatSystem, and where in the menus it is
    stale,      \* for the properties: who is not logged in, or was when the server ended
    stops,      \* how often the server has ended
    writes      \* how much has been created

vars == <<server, slot, link, client, stale, stops, writes>>

None == "none"

\* A chat of the copy.  msgs is the multimap, read _lastReadMessageMap for the
\* user, stamped _messageIdToTimeStamp with the position for the time.
CopyChat(id, members, read, msgs, stamped) ==
    [id |-> id, members |-> members, read |-> read, msgs |-> msgs, stamped |-> stamped]

\* Chat::clearChat.
Cleared == CopyChat(0, {}, 0, <<>>, <<>>)

\* A new chat that is being composed; alone: to one user.
NoDraft == [members |-> {}, alone |-> FALSE, tries |-> 0]

\* No process.
Off == [menu |-> "off", user |-> None, known |-> {}, copy |-> <<>>,
        queue |-> <<>>, at |-> 0, draft |-> NoDraft,
        why |-> None]   \* for the properties: what the process died of

Menus == {"off", "entrance", "signup", "password", "signin", "loading", "main", "draft",
          "chat", "dead"}

\* A socket: "offline", there was no server at the start; "ok", also while it waits
\* for the slot; "asked", in recv for an answer that will not come; "cut", in recv
\* when the server ended; "hung", idle then; "reset", with an error getsockopt will
\* report; "refused", in recv when that error came; "spent", after the error was
\* reported to recv or getsockopt.
Links == {"none", "offline", "ok", "asked", "cut", "hung", "reset", "refused", "spent"}

Init == /\ server = [up |-> TRUE, store |-> Seed, ended |-> None]
        /\ slot = None
        /\ link = [c \in Clients |-> "none"]
        /\ client = [c \in Clients |-> Off]
        /\ stale = Clients
        /\ stops = 0 /\ writes = 0

-----------------------------------------------------------------------------
(* Requests *)

\* [store, fate, body]: the store afterwards; "reply" with a body, "empty" (a list
\* without packets, which the client takes for no answer), "silent", "dies", or
\* "undefined", one of the last two.
Reply(r) == Handle(server.store, r)

RqCheckLogin(u) == [type |-> "checkLogin", login |-> u]
RqCheckPassword(u) == [type |-> "checkPassword", login |-> u]
RqCreateUser(u) == [type |-> "createUser", login |-> u]
RqRegister(u) == [type |-> "register", login |-> u]
RqGetUsers(logins) == [type |-> "getUsers", logins |-> logins]
RqFindUserByPart(u, text) == [type |-> "search", login |-> u, text |-> text]
RqSetLastRead(u, chat, m) ==
    [type |-> "setLastRead", login |-> u, chat |-> chat, message |-> m]
RqCreateMessage(u, chat) == [type |-> "createMessage", author |-> u, chat |-> chat]

\* With all the messages of the draft, one for each attempt.
RqCreateChat(u, draft) ==
    [type |-> "createChat", author |-> u, members |-> draft.members, count |-> draft.tries + 1]

Creates(r) == r.type \in {"createUser", "createChat", "createMessage"}

\* listeningClients: the next client is accepted when the last one has left.
Accepts(c) == server.up /\ slot \in {None, c}

\* The client gets through: a socket with an error, or none, is replaced first.
Reaches(c) == Accepts(c) /\ link[c] \in {"ok", "offline", "reset"}

\* createConnection, to a server on the same machine.
Connected(c) == [link EXCEPT ![c] = "ok"]

Served(c, r) == /\ Reaches(c)
                /\ writes' = writes + (IF Creates(r) THEN 1 ELSE 0)
                /\ writes' <= MaxWrites
                /\ server' = [server EXCEPT !.store = Reply(r).store]
                /\ slot' = c
                /\ UNCHANGED stops

Answered(c, r) == /\ Served(c, r) /\ Reply(r).fate = "reply"
                  /\ link' = Connected(c)

\* What becomes of a socket when recv returns 0 or an error, or connect fails.
NextFailure == [offline |-> "offline", cut |-> "hung", hung |-> "reset",
                refused |-> "spent", reset |-> "spent"]

\* No packets come back: none were sent, or the connection is gone.
Unanswered(c, r) ==
    /\ \/ /\ Served(c, r) /\ Reply(r).fate = "empty"
          /\ link' = Connected(c)
       \/ /\ \/ link[c] \in {"cut", "hung", "refused"}
             \/ link[c] \in {"offline", "reset"} /\ ~server.up
          /\ link' = [link EXCEPT ![c] = NextFailure[@]]
          /\ UNCHANGED <<server, slot, stops, writes>>
    /\ UNCHANGED stale

\* The sockets when the server ends, with or without a request on its way.
AfterEnds ==
    [c \in Clients |->
        CASE link[c] = "asked" -> {"cut"}
          [] link[c] = "ok" /\ slot = c -> {"cut", "hung", "refused"}
          [] link[c] = "ok" /\ slot # c -> {"reset", "refused"}
          [] link[c] = "reset" -> {"reset", "refused"}
          [] OTHER -> {link[c]}]

\* The server ends, and what it knew is gone.
ServerEnds(how, after) ==
    /\ server.up
    /\ server' = [up |-> FALSE, store |-> Seed, ended |-> how]
    /\ slot' = None
    /\ stops' = stops + 1
    /\ stale' = Clients
    /\ link' \in {f \in [Clients -> Links] : \A c \in Clients : f[c] \in after[c]}
    /\ UNCHANGED <<client, writes>>

Stop == stops < MaxStops /\ ServerEnds("stopped", AfterEnds)

Start == /\ ~server.up /\ stops <= MaxStops
         /\ server' = [server EXCEPT !.up = TRUE]
         /\ UNCHANGED <<slot, link, client, stale, stops, writes>>

-----------------------------------------------------------------------------
(* The client's process *)

\* The client is in a menu and not in recv.
In(c, menu) == client[c].menu = menu /\ link[c] # "asked"

\* c is now rec.
Is(c, rec) == client' = [client EXCEPT ![c] = rec]

Untouched == UNCHANGED client
NoRequest == UNCHANGED <<server, slot, link, stale, stops, writes>>

\* findServerAddress.
Searched == IF server.up THEN "ok" ELSE "offline"

Launch(c) ==
    /\ client[c].menu = "off"
    /\ Is(c, [Off EXCEPT !.menu = "entrance"])
    /\ link' = [link EXCEPT ![c] = Searched]
    /\ UNCHANGED <<server, slot, stale, stops, writes>>

\* The process follows a null pointer; its socket is closed by Gone.
Dies(c, why) == Is(c, [Off EXCEPT !.menu = "dead", !.why = why])

\* There is no answer to wait for: the server sends nothing (recv has no time
\* limit), or the request ends it, or send raises SIGPIPE, because the error of
\* the socket was reported before.
Hangs(c, r) ==
    \/ /\ Served(c, r) /\ Reply(r).fate \in {"silent", "undefined"}
       /\ link' = [link EXCEPT ![c] = "asked"]
       /\ UNCHANGED <<client, stale>>
    \/ /\ Reaches(c) /\ Reply(r).fate \in {"dies", "undefined"}
       /\ ServerEnds(r.type, [AfterEnds EXCEPT ![c] = {"cut"}])
    \/ link[c] = "spent" /\ Dies(c, "pipe") /\ NoRequest

\* The end of the process: after a crash, by "0" in the first menu, or because the
\* user ends a process that waits for ever.
Gone(c) == /\ In(c, "dead") \/ In(c, "entrance") \/ link[c] = "asked"
           /\ Is(c, Off)
           /\ link' = [link EXCEPT ![c] = "none"]
           /\ slot' = IF slot = c THEN None ELSE slot
           /\ stale' = stale \cup {c}
           /\ UNCHANGED <<server, stops, writes>>

-----------------------------------------------------------------------------
(* Registration and login *)

\* checkUserLoginCl: yes if u is known here, or the answer says that it is taken; no
\* answer is taken for no.
LoginTaken(c, u, yes, no) ==
    LET r == RqCheckLogin(u)
    IN  \/ u \in client[c].known /\ yes /\ NoRequest
        \/ /\ u \notin client[c].known
           /\ \/ Answered(c, r) /\ UNCHANGED stale /\ IF Reply(r).body THEN yes ELSE no
              \/ Unanswered(c, r) /\ no
              \/ Hangs(c, r)

\* checkUserPasswordCl for the password u has registered with.
PasswordRight(c, u, yes, no) ==
    LET r == RqCheckPassword(u)
    IN  \/ u \in client[c].known /\ yes /\ NoRequest
        \/ /\ u \notin client[c].known
           /\ \/ Answered(c, r) /\ UNCHANGED stale /\ IF Reply(r).body THEN yes ELSE no
              \/ Unanswered(c, r) /\ no
              \/ Hangs(c, r)

\* userCreation: inputNewLogin wants a login that is free.
NewLogin(c, u) ==
    /\ In(c, "entrance")
    /\ LoginTaken(c, u, Untouched, Is(c, [client[c] EXCEPT !.menu = "signup", !.user = u]))

\* createUserCl looks at the first packet of the answer without asking for one.
CreateUser(c) ==
    LET me == client[c]
        r  == RqCreateUser(me.user)
    IN  /\ In(c, "signup")
        /\ \/ /\ Answered(c, r) /\ UNCHANGED stale
              /\ Is(c, [me EXCEPT !.menu = "entrance", !.user = None,
                                  !.known = IF Reply(r).body THEN @ \cup {me.user} ELSE @])
           \/ Unanswered(c, r) /\ Dies(c, "answer")
           \/ Hangs(c, r)

\* userLoginInsystem, the login.
CheckLogin(c, u) ==
    /\ In(c, "entrance")
    /\ LoginTaken(c, u, Is(c, [client[c] EXCEPT !.menu = "password", !.user = u]), Untouched)

\* userLoginInsystem, the password.
CheckPassword(c) ==
    /\ In(c, "password")
    /\ PasswordRight(c, client[c].user, Is(c, [client[c] EXCEPT !.menu = "signin"]), Untouched)

\* setActiveUserDTOFromSrv.
SignedIn(c, packets) ==
    [client[c] EXCEPT !.menu = "loading", !.queue = packets, !.known = @ \cup {client[c].user}]

\* registerClientToSystemCl; without an answer there is no active user to greet.
SignIn(c) ==
    LET r == RqRegister(client[c].user)
    IN  /\ In(c, "signin")
        /\ \/ /\ Answered(c, r)
              /\ Is(c, SignedIn(c, Reply(r).body))
              /\ stale' = stale \ {c}
           \/ Unanswered(c, r) /\ Dies(c, "nobody")
           \/ Hangs(c, r)

\* setOneChatDTOFromSrv for the next chat of the answer, of which the logins in
\* known are users here.
ChatLoaded(c, known) ==
    LET me   == client[c]
        chat == me.queue[me.at + 1]
    IN  [me EXCEPT !.at = @ + 1, !.known = known,
                   !.copy = Append(@, CopyChat(chat.id, chat.members \cap known,
                                               chat.read, <<>>, <<>>))]

\* ... with checkAndAddParticipantToSystem, which asks for users it does not know
\* and does without them if it gets no answer.
LoadChat(c) ==
    LET me      == client[c]
        missing == me.queue[me.at + 1].members \ me.known
        r       == RqGetUsers(missing)
    IN  /\ In(c, "loading") /\ me.at < Len(me.queue)
        /\ \/ missing = {} /\ Is(c, ChatLoaded(c, me.known)) /\ NoRequest
           \/ /\ missing # {}
              /\ \/ /\ Answered(c, r) /\ Is(c, ChatLoaded(c, me.known \cup missing))
                    /\ UNCHANGED stale
                 \/ Unanswered(c, r) /\ Is(c, ChatLoaded(c, me.known))
                 \/ Hangs(c, r)

\* Mutant of Filled: every message moves the pointer, whoever sent it.
FilledAsRead(chat, msgs, u) ==
    LET pos(m) == CHOOSE k \in DOMAIN msgs : msgs[k].id = m
    IN  [chat EXCEPT !.msgs = msgs,
                     !.stamped = [m \in {msgs[k].id : k \in DOMAIN msgs} |-> pos(m)],
                     !.read = IF msgs = <<>> THEN @ ELSE msgs[Len(msgs)].id]

\* setOneChatMessageDTO: every message of u moves the pointer of u, as if posted.
Filled(chat, msgs, u) ==
    LET own    == {k \in DOMAIN msgs : msgs[k].by = u}
        pos(m) == CHOOSE k \in DOMAIN msgs : msgs[k].id = m
    IN  [chat EXCEPT !.msgs = msgs,
                     !.stamped = [m \in {msgs[k].id : k \in DOMAIN msgs} |-> pos(m)],
                     !.read = IF own = {} THEN @ ELSE msgs[Max(own)].id]

\* The messages come after all chats.  A sender who is not a user here is a null
\* pointer in addMessageToChat.
LoadMessages(c) ==
    LET me == client[c]
        senders == UNION {{me.queue[i].msgs[k].by : k \in DOMAIN me.queue[i].msgs} :
                             i \in DOMAIN me.queue}
        filled == [i \in DOMAIN me.copy |-> Filled(me.copy[i], me.queue[i].msgs, me.user)]
    IN  /\ In(c, "loading") /\ me.at = Len(me.queue)
        /\ IF senders \subseteq me.known
           THEN Is(c, [me EXCEPT !.menu = "main", !.queue = <<>>, !.at = 0, !.copy = filled])
           ELSE Dies(c, "sender")
        /\ NoRequest

-----------------------------------------------------------------------------
(* New chats *)

\* LoginMenu_1NewChatChooseParticipants: the author takes part in a chat with one
\* user; among several nobody adds the author.
Picked(draft, u, v, alone) ==
    [draft EXCEPT !.alone = alone, !.members = @ \cup (IF alone THEN {v, u} ELSE {v})]

\* The user picks v of the users found for a text, alone or with others; who is
\* picked is a user of the client's from now on.  A text that finds nobody is the
\* login of somebody who has none.
Choose(c, v, alone) ==
    LET me == client[c]
        r  == RqFindUserByPart(me.user, {v})
    IN  /\ \/ In(c, "main")
           \/ In(c, "draft") /\ ~alone /\ ~me.draft.alone /\ me.draft.tries = 0
        /\ v \notin me.draft.members
        /\ \/ /\ Answered(c, r) /\ v \in Reply(r).body
              /\ Is(c, [me EXCEPT !.menu = "draft", !.known = @ \cup {v},
                                  !.draft = Picked(@, me.user, v, alone)])
              /\ UNCHANGED stale
           \/ Unanswered(c, r) /\ Untouched
           \/ Hangs(c, r)

\* _messageIdToTimeStamp.insert: a time stamp an id has already is not replaced.
Stamp(stamped, id, at) ==
    [m \in DOMAIN stamped \cup {id} |-> IF m \in DOMAIN stamped THEN stamped[m] ELSE at]

\* createNewChatCl: the chat gets its ids from the answer and goes into the list.
\* The author's pointer still names the message by the id it had here, 0.
\* After a failed attempt the chat is cleared in the end, sent or not.
Sent(draft, u, ids) ==
    IF draft.tries > 0 THEN Cleared
    ELSE CopyChat(ids.chat, draft.members, 0, <<[id |-> ids.message, by |-> u]>>,
                  Stamp(<<>>, 0, 1))

\* CreateAndSendNewChat.  Each attempt adds a message to the draft.
SendDraft(c) ==
    LET me == client[c]
        r  == RqCreateChat(me.user, me.draft)
    IN  /\ In(c, "draft")
        /\ \/ /\ Answered(c, r)
              /\ Is(c, [me EXCEPT !.menu = "main", !.draft = NoDraft,
                                  !.copy = Append(@, Sent(me.draft, me.user, Reply(r).body))])
              /\ UNCHANGED stale
           \/ /\ Unanswered(c, r) /\ me.draft.tries < MaxTries
              /\ Is(c, [me EXCEPT !.draft.tries = @ + 1])
           \/ Hangs(c, r)

\* inputNewMessage: "0" instead of a message.
GiveUp(c) == /\ In(c, "draft")
             /\ Is(c, [client[c] EXCEPT !.menu = "main", !.draft = NoDraft])
             /\ NoRequest

-----------------------------------------------------------------------------
(* Chats *)

\* printChatList takes the last message of every chat.
ListFails(copy) == \E j \in DOMAIN copy : copy[j].msgs = <<>>

LastId(chat) == chat.msgs[Len(chat.msgs)].id

\* loginMenu_2EditChat: the chat is read to its end.
Opened(me, i) == [me EXCEPT !.menu = "chat", !.at = i, !.copy[i].read = LastId(me.copy[i])]

\* sendLastReadMessageFromClient; what comes of it is not looked at.
Reported(c, r, then) ==
    \/ Answered(c, r) /\ then /\ UNCHANGED stale
    \/ Unanswered(c, r) /\ then
    \/ Hangs(c, r)

\* loginMenu_2ChatList; what was not read before is reported.
OpenChat(c, i) ==
    LET me   == client[c]
        last == LastId(me.copy[i])
        open == Is(c, Opened(me, i))
    IN  /\ In(c, "main") /\ i \in DOMAIN me.copy
        /\ \/ ListFails(me.copy) /\ Dies(c, "list") /\ NoRequest
           \/ /\ ~ListFails(me.copy)
              /\ \/ last = me.copy[i].read /\ open /\ NoRequest
                 \/ /\ last # me.copy[i].read
                    /\ Reported(c, RqSetLastRead(me.user, me.copy[i].id, last), open)

\* Mutant of WithPost: the time stamp is taken after the message is in.
WithPostLate(chat, id, u) ==
    [chat EXCEPT !.msgs = Append(@, [id |-> id, by |-> u]),
                 !.stamped = Stamp(@, id, Len(chat.msgs) + 2),
                 !.read = id]

\* addMessageToChat.
WithPost(chat, id, u) ==
    [chat EXCEPT !.msgs = Append(@, [id |-> id, by |-> u]),
                 !.stamped = Stamp(@, id, Len(chat.msgs) + 1),
                 !.read = id]

\* createMessageCl.
Post(c) ==
    LET me == client[c]
        r  == RqCreateMessage(me.user, me.copy[me.at].id)
    IN  /\ In(c, "chat")
        /\ \/ /\ Answered(c, r) /\ UNCHANGED stale
              /\ Is(c, [me EXCEPT !.copy[me.at] = WithPost(@, Reply(r).body, me.user)])
           \/ Unanswered(c, r) /\ Untouched
           \/ Hangs(c, r)

CloseChat(c) == /\ In(c, "chat")
                /\ Is(c, [client[c] EXCEPT !.menu = "main", !.at = 0])
                /\ NoRequest

\* resetSessionData.
Logout(c) == /\ In(c, "main")
             /\ Is(c, [Off EXCEPT !.menu = "entrance"])
             /\ stale' = stale \cup {c}
             /\ UNCHANGED <<server, slot, link, stops, writes>>

\* "0" instead of a password or a name.
Cancel(c) == /\ In(c, "signup") \/ In(c, "password")
             /\ Is(c, [client[c] EXCEPT !.menu = "entrance", !.user = None])
             /\ NoRequest

EntranceStep(c) ==
    \/ Launch(c) \/ Gone(c) \/ Cancel(c) \/ CreateUser(c) \/ CheckPassword(c) \/ SignIn(c)
    \/ \E u \in Typed : NewLogin(c, u) \/ CheckLogin(c, u)

ChatStep(c) ==
    \/ LoadChat(c) \/ LoadMessages(c) \/ Logout(c)
    \/ \E v \in Typed, alone \in BOOLEAN : Choose(c, v, alone)
    \/ SendDraft(c) \/ GiveUp(c)
    \/ \E i \in DOMAIN client[c].copy : OpenChat(c, i)
    \/ Post(c) \/ CloseChat(c)

Next == Start \/ Stop \/ \E c \in Clients : EntranceStep(c) \/ ChatStep(c)

Spec == Init /\ [][Next]_vars

-----------------------------------------------------------------------------
(* Properties *)

IsCopy(chat) ==
    /\ chat.id \in Nat /\ chat.read \in Nat
    /\ chat.members \subseteq Logins
    /\ chat.msgs \in Seq([id : Nat, by : Logins])
    /\ \A m \in DOMAIN chat.stamped : chat.stamped[m] \in DOMAIN chat.msgs

IsClient(me) ==
    /\ me.menu \in Menus /\ me.user \in Logins \cup {None} /\ me.known \subseteq Logins
    /\ \A i \in DOMAIN me.copy : IsCopy(me.copy[i])
    /\ me.at \in 0 .. Len(me.copy)
    /\ me.draft \in [members : SUBSET Logins, alone : BOOLEAN, tries : 0 .. MaxTries]

\* The answer to a login of u in a server state s: the packets of its chats.
KnowsUser(s, u) == Handle(s, RqRegister(u)).fate = "reply"
ListOnServer(s, u) == Handle(s, RqRegister(u)).body

\* c shows chats that it got from the server as it runs now.
Fresh(c) == c \notin stale /\ client[c].menu \in {"main", "draft", "chat"}

\* What a client shows is what the server would send its user: all of the user's
\* chats, with the other participants and all messages in their order.  (Whom the
\* user has picked is in the copy without the user; a server may add the user.)
FreshCopy ==
    \A c \in Clients : Fresh(c) =>
        LET list == ListOnServer(server.store, client[c].user)
        IN  \A k \in DOMAIN list : \E i \in DOMAIN client[c].copy :
                /\ client[c].copy[i].id = list[k].id
                /\ client[c].copy[i].members \cup {client[c].user} = list[k].members
                /\ client[c].copy[i].msgs = list[k].msgs

\* getUnreadMessageCount.
ShownUnread(chat) ==
    IF chat.read \in DOMAIN chat.stamped THEN Len(chat.msgs) - chat.stamped[chat.read]
                                         ELSE Len(chat.msgs)

\* Messages of others that came after the user's read pointer on the server, and
\* after the user's last message, are counted as unread.
UnreadShown ==
    \A c \in Clients : Fresh(c) =>
        LET u    == client[c].user
            list == ListOnServer(server.store, u)
        IN  \A k \in DOMAIN list, i \in DOMAIN client[c].copy :
                client[c].copy[i].id = list[k].id =>
                    ShownUnread(client[c].copy[i])
                        >= Cardinality({m \in DOMAIN list[k].msgs :
                               /\ \A n \in m .. Len(list[k].msgs) : list[k].msgs[n].id # list[k].read
                               /\ \A n \in m .. Len(list[k].msgs) : list[k].msgs[n].by # u})

\* A client that got its chats from the server as it runs now shows them as they are.
CopiesFaithful == FreshCopy /\ UnreadShown

\* As long as the server runs no request takes anything from a user's chats: a
\* chat keeps its id, its participants and its messages.
AckedStays ==
    [][server.up /\ server'.up /\ server'.store # server.store =>
          \A u \in Logins : KnowsUser(server.store, u) =>
              /\ KnowsUser(server'.store, u)
              /\ \A k \in DOMAIN ListOnServer(server.store, u) :
                    LET old == ListOnServer(server.store, u)[k]
                    IN  \E j \in DOMAIN ListOnServer(server'.store, u) :
                            LET new == ListOnServer(server'.store, u)[j]
                            IN  /\ new.id = old.id /\ new.members = old.members
                                /\ IsPrefix(old.msgs, new.msgs)]_server
=============================================================================
