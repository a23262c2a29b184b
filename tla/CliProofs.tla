------------------------------ MODULE CliProofs ------------------------------
(***************************************************************************)
(* Proofs about Shark 2.0: clients and server stay well typed whatever is  *)
(* answered, lost or restarted; the ids that will be given again are those *)
(* of the chats that were given up; until the server ends for the first    *)
(* time no request hurts it, nor a client that is not loading; as long as  *)
(* it runs no request takes anything from it; and a client that logged in  *)
(* to the server as it runs shows the chats as the server has them.        *)
(***************************************************************************)
EXTENDS CliSystem, SequenceTheorems, FiniteSetTheorems, TLAPS

\* Sequences, and numbers in the order of a key.  (The part about the database is not used.)
Data == INSTANCE Lemmas

ClientFields == {"menu", "user", "known", "copy", "queue", "at", "draft", "why"}
ChatFields == {"id", "members", "read", "msgs", "stamped"}

\* What the provers need to see of CopyChat and IsCopy.
Msg == [id : Nat, by : Logins]
IsChat(chat) == DOMAIN chat = ChatFields /\ C!IsCopy(chat)

-----------------------------------------------------------------------------
(* The invariant.                                                          *)

\* FreeAreAbandoned, for a store.
FreeIs(s) == s.free = {i \in DOMAIN s.chats : ~s.chats[i].listed}

IsGood(s) == s \in Store /\ FreeIs(s)

\* A server that runs has not ended too often.
ServerInv ==
    /\ server \in [up : BOOLEAN, store : Store, ended : Endings]
    /\ FreeIs(server.store)
    /\ slot \in Clients \cup {C!None}
    /\ link \in [Clients -> C!Links]
    /\ stops \in 0 .. MaxStops + 1 /\ writes \in 0 .. MaxWrites
    /\ server.up => stops <= MaxStops

\* What a client gets of one chat.
IsPacket(p) == /\ p.id \in Nat /\ p.read \in Nat /\ p.members \subseteq Logins
               /\ p.msgs \in Seq(Msg)

LoggedIn == {"main", "draft", "chat"}
LoggedOut == {"off", "entrance", "signup", "password", "signin", "dead"}

\* The chats that are loaded so far, one for each packet.
IsLoading(me) == /\ Data!IsSeq(me.queue) /\ \A i \in DOMAIN me.queue : IsPacket(me.queue[i])
                 /\ me.at <= Len(me.queue) /\ Len(me.copy) = me.at

\* A client has a user before it asks for the user's chats, and has none of them before.
IsTyped(me) ==
    /\ DOMAIN me = ClientFields /\ C!IsClient(me)
    /\ Data!IsSeq(me.copy) /\ \A i \in DOMAIN me.copy : DOMAIN me.copy[i] = ChatFields
    /\ me.menu \in {"signup", "password", "signin", "loading"} \cup LoggedIn => me.user \in Logins
    /\ me.menu \in LoggedOut => me.copy = <<>> /\ me.at = 0
    /\ me.menu = "loading" => IsLoading(me)
    /\ me.menu = "chat" => me.at \in DOMAIN me.copy
    /\ me.menu # "draft" => me.draft.tries = 0 /\ me.draft.members = {}

ClientsInv == /\ DOMAIN client = Clients /\ \A c \in Clients : IsTyped(client[c])
              /\ stale \subseteq Clients

\* A client whose users are those of the store, and whose chats have messages.
IsCurrent(s, me) ==
    /\ me.why \in {C!None, "sender"}
    /\ me.known \subseteq s.users
    /\ me.menu \in {"password", "signin", "loading"} \cup LoggedIn => me.user \in s.users
    /\ me.draft.tries = 0 /\ me.draft.members \subseteq s.users
    /\ me.menu = "loading" => \A i \in DOMAIN me.queue : /\ me.queue[i].members \subseteq s.users
                                                        /\ me.queue[i].msgs # <<>>
    /\ me.menu \in LoggedIn => \A i \in DOMAIN me.copy : me.copy[i].msgs # <<>>

Calm == /\ server.up /\ server.ended = C!None
        /\ Settled(server.store)
        /\ \A c \in Clients : link[c] \in {"none", "ok"} /\ IsCurrent(server.store, client[c])

CalmInv == /\ stops = 0 => Calm
           /\ stops = 1 => server.ended = "stopped"

CliInv == ServerInv /\ ClientsInv /\ CalmInv

\* q begins with p.
Extends(p, q) == Len(p) <= Len(q) /\ \A k \in 1 .. Len(p) : q[k] = p[k]

\* Store n has what s has: its users, and its chats with their messages.
Grows(s, n) ==
    /\ s.users \subseteq n.users
    /\ DOMAIN s.chats \subseteq DOMAIN n.chats
    /\ \A i \in DOMAIN s.chats : /\ n.chats[i].listed = s.chats[i].listed
                                 /\ n.chats[i].members = s.chats[i].members
                                 /\ Extends(s.chats[i].by, n.chats[i].by)

\* Of every step: the store of a server that goes on running only grows.
Kept == server.up /\ server'.up => Grows(server.store, server'.store)

\* Of a step of client c: no other client changes, nor comes back from being stale; and
\* the server stays as it is for the client in the slot.
Apart(c) ==
    \A d \in Clients \ {c} :
        /\ client'[d] = client[d] /\ (d \in stale => d \in stale')
        /\ slot = d => server' = server /\ slot' = slot /\ link'[d] = link[d]

-----------------------------------------------------------------------------
(* What becomes of each request.                                           *)

RequestTypes == {"checkLogin", "checkPassword", "createUser", "register", "getUsers", "search",
                 "createChat", "createMessage", "setLastRead"}

\* A request as the clients make them.
IsRequest(r) == /\ r.type \in RequestTypes
                /\ r.type = "createUser" => r.login \in Logins
                /\ r.type = "createChat" => r.count \in Nat
                /\ r.type = "setLastRead" => r.message \in Nat

\* What each of the ends of a request is made of.
LEMMA Fates ==
    ASSUME NEW s, NEW body
    PROVE  /\ Replies(s, body).store = s /\ Replies(s, body).fate = "reply"
           /\ Replies(s, body).body = body
           /\ IsSilent(s).store = s /\ IsSilent(s).fate = "silent"
           /\ RepliesEmpty(s).store = s /\ RepliesEmpty(s).fate = "empty"
           /\ DiesOf(s).store = s /\ DiesOf(s).fate = "dies"
BY Zenon DEF Replies, IsSilent, RepliesEmpty, DiesOf

\* A store by its parts.
LEMMA StoreParts ==
    ASSUME NEW s \in Store
    PROVE  /\ s.users \in SUBSET Logins /\ s.chats \in Seq(Chat) /\ s.free \in SUBSET Nat
           /\ Len(s.chats) \in Nat /\ DOMAIN s.chats = 1 .. Len(s.chats)
           /\ \A i \in DOMAIN s.chats :
                 /\ s.chats[i] \in Chat
                 /\ s.chats[i].members \subseteq Logins /\ s.chats[i].by \in Seq(Logins)
                 /\ s.chats[i].lastRead \in [Logins -> Nat] /\ s.chats[i].listed \in BOOLEAN
<1>1. s.users \in SUBSET Logins /\ s.chats \in Seq(Chat) /\ s.free \in SUBSET Nat
  BY DEF Store
<1>2. /\ Len(s.chats) \in Nat /\ DOMAIN s.chats = 1 .. Len(s.chats)
      /\ \A i \in DOMAIN s.chats : s.chats[i] \in Chat
  BY <1>1, LenProperties, ElementOfSeq
<1>. QED BY <1>1, <1>2 DEF Chat

\* The id for the next chat is that of a chat that was given up, if there is one.
LEMMA NextIdIs ==
    ASSUME NEW s \in Store, FreeIs(s)
    PROVE  /\ NextId(s) \in Nat
           /\ \/ s.free # {} /\ NextId(s) \in s.free /\ NextId(s) \in DOMAIN s.chats
              \/ s.free = {} /\ NextId(s) = Len(s.chats) + 1 /\ NextId(s) \notin DOMAIN s.chats
<1>1. Len(s.chats) \in Nat /\ DOMAIN s.chats = 1 .. Len(s.chats) /\ s.free \in SUBSET Nat
  BY StoreParts
<1>2. CASE s.free = {}
  BY <1>1, <1>2 DEF NextId
<1>3. CASE s.free # {}
  <2>1. PICK m \in s.free : \A n \in s.free : m <= n
    BY <1>1, <1>3, Data!LeastNat
  <2>2. Min(s.free) \in s.free
    BY <2>1, Zenon DEF Min
  <2>3. NextId(s) = Min(s.free)
    BY <1>3, Zenon DEF NextId
  <2>. QED BY <1>1, <1>3, <2>2, <2>3 DEF FreeIs
<1>. QED BY <1>2, <1>3

\* One more chat, which is in the lists or in the set of the free ids.
LEMMA ChatAppended ==
    ASSUME NEW s \in Store, FreeIs(s), NEW chat \in Chat, NEW n,
           n = [users |-> s.users, chats |-> Append(s.chats, chat), free |-> n.free],
           \/ chat.listed /\ n.free = s.free
           \/ ~chat.listed /\ n.free = s.free \cup {Len(s.chats) + 1}
    PROVE  /\ IsGood(n) /\ n.users = s.users
           /\ DOMAIN n.chats = DOMAIN s.chats \cup {Len(s.chats) + 1}
           /\ n.chats[Len(s.chats) + 1] = chat
           /\ \A i \in DOMAIN s.chats : n.chats[i] = s.chats[i]
<1> DEFINE chats == Append(s.chats, chat)
           k == Len(s.chats) + 1
<1>1. /\ s.users \in SUBSET Logins /\ s.chats \in Seq(Chat) /\ Len(s.chats) \in Nat
      /\ DOMAIN s.chats = 1 .. Len(s.chats) /\ s.free \in SUBSET Nat
  BY StoreParts
<1>2. /\ chats \in Seq(Chat) /\ Len(chats) = k /\ chats[k] = chat
      /\ \A i \in 1 .. Len(s.chats) : chats[i] = s.chats[i]
  BY <1>1, AppendProperties
<1>3. DOMAIN chats = 1 .. k /\ 1 .. k = DOMAIN s.chats \cup {k} /\ k \notin DOMAIN s.chats
  BY <1>1, <1>2, LenProperties
<1>4. n = [users |-> s.users, chats |-> chats, free |-> n.free] /\ n.free \in SUBSET Nat
  BY <1>1
<1>. HIDE DEF chats, k
<1>5. n \in Store /\ n.users = s.users /\ n.chats = chats
  BY <1>1, <1>2, <1>4 DEF Store
<1>6. FreeIs(n)
  BY <1>1, <1>2, <1>3, <1>5 DEF FreeIs, k
<1>. QED BY <1>1, <1>2, <1>3, <1>5, <1>6 DEF IsGood, k

\* Questions that write nothing.
LEMMA QuestionRequests ==
    ASSUME NEW s, NEW r, r.type \in {"checkLogin", "checkPassword", "getUsers", "search"}
    PROVE  /\ CliHandle(s, r).store = s
           /\ CliHandle(s, r).fate \in {"reply", "empty", "silent"}
           /\ r.type \in {"checkLogin", "checkPassword"} =>
                 CliHandle(s, r).fate = "reply" /\ CliHandle(s, r).body = (r.login \in s.users)
           /\ r.type = "getUsers" =>
                 /\ CliHandle(s, r).fate # "empty"
                 /\ r.logins \subseteq s.users => CliHandle(s, r).fate = "reply"
           /\ r.type = "search" =>
                 /\ CliHandle(s, r).fate \in {"reply", "empty"}
                 /\ CliHandle(s, r).fate = "reply" => CliHandle(s, r).body \subseteq s.users
<1> DEFINE taken == r.login \in s.users
           found == r.text \cap s.users
<1>1. CASE r.type \in {"checkLogin", "checkPassword"}
  <2>1. CliHandle(s, r) = Replies(s, taken)
    BY <1>1 DEF CliHandle, Route, LoginChecked, PasswordChecked
  <2>. HIDE DEF taken
  <2>2. CliHandle(s, r).store = s /\ CliHandle(s, r).fate = "reply" /\ CliHandle(s, r).body = taken
    BY <2>1, Fates
  <2>. QED BY <1>1, <2>2 DEF taken
<1>2. CASE r.type = "getUsers"
  <2>1. CliHandle(s, r) = UsersData(s, r)
    BY <1>2 DEF CliHandle, Route
  <2>2. /\ r.logins \subseteq s.users => CliHandle(s, r) = Replies(s, r.logins)
        /\ ~(r.logins \subseteq s.users) => CliHandle(s, r) = IsSilent(s)
    BY <2>1, Zenon DEF UsersData
  <2>. QED BY <1>2, <2>2, Fates
<1>3. CASE r.type = "search"
  <2>1. CliHandle(s, r) = Found(s, r)
    BY <1>3 DEF CliHandle, Route
  <2>2. CliHandle(s, r) = Replies(s, found) \/ CliHandle(s, r) = RepliesEmpty(s)
    BY <2>1, Zenon DEF Found
  <2>. HIDE DEF found
  <2>3. /\ CliHandle(s, r).store = s
        /\ \/ CliHandle(s, r).fate = "reply" /\ CliHandle(s, r).body = found
           \/ CliHandle(s, r).fate = "empty"
    BY <2>2, Fates
  <2>. QED BY <1>3, <2>3 DEF found
<1>. QED BY <1>1, <1>2, <1>3

\* A login that is registered twice is one user.
LEMMA CreateUserRequest ==
    ASSUME NEW s \in Store, NEW r, r.type = "createUser"
    PROVE  /\ CliHandle(s, r).fate = "reply"
           /\ CliHandle(s, r).store = [s EXCEPT !.users = @ \cup {r.login}]
           /\ CliHandle(s, r).store.users = s.users \cup {r.login}
           /\ CliHandle(s, r).store.chats = s.chats /\ CliHandle(s, r).store.free = s.free
<1> DEFINE n == [s EXCEPT !.users = @ \cup {r.login}]
           yes == TRUE
<1>1. CliHandle(s, r) = Replies(n, yes)
  BY DEF CliHandle, Route, UserCreated
<1>2. n.users = s.users \cup {r.login} /\ n.chats = s.chats /\ n.free = s.free
  BY DEF Store
<1>. HIDE DEF n, yes
<1>3. CliHandle(s, r).fate = "reply" /\ CliHandle(s, r).store = n
  BY <1>1, Fates
<1>. QED BY <1>2, <1>3 DEF n

\* Signing in is answered with the chats of a user.
LEMMA RegisterRequest ==
    ASSUME NEW s, NEW r, r.type = "register"
    PROVE  /\ CliHandle(s, r).store = s
           /\ r.login \in s.users =>
                 /\ CliHandle(s, r).fate = "reply"
                 /\ CliHandle(s, r).body = [k \in DOMAIN ListOf(s, r.login) |->
                                             Packet(s, ListOf(s, r.login)[k], r.login)]
           /\ r.login \notin s.users => CliHandle(s, r).fate = "dies"
<1>1. CliHandle(s, r) = DataOf(s, r)
  BY DEF CliHandle, Route
<1>2. CASE r.login \in s.users
  <2> DEFINE body == [k \in DOMAIN ListOf(s, r.login) |-> Packet(s, ListOf(s, r.login)[k], r.login)]
  <2>1. CliHandle(s, r) = Replies(s, body)
    BY <1>1, <1>2, Zenon DEF DataOf
  <2>. HIDE DEF body
  <2>2. CliHandle(s, r).store = s /\ CliHandle(s, r).fate = "reply" /\ CliHandle(s, r).body = body
    BY <2>1, Fates
  <2>. QED BY <1>2, <2>2 DEF body
<1>3. CASE r.login \notin s.users
  <2>1. CliHandle(s, r) = DiesOf(s)
    BY <1>1, <1>3, Zenon DEF DataOf
  <2>. QED BY <1>3, <2>1, Fates
<1>. QED BY <1>2, <1>3

\* A chat with a login that is not known is given up; one under an id that was given up
\* before, or of an unknown author, ends the server.
LEMMA CreateChatRequest ==
    ASSUME NEW s, NEW r, r.type = "createChat"
    PROVE  \/ /\ ~(r.members \subseteq s.users)
              /\ CliHandle(s, r).store = Abandoned(s, r) /\ CliHandle(s, r).fate = "empty"
           \/ /\ r.members \subseteq s.users /\ s.free = {} /\ r.author \in s.users
              /\ CliHandle(s, r).store = Created(s, r) /\ CliHandle(s, r).fate = "reply"
              /\ CliHandle(s, r).body = [chat |-> NextId(s), message |-> 1]
           \/ /\ ~(s.free = {} /\ r.author \in s.users)
              /\ CliHandle(s, r).store = s /\ CliHandle(s, r).fate = "dies"
<1> DEFINE n == Created(s, r)
           ids == [chat |-> NextId(s), message |-> 1]
<1>1. CliHandle(s, r) = ChatCreated(s, r)
  BY DEF CliHandle, Route
<1>2. \/ ~(r.members \subseteq s.users) /\ CliHandle(s, r) = RepliesEmpty(Abandoned(s, r))
      \/ /\ r.members \subseteq s.users /\ s.free = {} /\ r.author \in s.users
         /\ CliHandle(s, r) = Replies(n, ids)
      \/ ~(s.free = {} /\ r.author \in s.users) /\ CliHandle(s, r) = DiesOf(s)
  BY <1>1 DEF ChatCreated
<1>. HIDE DEF n, ids
<1>3. \/ /\ ~(r.members \subseteq s.users)
         /\ CliHandle(s, r).store = Abandoned(s, r) /\ CliHandle(s, r).fate = "empty"
      \/ /\ r.members \subseteq s.users /\ s.free = {} /\ r.author \in s.users
         /\ CliHandle(s, r).store = n /\ CliHandle(s, r).fate = "reply"
         /\ CliHandle(s, r).body = ids
      \/ /\ ~(s.free = {} /\ r.author \in s.users)
         /\ CliHandle(s, r).store = s /\ CliHandle(s, r).fate = "dies"
  BY <1>2, Fates
<1>. QED BY <1>3 DEF n, ids

\* A message needs its chat and its author, or there is no packet in the answer.
LEMMA CreateMessageRequest ==
    ASSUME NEW s, NEW r, r.type = "createMessage"
    PROVE  \/ /\ r.chat \in DOMAIN s.chats /\ r.author \in s.users
              /\ CliHandle(s, r).store = [s EXCEPT !.chats[r.chat] = Added(@, r.author)]
              /\ CliHandle(s, r).fate = "reply"
              /\ CliHandle(s, r).body = Len(s.chats[r.chat].by) + 1
           \/ CliHandle(s, r).store = s /\ CliHandle(s, r).fate = "empty"
<1> DEFINE n == [s EXCEPT !.chats[r.chat] = Added(@, r.author)]
           id == Len(s.chats[r.chat].by) + 1
<1>1. CliHandle(s, r) = MessageCreated(s, r)
  BY DEF CliHandle, Route
<1>2. \/ r.chat \in DOMAIN s.chats /\ r.author \in s.users /\ CliHandle(s, r) = Replies(n, id)
      \/ CliHandle(s, r) = RepliesEmpty(s)
  BY <1>1, Zenon DEF MessageCreated
<1>. HIDE DEF n, id
<1>3. \/ /\ r.chat \in DOMAIN s.chats /\ r.author \in s.users
         /\ CliHandle(s, r).store = n /\ CliHandle(s, r).fate = "reply" /\ CliHandle(s, r).body = id
      \/ CliHandle(s, r).store = s /\ CliHandle(s, r).fate = "empty"
  BY <1>2, Fates
<1>. QED BY <1>3 DEF n, id

\* The store with a pointer that was set.
MarkedRead(s, i, u, m) == [s EXCEPT !.chats[i].lastRead[u] = m]

\* A read mark is written for any user of the store.
LEMMA SetLastReadRequest ==
    ASSUME NEW s, NEW r, r.type = "setLastRead"
    PROVE  /\ CliHandle(s, r).fate = "reply"
           /\ \/ /\ r.chat \in DOMAIN s.chats /\ r.login \in s.users
                 /\ CliHandle(s, r).store = MarkedRead(s, r.chat, r.login, r.message)
              \/ ~(r.chat \in DOMAIN s.chats /\ r.login \in s.users) /\ CliHandle(s, r).store = s
<1> DEFINE n == MarkedRead(s, r.chat, r.login, r.message)
           yes == TRUE
           no == FALSE
<1>1. CliHandle(s, r) = ReadSet(s, r)
  BY DEF CliHandle, Route
<1>2. \/ r.chat \in DOMAIN s.chats /\ r.login \in s.users /\ CliHandle(s, r) = Replies(n, yes)
      \/ /\ ~(r.chat \in DOMAIN s.chats /\ r.login \in s.users)
         /\ CliHandle(s, r) = Replies(s, no)
  BY <1>1, Zenon DEF ReadSet, MarkedRead
<1>. HIDE DEF n, yes, no
<1>3. /\ CliHandle(s, r).fate = "reply"
      /\ \/ r.chat \in DOMAIN s.chats /\ r.login \in s.users /\ CliHandle(s, r).store = n
         \/ ~(r.chat \in DOMAIN s.chats /\ r.login \in s.users) /\ CliHandle(s, r).store = s
  BY <1>2, Fates
<1>. QED BY <1>3 DEF n

-----------------------------------------------------------------------------
(* What the statements of the server make of its store.                    *)

\* A message more.
LEMMA AddedIsChat ==
    ASSUME NEW chat \in Chat, NEW u \in Logins
    PROVE  /\ Added(chat, u) \in Chat
           /\ Added(chat, u).listed = chat.listed /\ Added(chat, u).members = chat.members
           /\ Added(chat, u).by = Append(chat.by, u) /\ Added(chat, u).by # <<>>
<1> DEFINE by == Append(chat.by, u)
           n == Len(chat.by) + 1
           lastRead == [chat.lastRead EXCEPT ![u] = n]
           new == [members |-> chat.members, lastRead |-> lastRead, by |-> by,
                   listed |-> chat.listed]
<1>1. /\ chat.members \subseteq Logins /\ chat.lastRead \in [Logins -> Nat]
      /\ chat.by \in Seq(Logins) /\ chat.listed \in BOOLEAN
  BY DEF Chat
<1>2. by \in Seq(Logins) /\ Len(by) = n /\ n \in Nat /\ n # 0
  BY <1>1, AppendProperties, LenProperties
<1>3. lastRead \in [Logins -> Nat]
  BY <1>1, <1>2
<1>4. by # <<>>
  BY <1>2
<1>5. Added(chat, u) = new
  <2>1. Added(chat, u) = [chat EXCEPT !.by = by, !.lastRead = lastRead]
    BY Zenon DEF Added
  <2>. HIDE DEF by, lastRead
  <2>. QED BY <2>1 DEF Chat
<1>. HIDE DEF by, lastRead, n
<1>6. new \in Chat
  BY <1>1, <1>2, <1>3 DEF Chat
<1>. QED BY <1>4, <1>5, <1>6 DEF by

\* A new chat without messages.
LEMMA NewChatIsChat ==
    ASSUME NEW members \in SUBSET Logins
    PROVE  /\ NewChat(members) \in Chat
           /\ [NewChat(members) EXCEPT !.listed = FALSE] \in Chat
           /\ ~[NewChat(members) EXCEPT !.listed = FALSE].listed
<1>1. <<>> \in Seq(Logins) /\ [u \in Logins |-> 0] \in [Logins -> Nat]
  OBVIOUS
<1>2. NewChat(members) \in Chat
  BY <1>1 DEF NewChat, Chat
<1> DEFINE chat == NewChat(members)
<1>. HIDE DEF chat
<1>3. [chat EXCEPT !.listed = FALSE] \in Chat /\ ~[chat EXCEPT !.listed = FALSE].listed
  BY <1>2 DEF Chat, chat
<1>. QED BY <1>2, <1>3 DEF chat

\* A chat that was given up stands under an id that is free from then on.
LEMMA AbandonedIs ==
    ASSUME NEW s, IsGood(s), NEW r
    PROVE  /\ IsGood(Abandoned(s, r)) /\ Abandoned(s, r).users = s.users
           /\ DOMAIN s.chats \subseteq DOMAIN Abandoned(s, r).chats
           /\ \A i \in DOMAIN s.chats : Abandoned(s, r).chats[i] = s.chats[i]
<1> DEFINE id == NextId(s)
           chat == [NewChat({}) EXCEPT !.listed = FALSE]
           free == s.free \cup {id}
<1>1. s \in Store /\ FreeIs(s)
  BY DEF IsGood
<1>2. chat \in Chat /\ ~chat.listed
  BY NewChatIsChat
<1>3. s.free \in SUBSET Nat /\ id \in Nat
  BY <1>1, StoreParts, NextIdIs
<1>4. CASE id \in DOMAIN s.chats
  <2>1. free = s.free
    BY <1>1, <1>4, NextIdIs
  <2>2. Abandoned(s, r) = [s EXCEPT !.free = free, !.chats = s.chats]
    BY <1>4 DEF Abandoned
  <2>3. Abandoned(s, r) = s
    BY <1>1, <2>1, <2>2 DEF Store
  <2>. QED BY <2>3
<1>5. CASE id \notin DOMAIN s.chats
  <2>1. id = Len(s.chats) + 1
    BY <1>1, <1>5, NextIdIs
  <2>2. Abandoned(s, r) = [s EXCEPT !.free = free, !.chats = Append(s.chats, chat)]
    BY <1>5, Zenon DEF Abandoned
  <2>3. ~chat.listed /\ free = s.free \cup {Len(s.chats) + 1}
    BY <1>2, <2>1
  <2>. HIDE DEF free, chat, id
  <2> DEFINE n == Abandoned(s, r)
             chats == Append(s.chats, chat)
  <2>5. n = [users |-> s.users, chats |-> chats, free |-> n.free] /\ n.free = free
    <3>. HIDE DEF chats
    <3>. QED BY <1>1, <2>2 DEF Store, chats
  <2>. HIDE DEF n
  <2>6. /\ IsGood(n) /\ n.users = s.users
        /\ DOMAIN n.chats = DOMAIN s.chats \cup {Len(s.chats) + 1}
        /\ \A i \in DOMAIN s.chats : n.chats[i] = s.chats[i]
    BY <1>1, <1>2, <2>3, <2>5, ChatAppended
  <2>. QED BY <2>6 DEF n
<1>. QED BY <1>4, <1>5

\* A chat that was created is one more in the lists, with the messages of the draft.
LEMMA CreatedIs ==
    ASSUME NEW s, IsGood(s), NEW r, r.members \subseteq s.users, r.author \in s.users, r.count \in Nat
    PROVE  LET n == Created(s, r)
               k == Len(s.chats) + 1
           IN  /\ IsGood(n) /\ n.users = s.users /\ n.free = s.free
               /\ DOMAIN n.chats = DOMAIN s.chats \cup {k}
               /\ \A i \in DOMAIN s.chats : n.chats[i] = s.chats[i]
               /\ n.chats[k].listed /\ n.chats[k].members = r.members
               /\ Len(n.chats[k].by) = r.count /\ \A m \in 1 .. r.count : n.chats[k].by[m] = r.author
               /\ r.count # 0 => n.chats[k].by # <<>>
<1> DEFINE first == NewChat(r.members)
           by == [m \in 1 .. r.count |-> r.author]
           lastRead == [[u \in Logins |-> 0] EXCEPT ![r.author] = r.count]
           chat == [first EXCEPT !.by = by, !.lastRead[r.author] = r.count]
           new == [members |-> r.members, lastRead |-> lastRead, by |-> by, listed |-> TRUE]
<1>1. s \in Store /\ FreeIs(s) /\ s.users \subseteq Logins /\ s.free \in SUBSET Nat
  BY StoreParts DEF IsGood
<1>2. by \in Seq(Logins) /\ Len(by) = r.count
  BY <1>1, Data!FunctionIsSeq
<1>3. lastRead \in [Logins -> Nat]
  BY <1>1
<1>4. chat = new
  <2>1. chat = [first EXCEPT !.by = by, !.lastRead = lastRead]
    BY Zenon DEF NewChat
  <2>. HIDE DEF by, lastRead, chat
  <2>. QED BY <2>1 DEF NewChat
<1>5. new \in Chat /\ new.listed
  <2>. HIDE DEF by, lastRead
  <2>. QED BY <1>1, <1>2, <1>3 DEF Chat
<1>6. Created(s, r) = [s EXCEPT !.chats = Append(@, chat)]
  BY Zenon DEF Created
<1>7. Created(s, r) = [users |-> s.users, chats |-> Append(s.chats, new), free |-> s.free]
  <2>. HIDE DEF chat, new
  <2> DEFINE q == Append(s.chats, new)
  <2>1. Created(s, r) = [s EXCEPT !.chats = q]
    BY <1>4, <1>6
  <2>. HIDE DEF q
  <2>2. [s EXCEPT !.chats = q] = [users |-> s.users, chats |-> q, free |-> s.free]
    BY <1>1 DEF Store
  <2>. QED BY <2>1, <2>2 DEF q
<1>8. new.by = by /\ new.members = r.members /\ (r.count # 0 => by # <<>>)
  BY <1>2
<1>. HIDE DEF new, chat, by
<1> DEFINE n == Created(s, r)
           k == Len(s.chats) + 1
<1>9. n = [users |-> s.users, chats |-> Append(s.chats, new), free |-> n.free] /\ n.free = s.free
  BY <1>7
<1>10. /\ IsGood(n) /\ n.users = s.users
       /\ DOMAIN n.chats = DOMAIN s.chats \cup {k} /\ n.chats[k] = new
       /\ \A i \in DOMAIN s.chats : n.chats[i] = s.chats[i]
  <2>. HIDE DEF n
  <2>. QED BY <1>1, <1>5, <1>9, ChatAppended
<1>11. n.chats[k].by = [m \in 1 .. r.count |-> r.author]
  <2>. HIDE DEF n, k
  <2>. QED BY <1>8, <1>10, SMTT(40) DEF by
<1>. QED BY <1>5, <1>8, <1>9, <1>10, <1>11

\* A message is in a chat that is in the lists if it was, and has a message now.
LEMMA MessageRequestIs ==
    ASSUME NEW s, IsGood(s), NEW r, r.type = "createMessage", CliHandle(s, r).fate = "reply",
           NEW n, n = CliHandle(s, r).store
    PROVE  /\ IsGood(n) /\ n.users = s.users /\ n.free = s.free
           /\ CliHandle(s, r).body \in Nat /\ CliHandle(s, r).body = Len(s.chats[r.chat].by) + 1
           /\ DOMAIN n.chats = DOMAIN s.chats /\ r.chat \in DOMAIN s.chats
           /\ n.chats[r.chat].by = Append(s.chats[r.chat].by, r.author)
           /\ \A j \in DOMAIN s.chats : j # r.chat => n.chats[j] = s.chats[j]
           /\ \A j \in DOMAIN s.chats : /\ n.chats[j].listed = s.chats[j].listed
                                        /\ n.chats[j].members = s.chats[j].members
                                        /\ \/ n.chats[j].by = s.chats[j].by
                                           \/ n.chats[j].by = Append(s.chats[j].by, r.author)
                                        /\ n.chats[j].by = s.chats[j].by \/ n.chats[j].by # <<>>
<1> DEFINE i == r.chat
           u == r.author
           body == CliHandle(s, r).body
           chat == Added(s.chats[i], u)
           chats == [s.chats EXCEPT ![i] = chat]
<1>0. /\ i \in DOMAIN s.chats /\ u \in s.users /\ body = Len(s.chats[i].by) + 1
      /\ n = [s EXCEPT !.chats[i] = Added(@, u)]
  BY CreateMessageRequest
<1>. HIDE DEF i, u, body
<1>1. s \in Store /\ FreeIs(s) /\ s.chats[i] \in Chat /\ u \in Logins /\ body \in Nat
  BY <1>0, StoreParts, LenProperties DEF IsGood
<1>2. /\ chat \in Chat /\ chat.listed = s.chats[i].listed /\ chat.members = s.chats[i].members
      /\ chat.by # <<>> /\ chat.by = Append(s.chats[i].by, u)
  BY <1>1, AddedIsChat
<1>3. n = [users |-> s.users, chats |-> chats, free |-> s.free]
  <2>1. n = [s EXCEPT !.chats = chats]
    BY <1>0, Zenon
  <2>. HIDE DEF chats
  <2>. QED BY <1>1, <2>1 DEF Store
<1>. HIDE DEF chat
<1>4. /\ chats \in Seq(Chat) /\ DOMAIN chats = DOMAIN s.chats
      /\ chats[i] = chat /\ \A j \in DOMAIN s.chats : j # i => chats[j] = s.chats[j]
  BY <1>0, <1>1, <1>2, StoreParts, ExceptSeq
<1>. HIDE DEF chats
<1>5. n.users = s.users /\ n.free = s.free /\ n.chats = chats
  BY <1>3
<1>6. n \in Store
  BY <1>1, <1>3, <1>4, StoreParts DEF Store
<1>7. FreeIs(n)
  BY <1>0, <1>1, <1>2, <1>4, <1>5 DEF FreeIs
<1>. QED BY <1>0, <1>1, <1>2, <1>4, <1>5, <1>6, <1>7, Zenon DEF IsGood, body, u, i

\* A read mark changes nothing but the pointer.
LEMMA ReadRequestIs ==
    ASSUME NEW s, IsGood(s), NEW i \in DOMAIN s.chats, NEW u \in Logins, NEW m \in Nat,
           NEW n, n = MarkedRead(s, i, u, m)
    PROVE  /\ IsGood(n) /\ n.users = s.users /\ n.free = s.free
           /\ DOMAIN n.chats = DOMAIN s.chats
           /\ \A j \in DOMAIN s.chats : /\ n.chats[j].listed = s.chats[j].listed
                                        /\ n.chats[j].members = s.chats[j].members
                                        /\ n.chats[j].by = s.chats[j].by
                                        /\ j # i => n.chats[j] = s.chats[j]
           /\ n.chats[i].lastRead[u] = m
<1> DEFINE old == s.chats[i]
           lastRead == [old.lastRead EXCEPT ![u] = m]
           chat == [old EXCEPT !.lastRead = lastRead]
           chats == [s.chats EXCEPT ![i] = chat]
<1>1. s \in Store /\ FreeIs(s) /\ old \in Chat
  BY StoreParts DEF IsGood
<1>2. lastRead \in [Logins -> Nat] /\ lastRead[u] = m
  BY <1>1 DEF Chat
<1>3. n = [users |-> s.users, chats |-> chats, free |-> s.free]
  <2>1. n = [s EXCEPT !.chats = chats]
    BY Zenon DEF MarkedRead
  <2>. HIDE DEF chats
  <2>. QED BY <1>1, <2>1 DEF Store
<1>. HIDE DEF old, lastRead
<1>4. /\ chat \in Chat /\ chat.listed = old.listed /\ chat.members = old.members
      /\ chat.by = old.by /\ chat.lastRead = lastRead
  BY <1>1, <1>2 DEF Chat
<1>. HIDE DEF chat
<1>5. /\ chats \in Seq(Chat) /\ DOMAIN chats = DOMAIN s.chats
      /\ chats[i] = chat /\ \A j \in DOMAIN s.chats : j # i => chats[j] = s.chats[j]
  BY <1>1, <1>2, <1>4, StoreParts, ExceptSeq
<1>. HIDE DEF chats
<1>6. n.users = s.users /\ n.free = s.free /\ n.chats = chats
  BY <1>3
<1>7. n \in Store
  BY <1>1, <1>3, <1>5, StoreParts DEF Store
<1>8. FreeIs(n)
  BY <1>1, <1>4, <1>5, <1>6 DEF FreeIs, old
<1>. QED BY <1>2, <1>4, <1>5, <1>6, <1>7, <1>8 DEF old, IsGood

\* What the packets of an answer are.
IsBody(r, body) ==
    /\ r.type = "register" => Data!IsSeq(body) /\ \A k \in DOMAIN body : IsPacket(body[k])
    /\ r.type = "search" => body \subseteq Logins
    /\ r.type = "createChat" => body.chat \in Nat /\ body.message \in Nat
    /\ r.type = "createMessage" => body \in Nat

\* The packet of a chat.
LEMMA PacketIs ==
    ASSUME NEW s \in Store, NEW i \in DOMAIN s.chats, NEW u \in Logins
    PROVE  /\ IsPacket(Packet(s, i, u)) /\ Packet(s, i, u).members = s.chats[i].members
           /\ s.chats[i].by # <<>> => Packet(s, i, u).msgs # <<>>
<1> DEFINE chat == s.chats[i]
           msgs == Messages(chat)
           n == Len(chat.by)
<1>1. /\ chat.members \subseteq Logins /\ chat.lastRead \in [Logins -> Nat]
      /\ chat.by \in Seq(Logins) /\ i \in Nat
  BY StoreParts
<1>2. n \in Nat /\ DOMAIN chat.by = 1 .. n /\ \A k \in 1 .. n : chat.by[k] \in Logins
  BY <1>1, LenProperties, ElementOfSeq
<1>3. msgs \in [1 .. n -> Msg]
  BY <1>2 DEF Messages, Msg
<1>4. msgs \in Seq(Msg) /\ Len(msgs) = n
  <2>. HIDE DEF msgs, n
  <2>. QED BY <1>2, <1>3, Data!FunctionIsSeq
<1>5. chat.by # <<>> => msgs # <<>>
  <2>1. n = 0 => chat.by = <<>>
    BY <1>1, EmptySeq
  <2>. HIDE DEF msgs, n, chat
  <2>. QED BY <1>4, <2>1
<1>6. /\ Packet(s, i, u).id = i /\ Packet(s, i, u).members = chat.members
      /\ Packet(s, i, u).read = chat.lastRead[u] /\ Packet(s, i, u).msgs = msgs
  BY DEF Packet
<1>7. chat.lastRead[u] \in Nat
  BY <1>1
<1>. HIDE DEF msgs, chat
<1>8. IsPacket(Packet(s, i, u))
  BY <1>1, <1>4, <1>6, <1>7 DEF IsPacket
<1>. QED BY <1>5, <1>6, <1>8 DEF chat

\* The order of a key means the same here and in Lemmas.
LEMMA SameInKeyOrder ==
    \A T, n, key : Data!InKeyOrder(T, n, key) = InKeyOrder(T, n, key)
<1>1. \A q, i, e : Data!InsertAt(q, i, e) = InsertAt(q, i, e)
  BY Zenon DEF Data!InsertAt, InsertAt
<1>2. \A S : Data!Cardinality(S) = Cardinality(S)
  BY DEF Data!Cardinality, Cardinality
<1>3. \A q, k, key : Data!Inserted(q, k, key) = Inserted(q, k, key)
  BY <1>1, <1>2, Zenon DEF Data!Inserted, Inserted
<1>. QED BY <1>3, ZenonT(40) DEF Data!InKeyOrder, InKeyOrder

\* So does having no element twice.
LEMMA SameInjective == \A q : Data!IsInjective(q) <=> IsInjective(q)
BY DEF Data!IsInjective, IsInjective

\* The chats that are listed for a user, in the order of their ids.
LEMMA ListIs ==
    ASSUME NEW s \in Store, NEW u
    PROVE  LET list == ListOf(s, u)
           IN  /\ Len(list) \in Nat /\ DOMAIN list = 1 .. Len(list)
               /\ \A k \in DOMAIN list : /\ list[k] \in DOMAIN s.chats
                                         /\ s.chats[list[k]].listed /\ u \in s.chats[list[k]].members
               /\ \A i \in DOMAIN s.chats : s.chats[i].listed /\ u \in s.chats[i].members =>
                                           \E k \in DOMAIN list : list[k] = i
               /\ IsInjective(list)
<1> DEFINE list == ListOf(s, u)
           mine == {i \in DOMAIN s.chats : s.chats[i].listed /\ u \in s.chats[i].members}
           key == [i \in DOMAIN s.chats |-> i]
<1>1. Len(s.chats) \in Nat /\ DOMAIN s.chats = 1 .. Len(s.chats)
  BY StoreParts
<1>2. mine \in SUBSET (1 .. Len(s.chats))
  BY <1>1
<1>3. list = InKeyOrder(mine, Len(s.chats), key)
  BY Zenon DEF ListOf
<1>4. /\ \A i \in mine : i \in DOMAIN s.chats /\ s.chats[i].listed /\ u \in s.chats[i].members
      /\ \A i \in DOMAIN s.chats : s.chats[i].listed /\ u \in s.chats[i].members => i \in mine
  OBVIOUS
<1>. HIDE DEF mine, list, key
<1>5. list \in Seq(mine) /\ IsInjective(list) /\ \A i \in mine : Data!Lists(list, i)
  BY <1>1, <1>2, <1>3, SameInKeyOrder, SameInjective, Data!InKeyOrderIs
<1>6. Len(list) \in Nat /\ DOMAIN list = 1 .. Len(list) /\ \A k \in DOMAIN list : list[k] \in mine
  BY <1>5, LenProperties, ElementOfSeq
<1>7. \A i \in mine : \E k \in DOMAIN list : list[k] = i
  BY <1>5 DEF Data!Lists
<1>. QED BY <1>4, <1>5, <1>6, <1>7 DEF list

\* What a client gets when it signs in: a packet for each of the user's chats.
LEMMA PacketsAre ==
    ASSUME NEW s \in Store, NEW r, r.type = "register", r.login \in s.users
    PROVE  LET q == CliHandle(s, r).body
               list == ListOf(s, r.login)
           IN  /\ Data!IsSeq(q) /\ Len(q) = Len(list) /\ DOMAIN q = DOMAIN list
               /\ \A k \in DOMAIN q : /\ list[k] \in DOMAIN s.chats
                                      /\ q[k] = Packet(s, list[k], r.login)
<1> DEFINE u == r.login
           list == ListOf(s, u)
           q == [k \in DOMAIN list |-> Packet(s, list[k], u)]
<1>1. CliHandle(s, r).body = q
  BY RegisterRequest
<1>2. Len(list) \in Nat /\ DOMAIN list = 1 .. Len(list) /\ \A k \in DOMAIN list : list[k] \in DOMAIN s.chats
  BY ListIs
<1>. HIDE DEF list
<1>3. q = [k \in 1 .. Len(list) |-> q[k]] /\ DOMAIN q = DOMAIN list
  BY <1>2
<1>4. \A k \in DOMAIN q : q[k] = Packet(s, list[k], u)
  OBVIOUS
<1>. HIDE DEF q, u
<1>5. Data!IsSeq(q) /\ Len(q) = Len(list)
  BY <1>2, <1>3, Data!FunctionSeq
<1>. QED BY <1>1, <1>2, <1>3, <1>4, <1>5 DEF u, list

\* Whatever a client asks for, the store stays good; only signing in and creating a chat
\* can end the server; and an answer is what the client takes it for.
LEMMA HandleGood ==
    ASSUME NEW s, IsGood(s), NEW r, IsRequest(r)
    PROVE  /\ IsGood(CliHandle(s, r).store)
           /\ CliHandle(s, r).fate \in {"reply", "empty", "silent", "dies"}
           /\ CliHandle(s, r).fate = "dies" => r.type \in {"register", "createChat"}
           /\ CliHandle(s, r).fate = "reply" => IsBody(r, CliHandle(s, r).body)
<1> DEFINE n == CliHandle(s, r).store
           fate == CliHandle(s, r).fate
           body == CliHandle(s, r).body
<1>1. s \in Store /\ FreeIs(s) /\ s.users \subseteq Logins /\ s.free \in SUBSET Nat
  BY StoreParts DEF IsGood
<1>2. r.type \in RequestTypes
  BY DEF IsRequest
<1>3. CASE r.type \in {"checkLogin", "checkPassword", "getUsers", "search"}
  <2>1. /\ n = s /\ fate \in {"reply", "empty", "silent"}
        /\ r.type = "search" /\ fate = "reply" => body \subseteq s.users
    BY <1>3, QuestionRequests
  <2>. HIDE DEF n, fate, body
  <2>. QED BY <1>1, <1>3, <2>1 DEF IsBody, n, fate, body
<1>4. CASE r.type = "createUser"
  <2>1. /\ fate = "reply" /\ n = [s EXCEPT !.users = @ \cup {r.login}]
        /\ n.users = s.users \cup {r.login} /\ n.chats = s.chats /\ n.free = s.free
    BY <1>1, <1>4, CreateUserRequest
  <2>2. r.login \in Logins
    BY <1>4 DEF IsRequest
  <2>. HIDE DEF n, fate, body
  <2>3. n \in Store /\ FreeIs(n)
    BY <1>1, <2>1, <2>2 DEF Store, FreeIs
  <2>. QED BY <1>4, <2>1, <2>3 DEF IsBody, IsGood, n, fate, body
<1>5. CASE r.type = "register"
  <2>1. n = s /\ (r.login \in s.users \/ fate = "dies") /\ (r.login \in s.users => fate = "reply")
    BY <1>5, RegisterRequest, ZenonT(40)
  <2>2. r.login \in s.users => Data!IsSeq(body) /\ \A k \in DOMAIN body : IsPacket(body[k])
    BY <1>1, <1>5, PacketsAre, PacketIs
  <2>. HIDE DEF n, fate, body
  <2>. QED BY <1>5, <2>1, <2>2 DEF IsBody, n, fate, body
<1>6. CASE r.type = "createChat"
  <2>1. \/ n = Abandoned(s, r) /\ fate = "empty"
        \/ /\ r.members \subseteq s.users /\ r.author \in s.users
           /\ n = Created(s, r) /\ fate = "reply"
           /\ body = [chat |-> NextId(s), message |-> 1]
        \/ n = s /\ fate = "dies"
    BY <1>6, CreateChatRequest
  <2>2. IsGood(Abandoned(s, r)) /\ NextId(s) \in Nat /\ r.count \in Nat
    BY <1>1, <1>6, AbandonedIs, NextIdIs DEF IsRequest
  <2>3. r.members \subseteq s.users /\ r.author \in s.users => IsGood(Created(s, r))
    BY <2>2, CreatedIs
  <2>4. body = [chat |-> NextId(s), message |-> 1] => body.chat \in Nat /\ body.message \in Nat
    BY <2>2
  <2>. HIDE DEF n, fate, body
  <2>. QED BY <1>6, <2>1, <2>2, <2>3, <2>4 DEF IsBody, n, fate, body
<1>7. CASE r.type = "createMessage"
  <2>1. fate = "reply" \/ (n = s /\ fate = "empty")
    BY <1>7, CreateMessageRequest
  <2>2. fate = "reply" => IsGood(n) /\ body \in Nat
    BY <1>7, MessageRequestIs
  <2>. HIDE DEF n, fate, body
  <2>. QED BY <1>7, <2>1, <2>2 DEF IsBody, n, fate, body
<1>8. CASE r.type = "setLastRead"
  <2>1. /\ fate = "reply"
        /\ \/ /\ r.chat \in DOMAIN s.chats /\ r.login \in s.users
              /\ n = MarkedRead(s, r.chat, r.login, r.message)
           \/ n = s
    BY <1>8, SetLastReadRequest
  <2> DEFINE read == MarkedRead(s, r.chat, r.login, r.message)
  <2>2. r.chat \in DOMAIN s.chats /\ r.login \in s.users => IsGood(read)
    BY <1>1, <1>8, ReadRequestIs DEF IsRequest
  <2>. HIDE DEF n, fate, body, read
  <2>. QED BY <1>8, <2>1, <2>2 DEF IsBody, n, fate, body, read
<1>. QED BY <1>2, <1>3, <1>4, <1>5, <1>6, <1>7, <1>8 DEF RequestTypes

\* A request of a client that is right about the users.
Knows(s, r) ==
    /\ r.type = "register" => r.login \in s.users
    /\ r.type = "getUsers" => r.logins \subseteq s.users
    /\ r.type = "createChat" => r.members \subseteq s.users /\ r.author \in s.users /\ r.count # 0

\* Such a request gets its answer from a settled store, and leaves it settled; without
\* packets are only a search and the answer for a message.
LEMMA HandleSettled ==
    ASSUME NEW s, IsGood(s), Settled(s), NEW r, IsRequest(r), Knows(s, r)
    PROVE  /\ Settled(CliHandle(s, r).store) /\ s.users \subseteq CliHandle(s, r).store.users
           /\ \/ CliHandle(s, r).fate = "reply"
              \/ CliHandle(s, r).fate = "empty" /\ r.type \in {"search", "createMessage"}
           /\ r.type = "createUser" => r.login \in CliHandle(s, r).store.users
           /\ r.type = "register" =>
                 \A k \in DOMAIN CliHandle(s, r).body :
                    /\ CliHandle(s, r).body[k].members \subseteq s.users
                    /\ CliHandle(s, r).body[k].msgs # <<>>
<1> DEFINE n == CliHandle(s, r).store
           fate == CliHandle(s, r).fate
           body == CliHandle(s, r).body
<1>1. /\ s \in Store /\ FreeIs(s) /\ s.users \subseteq Logins /\ s.free = {}
      /\ \A i \in DOMAIN s.chats : /\ s.chats[i].listed
                                   /\ s.chats[i].members \subseteq s.users
                                   /\ s.chats[i].by # <<>>
  BY StoreParts DEF IsGood, Settled
<1>2. r.type \in RequestTypes
  BY DEF IsRequest
<1>3. CASE r.type \in {"checkLogin", "checkPassword", "getUsers", "search"}
  <2>1. /\ n = s /\ (r.type = "search" => fate \in {"reply", "empty"})
        /\ r.type # "search" => fate = "reply"
    BY <1>3, QuestionRequests DEF Knows
  <2>. HIDE DEF n, fate, body
  <2>. QED BY <1>3, <2>1 DEF n, fate, body
<1>4. CASE r.type = "createUser"
  <2>1. /\ fate = "reply" /\ n.users = s.users \cup {r.login}
        /\ n.chats = s.chats /\ n.free = s.free
    BY <1>1, <1>4, CreateUserRequest, ZenonT(40)
  <2>. HIDE DEF n, fate, body
  <2>2. Settled(n)
    BY <1>1, <2>1 DEF Settled
  <2>. QED BY <1>4, <2>1, <2>2 DEF n, fate, body
<1>5. CASE r.type = "register"
  <2>1. n = s /\ fate = "reply"
    BY <1>5, RegisterRequest, ZenonT(40) DEF Knows
  <2>2. \A k \in DOMAIN body : body[k].members \subseteq s.users /\ body[k].msgs # <<>>
    <3>1. r.login \in s.users /\ r.login \in Logins
      BY <1>1, <1>5 DEF Knows
    <3>2. \A k \in DOMAIN body : \E i \in DOMAIN s.chats : body[k] = Packet(s, i, r.login)
      BY <1>1, <1>5, <3>1, PacketsAre
    <3>. HIDE DEF body
    <3>. QED BY <1>1, <3>1, <3>2, PacketIs
  <2>. HIDE DEF n, fate, body
  <2>. QED BY <1>5, <2>1, <2>2 DEF n, fate, body
<1>6. CASE r.type = "createChat"
  <2>1. r.members \subseteq s.users /\ r.author \in s.users /\ r.count # 0 /\ r.count \in Nat
    BY <1>6 DEF Knows, IsRequest
  <2>2. n = Created(s, r) /\ fate = "reply"
    BY <1>1, <1>6, <2>1, CreateChatRequest
  <2> DEFINE k == Len(s.chats) + 1
  <2>3. /\ n.users = s.users /\ n.free = s.free
        /\ DOMAIN n.chats = DOMAIN s.chats \cup {k}
        /\ \A i \in DOMAIN s.chats : n.chats[i] = s.chats[i]
        /\ n.chats[k].listed /\ n.chats[k].members = r.members
        /\ n.chats[k].by # <<>>
    BY <2>1, <2>2, CreatedIs
  <2>. HIDE DEF n, fate, body, k
  <2>4. Settled(n)
    BY <1>1, <2>1, <2>3 DEF Settled
  <2>. QED BY <1>6, <2>2, <2>3, <2>4 DEF n, fate, body
<1>7. CASE r.type = "createMessage"
  <2>1. fate = "reply" \/ (n = s /\ fate = "empty")
    BY <1>7, CreateMessageRequest
  <2>2. fate = "reply" =>
           /\ n.users = s.users /\ n.free = s.free
           /\ DOMAIN n.chats = DOMAIN s.chats
           /\ \A j \in DOMAIN s.chats :
                 /\ n.chats[j].listed = s.chats[j].listed
                 /\ n.chats[j].members = s.chats[j].members
                 /\ n.chats[j].by = s.chats[j].by \/ n.chats[j].by # <<>>
    BY <1>7, MessageRequestIs, SMTT(40)
  <2>. HIDE DEF n, fate, body
  <2>3. fate = "reply" => Settled(n)
    BY <1>1, <2>2 DEF Settled
  <2>. QED BY <1>7, <2>1, <2>2, <2>3 DEF n, fate, body
<1>8. CASE r.type = "setLastRead"
  <2>1. /\ fate = "reply"
        /\ \/ /\ r.chat \in DOMAIN s.chats /\ r.login \in s.users
              /\ n = MarkedRead(s, r.chat, r.login, r.message)
           \/ n = s
    BY <1>8, SetLastReadRequest
  <2> DEFINE read == MarkedRead(s, r.chat, r.login, r.message)
  <2>2. r.chat \in DOMAIN s.chats /\ r.login \in s.users =>
           /\ read.users = s.users /\ read.free = s.free
           /\ DOMAIN read.chats = DOMAIN s.chats
           /\ \A j \in DOMAIN s.chats :
                 /\ read.chats[j].listed = s.chats[j].listed
                 /\ read.chats[j].members = s.chats[j].members
                 /\ read.chats[j].by = s.chats[j].by
    BY <1>1, <1>8, ReadRequestIs, SMTT(40) DEF IsRequest
  <2>. HIDE DEF n, fate, body, read
  <2>3. r.chat \in DOMAIN s.chats /\ r.login \in s.users => Settled(read)
    BY <1>1, <2>2 DEF Settled
  <2>. QED BY <1>8, <2>1, <2>2, <2>3 DEF n, fate, body, read
<1>. QED BY <1>2, <1>3, <1>4, <1>5, <1>6, <1>7, <1>8 DEF RequestTypes

\* A store has what it has.
LEMMA SameGrows == ASSUME NEW s \in Store PROVE Grows(s, s)
<1>1. \A i \in DOMAIN s.chats : Len(s.chats[i].by) \in Nat
  BY StoreParts, LenProperties
<1>. QED BY <1>1 DEF Grows, Extends

\* No request takes anything from the store.
LEMMA HandleGrows ==
    ASSUME NEW s, IsGood(s), NEW r, IsRequest(r)
    PROVE  Grows(s, CliHandle(s, r).store)
<1> DEFINE n == CliHandle(s, r).store
<1>1. s \in Store /\ FreeIs(s) /\ r.type \in RequestTypes /\ Grows(s, s)
  BY SameGrows DEF IsGood, IsRequest
<1>2. \A i \in DOMAIN s.chats : Len(s.chats[i].by) \in Nat /\ Extends(s.chats[i].by, s.chats[i].by)
  BY <1>1, StoreParts, LenProperties DEF Extends
<1>3. CASE r.type \in {"checkLogin", "checkPassword", "getUsers", "search", "register"}
  <2>1. r.type # "register" => n = s
    BY <1>3, QuestionRequests
  <2>2. r.type = "register" => n = s
    BY RegisterRequest
  <2>. HIDE DEF n
  <2>3. Grows(s, n)
    BY <1>1, <2>1, <2>2
  <2>. QED BY <2>3 DEF n
<1>4. CASE r.type = "createUser"
  <2>1. n.users = s.users \cup {r.login} /\ n.chats = s.chats
    BY <1>1, <1>4, CreateUserRequest
  <2>. HIDE DEF n
  <2>2. Grows(s, n)
    BY <1>2, <2>1 DEF Grows
  <2>. QED BY <2>2 DEF n
<1>5. CASE r.type = "createChat"
  <2>1. \/ n = Abandoned(s, r)
        \/ r.members \subseteq s.users /\ r.author \in s.users /\ n = Created(s, r)
        \/ n = s
    BY <1>5, CreateChatRequest
  <2> DEFINE k == Created(s, r)
  <2>2. /\ Abandoned(s, r).users = s.users
        /\ DOMAIN s.chats \subseteq DOMAIN Abandoned(s, r).chats
        /\ \A i \in DOMAIN s.chats : Abandoned(s, r).chats[i] = s.chats[i]
    BY AbandonedIs
  <2>3. r.members \subseteq s.users /\ r.author \in s.users =>
           /\ k.users = s.users /\ DOMAIN k.chats = DOMAIN s.chats \cup {Len(s.chats) + 1}
           /\ \A i \in DOMAIN s.chats : k.chats[i] = s.chats[i]
    BY <1>5, CreatedIs DEF IsRequest
  <2>. HIDE DEF n, k
  <2>4. Grows(s, Abandoned(s, r))
    BY <1>2, <2>2 DEF Grows
  <2>5. r.members \subseteq s.users /\ r.author \in s.users => Grows(s, k)
    BY <1>2, <2>3 DEF Grows
  <2>6. Grows(s, n)
    BY <1>1, <2>1, <2>4, <2>5 DEF k
  <2>. QED BY <2>6 DEF n
<1>6. CASE r.type = "createMessage"
  <2>1. \/ CliHandle(s, r).fate = "reply" /\ r.author \in s.users
        \/ n = s
    BY <1>6, CreateMessageRequest
  <2>2. CliHandle(s, r).fate = "reply" =>
           /\ n.users = s.users /\ DOMAIN n.chats = DOMAIN s.chats
           /\ \A j \in DOMAIN s.chats :
                 /\ n.chats[j].listed = s.chats[j].listed
                 /\ n.chats[j].members = s.chats[j].members
                 /\ \/ n.chats[j].by = s.chats[j].by
                    \/ n.chats[j].by = Append(s.chats[j].by, r.author)
    BY <1>6, MessageRequestIs, SMTT(40)
  <2>. HIDE DEF n
  <2>3. r.author \in s.users =>
           \A j \in DOMAIN s.chats : Extends(s.chats[j].by, Append(s.chats[j].by, r.author))
    <3>. SUFFICES ASSUME r.author \in s.users, NEW j \in DOMAIN s.chats
                  PROVE  Extends(s.chats[j].by, Append(s.chats[j].by, r.author))
      OBVIOUS
    <3>1. s.chats[j].by \in Seq(Logins) /\ r.author \in Logins
      BY <1>1, StoreParts
    <3>. QED BY <3>1, AppendProperties, LenProperties DEF Extends
  <2>4. CliHandle(s, r).fate = "reply" /\ r.author \in s.users => Grows(s, n)
    BY <1>2, <2>2, <2>3 DEF Grows
  <2>5. Grows(s, n)
    BY <1>1, <2>1, <2>4
  <2>. QED BY <2>5 DEF n
<1>7. CASE r.type = "setLastRead"
  <2> DEFINE read == MarkedRead(s, r.chat, r.login, r.message)
  <2>1. (r.chat \in DOMAIN s.chats /\ r.login \in s.users /\ n = read) \/ n = s
    BY <1>7, SetLastReadRequest
  <2>2. r.chat \in DOMAIN s.chats /\ r.login \in s.users =>
           /\ read.users = s.users /\ DOMAIN read.chats = DOMAIN s.chats
           /\ \A j \in DOMAIN s.chats :
                 /\ read.chats[j].listed = s.chats[j].listed
                 /\ read.chats[j].members = s.chats[j].members
                 /\ read.chats[j].by = s.chats[j].by
    <3>1. s.users \subseteq Logins /\ r.message \in Nat
      BY <1>1, <1>7, StoreParts DEF IsRequest
    <3>. QED BY <3>1, ReadRequestIs
  <2>. HIDE DEF n, read
  <2>3. r.chat \in DOMAIN s.chats /\ r.login \in s.users => Grows(s, read)
    BY <1>2, <2>2 DEF Grows
  <2>4. Grows(s, n)
    BY <1>1, <2>1, <2>3
  <2>. QED BY <2>4 DEF n
<1>. QED BY <1>1, <1>3, <1>4, <1>5, <1>6, <1>7 DEF RequestTypes

-----------------------------------------------------------------------------
(* The server's side of every step.                                        *)

\* What the server knows after its start.
LEMMA SeedIsGood == IsGood(Seed) /\ Settled(Seed)
BY SeedAssumption DEF IsGood, FreeIs, Settled

\* The parts of the server's record.
LEMMA ServerParts ==
    ASSUME ServerInv
    PROVE  /\ server.up \in BOOLEAN /\ IsGood(server.store) /\ server.ended \in Endings
           /\ stops \in Nat /\ MaxStops \in Nat /\ MaxWrites \in Nat /\ MaxTries \in Nat
           /\ DOMAIN link = Clients /\ \A c \in Clients : link[c] \in C!Links
BY BoundsAssumption DEF ServerInv, IsGood

\* The end of the server leaves the seed, whatever was written.
LEMMA EndsKeeps ==
    ASSUME ServerInv, NEW how \in Endings, NEW after, C!ServerEnds(how, after)
    PROVE  /\ ServerInv' /\ server'.ended = how /\ stops' = stops + 1
           /\ UNCHANGED client /\ stale' = Clients
<1>1. /\ server' = [up |-> FALSE, store |-> Seed, ended |-> how] /\ stops' = stops + 1
      /\ server.up /\ slot' = C!None /\ UNCHANGED <<client, writes>> /\ stale' = Clients
      /\ link' \in [Clients -> C!Links]
  BY DEF C!ServerEnds
<1>2. stops' \in 0 .. MaxStops + 1
  BY <1>1, ServerParts DEF ServerInv
<1>3. server' \in [up : BOOLEAN, store : Store, ended : Endings]
  BY <1>1, SeedIsGood DEF IsGood
<1>4. server'.store = Seed /\ ~server'.up /\ server'.ended = how
  BY <1>1
<1>5. FreeIs(server'.store)
  BY <1>4, SeedIsGood DEF IsGood
<1>. QED BY <1>1, <1>2, <1>3, <1>4, <1>5 DEF ServerInv

\* A request that gets through leaves what the server makes of it.
LEMMA ServedKeeps ==
    ASSUME ServerInv, NEW c \in Clients, NEW r, IsRequest(r), C!Served(c, r),
           NEW l \in C!Links, link' = [link EXCEPT ![c] = l]
    PROVE  /\ ServerInv'
           /\ server'.store = CliHandle(server.store, r).store
           /\ server'.up = server.up /\ server'.ended = server.ended /\ stops' = stops
           /\ link'[c] = l /\ \A d \in Clients \ {c} : link'[d] = link[d]
<1> DEFINE n == CliHandle(server.store, r).store
           more == IF C!Creates(r) THEN 1 ELSE 0
<1>1. /\ server' = [server EXCEPT !.store = n] /\ stops' = stops /\ slot' = c
      /\ writes' = writes + more /\ writes' <= MaxWrites
  BY DEF C!Served, C!Reply
<1>2. n \in Store /\ FreeIs(n)
  BY ServerParts, HandleGood DEF IsGood
<1>3. more \in Nat
  OBVIOUS
<1>. HIDE DEF n, more
<1>4. /\ server' \in [up : BOOLEAN, store : Store, ended : Endings]
      /\ server'.up = server.up /\ server'.ended = server.ended /\ server'.store = n
  BY <1>1, <1>2 DEF ServerInv
<1>5. /\ link' \in [Clients -> C!Links] /\ link'[c] = l
      /\ \A d \in Clients \ {c} : link'[d] = link[d]
  BY DEF ServerInv
<1>6. writes' \in 0 .. MaxWrites
  BY <1>1, <1>3, ServerParts DEF ServerInv
<1>7. ServerInv'
  BY <1>1, <1>2, <1>4, <1>5, <1>6 DEF ServerInv
<1>. QED BY <1>1, <1>4, <1>5, <1>7 DEF n

\* Sockets stay sockets when recv or connect fails.
LEMMA FailuresAreLinks ==
    ASSUME NEW l \in {"offline", "cut", "hung", "refused", "reset"}
    PROVE  C!NextFailure[l] \in C!Links
BY DEF C!NextFailure, C!Links

\* Client c sends r, and may get no further than that; or it sends nothing.
Talks(c, r) == \/ C!NoRequest
               \/ C!Answered(c, r) /\ stale' \subseteq stale /\ stale \ {c} \subseteq stale'
               \/ C!Unanswered(c, r)
               \/ C!Hangs(c, r)

\* The step does not end the server, or counts that it does.
Counted == \/ stops' = stops /\ server'.ended = server.ended
           \/ stops' = stops + 1

\* Whatever comes of a request.
LEMMA TalkKeeps ==
    ASSUME ServerInv, stale \subseteq Clients, NEW c \in Clients, NEW r, IsRequest(r), Talks(c, r)
    PROVE  ServerInv' /\ Counted /\ stale' \subseteq Clients
<1>1. CASE C!NoRequest
  BY <1>1 DEF C!NoRequest, ServerInv, Counted
<1>2. CASE C!Answered(c, r) /\ stale' \subseteq stale
  <2>1. C!Served(c, r) /\ link' = [link EXCEPT ![c] = "ok"]
    BY <1>2 DEF C!Answered, C!Connected
  <2>. QED BY <1>2, <2>1, ServedKeeps DEF Counted, C!Links
<1>3. CASE C!Unanswered(c, r)
  <2>1. CASE C!Served(c, r) /\ link' = [link EXCEPT ![c] = "ok"] /\ UNCHANGED stale
    BY <2>1, ServedKeeps DEF Counted, C!Links
  <2>2. CASE /\ link[c] \in {"offline", "cut", "hung", "refused", "reset"}
             /\ link' = [link EXCEPT ![c] = C!NextFailure[@]]
             /\ UNCHANGED <<server, slot, stops, writes, stale>>
    <3> DEFINE l == C!NextFailure[link[c]]
    <3>1. l \in C!Links
      BY <2>2, FailuresAreLinks
    <3>2. link' = [link EXCEPT ![c] = l]
      BY <2>2
    <3>. HIDE DEF l
    <3>3. link' \in [Clients -> C!Links]
      BY <3>1, <3>2 DEF ServerInv
    <3>. QED BY <2>2, <3>3 DEF ServerInv, Counted
  <2>. QED BY <1>3, <2>1, <2>2 DEF C!Unanswered, C!Connected
<1>4. CASE C!Hangs(c, r)
  <2>1. CASE C!Served(c, r) /\ link' = [link EXCEPT ![c] = "asked"] /\ UNCHANGED stale
    BY <2>1, ServedKeeps DEF Counted, C!Links
  <2>2. CASE /\ C!Reply(r).fate \in {"dies", "undefined"}
             /\ \E after : C!ServerEnds(r.type, after)
    <3>1. r.type \in Endings
      BY <2>2, ServerParts, HandleGood DEF C!Reply, Endings
    <3>. QED BY <2>2, <3>1, EndsKeeps DEF Counted
  <2>3. CASE C!NoRequest
    BY <2>3 DEF C!NoRequest, ServerInv, Counted
  <2>. QED BY <1>4, <2>1, <2>2, <2>3 DEF C!Hangs
<1>. QED BY <1>1, <1>2, <1>3, <1>4 DEF Talks

\* A store that is asked, and goes on, has what it had.
LEMMA TalkGrows ==
    ASSUME ServerInv, NEW c \in Clients, NEW r, IsRequest(r), Talks(c, r)
    PROVE  Kept
<1>1. server.store \in Store /\ IsGood(server.store) /\ Grows(server.store, server.store)
  BY ServerParts, SameGrows DEF IsGood
<1>2. ASSUME C!Served(c, r), NEW l \in C!Links, link' = [link EXCEPT ![c] = l]
      PROVE  Kept
  <2>1. server'.store = CliHandle(server.store, r).store
    BY <1>2, ServedKeeps
  <2>. QED BY <1>1, <2>1, HandleGrows DEF Kept
<1>3. server' = server => Kept
  BY <1>1 DEF Kept
<1>4. CASE C!NoRequest
  BY <1>3, <1>4 DEF C!NoRequest
<1>5. CASE C!Answered(c, r)
  BY <1>2, <1>5 DEF C!Answered, C!Connected, C!Links
<1>6. CASE C!Unanswered(c, r)
  BY <1>2, <1>3, <1>6 DEF C!Unanswered, C!Connected, C!Links
<1>7. CASE C!Hangs(c, r)
  <2>1. (\E after : C!ServerEnds(r.type, after)) => Kept
    BY DEF C!ServerEnds, Kept
  <2>. QED BY <1>2, <1>4, <1>7, <2>1 DEF C!Hangs, C!Links
<1>. QED BY <1>4, <1>5, <1>6, <1>7 DEF Talks

\* While one client is in the slot, no other is served.
LEMMA TalkApart ==
    ASSUME ServerInv, stale \subseteq Clients, NEW c \in Clients, NEW r, Talks(c, r),
           NEW d \in Clients \ {c}
    PROVE  /\ d \in stale => d \in stale'
           /\ slot = d => server' = server /\ slot' = slot /\ link'[d] = link[d]
<1>1. slot = d => slot \notin {C!None, c}
  BY ClientsAssumption DEF C!None
<1>2. slot = d => ~C!Served(c, r) /\ ~C!Reaches(c)
  BY <1>1 DEF C!Served, C!Reaches, C!Accepts
<1>3. link \in [Clients -> C!Links]
  BY DEF ServerInv
<1>4. CASE C!NoRequest
  BY <1>4 DEF C!NoRequest
<1>5. CASE C!Answered(c, r) /\ stale \ {c} \subseteq stale'
  BY <1>2, <1>5 DEF C!Answered
<1>6. CASE C!Unanswered(c, r)
  BY <1>2, <1>3, <1>6 DEF C!Unanswered
<1>7. CASE C!Hangs(c, r)
  BY <1>2, <1>7 DEF C!Hangs, C!ServerEnds, C!NoRequest
<1>. QED BY <1>4, <1>5, <1>6, <1>7 DEF Talks

\* What the answer to a request is.
LEMMA AnswerIs ==
    ASSUME ServerInv, NEW c \in Clients, NEW r, IsRequest(r), C!Answered(c, r)
    PROVE  IsBody(r, C!Reply(r).body)
<1>1. CliHandle(server.store, r).fate = "reply" /\ C!Reply(r) = CliHandle(server.store, r)
  BY DEF C!Answered, C!Reply
<1>. QED BY <1>1, ServerParts, HandleGood

\* Before the server ends for the first time a request that is right about the users is
\* answered, with packets unless it is a search or a message; and the users only grow.
LEMMA TalkCalm ==
    ASSUME ServerInv, Calm, NEW c \in Clients, NEW r, IsRequest(r), Knows(server.store, r),
           Talks(c, r)
    PROVE  /\ server'.up /\ server'.ended = C!None /\ stops' = stops
           /\ Settled(server'.store) /\ server.store.users \subseteq server'.store.users
           /\ \A d \in Clients : link'[d] \in {"none", "ok"}
           /\ ~C!Hangs(c, r)
           /\ C!Unanswered(c, r) => r.type \in {"search", "createMessage"}
           /\ C!Answered(c, r) => server'.store = CliHandle(server.store, r).store
<1> DEFINE s == server.store
           n == CliHandle(s, r).store
           fate == CliHandle(s, r).fate
<1>1. /\ Settled(n) /\ s.users \subseteq n.users
      /\ fate = "reply" \/ (fate = "empty" /\ r.type \in {"search", "createMessage"})
  <2>1. IsGood(s) /\ Settled(s) /\ IsRequest(r) /\ Knows(s, r)
    BY ServerParts DEF Calm
  <2>. HIDE DEF s
  <2>. QED BY <2>1, HandleSettled
<1>2. /\ server.up /\ server.ended = C!None /\ Settled(s)
      /\ \A d \in Clients : link[d] \in {"none", "ok"}
  BY DEF Calm
<1>3. C!Reply(r).fate = fate
  BY DEF C!Reply
<1>4. ASSUME C!Served(c, r), link' = [link EXCEPT ![c] = "ok"]
      PROVE  /\ server'.up /\ server'.ended = C!None /\ stops' = stops
             /\ server'.store = n /\ \A d \in Clients : link'[d] \in {"none", "ok"}
  BY <1>2, <1>4, ServedKeeps, ZenonT(40) DEF C!Links
<1>. HIDE DEF n, fate
<1>5. ~C!Hangs(c, r)
  BY <1>1, <1>2, <1>3 DEF C!Hangs
<1>6. C!Answered(c, r) => C!Served(c, r) /\ link' = [link EXCEPT ![c] = "ok"]
  BY DEF C!Answered, C!Connected
<1>7. C!Unanswered(c, r) => C!Served(c, r) /\ link' = [link EXCEPT ![c] = "ok"] /\ fate = "empty"
  BY <1>2, <1>3 DEF C!Unanswered, C!Connected
<1>8. C!NoRequest => /\ server'.up /\ server'.ended = C!None /\ stops' = stops
                     /\ server'.store = s /\ \A d \in Clients : link'[d] \in {"none", "ok"}
  BY <1>2 DEF C!NoRequest
<1>9. \/ C!NoRequest
      \/ C!Answered(c, r)
      \/ C!Unanswered(c, r)
  BY <1>5 DEF Talks
<1>10. C!Unanswered(c, r) => r.type \in {"search", "createMessage"}
  BY <1>1, <1>7
<1>11. C!Answered(c, r) => server'.store = n
  BY <1>4, <1>6
<1>12. C!Unanswered(c, r) => server'.store = n
  BY <1>4, <1>7
<1>13. /\ server'.up /\ server'.ended = C!None /\ stops' = stops
       /\ \A d \in Clients : link'[d] \in {"none", "ok"}
       /\ server'.store \in {n, s}
  BY <1>4, <1>6, <1>7, <1>8, <1>9
<1>. QED BY <1>1, <1>2, <1>5, <1>10, <1>11, <1>13 DEF n, s

-----------------------------------------------------------------------------
(* The clients' side.                                                      *)

\* A client without a process, and one that has died.
LEMMA OffIsTyped ==
    /\ IsTyped(C!Off) /\ C!Off.menu = "off" /\ C!Off.why = C!None /\ C!Off.copy = <<>>
    /\ C!Off.at = 0 /\ C!Off.known = {} /\ C!Off.user = C!None /\ C!Off.draft = C!NoDraft
    /\ C!NoDraft \in [members : SUBSET Logins, alone : BOOLEAN, tries : 0 .. MaxTries]
    /\ C!NoDraft.tries = 0 /\ C!NoDraft.members = {}
<1>1. DOMAIN C!Off = ClientFields
  BY DEF C!Off, ClientFields
<1>2. /\ C!Off.menu = "off" /\ C!Off.why = C!None /\ C!Off.copy = <<>> /\ C!Off.user = C!None
      /\ C!Off.at = 0 /\ C!Off.known = {} /\ C!Off.draft = C!NoDraft
  BY DEF C!Off
<1>3. /\ C!NoDraft \in [members : SUBSET Logins, alone : BOOLEAN, tries : 0 .. MaxTries]
      /\ C!NoDraft.tries = 0 /\ C!NoDraft.members = {}
  BY BoundsAssumption DEF C!NoDraft
<1>4. Data!IsSeq(<<>>) /\ DOMAIN <<>> = {} /\ Len(<<>>) = 0
  BY DEF Data!IsSeq
<1>5. C!IsClient(C!Off)
  BY <1>2, <1>3, <1>4 DEF C!IsClient, C!Menus
<1>6. IsTyped(C!Off)
  BY <1>1, <1>2, <1>3, <1>4, <1>5 DEF IsTyped, LoggedIn, LoggedOut
<1>. QED BY <1>2, <1>3, <1>6

\* Such a client has nothing that the store could contradict.
LEMMA OffIsCurrent == \A s : IsCurrent(s, C!Off)
  BY OffIsTyped DEF IsCurrent, LoggedIn

\* A client that has died is well typed.
LEMMA DeadIsTyped ==
    ASSUME NEW why
    PROVE  LET dead == [C!Off EXCEPT !.menu = "dead", !.why = why]
           IN  IsTyped(dead) /\ (why = "sender" => \A s : IsCurrent(s, dead))
<1> DEFINE off == C!Off
           dead == [off EXCEPT !.menu = "dead", !.why = why]
<1>1. /\ IsTyped(off) /\ off.menu = "off" /\ off.copy = <<>>
      /\ off.at = 0 /\ off.known = {} /\ off.draft.tries = 0 /\ off.draft.members = {}
  BY OffIsTyped
<1>. HIDE DEF off
<1>2. DOMAIN off = ClientFields
  BY <1>1 DEF IsTyped
<1>3. /\ DOMAIN dead = ClientFields /\ dead.menu = "dead" /\ dead.why = why
      /\ dead.copy = off.copy /\ dead.user = off.user
      /\ dead.at = off.at /\ dead.known = off.known /\ dead.draft = off.draft
  BY <1>2, Zenon DEF ClientFields
<1>. HIDE DEF dead
<1>4. IsTyped(dead)
  BY <1>1, <1>3 DEF IsTyped, C!IsClient, C!Menus, LoggedIn, LoggedOut
<1>5. why = "sender" => \A s : IsCurrent(s, dead)
  BY <1>1, <1>3 DEF IsCurrent, LoggedIn
<1>. QED BY <1>4, <1>5 DEF dead, off

\* What a client has stays true when users come to the store.
LEMMA CurrentStays ==
    ASSUME NEW s, NEW n, s.users \subseteq n.users, NEW me, IsCurrent(s, me)
    PROVE  IsCurrent(n, me)
  BY DEF IsCurrent

\* Client c becomes one that is well typed, and right about the store until the server
\* ends for the first time; or it stays as it is.
Moves(c) ==
    \/ UNCHANGED client
    \/ \E rec : /\ C!Is(c, rec) /\ IsTyped(rec)
                /\ stops = 0 => IsCurrent(server'.store, rec)

\* A client may follow a null pointer once the server has ended, or while it loads.
LEMMA DiesMoves ==
    ASSUME NEW c, NEW why, C!Dies(c, why), stops = 0 => why = "sender"
    PROVE  Moves(c)
<1> DEFINE dead == [C!Off EXCEPT !.menu = "dead", !.why = why]
<1>1. C!Is(c, dead)
  BY Zenon DEF C!Dies
<1>2. IsTyped(dead) /\ (why = "sender" => \A s : IsCurrent(s, dead))
  BY DeadIsTyped
<1>. HIDE DEF dead
<1>. QED BY <1>1, <1>2 DEF Moves

\* A step in which a request hangs is one that Moves allows.
LEMMA HangsMoves ==
    ASSUME ServerInv, CalmInv, NEW c \in Clients, NEW r, IsRequest(r),
           stops = 0 => Knows(server.store, r), C!Hangs(c, r)
    PROVE  Moves(c)
<1>1. stops # 0
  BY TalkCalm DEF CalmInv, Talks
<1>2. UNCHANGED client \/ C!Dies(c, "pipe")
  BY DEF C!Hangs, C!ServerEnds
<1>. QED BY <1>1, <1>2, DiesMoves DEF Moves

\* A step of a client is a request and a change of its own record.
LEMMA StepKeeps ==
    ASSUME CliInv, NEW c \in Clients, NEW r, IsRequest(r), Talks(c, r),
           stops = 0 => Knows(server.store, r), Moves(c)
    PROVE  CliInv' /\ Kept /\ Apart(c)
<1>0. ServerInv /\ ClientsInv /\ CalmInv
  BY DEF CliInv
<1>1. ServerInv' /\ Counted /\ stale' \subseteq Clients
  BY <1>0, TalkKeeps DEF ClientsInv
<1>2. PICK rec : \/ UNCHANGED client
                 \/ /\ C!Is(c, rec) /\ IsTyped(rec)
                    /\ stops = 0 => IsCurrent(server'.store, rec)
  BY DEF Moves
<1>3. C!Is(c, rec) => /\ DOMAIN client' = Clients /\ client'[c] = rec
                      /\ \A d \in Clients \ {c} : client'[d] = client[d]
  BY <1>0, Zenon DEF C!Is, ClientsInv
<1>4. /\ DOMAIN client' = Clients
      /\ \A d \in Clients \ {c} : client'[d] = client[d]
      /\ \/ client'[c] = client[c]
         \/ /\ client'[c] = rec /\ IsTyped(rec)
            /\ stops = 0 => IsCurrent(server'.store, rec)
  BY <1>0, <1>2, <1>3 DEF ClientsInv
<1>5. ClientsInv'
  BY <1>0, <1>1, <1>4 DEF ClientsInv
<1>6. Kept /\ Apart(c)
  <2>1. Kept
    BY <1>0, TalkGrows
  <2>2. Apart(c)
    BY <1>0, <1>4, TalkApart DEF Apart, ClientsInv
  <2>. QED BY <2>1, <2>2
<1>7. CASE stops = 0
  <2>1. Calm
    BY <1>0, <1>7 DEF CalmInv
  <2>2. /\ server'.up /\ server'.ended = C!None /\ stops' = 0
        /\ Settled(server'.store) /\ server.store.users \subseteq server'.store.users
        /\ \A d \in Clients : link'[d] \in {"none", "ok"}
    BY <1>0, <1>7, <2>1, TalkCalm
  <2>3. \A d \in Clients : IsCurrent(server'.store, client[d])
    BY <2>1, <2>2, CurrentStays DEF Calm
  <2>4. \A d \in Clients : IsCurrent(server'.store, client'[d])
    BY <1>4, <1>7, <2>3
  <2>. QED BY <1>1, <1>5, <1>6, <2>2, <2>4 DEF CliInv, CalmInv, Calm
<1>8. CASE stops # 0
  <2>1. stops' # 0 /\ (stops' = 1 => server'.ended = server.ended /\ stops = 1)
    BY <1>0, <1>1, <1>8, ServerParts DEF Counted
  <2>. QED BY <1>0, <1>1, <1>5, <1>6, <2>1 DEF CliInv, CalmInv
<1>. QED BY <1>7, <1>8

\* Requests and what they are made of.
LEMMA RequestsAre ==
    ASSUME NEW u, NEW text, NEW chat, NEW m, NEW draft
    PROVE  /\ C!RqCheckLogin(u).type = "checkLogin" /\ C!RqCheckLogin(u).login = u
           /\ C!RqCheckPassword(u).type = "checkPassword" /\ C!RqCheckPassword(u).login = u
           /\ C!RqCreateUser(u).type = "createUser" /\ C!RqCreateUser(u).login = u
           /\ C!RqRegister(u).type = "register" /\ C!RqRegister(u).login = u
           /\ C!RqGetUsers(text).type = "getUsers" /\ C!RqGetUsers(text).logins = text
           /\ C!RqFindUserByPart(u, text).type = "search"
           /\ C!RqSetLastRead(u, chat, m).type = "setLastRead"
           /\ C!RqSetLastRead(u, chat, m).message = m
           /\ C!RqCreateMessage(u, chat).type = "createMessage"
           /\ C!RqCreateChat(u, draft).type = "createChat"
           /\ C!RqCreateChat(u, draft).author = u
           /\ C!RqCreateChat(u, draft).members = draft.members
           /\ C!RqCreateChat(u, draft).count = draft.tries + 1
BY DEF C!RqCheckLogin, C!RqCheckPassword, C!RqCreateUser, C!RqRegister, C!RqGetUsers,
       C!RqFindUserByPart, C!RqSetLastRead, C!RqCreateMessage, C!RqCreateChat

\* What a client and the store have to do with each other.
LEMMA ClientIs ==
    ASSUME CliInv, NEW c \in Clients
    PROVE  /\ ServerInv /\ ClientsInv /\ CalmInv
           /\ IsTyped(client[c]) /\ DOMAIN client[c] = ClientFields
           /\ stops = 0 => Calm /\ IsCurrent(server.store, client[c])
BY DEF CliInv, ClientsInv, CalmInv, Calm, IsTyped

-----------------------------------------------------------------------------
(* Registration and login, step by step.                                   *)

\* Only the menu and the user change, and the user is one for the new menu.
LEMMA UserTyped ==
    ASSUME NEW me, IsTyped(me), me.menu \in {"entrance", "signup", "password"}, NEW rec,
           DOMAIN rec = ClientFields, rec.copy = me.copy, rec.why = me.why,
           rec.at = me.at, rec.known = me.known, rec.draft = me.draft,
           \/ rec.menu \in {"signup", "password", "signin"} /\ rec.user \in Logins
           \/ rec.menu = "entrance" /\ rec.user = C!None
    PROVE  /\ IsTyped(rec)
           /\ \A s : /\ IsCurrent(s, me)
                     /\ rec.menu \in {"password", "signin"} => rec.user \in s.users
                     => IsCurrent(s, rec)
<1>1. IsTyped(rec)
  BY DEF IsTyped, C!IsClient, C!Menus, LoggedIn, LoggedOut
<1>2. \A s : IsCurrent(s, me) /\ (rec.menu \in {"password", "signin"} => rec.user \in s.users)
             => IsCurrent(s, rec)
  BY DEF IsCurrent, LoggedIn
<1>. QED BY <1>1, <1>2

\* A login is typed before it is created.
LEMMA NewLoginKeeps ==
    ASSUME CliInv, NEW c \in Clients, NEW u \in Typed, C!NewLogin(c, u)
    PROVE  CliInv' /\ Kept /\ Apart(c)
<1> DEFINE me == client[c]
           r == C!RqCheckLogin(u)
           rec == [me EXCEPT !.menu = "signup", !.user = u]
<1>1. IsRequest(r) /\ Knows(server.store, r)
  BY RequestsAre DEF IsRequest, RequestTypes, Knows
<1>2. Talks(c, r) /\ me.menu = "entrance"
  BY Zenon DEF C!NewLogin, C!LoginTaken, C!In, Talks
<1>3. UNCHANGED client \/ C!Is(c, rec) \/ C!Hangs(c, r)
  BY Zenon DEF C!NewLogin, C!LoginTaken, C!Untouched
<1>4. IsTyped(rec) /\ \A s : IsCurrent(s, me) => IsCurrent(s, rec)
  <2>1. u \in Logins /\ IsTyped(me) /\ DOMAIN me = ClientFields /\ me.menu = "entrance"
    BY <1>2, ClientIs, TypedAssumption
  <2>. HIDE DEF me
  <2>2. /\ DOMAIN rec = ClientFields /\ rec.menu = "signup" /\ rec.user = u
        /\ rec.copy = me.copy /\ rec.why = me.why
        /\ rec.at = me.at /\ rec.known = me.known /\ rec.draft = me.draft
    BY <2>1, Zenon DEF ClientFields
  <2>. HIDE DEF rec
  <2>. QED BY <2>1, <2>2, UserTyped
<1>5. stops = 0 => IsCurrent(server'.store, me)
  BY <1>1, <1>2, ClientIs, TalkCalm, CurrentStays
<1>. HIDE DEF r, rec
<1>6. Moves(c)
  BY <1>1, <1>3, <1>4, <1>5, ClientIs, HangsMoves DEF Moves
<1>. QED BY <1>1, <1>2, <1>6, StepKeeps

\* Whoever is created is a user of the client's, and of the store.
LEMMA CreateUserKeeps ==
    ASSUME CliInv, NEW c \in Clients, C!CreateUser(c)
    PROVE  CliInv' /\ Kept /\ Apart(c)
<1> DEFINE me == client[c]
           s == server.store
           r == C!RqCreateUser(me.user)
           known == IF C!Reply(r).body THEN me.known \cup {me.user} ELSE me.known
           rec == [me EXCEPT !.menu = "entrance", !.user = C!None, !.known = known]
<1>1. me.menu = "signup" /\ Talks(c, r)
  BY Zenon DEF C!CreateUser, C!In, Talks
<1>2. IsTyped(me) /\ DOMAIN me = ClientFields /\ me.user \in Logins
  BY <1>1, ClientIs DEF IsTyped
<1>3. IsRequest(r) /\ Knows(s, r) /\ r.type = "createUser" /\ r.login = me.user
  BY <1>2, RequestsAre DEF IsRequest, RequestTypes, Knows
<1>4. \/ C!Answered(c, r) /\ C!Is(c, rec)
      \/ C!Unanswered(c, r) /\ C!Dies(c, "answer")
      \/ C!Hangs(c, r)
  BY Zenon DEF C!CreateUser
<1>5. known \subseteq me.known \cup {me.user} /\ me.known \subseteq Logins
  BY <1>2 DEF IsTyped, C!IsClient
<1>. HIDE DEF known
<1>6. /\ DOMAIN rec = ClientFields /\ rec.menu = "entrance" /\ rec.user = C!None
      /\ rec.copy = me.copy /\ rec.why = me.why
      /\ rec.at = me.at /\ rec.known = known /\ rec.draft = me.draft
  BY <1>2, Zenon DEF ClientFields
<1>. HIDE DEF rec, r
<1>7. IsTyped(rec)
  BY <1>1, <1>2, <1>5, <1>6 DEF IsTyped, C!IsClient, C!Menus, LoggedIn, LoggedOut
<1>8. ASSUME stops = 0, C!Answered(c, r) PROVE IsCurrent(server'.store, rec)
  <2>1. IsCurrent(s, me) /\ Calm /\ ServerInv
    BY <1>8, ClientIs
  <2>2. s.users \subseteq server'.store.users /\ server'.store = CliHandle(s, r).store
    BY <1>1, <1>3, <1>8, <2>1, TalkCalm
  <2>3. me.user \in server'.store.users
    <3>1. IsGood(s) /\ Settled(s)
      BY <2>1, ServerParts DEF Calm
    <3>. HIDE DEF s
    <3>. QED BY <1>3, <2>2, <3>1, HandleSettled
  <2>4. IsCurrent(server'.store, me)
    BY <2>1, <2>2, CurrentStays
  <2>. HIDE DEF me
  <2>. QED BY <1>5, <1>6, <2>3, <2>4 DEF IsCurrent, LoggedIn
<1>9. stops = 0 => ~C!Unanswered(c, r)
  BY <1>1, <1>3, ClientIs, TalkCalm
<1>10. Moves(c)
  BY <1>3, <1>4, <1>7, <1>8, <1>9, ClientIs, HangsMoves, DiesMoves DEF Moves
<1>. QED BY <1>1, <1>3, <1>10, StepKeeps

\* A login that is known is one of a user.
LEMMA CheckLoginKeeps ==
    ASSUME CliInv, NEW c \in Clients, NEW u \in Typed, C!CheckLogin(c, u)
    PROVE  CliInv' /\ Kept /\ Apart(c)
<1> DEFINE me == client[c]
           s == server.store
           r == C!RqCheckLogin(u)
           rec == [me EXCEPT !.menu = "password", !.user = u]
<1>1. IsRequest(r) /\ Knows(s, r) /\ r.type = "checkLogin" /\ r.login = u
  BY RequestsAre DEF IsRequest, RequestTypes, Knows
<1>2. Talks(c, r) /\ me.menu = "entrance"
  BY Zenon DEF C!CheckLogin, C!LoginTaken, C!In, Talks
<1>3. \/ UNCHANGED client
      \/ C!Is(c, rec) /\ (u \in me.known \/ C!Reply(r).body)
      \/ C!Hangs(c, r)
  BY Zenon DEF C!CheckLogin, C!LoginTaken, C!Untouched
<1>4. IsTyped(rec) /\ \A n : IsCurrent(n, me) /\ u \in n.users => IsCurrent(n, rec)
  <2>1. u \in Logins /\ IsTyped(me) /\ DOMAIN me = ClientFields /\ me.menu = "entrance"
    BY <1>2, ClientIs, TypedAssumption
  <2>. HIDE DEF me
  <2>2. /\ DOMAIN rec = ClientFields /\ rec.menu = "password" /\ rec.user = u
        /\ rec.copy = me.copy /\ rec.why = me.why
        /\ rec.at = me.at /\ rec.known = me.known /\ rec.draft = me.draft
    BY <2>1, Zenon DEF ClientFields
  <2>. HIDE DEF rec
  <2>. QED BY <2>1, <2>2, UserTyped
<1>5. C!Reply(r).body => u \in s.users
  <2>1. C!Reply(r).body = CliHandle(s, r).body
    BY DEF C!Reply
  <2>. HIDE DEF r, s
  <2>2. CliHandle(s, r).body = (u \in s.users)
    BY <1>1, QuestionRequests
  <2>. QED BY <2>1, <2>2
<1>6. ASSUME stops = 0, u \in me.known \/ C!Reply(r).body PROVE IsCurrent(server'.store, rec)
  <2>1. IsCurrent(s, me) /\ Calm /\ ServerInv
    BY <1>6, ClientIs
  <2>2. s.users \subseteq server'.store.users
    BY <1>1, <1>2, <2>1, TalkCalm
  <2>3. u \in s.users
    BY <1>5, <1>6, <2>1 DEF IsCurrent
  <2>4. IsCurrent(server'.store, me)
    BY <2>1, <2>2, CurrentStays
  <2>. QED BY <1>4, <2>2, <2>3, <2>4
<1>. HIDE DEF r, rec
<1>7. Moves(c)
  BY <1>1, <1>3, <1>4, <1>6, ClientIs, HangsMoves DEF Moves
<1>. QED BY <1>1, <1>2, <1>7, StepKeeps

\* The password is that of a user, since the login is.
LEMMA CheckPasswordKeeps ==
    ASSUME CliInv, NEW c \in Clients, C!CheckPassword(c)
    PROVE  CliInv' /\ Kept /\ Apart(c)
<1> DEFINE me == client[c]
           s == server.store
           r == C!RqCheckPassword(me.user)
           rec == [me EXCEPT !.menu = "signin"]
<1>1. IsRequest(r) /\ Knows(s, r)
  BY RequestsAre DEF IsRequest, RequestTypes, Knows
<1>2. Talks(c, r) /\ me.menu = "password"
  BY Zenon DEF C!CheckPassword, C!PasswordRight, C!In, Talks
<1>3. UNCHANGED client \/ C!Is(c, rec) \/ C!Hangs(c, r)
  BY Zenon DEF C!CheckPassword, C!PasswordRight, C!Untouched
<1>4. IsTyped(me) /\ DOMAIN me = ClientFields /\ me.user \in Logins
  BY <1>2, ClientIs DEF IsTyped
<1>5. IsTyped(rec) /\ \A n : IsCurrent(n, me) => IsCurrent(n, rec)
  <2>. HIDE DEF me
  <2>1. /\ DOMAIN rec = ClientFields /\ rec.menu = "signin" /\ rec.user = me.user
        /\ rec.copy = me.copy /\ rec.why = me.why
        /\ rec.at = me.at /\ rec.known = me.known /\ rec.draft = me.draft
    BY <1>4, Zenon DEF ClientFields
  <2>2. me.menu = "password"
    BY <1>2 DEF me
  <2>. HIDE DEF rec
  <2>3. IsTyped(rec)
    BY <1>4, <2>1, <2>2 DEF IsTyped, C!IsClient, C!Menus, LoggedIn, LoggedOut
  <2>4. \A n : IsCurrent(n, me) => IsCurrent(n, rec)
    BY <2>1, <2>2 DEF IsCurrent, LoggedIn
  <2>. QED BY <2>3, <2>4
<1>6. stops = 0 => IsCurrent(server'.store, me)
  BY <1>1, <1>2, ClientIs, TalkCalm, CurrentStays
<1>. HIDE DEF r, rec
<1>7. Moves(c)
  BY <1>1, <1>3, <1>5, <1>6, ClientIs, HangsMoves DEF Moves
<1>. QED BY <1>1, <1>2, <1>7, StepKeeps

\* The packets that come with the login are those of users, and of chats with messages.
LEMMA SignInKeeps ==
    ASSUME CliInv, NEW c \in Clients, C!SignIn(c)
    PROVE  CliInv' /\ Kept /\ Apart(c)
<1> DEFINE me == client[c]
           s == server.store
           r == C!RqRegister(me.user)
           body == C!Reply(r).body
           rec == C!SignedIn(c, body)
<1>1. me.menu = "signin" /\ Talks(c, r)
  <2>1. me.menu = "signin"
    BY DEF C!SignIn, C!In
  <2>2. stale' = stale \ {c} => stale' \subseteq stale
    OBVIOUS
  <2>. QED BY <2>1, <2>2, Zenon DEF C!SignIn, Talks
<1>2. /\ IsTyped(me) /\ DOMAIN me = ClientFields /\ me.user \in Logins
      /\ me.copy = <<>> /\ me.at = 0 /\ me.known \subseteq Logins
  BY <1>1, ClientIs DEF IsTyped, LoggedOut, C!IsClient
<1>3. IsRequest(r) /\ r.type = "register" /\ r.login = me.user
  BY RequestsAre DEF IsRequest, RequestTypes
<1>4. stops = 0 => /\ Knows(s, r) /\ IsCurrent(s, me) /\ me.user \in s.users
                   /\ Settled(s) /\ IsGood(s)
  BY <1>1, <1>3, ClientIs, ServerParts DEF IsCurrent, Knows, Calm
<1>5. \/ C!Answered(c, r) /\ C!Is(c, rec)
      \/ C!Unanswered(c, r) /\ C!Dies(c, "nobody")
      \/ C!Hangs(c, r)
  BY Zenon DEF C!SignIn
<1>6. rec = [me EXCEPT !.menu = "loading", !.queue = body, !.known = @ \cup {me.user}]
  BY Zenon DEF C!SignedIn
<1>7. C!Answered(c, r) => Data!IsSeq(body) /\ \A i \in DOMAIN body : IsPacket(body[i])
  BY <1>3, ClientIs, AnswerIs DEF IsBody
<1>8. stops = 0 => \A i \in DOMAIN body : body[i].members \subseteq s.users /\ body[i].msgs # <<>>
  <2>1. body = CliHandle(s, r).body
    BY DEF C!Reply
  <2>. HIDE DEF body, r, s
  <2>. QED BY <1>3, <1>4, <2>1, HandleSettled
<1>. HIDE DEF rec, body, r
<1>9. /\ DOMAIN rec = ClientFields /\ rec.menu = "loading" /\ rec.user = me.user
      /\ rec.queue = body
      /\ rec.copy = me.copy /\ rec.why = me.why
      /\ rec.at = me.at /\ rec.known = me.known \cup {me.user} /\ rec.draft = me.draft
  <2>. HIDE DEF me
  <2>. QED BY <1>2, <1>6, Zenon DEF ClientFields
<1>10. C!Answered(c, r) => IsTyped(rec)
  <2>. HIDE DEF me
  <2>1. Data!IsSeq(<<>>) /\ DOMAIN <<>> = {} /\ Len(<<>>) = 0
    BY DEF Data!IsSeq
  <2>2. C!Answered(c, r) => IsLoading(rec)
    BY <1>2, <1>7, <1>9, <2>1 DEF IsLoading, Data!IsSeq
  <2>3. C!Answered(c, r) => C!IsClient(rec)
    BY <1>2, <1>9, <2>1 DEF IsTyped, C!IsClient, C!Menus, LoggedIn, LoggedOut
  <2>4. rec.draft.tries = 0 /\ rec.draft.members = {}
    BY <1>1, <1>2, <1>9 DEF IsTyped
  <2>. QED BY <1>2, <1>9, <2>1, <2>2, <2>3, <2>4 DEF IsTyped, LoggedIn, LoggedOut
<1>11. ASSUME stops = 0 PROVE IsCurrent(server'.store, rec)
  <2>1. IsCurrent(s, rec)
    <3>. HIDE DEF me, s
    <3>. QED BY <1>4, <1>8, <1>9, <1>11 DEF IsCurrent, LoggedIn
  <2>2. s.users \subseteq server'.store.users
    BY <1>1, <1>3, <1>4, <1>11, ClientIs, TalkCalm
  <2>. QED BY <2>1, <2>2, CurrentStays
<1>12. stops = 0 => ~C!Unanswered(c, r)
  BY <1>1, <1>3, <1>4, ClientIs, TalkCalm
<1>13. Moves(c)
  BY <1>3, <1>4, <1>5, <1>10, <1>11, <1>12, ClientIs, HangsMoves, DiesMoves DEF Moves
<1>. QED BY <1>1, <1>3, <1>4, <1>13, StepKeeps

-----------------------------------------------------------------------------
(* A client's chats, step by step.                                         *)

\* The greatest of the positions.
LEMMA MaxIsIn ==
    ASSUME NEW n \in Nat, NEW T \in SUBSET (1 .. n), T # {}
    PROVE  C!Max(T) \in T
<1>1. T \in SUBSET Nat /\ \A k \in T : k \in Nat /\ k <= n
  OBVIOUS
<1>2. PICK m \in T : \A k \in T : k <= m
  BY <1>1, Data!GreatestNat
<1>3. \A k \in T : m >= k
  BY <1>1, <1>2
<1>. QED BY <1>2, <1>3, Zenon DEF C!Max

\* A chat that is filled shows the messages of its packet, each with its stamp.
LEMMA FilledIsChat ==
    ASSUME NEW chat, IsChat(chat), NEW msgs \in Seq(Msg), NEW u
    PROVE  IsChat(C!Filled(chat, msgs, u)) /\ C!Filled(chat, msgs, u).msgs = msgs
<1> DEFINE own == {k \in DOMAIN msgs : msgs[k].by = u}
           ids == {msgs[k].id : k \in DOMAIN msgs}
           stamped == [m \in ids |-> CHOOSE k \in DOMAIN msgs : msgs[k].id = m]
           read == IF own = {} THEN chat.read ELSE msgs[C!Max(own)].id
           full == C!Filled(chat, msgs, u)
<1>1. /\ DOMAIN chat = ChatFields /\ chat.id \in Nat /\ chat.read \in Nat
      /\ chat.members \subseteq Logins
  BY DEF IsChat, C!IsCopy
<1>2. /\ Len(msgs) \in Nat /\ DOMAIN msgs = 1 .. Len(msgs)
      /\ \A k \in DOMAIN msgs : msgs[k] \in Msg
  BY LenProperties, ElementOfSeq
<1>3. \A m \in DOMAIN stamped : stamped[m] \in DOMAIN msgs
  <2>1. \A m \in ids : \E k \in DOMAIN msgs : msgs[k].id = m
    OBVIOUS
  <2>2. \A m \in ids : (CHOOSE k \in DOMAIN msgs : msgs[k].id = m) \in DOMAIN msgs
    BY <2>1, Zenon
  <2>. QED BY <2>2, Zenon
<1>4. read \in Nat
  <2>1. own = {} \/ C!Max(own) \in own
    BY <1>2, MaxIsIn
  <2>2. \A k \in own : msgs[k].id \in Nat
    BY <1>2 DEF Msg
  <2>. HIDE DEF own
  <2>. QED BY <1>1, <2>1, <2>2
<1>5. full = [chat EXCEPT !.msgs = msgs, !.stamped = stamped, !.read = read]
  BY Zenon DEF C!Filled
<1>. HIDE DEF stamped, read, full
<1>6. /\ DOMAIN full = ChatFields /\ full.id = chat.id /\ full.members = chat.members
      /\ full.msgs = msgs /\ full.stamped = stamped /\ full.read = read
  BY <1>1, <1>5, Zenon DEF ChatFields
<1>7. IsChat(full)
  BY <1>1, <1>3, <1>4, <1>6 DEF IsChat, C!IsCopy, Msg
<1>. QED BY <1>6, <1>7 DEF full

\* A message that is posted comes last, with its own position for a stamp.
LEMMA PostIsChat ==
    ASSUME NEW chat, IsChat(chat), NEW id \in Nat, NEW u \in Logins
    PROVE  IsChat(C!WithPost(chat, id, u)) /\ C!WithPost(chat, id, u).msgs # <<>>
<1> DEFINE msg == [id |-> id, by |-> u]
           msgs == Append(chat.msgs, msg)
           stamped == C!Stamp(chat.stamped, id, Len(chat.msgs) + 1)
           post == C!WithPost(chat, id, u)
<1>1. /\ DOMAIN chat = ChatFields /\ chat.id \in Nat /\ chat.members \subseteq Logins
      /\ chat.msgs \in Seq(Msg) /\ \A m \in DOMAIN chat.stamped : chat.stamped[m] \in DOMAIN chat.msgs
  BY DEF IsChat, C!IsCopy, Msg
<1>2. msg \in Msg
  BY DEF Msg
<1>. HIDE DEF msg
<1>3. /\ msgs \in Seq(Msg) /\ Len(msgs) = Len(chat.msgs) + 1 /\ Len(chat.msgs) \in Nat
      /\ DOMAIN msgs = 1 .. Len(chat.msgs) + 1 /\ DOMAIN chat.msgs = 1 .. Len(chat.msgs)
  BY <1>1, <1>2, AppendProperties, LenProperties
<1>4. \A m \in DOMAIN stamped : stamped[m] \in DOMAIN msgs
  <2>. HIDE DEF msgs
  <2>1. Len(chat.msgs) + 1 \in DOMAIN msgs /\ DOMAIN chat.msgs \subseteq DOMAIN msgs
    BY <1>3
  <2>. QED BY <1>1, <2>1 DEF C!Stamp
<1>5. msgs # <<>>
  <2>. HIDE DEF msgs
  <2>. QED BY <1>3
<1>6. post = [chat EXCEPT !.msgs = msgs, !.stamped = stamped, !.read = id]
  BY Zenon DEF C!WithPost, msg
<1>. HIDE DEF msgs, stamped, post
<1>7. /\ DOMAIN post = ChatFields /\ post.id = chat.id /\ post.members = chat.members
      /\ post.msgs = msgs /\ post.stamped = stamped /\ post.read = id
  BY <1>1, <1>6, Zenon DEF ChatFields
<1>8. IsChat(post)
  BY <1>1, <1>3, <1>4, <1>7 DEF IsChat, C!IsCopy, Msg
<1>. QED BY <1>5, <1>7, <1>8 DEF post

\* A chat that was created has its one message, unless it was cleared.
LEMMA SentIsChat ==
    ASSUME NEW draft, draft.members \subseteq Logins, draft.tries \in Nat, NEW u \in Logins,
           NEW ids, ids.chat \in Nat, ids.message \in Nat
    PROVE  /\ IsChat(C!Sent(draft, u, ids))
           /\ draft.tries = 0 => C!Sent(draft, u, ids).msgs # <<>>
<1>1. CASE draft.tries = 0
  <2> DEFINE msg == [id |-> ids.message, by |-> u]
             msgs == <<msg>>
             stamped == C!Stamp(<<>>, 0, 1)
             chat == C!Sent(draft, u, ids)
  <2>1. chat = C!CopyChat(ids.chat, draft.members, 0, msgs, stamped)
    BY <1>1 DEF C!Sent
  <2>2. msg \in Msg
    BY DEF Msg
  <2>. HIDE DEF msg
  <2>3. msgs \in Seq(Msg) /\ DOMAIN msgs = {1} /\ msgs # <<>>
    BY <2>2
  <2>4. \A m \in DOMAIN stamped : stamped[m] \in {1}
    <3>1. DOMAIN <<>> = {}
      OBVIOUS
    <3>. QED BY <3>1 DEF C!Stamp
  <2>. HIDE DEF msgs, stamped, chat
  <2>5. /\ DOMAIN chat = ChatFields /\ chat.id = ids.chat /\ chat.members = draft.members
        /\ chat.read = 0 /\ chat.msgs = msgs /\ chat.stamped = stamped
    BY <2>1 DEF C!CopyChat, ChatFields
  <2>6. IsChat(chat)
    BY <2>3, <2>4, <2>5 DEF IsChat, C!IsCopy, Msg
  <2>. QED BY <2>3, <2>5, <2>6 DEF chat
<1>2. CASE draft.tries # 0
  <2>1. C!Sent(draft, u, ids) = C!Cleared
    BY <1>2 DEF C!Sent
  <2>2. /\ DOMAIN C!Cleared = ChatFields /\ C!Cleared.id = 0 /\ C!Cleared.members = {}
        /\ C!Cleared.read = 0 /\ C!Cleared.msgs = <<>> /\ C!Cleared.stamped = <<>>
    BY DEF C!Cleared, C!CopyChat, ChatFields
  <2>3. <<>> \in Seq(Msg) /\ DOMAIN <<>> = {}
    OBVIOUS
  <2>4. IsChat(C!Cleared)
    BY <2>2, <2>3 DEF IsChat, C!IsCopy, Msg
  <2>. QED BY <1>2, <2>1, <2>4
<1>. QED BY <1>1, <1>2

\* The chats of a client that has its chats.
LEMMA CopyIs ==
    ASSUME NEW me, IsTyped(me)
    PROVE  /\ Data!IsSeq(me.copy) /\ Len(me.copy) \in Nat /\ DOMAIN me.copy = 1 .. Len(me.copy)
           /\ \A i \in DOMAIN me.copy : IsChat(me.copy[i])
           /\ me.at \in Nat /\ me.known \subseteq Logins
           /\ me.draft \in [members : SUBSET Logins, alone : BOOLEAN, tries : 0 .. MaxTries]
BY BoundsAssumption DEF IsTyped, IsChat, Data!IsSeq, C!IsClient

\* The next chat of the answer is loaded, with the users the client has then.
LEMMA ChatLoadedTyped ==
    ASSUME NEW c, IsTyped(client[c]), client[c].menu = "loading",
           client[c].at < Len(client[c].queue),
           NEW known, known \subseteq Logins, client[c].known \subseteq known
    PROVE  LET rec == C!ChatLoaded(c, known)
           IN  /\ IsTyped(rec)
               /\ \A s : IsCurrent(s, client[c]) /\ known \subseteq s.users => IsCurrent(s, rec)
<1> DEFINE me == client[c]
           chat == me.queue[me.at + 1]
           more == C!CopyChat(chat.id, chat.members \cap known, chat.read, <<>>, <<>>)
           rec == C!ChatLoaded(c, known)
           copy == Append(me.copy, more)
           at == me.at + 1
<1>1. /\ IsTyped(me) /\ DOMAIN me = ClientFields /\ me.menu = "loading"
      /\ IsLoading(me) /\ me.at < Len(me.queue) /\ known \subseteq Logins
  BY DEF IsTyped
<1>2. rec = [me EXCEPT !.at = @ + 1, !.known = known, !.copy = Append(@, more)]
  BY Zenon DEF C!ChatLoaded
<1>3. DOMAIN more = ChatFields /\ more.id = chat.id /\ more.members = chat.members \cap known
      /\ more.read = chat.read /\ more.msgs = <<>> /\ more.stamped = <<>>
  BY DEF C!CopyChat, ChatFields
<1>. HIDE DEF rec, more, chat, me
<1>4. /\ DOMAIN rec = ClientFields /\ rec.menu = me.menu /\ rec.queue = me.queue
      /\ rec.known = known /\ rec.user = me.user /\ rec.copy = copy
      /\ rec.at = at /\ rec.draft = me.draft /\ rec.why = me.why
  BY <1>1, <1>2, Zenon DEF ClientFields
<1>5. /\ Len(me.queue) \in Nat /\ DOMAIN me.queue = 1 .. Len(me.queue)
      /\ Data!IsSeq(me.queue) /\ Len(me.copy) = me.at /\ me.at \in Nat
      /\ Data!IsSeq(me.copy) /\ \A i \in DOMAIN me.copy : IsChat(me.copy[i])
  BY <1>1, CopyIs DEF IsLoading, Data!IsSeq
<1>6. IsPacket(chat)
  <2>1. me.at + 1 \in DOMAIN me.queue
    BY <1>1, <1>5
  <2>. QED BY <1>1, <2>1 DEF IsLoading, chat
<1>7. IsChat(more)
  <2>1. <<>> \in Seq(Msg) /\ DOMAIN <<>> = {}
    OBVIOUS
  <2>. QED BY <1>1, <1>3, <1>6, <2>1 DEF IsChat, C!IsCopy, IsPacket, Msg
<1>8. /\ Data!IsSeq(copy) /\ Len(copy) = at /\ DOMAIN copy = 1 .. at
      /\ \A i \in 1 .. me.at : copy[i] = me.copy[i] /\ i \in DOMAIN me.copy
      /\ copy[at] = more
  BY <1>5, Data!AppendSeq
<1>9. at \in Nat /\ at <= Len(me.queue) /\ \A i \in 1 .. at : i \in 1 .. me.at \/ i = at
  BY <1>1, <1>5
<1>. HIDE DEF copy, at
<1>10. \A i \in DOMAIN copy : IsChat(copy[i])
  BY <1>5, <1>7, <1>8, <1>9
<1>11. IsLoading(rec)
  BY <1>1, <1>4, <1>8, <1>9 DEF IsLoading
<1>12. C!IsClient(rec)
  BY <1>1, <1>4, <1>8, <1>9, <1>10 DEF IsTyped, C!IsClient, IsChat
<1>13. IsTyped(rec)
  BY <1>1, <1>4, <1>8, <1>10, <1>11, <1>12 DEF IsTyped, IsChat, LoggedIn, LoggedOut
<1>14. \A s : IsCurrent(s, me) /\ known \subseteq s.users => IsCurrent(s, rec)
  BY <1>1, <1>4 DEF IsCurrent, LoggedIn
<1>. QED BY <1>13, <1>14 DEF me, rec

\* The participants of a chat that is loaded are users of the store.
LEMMA LoadChatKeeps ==
    ASSUME CliInv, NEW c \in Clients, C!LoadChat(c)
    PROVE  CliInv' /\ Kept /\ Apart(c)
<1> DEFINE me == client[c]
           s == server.store
           members == me.queue[me.at + 1].members
           missing == members \ me.known
           r == C!RqGetUsers(missing)
           all == me.known \cup missing
<1>1. me.menu = "loading" /\ Talks(c, r) /\ me.at < Len(me.queue)
  BY Zenon DEF C!LoadChat, C!In, Talks
<1>2. IsTyped(me) /\ IsLoading(me) /\ me.known \subseteq Logins
  BY <1>1, ClientIs, CopyIs DEF IsTyped
<1>3. me.at + 1 \in DOMAIN me.queue /\ members \subseteq Logins
  <2>1. Len(me.queue) \in Nat /\ DOMAIN me.queue = 1 .. Len(me.queue) /\ me.at \in Nat
    BY <1>2, CopyIs DEF IsLoading, Data!IsSeq
  <2>2. me.at + 1 \in DOMAIN me.queue
    BY <1>1, <2>1, SMTT(40)
  <2>. QED BY <1>2, <2>2 DEF IsLoading, IsPacket
<1>4. IsRequest(r) /\ r.type = "getUsers" /\ r.logins = missing
  BY RequestsAre DEF IsRequest, RequestTypes
<1>5. stops = 0 => /\ Knows(s, r) /\ IsCurrent(s, me) /\ Calm /\ members \subseteq s.users
  <2>1. stops = 0 => IsCurrent(s, me) /\ Calm
    BY ClientIs
  <2>2. stops = 0 => members \subseteq s.users
    BY <1>1, <1>3, <2>1, SMTT(40) DEF IsCurrent
  <2>3. stops = 0 => r.logins \subseteq s.users
    BY <1>4, <2>2
  <2>. HIDE DEF r, missing, members
  <2>. QED BY <1>4, <2>1, <2>2, <2>3 DEF Knows
<1>6. \/ C!Is(c, C!ChatLoaded(c, all))
      \/ C!Is(c, C!ChatLoaded(c, me.known))
      \/ C!Hangs(c, r)
  BY Zenon DEF C!LoadChat
<1>7. me.known \subseteq all /\ all \subseteq Logins /\ me.known \subseteq me.known
  BY <1>2, <1>3
<1>8. stops = 0 => all \subseteq s.users /\ me.known \subseteq s.users
  BY <1>5 DEF IsCurrent
<1>. HIDE DEF r, members, missing, all
<1>9. /\ IsTyped(C!ChatLoaded(c, all)) /\ IsTyped(C!ChatLoaded(c, me.known))
      /\ stops = 0 => /\ IsCurrent(s, C!ChatLoaded(c, all))
                      /\ IsCurrent(s, C!ChatLoaded(c, me.known))
  BY <1>1, <1>2, <1>5, <1>7, <1>8, ChatLoadedTyped
<1>10. stops = 0 => s.users \subseteq server'.store.users
  BY <1>1, <1>4, <1>5, ClientIs, TalkCalm
<1>11. stops = 0 => /\ IsCurrent(server'.store, C!ChatLoaded(c, all))
                    /\ IsCurrent(server'.store, C!ChatLoaded(c, me.known))
  BY <1>9, <1>10, CurrentStays
<1>12. Moves(c)
  BY <1>4, <1>5, <1>6, <1>9, <1>11, ClientIs, HangsMoves DEF Moves
<1>. QED BY <1>1, <1>4, <1>5, <1>12, StepKeeps

\* The messages come to chats of their own.
LEMMA LoadMessagesKeeps ==
    ASSUME CliInv, NEW c \in Clients, C!LoadMessages(c)
    PROVE  CliInv' /\ Kept /\ Apart(c)
<1> DEFINE me == client[c]
           s == server.store
           r == C!RqCheckLogin(C!None)
           senders == UNION {{me.queue[i].msgs[k].by : k \in DOMAIN me.queue[i].msgs} :
                                i \in DOMAIN me.queue}
           filled == [i \in DOMAIN me.copy |->
                         C!Filled(me.copy[i], me.queue[i].msgs, me.user)]
           rec == [me EXCEPT !.menu = "main", !.queue = <<>>, !.at = 0, !.copy = filled]
<1>1. me.menu = "loading" /\ me.at = Len(me.queue) /\ C!NoRequest
  BY DEF C!LoadMessages, C!In
<1>2. IsRequest(r) /\ Talks(c, r) /\ Knows(s, r)
  BY <1>1, RequestsAre DEF IsRequest, RequestTypes, Talks, Knows
<1>3. IsTyped(me) /\ IsLoading(me) /\ DOMAIN me = ClientFields
  BY <1>1, ClientIs DEF IsTyped
<1>4. C!Is(c, rec) \/ C!Dies(c, "sender")
  BY Zenon DEF C!LoadMessages
<1>5. /\ Len(me.copy) \in Nat /\ DOMAIN me.copy = 1 .. Len(me.copy) /\ DOMAIN me.queue = DOMAIN me.copy
      /\ \A i \in DOMAIN me.copy : IsChat(me.copy[i]) /\ me.queue[i].msgs \in Seq(Msg)
  BY <1>1, <1>3, CopyIs, ZenonT(40) DEF IsLoading, Data!IsSeq, IsPacket
<1>. HIDE DEF r, senders
<1>6. \A i \in DOMAIN filled : IsChat(filled[i]) /\ filled[i].msgs = me.queue[i].msgs
  <2>. SUFFICES ASSUME NEW i \in DOMAIN me.copy
                PROVE  IsChat(filled[i]) /\ filled[i].msgs = me.queue[i].msgs
    OBVIOUS
  <2>1. filled[i] = C!Filled(me.copy[i], me.queue[i].msgs, me.user)
    OBVIOUS
  <2>2. IsChat(me.copy[i]) /\ me.queue[i].msgs \in Seq(Msg)
    BY <1>5
  <2>. HIDE DEF filled
  <2>. QED BY <2>1, <2>2, FilledIsChat
<1>7. Data!IsSeq(filled) /\ Len(filled) = Len(me.copy) /\ DOMAIN filled = DOMAIN me.copy
  <2>1. filled = [i \in 1 .. Len(me.copy) |-> filled[i]]
    BY <1>5
  <2>. HIDE DEF filled
  <2>. QED BY <1>5, <2>1, Data!FunctionSeq
<1>. HIDE DEF me, filled
<1>8. /\ DOMAIN rec = ClientFields /\ rec.menu = "main" /\ rec.known = me.known
      /\ rec.user = me.user /\ rec.copy = filled
      /\ rec.at = 0 /\ rec.draft = me.draft /\ rec.why = me.why
  BY <1>3, Zenon DEF ClientFields
<1>. HIDE DEF rec
<1>9. IsTyped(rec)
  <2>1. me.menu = "loading"
    BY <1>1 DEF me
  <2>2. C!IsClient(rec)
    BY <1>3, <1>5, <1>6, <1>7, <1>8 DEF IsTyped, C!IsClient, IsChat, C!Menus
  <2>. QED BY <1>3, <1>6, <1>7, <1>8, <2>1, <2>2 DEF IsTyped, IsChat, LoggedIn, LoggedOut
<1>10. stops = 0 => IsCurrent(server'.store, rec)
  <2>1. stops = 0 => IsCurrent(s, me)
    BY ClientIs DEF me
  <2>2. me.menu = "loading" /\ server' = server
    BY <1>1 DEF me, C!NoRequest
  <2>3. stops = 0 => \A i \in DOMAIN filled : filled[i].msgs # <<>>
    BY <1>5, <1>6, <1>7, <2>1, <2>2 DEF IsCurrent
  <2>. HIDE DEF s
  <2>4. stops = 0 => IsCurrent(s, rec)
    BY <1>8, <2>1, <2>2, <2>3 DEF IsCurrent, LoggedIn
  <2>. QED BY <2>2, <2>4 DEF s
<1>11. Moves(c)
  BY <1>4, <1>9, <1>10, DiesMoves DEF Moves
<1>. QED BY <1>2, <1>11, StepKeeps

\* Whom a draft names, when v was picked for it.
LEMMA PickedIs ==
    ASSUME NEW old \in [members : SUBSET Logins, alone : BOOLEAN, tries : 0 .. MaxTries],
           NEW u \in Logins, NEW v \in Logins, NEW alone \in BOOLEAN,
           NEW draft, draft = C!Picked(old, u, v, alone)
    PROVE  /\ draft \in [members : SUBSET Logins, alone : BOOLEAN, tries : 0 .. MaxTries]
           /\ draft.tries = old.tries
           /\ draft.members \subseteq old.members \cup {v, u}
<1> DEFINE members == old.members \cup (IF alone THEN {v, u} ELSE {v})
<1>1. draft = [old EXCEPT !.alone = alone, !.members = members]
  BY Zenon DEF C!Picked
<1>2. members \subseteq old.members \cup {v, u}
  OBVIOUS
<1>. HIDE DEF members
<1>3. draft = [members |-> members, alone |-> alone, tries |-> old.tries]
  BY <1>1
<1>4. members \subseteq Logins
  BY <1>2
<1>5. draft \in [members : SUBSET Logins, alone : BOOLEAN, tries : 0 .. MaxTries]
  BY <1>3, <1>4
<1>. QED BY <1>2, <1>3, <1>5

\* Who is found, and picked, is a user of the store.
LEMMA ChooseKeeps ==
    ASSUME CliInv, NEW c \in Clients, NEW v \in Typed, NEW alone \in BOOLEAN, C!Choose(c, v, alone)
    PROVE  CliInv' /\ Kept /\ Apart(c)
<1> DEFINE me == client[c]
           s == server.store
           r == C!RqFindUserByPart(me.user, {v})
           draft == C!Picked(me.draft, me.user, v, alone)
           rec == [me EXCEPT !.menu = "draft", !.known = @ \cup {v}, !.draft = draft]
<1>1. me.menu \in {"main", "draft"} /\ Talks(c, r)
  <2>1. me.menu \in {"main", "draft"}
    BY DEF C!Choose, C!In
  <2>. QED BY <2>1, Zenon DEF C!Choose, Talks
<1>2. /\ IsTyped(me) /\ DOMAIN me = ClientFields /\ me.user \in Logins /\ v \in Logins
      /\ me.draft \in [members : SUBSET Logins, alone : BOOLEAN, tries : 0 .. MaxTries]
      /\ me.known \subseteq Logins
  BY <1>1, ClientIs, CopyIs, TypedAssumption DEF IsTyped, LoggedIn
<1>3. IsRequest(r) /\ Knows(s, r) /\ r.type = "search"
  BY RequestsAre DEF IsRequest, RequestTypes, Knows
<1>4. \/ C!Answered(c, r) /\ v \in C!Reply(r).body /\ C!Is(c, rec)
      \/ UNCHANGED client
      \/ C!Hangs(c, r)
  BY Zenon DEF C!Choose, C!Untouched
<1>5. C!Answered(c, r) /\ v \in C!Reply(r).body => v \in s.users
  <2>1. C!Reply(r) = CliHandle(s, r) /\ (C!Answered(c, r) => CliHandle(s, r).fate = "reply")
    BY DEF C!Reply, C!Answered
  <2>. HIDE DEF r, s
  <2>. QED BY <1>3, <2>1, QuestionRequests
<1>6. /\ draft \in [members : SUBSET Logins, alone : BOOLEAN, tries : 0 .. MaxTries]
      /\ draft.tries = me.draft.tries
      /\ draft.members \subseteq me.draft.members \cup {v, me.user}
  <2>. HIDE DEF me
  <2>. QED BY <1>2, PickedIs
<1>7. stops = 0 => IsCurrent(server'.store, me) /\ s.users \subseteq server'.store.users
  BY <1>1, <1>3, ClientIs, TalkCalm, CurrentStays
<1>8. stops = 0 => me.user \in s.users
  BY <1>1, ClientIs DEF IsCurrent, LoggedIn
<1>. HIDE DEF r, draft, me
<1>9. /\ DOMAIN rec = ClientFields /\ rec.menu = "draft" /\ rec.known = me.known \cup {v}
      /\ rec.user = me.user /\ rec.copy = me.copy
      /\ rec.at = me.at /\ rec.draft = draft /\ rec.why = me.why
  BY <1>2, Zenon DEF ClientFields
<1>10. me.menu \in {"main", "draft"}
  BY <1>1 DEF me
<1>. HIDE DEF rec
<1>11. IsTyped(rec)
  BY <1>2, <1>6, <1>9, <1>10 DEF IsTyped, C!IsClient, C!Menus, LoggedIn, LoggedOut
<1>12. stops = 0 /\ v \in s.users => IsCurrent(server'.store, rec)
  BY <1>6, <1>7, <1>8, <1>9, <1>10 DEF IsCurrent, LoggedIn
<1>13. Moves(c)
  BY <1>3, <1>4, <1>5, <1>11, <1>12, ClientIs, HangsMoves DEF Moves
<1>. QED BY <1>1, <1>3, <1>13, StepKeeps

\* A new chat is created at the first attempt until the server ends.
LEMMA SendDraftKeeps ==
    ASSUME CliInv, NEW c \in Clients, C!SendDraft(c)
    PROVE  CliInv' /\ Kept /\ Apart(c)
<1> DEFINE me == client[c]
           s == server.store
           r == C!RqCreateChat(me.user, me.draft)
           ids == C!Reply(r).body
           chat == C!Sent(me.draft, me.user, ids)
           sent == [me EXCEPT !.menu = "main", !.draft = C!NoDraft, !.copy = Append(@, chat)]
           again == [me EXCEPT !.draft.tries = @ + 1]
<1>1. me.menu = "draft" /\ Talks(c, r)
  BY Zenon DEF C!SendDraft, C!In, Talks
<1>2. /\ IsTyped(me) /\ DOMAIN me = ClientFields /\ me.user \in Logins
      /\ me.draft \in [members : SUBSET Logins, alone : BOOLEAN, tries : 0 .. MaxTries]
      /\ me.draft.tries \in Nat /\ me.draft.members \subseteq Logins
  BY <1>1, ClientIs, CopyIs, BoundsAssumption DEF IsTyped, LoggedIn
<1>3. /\ IsRequest(r) /\ r.type = "createChat" /\ r.author = me.user
      /\ r.members = me.draft.members /\ r.count = me.draft.tries + 1
  <2>1. /\ r.type = "createChat" /\ r.author = me.user
        /\ r.members = me.draft.members /\ r.count = me.draft.tries + 1
    BY RequestsAre
  <2>. HIDE DEF r
  <2>. QED BY <1>2, <2>1 DEF IsRequest, RequestTypes
<1>4. stops = 0 => /\ Knows(s, r) /\ IsCurrent(s, me) /\ Calm /\ ServerInv
                   /\ me.user \in s.users /\ me.draft.tries = 0
  <2>1. stops = 0 => IsCurrent(s, me) /\ Calm /\ ServerInv
    BY ClientIs
  <2>2. stops = 0 => /\ me.user \in s.users /\ me.draft.tries = 0
                     /\ me.draft.members \subseteq s.users
    BY <1>1, <2>1 DEF IsCurrent, LoggedIn
  <2>. HIDE DEF r
  <2>. QED BY <1>2, <1>3, <2>1, <2>2 DEF Knows
<1>5. \/ C!Answered(c, r) /\ C!Is(c, sent)
      \/ C!Unanswered(c, r) /\ me.draft.tries < MaxTries /\ C!Is(c, again)
      \/ C!Hangs(c, r)
  BY Zenon DEF C!SendDraft
<1>6. C!Answered(c, r) => IsChat(chat)
  <2>1. C!Answered(c, r) => ids.chat \in Nat /\ ids.message \in Nat
    BY <1>3, ClientIs, AnswerIs DEF IsBody
  <2>. HIDE DEF r, ids
  <2>. QED BY <1>2, <2>1, SentIsChat
<1>7. stops = 0 => /\ C!Answered(c, r) => chat.msgs # <<>>
                   /\ ~C!Unanswered(c, r)
                   /\ s.users \subseteq server'.store.users
  <2>1. stops = 0 => ~C!Unanswered(c, r) /\ s.users \subseteq server'.store.users
    BY <1>1, <1>3, <1>4, ClientIs, TalkCalm
  <2>2. C!Answered(c, r) => ids.chat \in Nat /\ ids.message \in Nat
    BY <1>3, ClientIs, AnswerIs DEF IsBody
  <2>. HIDE DEF r, ids
  <2>. QED BY <1>2, <1>4, <2>1, <2>2, SentIsChat
<1>. HIDE DEF r, chat
<1>8. ASSUME IsChat(chat)
      PROVE  /\ IsTyped(sent)
             /\ stops = 0 /\ chat.msgs # <<>> => IsCurrent(s, sent)
  <2>1. /\ Data!IsSeq(me.copy) /\ Len(me.copy) \in Nat /\ DOMAIN me.copy = 1 .. Len(me.copy)
        /\ \A i \in DOMAIN me.copy : IsChat(me.copy[i])
        /\ me.at \in 0 .. Len(me.copy)
    BY <1>2, CopyIs DEF IsTyped, C!IsClient
  <2>. HIDE DEF me
  <2> DEFINE copy == Append(me.copy, chat)
  <2>2. /\ DOMAIN sent = ClientFields /\ sent.menu = "main" /\ sent.known = me.known
        /\ sent.user = me.user /\ sent.copy = copy
        /\ sent.at = me.at /\ sent.draft = C!NoDraft /\ sent.why = me.why
    BY <1>2, Zenon DEF ClientFields
  <2>3. /\ Data!IsSeq(copy) /\ Len(copy) = Len(me.copy) + 1
        /\ DOMAIN copy = 1 .. Len(me.copy) + 1
        /\ \A i \in 1 .. Len(me.copy) : copy[i] = me.copy[i]
        /\ copy[Len(me.copy) + 1] = chat
    BY <2>1, Data!AppendSeq
  <2>. HIDE DEF copy, sent
  <2>4. \A i \in DOMAIN copy : i \in DOMAIN me.copy \/ i = Len(me.copy) + 1
    BY <2>1, <2>3
  <2>5. \A i \in DOMAIN copy : IsChat(copy[i])
    BY <1>8, <2>1, <2>3, <2>4
  <2>6. me.at \in 0 .. Len(copy)
    BY <2>1, <2>3
  <2>7. me.menu = "draft"
    BY <1>1 DEF me
  <2>8. IsTyped(sent)
    <3>1. C!IsClient(sent)
      BY <1>2, <2>2, <2>5, <2>6, OffIsTyped DEF IsTyped, C!IsClient, C!Menus, IsChat
    <3>. QED BY <1>2, <2>2, <2>3, <2>5, <2>7, <3>1, OffIsTyped
             DEF IsTyped, IsChat, LoggedIn, LoggedOut
  <2>9. stops = 0 /\ chat.msgs # <<>> => IsCurrent(s, sent)
    <3>1. stops = 0 => IsCurrent(s, me)
      BY <1>4 DEF me
    <3>2. stops = 0 /\ chat.msgs # <<>> => \A i \in DOMAIN copy : copy[i].msgs # <<>>
      BY <2>1, <2>3, <2>4, <2>7, <3>1 DEF IsCurrent, LoggedIn
    <3>. HIDE DEF s
    <3>. QED BY <2>2, <2>7, <3>1, <3>2, OffIsTyped DEF IsCurrent, LoggedIn
  <2>. QED BY <2>8, <2>9
<1>9. me.draft.tries < MaxTries => IsTyped(again)
  <2> DEFINE draft == [me.draft EXCEPT !.tries = @ + 1]
  <2>1. me.draft.tries < MaxTries =>
           draft \in [members : SUBSET Logins, alone : BOOLEAN, tries : 0 .. MaxTries]
    <3>1. MaxTries \in Nat
      BY BoundsAssumption
    <3>. QED BY <1>2, <3>1
  <2>. HIDE DEF me
  <2>2. /\ DOMAIN again = ClientFields /\ again.menu = me.menu /\ again.known = me.known
        /\ again.user = me.user /\ again.copy = me.copy /\ again.queue = me.queue
        /\ again.at = me.at /\ again.draft = draft /\ again.why = me.why
    BY <1>2, Zenon DEF ClientFields
  <2>3. me.menu = "draft"
    BY <1>1 DEF me
  <2>. HIDE DEF again, draft
  <2>. QED BY <1>2, <2>1, <2>2, <2>3 DEF IsTyped, C!IsClient, LoggedIn, LoggedOut
<1>. HIDE DEF sent, again
<1>10. stops = 0 /\ C!Answered(c, r) => IsCurrent(server'.store, sent)
  BY <1>6, <1>7, <1>8, CurrentStays
<1>11. Moves(c)
  BY <1>3, <1>4, <1>5, <1>6, <1>7, <1>8, <1>9, <1>10, ClientIs, HangsMoves DEF Moves
<1>. QED BY <1>1, <1>3, <1>4, <1>11, StepKeeps

\* Every chat that is shown before the server ends has a last message.
LEMMA OpenChatKeeps ==
    ASSUME CliInv, NEW c \in Clients, NEW i, C!OpenChat(c, i)
    PROVE  CliInv' /\ Kept /\ Apart(c)
<1> DEFINE me == client[c]
           s == server.store
           last == C!LastId(me.copy[i])
           r == C!RqSetLastRead(me.user, me.copy[i].id, last)
           rec == C!Opened(me, i)
           quiet == C!RqCheckLogin(C!None)
<1>1. me.menu = "main" /\ i \in DOMAIN me.copy
  BY DEF C!OpenChat, C!In
<1>2. /\ IsTyped(me) /\ DOMAIN me = ClientFields
      /\ Data!IsSeq(me.copy) /\ Len(me.copy) \in Nat /\ DOMAIN me.copy = 1 .. Len(me.copy)
      /\ \A j \in DOMAIN me.copy : IsChat(me.copy[j])
  BY ClientIs, CopyIs
<1>3. \/ C!ListFails(me.copy) /\ C!Dies(c, "list") /\ C!NoRequest
      \/ ~C!ListFails(me.copy) /\ C!NoRequest /\ C!Is(c, rec)
      \/ ~C!ListFails(me.copy) /\ Talks(c, r) /\ (C!Is(c, rec) \/ C!Hangs(c, r))
  BY Zenon DEF C!OpenChat, C!Reported, Talks
<1>4. stops = 0 => IsCurrent(s, me) /\ ~C!ListFails(me.copy)
  BY <1>1, ClientIs DEF IsCurrent, LoggedIn, C!ListFails
<1>5. ~C!ListFails(me.copy) => last \in Nat
  <2> DEFINE chat == me.copy[i]
  <2>1. ~C!ListFails(me.copy) => chat.msgs # <<>>
    BY <1>1 DEF C!ListFails
  <2>2. chat.msgs \in Seq(Msg)
    BY <1>1, <1>2 DEF IsChat, C!IsCopy, Msg
  <2>. HIDE DEF chat
  <2>3. chat.msgs # <<>> => chat.msgs[Len(chat.msgs)] \in Msg
    BY <2>2
  <2>4. chat.msgs # <<>> => C!LastId(chat) \in Nat
    BY <2>3 DEF C!LastId, Msg
  <2>. QED BY <2>1, <2>4 DEF chat
<1>6. ASSUME last \in Nat
      PROVE  IsTyped(rec) /\ (stops = 0 => IsCurrent(s, rec))
  <2> DEFINE copy == [me.copy EXCEPT ![i].read = last]
             chat == me.copy[i]
  <2>1. rec = [me EXCEPT !.menu = "chat", !.at = i, !.copy[i].read = last]
    BY Zenon DEF C!Opened
  <2>. HIDE DEF me, last, s
  <2>2. /\ DOMAIN copy = DOMAIN me.copy
        /\ \A j \in DOMAIN me.copy : j # i => copy[j] = me.copy[j]
        /\ copy[i] = [chat EXCEPT !.read = last]
        /\ copy = [j \in DOMAIN me.copy |-> copy[j]]
    BY <1>1 DEF me
  <2>. HIDE DEF rec
  <2>3. /\ DOMAIN rec = ClientFields /\ rec.menu = "chat" /\ rec.known = me.known
        /\ rec.user = me.user /\ rec.copy = copy
        /\ rec.at = i /\ rec.why = me.why /\ rec.draft = me.draft
    BY <1>2, <2>1, Zenon DEF ClientFields
  <2>. HIDE DEF copy
  <2>4. i \in DOMAIN me.copy /\ me.menu = "main"
    BY <1>1 DEF me
  <2>5. Data!IsSeq(copy) /\ Len(copy) = Len(me.copy)
    <3>1. copy = [j \in 1 .. Len(me.copy) |-> copy[j]] /\ Len(me.copy) \in Nat
      BY <1>2, <2>2
    <3>. QED BY <3>1, Data!FunctionSeq
  <2>6. IsChat(chat)
    BY <1>2, <2>4
  <2>. HIDE DEF chat
  <2>7. /\ DOMAIN copy[i] = ChatFields /\ copy[i].id = chat.id /\ copy[i].msgs = chat.msgs
        /\ copy[i].members = chat.members /\ copy[i].stamped = chat.stamped
        /\ copy[i].read = last
    <3>1. DOMAIN chat = ChatFields
      BY <2>6 DEF IsChat
    <3>. QED BY <2>2, <3>1, Zenon DEF ChatFields
  <2>8. IsChat(copy[i])
    BY <1>6, <2>6, <2>7 DEF IsChat, C!IsCopy
  <2>9. \A j \in DOMAIN copy : IsChat(copy[j])
    BY <1>2, <2>2, <2>8
  <2>10. i \in 0 .. Len(copy) /\ i \in DOMAIN copy
    BY <1>2, <2>2, <2>4, <2>5
  <2>11. C!IsClient(rec)
    BY <1>2, <2>3, <2>9, <2>10 DEF IsTyped, C!IsClient, C!Menus, IsChat
  <2>12. IsTyped(rec)
    BY <1>2, <2>3, <2>4, <2>5, <2>9, <2>10, <2>11 DEF IsTyped, IsChat, LoggedIn, LoggedOut
  <2>13. stops = 0 => IsCurrent(s, rec)
    <3>1. stops = 0 => IsCurrent(s, me)
      BY <1>4 DEF me, s
    <3>2. stops = 0 => \A j \in DOMAIN me.copy : me.copy[j].msgs # <<>>
      BY <2>4, <3>1 DEF IsCurrent, LoggedIn
    <3>3. copy[i].msgs = me.copy[i].msgs
      BY <2>7 DEF chat
    <3>4. stops = 0 => \A j \in DOMAIN copy : copy[j].msgs # <<>>
      BY <2>2, <2>4, <3>2, <3>3
    <3>. QED BY <2>3, <2>4, <3>1, <3>4 DEF IsCurrent, LoggedIn
  <2>. QED BY <2>12, <2>13 DEF s
<1>7. IsRequest(quiet) /\ Knows(s, quiet)
  BY RequestsAre DEF IsRequest, RequestTypes, Knows
<1>8. r.type = "setLastRead" /\ r.message = last
  BY RequestsAre
<1>. HIDE DEF r, rec, last, quiet
<1>9. last \in Nat => IsRequest(r)
  BY <1>8 DEF IsRequest, RequestTypes
<1>10. Knows(s, r)
  BY <1>8 DEF Knows
<1>11. CASE C!ListFails(me.copy) /\ C!Dies(c, "list") /\ C!NoRequest
  <2>1. Moves(c)
    BY <1>4, <1>11, DiesMoves
  <2>2. Talks(c, quiet)
    BY <1>11 DEF Talks
  <2>. QED BY <1>7, <2>1, <2>2, StepKeeps
<1>12. CASE ~C!ListFails(me.copy) /\ C!NoRequest /\ C!Is(c, rec)
  <2>1. server' = server
    BY <1>12 DEF C!NoRequest
  <2>2. Moves(c)
    BY <1>5, <1>6, <1>12, <2>1 DEF Moves
  <2>3. Talks(c, quiet)
    BY <1>12 DEF Talks
  <2>. QED BY <1>7, <2>2, <2>3, StepKeeps
<1>13. CASE ~C!ListFails(me.copy) /\ Talks(c, r) /\ (C!Is(c, rec) \/ C!Hangs(c, r))
  <2>1. IsRequest(r) /\ IsTyped(rec) /\ (stops = 0 => IsCurrent(s, rec))
    BY <1>5, <1>6, <1>9, <1>13
  <2>2. stops = 0 => s.users \subseteq server'.store.users
    BY <1>10, <1>13, <2>1, ClientIs, TalkCalm
  <2>3. stops = 0 => IsCurrent(server'.store, rec)
    BY <2>1, <2>2, CurrentStays
  <2>4. Moves(c)
    BY <1>10, <1>13, <2>1, <2>3, ClientIs, HangsMoves DEF Moves
  <2>. QED BY <1>10, <1>13, <2>1, <2>4, StepKeeps
<1>. QED BY <1>3, <1>11, <1>12, <1>13

\* A message that is answered comes last in the chat that is open.
LEMMA PostKeeps ==
    ASSUME CliInv, NEW c \in Clients, C!Post(c)
    PROVE  CliInv' /\ Kept /\ Apart(c)
<1> DEFINE me == client[c]
           s == server.store
           at == me.at
           chat == me.copy[at]
           r == C!RqCreateMessage(me.user, chat.id)
           id == C!Reply(r).body
           post == C!WithPost(chat, id, me.user)
           rec == [me EXCEPT !.copy[at] = C!WithPost(@, id, me.user)]
<1>1. me.menu = "chat" /\ Talks(c, r)
  BY Zenon DEF C!Post, C!In, Talks
<1>2. /\ IsTyped(me) /\ DOMAIN me = ClientFields /\ me.user \in Logins
      /\ Data!IsSeq(me.copy) /\ Len(me.copy) \in Nat /\ DOMAIN me.copy = 1 .. Len(me.copy)
      /\ \A j \in DOMAIN me.copy : IsChat(me.copy[j])
      /\ at \in DOMAIN me.copy
  BY <1>1, ClientIs, CopyIs, SMTT(40) DEF IsTyped, LoggedIn
<1>3. IsRequest(r) /\ Knows(s, r) /\ r.type = "createMessage"
  BY RequestsAre DEF IsRequest, RequestTypes, Knows
<1>4. \/ C!Answered(c, r) /\ C!Is(c, rec)
      \/ UNCHANGED client
      \/ C!Hangs(c, r)
  BY Zenon DEF C!Post, C!Untouched
<1>5. C!Answered(c, r) => id \in Nat
  <2>. HIDE DEF r
  <2>. QED BY <1>3, ClientIs, AnswerIs DEF IsBody
<1>6. stops = 0 => IsCurrent(s, me) /\ s.users \subseteq server'.store.users
  <2>. HIDE DEF r
  <2>. QED BY <1>1, <1>3, ClientIs, TalkCalm
<1>7. ASSUME id \in Nat
      PROVE  IsTyped(rec) /\ (stops = 0 => IsCurrent(s, rec))
  <2> DEFINE copy == [me.copy EXCEPT ![at] = post]
  <2>1. IsChat(post) /\ post.msgs # <<>>
    <3>. HIDE DEF id, chat
    <3>. QED BY <1>2, <1>7, PostIsChat DEF chat
  <2>2. me.menu = "chat" /\ (stops = 0 => IsCurrent(s, me))
    BY <1>1, <1>6
  <2>. HIDE DEF me, id, s
  <2>3. /\ DOMAIN copy = DOMAIN me.copy
        /\ \A j \in DOMAIN me.copy : j # at => copy[j] = me.copy[j]
        /\ copy[at] = post
        /\ copy = [j \in DOMAIN me.copy |-> copy[j]]
    BY <1>2
  <2>4. /\ DOMAIN rec = ClientFields /\ rec.menu = me.menu /\ rec.known = me.known
        /\ rec.user = me.user /\ rec.copy = copy
        /\ rec.at = me.at /\ rec.why = me.why /\ rec.draft = me.draft
    BY <1>2, Zenon DEF ClientFields
  <2>. HIDE DEF copy, rec, post
  <2>5. Data!IsSeq(copy) /\ Len(copy) = Len(me.copy)
    <3>1. copy = [j \in 1 .. Len(me.copy) |-> copy[j]] /\ Len(me.copy) \in Nat
      BY <1>2, <2>3
    <3>. QED BY <3>1, Data!FunctionSeq
  <2>6. \A j \in DOMAIN copy : IsChat(copy[j])
    BY <1>2, <2>1, <2>3
  <2>7. me.at \in 0 .. Len(copy) /\ me.at \in DOMAIN copy
    BY <1>2, <2>3, <2>5
  <2>8. C!IsClient(rec)
    BY <1>2, <2>4, <2>6, <2>7 DEF IsTyped, C!IsClient, IsChat
  <2>9. IsTyped(rec)
    BY <1>2, <2>2, <2>4, <2>5, <2>6, <2>7, <2>8 DEF IsTyped, IsChat, LoggedIn, LoggedOut
  <2>10. stops = 0 => \A j \in DOMAIN copy : copy[j].msgs # <<>>
    BY <2>1, <2>2, <2>3 DEF IsCurrent, LoggedIn
  <2>11. stops = 0 => IsCurrent(s, rec)
    BY <2>2, <2>4, <2>10 DEF IsCurrent, LoggedIn
  <2>. QED BY <2>9, <2>11
<1>. HIDE DEF r, rec, id
<1>8. stops = 0 /\ id \in Nat => IsCurrent(server'.store, rec)
  BY <1>6, <1>7, CurrentStays
<1>9. Moves(c)
  BY <1>3, <1>4, <1>5, <1>7, <1>8, ClientIs, HangsMoves DEF Moves
<1>. QED BY <1>1, <1>3, <1>9, StepKeeps

\* Back to the menus one came from.
LEMMA QuietKeeps ==
    ASSUME CliInv, NEW c \in Clients, C!Cancel(c) \/ C!GiveUp(c) \/ C!CloseChat(c)
    PROVE  CliInv' /\ Kept /\ Apart(c)
<1> DEFINE me == client[c]
           s == server.store
           r == C!RqCheckLogin(C!None)
           cancelled == [me EXCEPT !.menu = "entrance", !.user = C!None]
           given == [me EXCEPT !.menu = "main", !.draft = C!NoDraft]
           closed == [me EXCEPT !.menu = "main", !.at = 0]
<1>1. C!NoRequest
  BY DEF C!Cancel, C!GiveUp, C!CloseChat
<1>2. IsRequest(r) /\ Talks(c, r) /\ Knows(s, r)
  BY <1>1, RequestsAre DEF IsRequest, RequestTypes, Talks, Knows
<1>3. /\ IsTyped(me) /\ DOMAIN me = ClientFields
      /\ Len(me.copy) \in Nat /\ (stops = 0 => IsCurrent(s, me))
  BY ClientIs, CopyIs
<1>4. server' = server
  BY <1>1 DEF C!NoRequest
<1>5. CASE C!Cancel(c)
  <2>1. me.menu \in {"signup", "password"} /\ C!Is(c, cancelled)
    BY <1>5 DEF C!Cancel, C!In
  <2>. HIDE DEF me, s
  <2>2. /\ DOMAIN cancelled = ClientFields /\ cancelled.menu = "entrance"
        /\ cancelled.known = me.known /\ cancelled.copy = me.copy /\ cancelled.user = C!None
        /\ cancelled.at = me.at /\ cancelled.why = me.why /\ cancelled.draft = me.draft
    BY <1>3, Zenon DEF ClientFields
  <2>. HIDE DEF cancelled
  <2>3. IsTyped(cancelled) /\ (stops = 0 => IsCurrent(s, cancelled))
    BY <1>3, <2>1, <2>2, UserTyped
  <2>4. Moves(c)
    BY <1>4, <2>1, <2>3 DEF Moves, s
  <2>. HIDE DEF r
  <2>. QED BY <1>2, <2>4, StepKeeps DEF s
<1>6. CASE C!GiveUp(c)
  <2>1. me.menu = "draft" /\ C!Is(c, given)
    BY <1>6 DEF C!GiveUp, C!In
  <2>. HIDE DEF me, s
  <2>2. /\ DOMAIN given = ClientFields /\ given.menu = "main"
        /\ given.known = me.known /\ given.copy = me.copy /\ given.user = me.user
        /\ given.at = me.at /\ given.why = me.why /\ given.draft = C!NoDraft
    BY <1>3, Zenon DEF ClientFields
  <2>. HIDE DEF given
  <2>3. IsTyped(given)
    BY <1>3, <2>1, <2>2, OffIsTyped DEF IsTyped, C!IsClient, C!Menus, LoggedIn, LoggedOut
  <2>4. stops = 0 => IsCurrent(s, given)
    BY <1>3, <2>1, <2>2, OffIsTyped DEF IsCurrent, LoggedIn
  <2>5. Moves(c)
    BY <1>4, <2>1, <2>3, <2>4 DEF Moves, s
  <2>. HIDE DEF r
  <2>. QED BY <1>2, <2>5, StepKeeps DEF s
<1>7. CASE C!CloseChat(c)
  <2>1. me.menu = "chat" /\ C!Is(c, closed)
    BY <1>7 DEF C!CloseChat, C!In
  <2>. HIDE DEF me, s
  <2>2. /\ DOMAIN closed = ClientFields /\ closed.menu = "main"
        /\ closed.known = me.known /\ closed.copy = me.copy /\ closed.user = me.user
        /\ closed.at = 0 /\ closed.why = me.why /\ closed.draft = me.draft
    BY <1>3, Zenon DEF ClientFields
  <2>. HIDE DEF closed
  <2>3. IsTyped(closed)
    BY <1>3, <2>1, <2>2 DEF IsTyped, C!IsClient, C!Menus, LoggedIn, LoggedOut
  <2>4. stops = 0 => IsCurrent(s, closed)
    BY <1>3, <2>1, <2>2 DEF IsCurrent, LoggedIn
  <2>5. Moves(c)
    BY <1>4, <2>1, <2>3, <2>4 DEF Moves, s
  <2>. HIDE DEF r
  <2>. QED BY <1>2, <2>5, StepKeeps DEF s
<1>. QED BY <1>5, <1>6, <1>7

-----------------------------------------------------------------------------
(* Processes, the server, and every step.                                  *)

\* A process starts with nothing, and leaves with nothing.
LEMMA ProcessKeeps ==
    ASSUME CliInv, NEW c \in Clients, C!Launch(c) \/ C!Gone(c) \/ C!Logout(c)
    PROVE  CliInv' /\ Kept /\ Apart(c)
<1> DEFINE off == C!Off
           entrance == [off EXCEPT !.menu = "entrance"]
<1>0. ServerInv /\ ClientsInv /\ CalmInv
  BY DEF CliInv
<1>1. server' = server /\ stops' = stops /\ writes' = writes
  BY DEF C!Launch, C!Gone, C!Logout
<1>2. stale' \subseteq Clients /\ slot' \in Clients \cup {C!None}
  BY <1>0 DEF C!Launch, C!Gone, C!Logout, ClientsInv, ServerInv
<1>3. /\ link' \in [Clients -> C!Links]
      /\ \A d \in Clients : link'[d] = link[d] \/ link'[d] = "none"
                            \/ (server.up /\ link'[d] = "ok")
                            \/ (~server.up /\ link'[d] = "offline")
  <2>1. \/ link' = link
        \/ link' = [link EXCEPT ![c] = "none"]
        \/ server.up /\ link' = [link EXCEPT ![c] = "ok"]
        \/ ~server.up /\ link' = [link EXCEPT ![c] = "offline"]
    BY DEF C!Launch, C!Gone, C!Logout, C!Searched
  <2>2. link \in [Clients -> C!Links]
    BY <1>0 DEF ServerInv
  <2>. QED BY <2>1, <2>2 DEF C!Links
<1>4. /\ IsTyped(off) /\ IsTyped(entrance)
      /\ \A s : IsCurrent(s, off) /\ IsCurrent(s, entrance)
  <2>1. /\ IsTyped(off) /\ off.menu = "off" /\ off.why = C!None /\ off.copy = <<>>
        /\ off.at = 0 /\ off.known = {} /\ off.user = C!None
        /\ off.draft.tries = 0 /\ off.draft.members = {}
    BY OffIsTyped
  <2>2. \A s : IsCurrent(s, off)
    BY OffIsCurrent
  <2>. HIDE DEF off
  <2>3. DOMAIN off = ClientFields
    BY <2>1 DEF IsTyped
  <2>4. /\ DOMAIN entrance = ClientFields /\ entrance.menu = "entrance"
        /\ entrance.why = off.why /\ entrance.copy = off.copy /\ entrance.user = off.user
        /\ entrance.at = off.at /\ entrance.known = off.known /\ entrance.draft = off.draft
    BY <2>3, Zenon DEF ClientFields
  <2>. HIDE DEF entrance
  <2>5. IsTyped(entrance)
    BY <2>1, <2>4 DEF IsTyped, C!IsClient, C!Menus, LoggedIn, LoggedOut
  <2>6. \A s : IsCurrent(s, entrance)
    BY <2>1, <2>4 DEF IsCurrent, LoggedIn
  <2>. QED BY <2>1, <2>2, <2>5, <2>6
<1>5. C!Is(c, off) \/ C!Is(c, entrance)
  BY DEF C!Launch, C!Gone, C!Logout
<1>. HIDE DEF off, entrance
<1>6. PICK rec : C!Is(c, rec) /\ IsTyped(rec) /\ \A s : IsCurrent(s, rec)
  BY <1>4, <1>5
<1>7. /\ DOMAIN client' = Clients /\ client'[c] = rec
      /\ \A d \in Clients \ {c} : client'[d] = client[d]
  BY <1>0, <1>6, Zenon DEF C!Is, ClientsInv
<1>8. ServerInv'
  BY <1>0, <1>1, <1>2, <1>3 DEF ServerInv
<1>9. ClientsInv'
  BY <1>0, <1>2, <1>6, <1>7 DEF ClientsInv
<1>10. stops = 0 => Calm'
  BY <1>0, <1>1, <1>3, <1>6, <1>7 DEF CalmInv, Calm
<1>11. CalmInv'
  BY <1>0, <1>1, <1>10 DEF CalmInv
<1>12. Kept
  BY <1>0, <1>1, ServerParts, SameGrows DEF Kept, IsGood
<1>13. Apart(c)
  <2>1. \A d \in Clients \ {c} : d \in stale => d \in stale'
    BY DEF C!Launch, C!Gone, C!Logout
  <2>2. \A d \in Clients \ {c} : link'[d] = link[d]
    BY <1>0 DEF C!Launch, C!Gone, C!Logout, ServerInv
  <2>3. \A d \in Clients \ {c} : slot = d => slot' = slot
    BY DEF C!Launch, C!Gone, C!Logout
  <2>. QED BY <1>1, <1>7, <2>1, <2>2, <2>3 DEF Apart
<1>. QED BY <1>8, <1>9, <1>11, <1>12, <1>13 DEF CliInv

\* The first end of a server whose clients are right about the users is a stop.
LEMMA ServerKeeps ==
    ASSUME CliInv, C!Start \/ C!Stop
    PROVE  CliInv' /\ Kept
<1>0. ServerInv /\ ClientsInv /\ CalmInv
  BY DEF CliInv
<1>1. CASE C!Start
  <2>1. /\ server' = [server EXCEPT !.up = TRUE] /\ ~server.up /\ stops <= MaxStops
        /\ UNCHANGED <<slot, link, client, stale, stops, writes>>
    BY <1>1 DEF C!Start
  <2>2. /\ server' \in [up : BOOLEAN, store : Store, ended : Endings]
        /\ server'.store = server.store /\ server'.ended = server.ended
    BY <1>0, <2>1 DEF ServerInv
  <2>3. ServerInv'
    BY <1>0, <2>1, <2>2 DEF ServerInv
  <2>4. ClientsInv'
    BY <1>0, <2>1 DEF ClientsInv
  <2>5. stops # 0
    BY <1>0, <2>1 DEF CalmInv, Calm
  <2>6. CalmInv'
    BY <1>0, <2>1, <2>2, <2>5 DEF CalmInv
  <2>. QED BY <2>1, <2>3, <2>4, <2>6 DEF CliInv, Kept
<1>2. CASE C!Stop
  <2>1. C!ServerEnds("stopped", C!AfterEnds) /\ "stopped" \in Endings
    BY <1>2 DEF C!Stop, Endings
  <2>2. /\ ServerInv' /\ server'.ended = "stopped" /\ stops' = stops + 1
        /\ UNCHANGED client /\ stale' = Clients
    BY <1>0, <2>1, EndsKeeps
  <2>3. ClientsInv'
    BY <1>0, <2>2 DEF ClientsInv
  <2>4. CalmInv'
    BY <1>0, <2>2, ServerParts DEF CalmInv
  <2>5. ~server'.up
    BY <2>1 DEF C!ServerEnds
  <2>. QED BY <2>2, <2>3, <2>4, <2>5 DEF CliInv, Kept
<1>. QED BY <1>1, <1>2

\* Each step keeps CliInv.
LEMMA EveryStepKeeps ==
    ASSUME CliInv, [C!Next]_(C!vars)
    PROVE  CliInv' /\ Kept
<1>1. CASE UNCHANGED C!vars
  <2>1. CliInv'
    BY <1>1 DEF C!vars, CliInv, ServerInv, ClientsInv, CalmInv, Calm
  <2>2. server' = server
    BY <1>1 DEF C!vars
  <2>. QED BY <2>1, <2>2, ServerParts, SameGrows DEF Kept, CliInv, IsGood
<1>2. ASSUME NEW c \in Clients, C!EntranceStep(c)
      PROVE  CliInv' /\ Kept
  BY <1>2, ProcessKeeps, QuietKeeps, CreateUserKeeps, CheckPasswordKeeps, SignInKeeps,
     NewLoginKeeps, CheckLoginKeeps DEF C!EntranceStep
<1>3. ASSUME NEW c \in Clients, C!ChatStep(c)
      PROVE  CliInv' /\ Kept
  BY <1>3, ProcessKeeps, QuietKeeps, LoadChatKeeps, LoadMessagesKeeps, ChooseKeeps,
     SendDraftKeeps, OpenChatKeeps, PostKeeps DEF C!ChatStep
<1>. QED BY <1>1, <1>2, <1>3, ServerKeeps DEF C!Next

\* Nothing has happened yet.
LEMMA InitKeeps == ASSUME C!Init PROVE CliInv
<1>1. /\ server = [up |-> TRUE, store |-> Seed, ended |-> C!None] /\ slot = C!None
      /\ link = [c \in Clients |-> "none"] /\ client = [c \in Clients |-> C!Off]
      /\ stale = Clients /\ stops = 0 /\ writes = 0
  BY DEF C!Init
<1>2. ServerInv
  BY <1>1, SeedIsGood, BoundsAssumption DEF ServerInv, IsGood, C!Links, Endings
<1>3. ClientsInv
  BY <1>1, OffIsTyped DEF ClientsInv
<1>4. CalmInv
  BY <1>1, SeedIsGood, OffIsCurrent DEF CalmInv, Calm
<1>. QED BY <1>2, <1>3, <1>4 DEF CliInv

\* The inductive invariant of the system.
THEOREM CliInvariant == Spec => []CliInv
<1>1. C!Init => CliInv
  BY InitKeeps
<1>2. CliInv /\ [C!Next]_(C!vars) => CliInv'
  BY EveryStepKeeps
<1>. QED BY <1>1, <1>2, PTL DEF Spec, C!Spec

\* Whatever is answered, lost or restarted, a client's chats are chats, its place in the
\* list is one of the list, and every time stamp is that of a message.
THEOREM CliTyping == Spec => []TypeOK
<1>1. CliInv => TypeOK
  BY DEF CliInv, ServerInv, ClientsInv, IsTyped, TypeOK
<1>. QED BY <1>1, CliInvariant, PTL

\* No request leaves a chat in the lists under an id that will be given again, nor one
\* that was given up under an id that will not.
THEOREM FreeIdsAbandoned == Spec => []FreeAreAbandoned
<1>1. CliInv => FreeAreAbandoned
  BY DEF CliInv, ServerInv, FreeIs, FreeAreAbandoned
<1>. QED BY <1>1, CliInvariant, PTL

\* Until the server ends for the first time every login the clients send is one of a user
\* of the server's: no request follows a null pointer or is left without an answer, and
\* the first end of a server is a stop.
THEOREM CalmUntilEnd == Spec => []CalmBeforeFirstEnd
<1>1. CliInv => CalmBeforeFirstEnd
  <2>. SUFFICES ASSUME CliInv PROVE CalmBeforeFirstEnd
    OBVIOUS
  <2>1. stops \in Nat /\ (stops = 0 \/ stops = 1 \/ stops >= 2)
    BY ServerParts DEF CliInv
  <2>2. CASE stops = 0
    BY <2>2 DEF CliInv, CalmInv, Calm, IsCurrent, CalmBeforeFirstEnd
  <2>3. CASE stops # 0
    BY <2>1, <2>3 DEF CliInv, CalmInv, CalmBeforeFirstEnd
  <2>. QED BY <2>2, <2>3
<1>. QED BY <1>1, CliInvariant, PTL

-----------------------------------------------------------------------------
(* What a request may never do.                                            *)

\* A sequence that extends another one begins with it.
LEMMA PrefixIs ==
    ASSUME NEW S, NEW p \in Seq(S), NEW q \in Seq(S), Extends(p, q)
    PROVE  C!IsPrefix(p, q)
<1>1. Len(p) \in Nat /\ Len(q) \in Nat /\ Len(p) <= Len(q)
  BY LenProperties DEF Extends
<1>2. SubSeq(p, 1, Len(p)) = [k \in 1 .. Len(p) |-> p[k]]
  BY <1>1
<1>3. SubSeq(q, 1, Len(p)) = [k \in 1 .. Len(p) |-> q[k]]
  BY <1>1
<1>4. \A k \in 1 .. Len(p) : p[k] = q[k]
  BY DEF Extends
<1>5. SubSeq(p, 1, Len(p)) = SubSeq(q, 1, Len(p))
  BY <1>2, <1>3, <1>4
<1>. QED BY <1>1, <1>5 DEF C!IsPrefix

\* The messages of a chat are numbered, so those of a longer chat begin with them.
LEMMA MessagesGrow ==
    ASSUME NEW s \in Store, NEW i \in DOMAIN s.chats, NEW n \in Store, i \in DOMAIN n.chats,
           Extends(s.chats[i].by, n.chats[i].by)
    PROVE  C!IsPrefix(Messages(s.chats[i]), Messages(n.chats[i]))
<1> DEFINE p == s.chats[i].by
           q == n.chats[i].by
           old == Messages(s.chats[i])
           new == Messages(n.chats[i])
<1>1. /\ Len(p) \in Nat /\ DOMAIN p = 1 .. Len(p) /\ \A k \in DOMAIN p : p[k] \in Logins
      /\ Len(q) \in Nat /\ DOMAIN q = 1 .. Len(q) /\ \A k \in DOMAIN q : q[k] \in Logins
  BY StoreParts, LenProperties, ElementOfSeq, SMTT(40)
<1>2. /\ DOMAIN old = DOMAIN p /\ \A k \in DOMAIN p : old[k] = [id |-> k, by |-> p[k]]
      /\ DOMAIN new = DOMAIN q /\ \A k \in DOMAIN q : new[k] = [id |-> k, by |-> q[k]]
  BY DEF Messages
<1>3. old \in [1 .. Len(p) -> Msg] /\ new \in [1 .. Len(q) -> Msg]
  BY <1>1 DEF Messages, Msg
<1>4. Len(p) <= Len(q) /\ \A k \in 1 .. Len(p) : q[k] = p[k]
  BY DEF Extends
<1>. HIDE DEF p, q, old, new
<1>5. /\ old \in Seq(Msg) /\ Len(old) = Len(p)
      /\ new \in Seq(Msg) /\ Len(new) = Len(q)
  BY <1>1, <1>3, Data!FunctionIsSeq
<1>6. \A k \in 1 .. Len(p) : k \in DOMAIN p /\ k \in DOMAIN q
  BY <1>1, <1>4
<1>7. \A k \in 1 .. Len(p) : new[k] = old[k]
  BY <1>2, <1>4, <1>6
<1>8. Extends(old, new)
  BY <1>4, <1>5, <1>7 DEF Extends
<1>9. C!IsPrefix(old, new)
  BY <1>5, <1>8, PrefixIs
<1>. QED BY <1>9 DEF old, new

\* A store that grows sends a user everything it has sent.
LEMMA ListStays ==
    ASSUME NEW s \in Store, NEW n \in Store, Grows(s, n), NEW u \in Logins, C!KnowsUser(s, u)
    PROVE  /\ C!KnowsUser(n, u)
           /\ \A k \in DOMAIN C!ListOnServer(s, u) :
                 LET old == C!ListOnServer(s, u)[k]
                 IN  \E j \in DOMAIN C!ListOnServer(n, u) :
                         LET new == C!ListOnServer(n, u)[j]
                         IN  /\ new.id = old.id /\ new.members = old.members
                             /\ C!IsPrefix(old.msgs, new.msgs)
<1> DEFINE r == C!RqRegister(u)
           was == C!ListOnServer(s, u)
           is == C!ListOnServer(n, u)
<1>1. r.type = "register" /\ r.login = u
  BY RequestsAre
<1>2. was = CliHandle(s, r).body /\ is = CliHandle(n, r).body
  BY DEF C!ListOnServer
<1>3. CliHandle(s, r).fate = "reply"
  BY DEF C!KnowsUser
<1>. HIDE DEF r
<1>4. u \in s.users /\ u \in n.users
  BY <1>1, <1>3, RegisterRequest DEF Grows
<1>5. CliHandle(n, r).fate = "reply"
  BY <1>1, <1>4, RegisterRequest, ZenonT(40)
<1>6. C!KnowsUser(n, u)
  BY <1>5 DEF C!KnowsUser, r
<1>7. /\ DOMAIN was = DOMAIN ListOf(s, u)
      /\ \A k \in DOMAIN was : was[k] = Packet(s, ListOf(s, u)[k], u)
  BY <1>1, <1>2, <1>4, PacketsAre
<1>8. /\ DOMAIN is = DOMAIN ListOf(n, u)
      /\ \A k \in DOMAIN is : is[k] = Packet(n, ListOf(n, u)[k], u)
  BY <1>1, <1>2, <1>4, PacketsAre
<1>. HIDE DEF was, is
<1>9. ASSUME NEW k \in DOMAIN was
      PROVE  \E j \in DOMAIN is : /\ is[j].id = was[k].id /\ is[j].members = was[k].members
                                  /\ C!IsPrefix(was[k].msgs, is[j].msgs)
  <2> DEFINE i == ListOf(s, u)[k]
  <2>1. i \in DOMAIN s.chats /\ s.chats[i].listed /\ u \in s.chats[i].members
    BY <1>7, <1>9, ListIs
  <2>2. was[k] = Packet(s, i, u)
    BY <1>7, <1>9
  <2>. HIDE DEF i
  <2>3. /\ i \in DOMAIN n.chats /\ n.chats[i].listed /\ n.chats[i].members = s.chats[i].members
        /\ Extends(s.chats[i].by, n.chats[i].by)
    BY <2>1 DEF Grows
  <2>4. u \in n.chats[i].members
    BY <2>1, <2>3
  <2>5. \A h \in DOMAIN n.chats : n.chats[h].listed /\ u \in n.chats[h].members =>
                                    \E j \in DOMAIN ListOf(n, u) : ListOf(n, u)[j] = h
    BY ListIs, ZenonT(40)
  <2>6. PICK j \in DOMAIN ListOf(n, u) : ListOf(n, u)[j] = i
    BY <2>3, <2>4, <2>5, Zenon
  <2>7. j \in DOMAIN is /\ is[j] = Packet(n, i, u)
    BY <1>8, <2>6
  <2>8. C!IsPrefix(Messages(s.chats[i]), Messages(n.chats[i]))
    BY <2>1, <2>3, MessagesGrow
  <2>9. /\ was[k].id = i /\ was[k].members = s.chats[i].members
        /\ was[k].msgs = Messages(s.chats[i])
    BY <2>2 DEF Packet
  <2>10. /\ is[j].id = i /\ is[j].members = n.chats[i].members
         /\ is[j].msgs = Messages(n.chats[i])
    BY <2>7 DEF Packet
  <2>. QED BY <2>3, <2>7, <2>8, <2>9, <2>10
<1>. QED BY <1>6, <1>9 DEF was, is

\* As long as the server runs, no request of any client takes a user, a chat, a participant
\* or a message from what the server would send: what it has answered for stays.
THEOREM AckedForever == Spec => AckedStays
<1> DEFINE Stays == server.up /\ server'.up /\ server'.store # server.store =>
              \A u \in Logins : C!KnowsUser(server.store, u) =>
                  /\ C!KnowsUser(server'.store, u)
                  /\ \A k \in DOMAIN C!ListOnServer(server.store, u) :
                        LET old == C!ListOnServer(server.store, u)[k]
                        IN  \E j \in DOMAIN C!ListOnServer(server'.store, u) :
                                LET new == C!ListOnServer(server'.store, u)[j]
                                IN  /\ new.id = old.id /\ new.members = old.members
                                    /\ C!IsPrefix(old.msgs, new.msgs)
<1>1. CliInv /\ [C!Next]_(C!vars) => Stays
  <2>. SUFFICES ASSUME CliInv, [C!Next]_(C!vars), server.up, server'.up,
                       NEW u \in Logins, C!KnowsUser(server.store, u)
                PROVE  /\ C!KnowsUser(server'.store, u)
                       /\ \A k \in DOMAIN C!ListOnServer(server.store, u) :
                             LET old == C!ListOnServer(server.store, u)[k]
                             IN  \E j \in DOMAIN C!ListOnServer(server'.store, u) :
                                     LET new == C!ListOnServer(server'.store, u)[j]
                                     IN  /\ new.id = old.id /\ new.members = old.members
                                         /\ C!IsPrefix(old.msgs, new.msgs)
    OBVIOUS
  <2>1. CliInv' /\ Grows(server.store, server'.store)
    BY EveryStepKeeps DEF Kept
  <2>2. server.store \in Store /\ server'.store \in Store
    BY <2>1 DEF CliInv, ServerInv
  <2>. QED BY <2>1, <2>2, ListStays
<1>2. CliInv /\ [C!Next]_(C!vars) => [Stays]_server
  BY <1>1
<1>. HIDE DEF Stays
<1>3. Spec => [][Stays]_server
  BY <1>2, CliInvariant, PTL DEF Spec, C!Spec
<1>. QED BY <1>3 DEF Stays, AckedStays, C!AckedStays

-----------------------------------------------------------------------------
(* A client that logged in to the server as it runs is served by it until  *)
(* the client leaves, and shows the server's chats.                        *)

\* A chat of the copy is the server's chat of that id.  The message that the user's
\* pointer stands at is the user's own, or the one the pointer on the server stands at.
Mirrors(s, u, chat) ==
    /\ chat.id \in DOMAIN s.chats
    /\ chat.members = s.chats[chat.id].members
    /\ chat.msgs = Messages(s.chats[chat.id])
    /\ \A m \in DOMAIN chat.stamped : m \in 0 .. Len(chat.msgs) /\ (m # 0 => chat.stamped[m] = m)
    /\ chat.read \in DOMAIN chat.stamped =>
          \/ chat.stamped[chat.read] = s.chats[chat.id].lastRead[u]
          \/ chat.msgs[chat.stamped[chat.read]].by = u

\* The copy has each of the user's chats once.
ShowsAll(s, u, copy) ==
    /\ \A i \in DOMAIN copy : Mirrors(s, u, copy[i])
    /\ \A i, j \in DOMAIN copy : copy[i].id = copy[j].id => i = j
    /\ \A i \in DOMAIN s.chats : s.chats[i].listed /\ u \in s.chats[i].members =>
                                     \E k \in DOMAIN copy : copy[k].id = i

\* What is not loaded yet is what the server would answer now.
StillToLoad(s, me) ==
    /\ me.queue = C!ListOnServer(s, me.user)
    /\ \A i \in DOMAIN me.copy :
          me.copy[i] = C!CopyChat(me.queue[i].id, me.queue[i].members, me.queue[i].read, <<>>, <<>>)

\* Nobody who logged in to the server as it runs has failed to create a chat.
Agrees(s, me) ==
    /\ me.user \in s.users /\ me.draft.tries = 0 /\ me.draft.members \subseteq s.users
    /\ me.menu = "loading" => StillToLoad(s, me)
    /\ me.menu \in LoggedIn => ShowsAll(s, me.user, me.copy)

\* Such a client is the one in the slot.
IsFresh(c) ==
    /\ server.up /\ slot = c /\ link[c] \in {"ok", "asked"}
    /\ client[c].menu \in LoggedIn \cup {"loading", "dead"}
    /\ client[c].menu # "dead" => Agrees(server.store, client[c])

FreshInv == \A c \in Clients \ stale : IsFresh(c)

\* Client c is still served, and is rec.
Goes(c, rec) == /\ server'.up /\ slot' = c /\ link'[c] = "ok" /\ client'[c] = rec

\* The answer came, and the server has done what it does.
LEMMA FreshAnswered ==
    ASSUME ServerInv, NEW c \in Clients, NEW r, server.up, slot = c, link[c] = "ok",
           C!Answered(c, r) \/ C!Unanswered(c, r)
    PROVE  /\ server'.up /\ slot' = c /\ link'[c] = "ok"
           /\ server'.store = CliHandle(server.store, r).store
           /\ C!Reply(r) = CliHandle(server.store, r)
           /\ C!Answered(c, r) => CliHandle(server.store, r).fate = "reply"
           /\ C!Unanswered(c, r) => CliHandle(server.store, r).fate = "empty"
<1>1. C!Reply(r) = CliHandle(server.store, r)
  BY DEF C!Reply
<1>2. DOMAIN link = Clients
  BY ServerParts
<1>3. C!Served(c, r) /\ link' = [link EXCEPT ![c] = "ok"]
  BY DEF C!Answered, C!Unanswered, C!Connected
<1>4. C!Unanswered(c, r) => C!Reply(r).fate = "empty"
  BY DEF C!Unanswered
<1>5. C!Answered(c, r) => C!Reply(r).fate = "reply"
  BY DEF C!Answered
<1>6. server' = [server EXCEPT !.store = C!Reply(r).store] /\ slot' = c
  BY <1>3 DEF C!Served
<1>7. server \in [up : BOOLEAN, store : Store, ended : Endings]
  BY DEF ServerInv
<1>. HIDE DEF CliHandle
<1>8. server'.up /\ server'.store = C!Reply(r).store
  <2> DEFINE n == C!Reply(r).store
  <2>1. server' = [server EXCEPT !.store = n]
    BY <1>6
  <2>. HIDE DEF n
  <2>2. server'.up /\ server'.store = n
    BY <1>7, <2>1
  <2>. QED BY <2>2 DEF n
<1>. QED BY <1>1, <1>2, <1>3, <1>4, <1>5, <1>6, <1>8

\* A client that the server knows waits for nothing but an answer about users; then
\* it waits for ever.
LEMMA FreshHangs ==
    ASSUME CliInv, NEW c \in Clients, NEW r, IsRequest(r), IsFresh(c), link[c] = "ok",
           C!Hangs(c, r), c \notin stale'
    PROVE  IsFresh(c)'
<1> DEFINE s == server.store
           n == CliHandle(s, r).store
           fate == CliHandle(s, r).fate
<1>1. ServerInv /\ IsGood(s) /\ DOMAIN link = Clients
  BY ClientIs, ServerParts
<1>2. fate \in {"reply", "empty", "silent", "dies"}
  BY <1>1, HandleGood
<1>3. C!Reply(r) = CliHandle(s, r)
  BY DEF C!Reply
<1>4. ~\E after : C!ServerEnds(r.type, after)
  BY DEF C!ServerEnds
<1>5. /\ C!Served(c, r) /\ fate = "silent" /\ link' = [link EXCEPT ![c] = "asked"]
      /\ UNCHANGED client
  BY <1>2, <1>3, <1>4 DEF C!Hangs
<1>6. server' = [server EXCEPT !.store = n] /\ slot' = c
  BY <1>3, <1>5 DEF C!Served
<1>7. fate = "silent" => n = s
  <2>1. r.type \in RequestTypes
    BY DEF IsRequest
  <2>2. r.type \in {"checkLogin", "checkPassword", "getUsers", "search"} => n = s
    BY QuestionRequests
  <2>3. r.type = "createUser" => fate = "reply"
    BY <1>1, CreateUserRequest DEF IsGood
  <2>4. r.type = "register" => n = s
    BY RegisterRequest
  <2>5. r.type = "createChat" => fate # "silent"
    BY CreateChatRequest
  <2>6. r.type = "createMessage" => fate # "silent"
    BY CreateMessageRequest
  <2>7. r.type = "setLastRead" => fate # "silent"
    BY SetLastReadRequest
  <2>. HIDE DEF n, fate, s
  <2>. QED BY <2>1, <2>2, <2>3, <2>4, <2>5, <2>6, <2>7 DEF RequestTypes
<1>8. server' = server
  <2>1. server \in [up : BOOLEAN, store : Store, ended : Endings]
    BY <1>1 DEF ServerInv
  <2>2. n = server.store
    BY <1>5, <1>7
  <2>. HIDE DEF n
  <2>. QED BY <1>6, <2>1, <2>2
<1>9. link'[c] = "asked" /\ slot' = slot /\ client' = client
  BY <1>1, <1>5, <1>6, SMTT(40) DEF IsFresh
<1>. QED BY <1>8, <1>9 DEF IsFresh

\* What the server answers to a login: each of the user's chats once, as it is.
LEMMA ServerListIs ==
    ASSUME NEW s \in Store, NEW u \in s.users
    PROVE  LET q == C!ListOnServer(s, u)
           IN  /\ C!KnowsUser(s, u) /\ Data!IsSeq(q)
               /\ \A k \in DOMAIN q :
                     LET chat == s.chats[q[k].id]
                     IN  /\ q[k].id \in DOMAIN s.chats /\ chat.listed /\ u \in chat.members
                         /\ q[k].members = chat.members /\ q[k].read = chat.lastRead[u]
                         /\ q[k].msgs = Messages(chat)
               /\ \A j, k \in DOMAIN q : q[j].id = q[k].id => j = k
               /\ \A i \in DOMAIN s.chats : s.chats[i].listed /\ u \in s.chats[i].members =>
                                               \E k \in DOMAIN q : q[k].id = i
<1> DEFINE r == C!RqRegister(u)
           q == C!ListOnServer(s, u)
           list == ListOf(s, u)
<1>1. r.type = "register" /\ r.login = u
  BY RequestsAre
<1>2. q = CliHandle(s, r).body /\ (C!KnowsUser(s, u) <=> CliHandle(s, r).fate = "reply")
  BY DEF C!ListOnServer, C!KnowsUser
<1>. HIDE DEF r
<1>3. C!KnowsUser(s, u)
  BY <1>1, <1>2, RegisterRequest, ZenonT(40)
<1>4. /\ Data!IsSeq(q) /\ DOMAIN q = DOMAIN list
      /\ \A k \in DOMAIN q : list[k] \in DOMAIN s.chats /\ q[k] = Packet(s, list[k], u)
  BY <1>1, <1>2, PacketsAre
<1>5. /\ \A k \in DOMAIN list : s.chats[list[k]].listed /\ u \in s.chats[list[k]].members
      /\ \A i \in DOMAIN s.chats : s.chats[i].listed /\ u \in s.chats[i].members =>
                                      \E k \in DOMAIN list : list[k] = i
      /\ \A j, k \in DOMAIN list : list[j] = list[k] => j = k
  BY ListIs DEF IsInjective
<1>6. \A i : /\ Packet(s, i, u).id = i /\ Packet(s, i, u).members = s.chats[i].members
             /\ Packet(s, i, u).read = s.chats[i].lastRead[u]
             /\ Packet(s, i, u).msgs = Messages(s.chats[i])
  BY DEF Packet
<1>. HIDE DEF q, list
<1>7. \A k \in DOMAIN q : /\ q[k].id = list[k] /\ q[k].members = s.chats[list[k]].members
                          /\ q[k].read = s.chats[list[k]].lastRead[u]
                          /\ q[k].msgs = Messages(s.chats[list[k]])
  BY <1>4, <1>6
<1>8. \A k \in DOMAIN q :
         LET chat == s.chats[q[k].id]
         IN  /\ q[k].id \in DOMAIN s.chats /\ chat.listed /\ u \in chat.members
             /\ q[k].members = chat.members /\ q[k].read = chat.lastRead[u]
             /\ q[k].msgs = Messages(chat)
  BY <1>4, <1>5, <1>7
<1>9. \A j, k \in DOMAIN q : q[j].id = q[k].id => j = k
  BY <1>4, <1>5, <1>7
<1>10. \A i \in DOMAIN s.chats : s.chats[i].listed /\ u \in s.chats[i].members =>
                                    \E k \in DOMAIN q : q[k].id = i
  BY <1>4, <1>5, <1>7
<1>. QED BY <1>3, <1>4, <1>8, <1>9, <1>10 DEF q

\* The messages of a chat.
LEMMA MessagesAre ==
    ASSUME NEW chat \in Chat
    PROVE  /\ Messages(chat) \in Seq(Msg) /\ Len(Messages(chat)) = Len(chat.by)
           /\ Len(chat.by) \in Nat /\ DOMAIN Messages(chat) = 1 .. Len(chat.by)
           /\ \A m \in 1 .. Len(chat.by) : /\ chat.by[m] \in Logins
                                           /\ Messages(chat)[m].id = m
                                           /\ Messages(chat)[m].by = chat.by[m]
                                           /\ Messages(chat)[m] = [id |-> m, by |-> chat.by[m]]
<1>1. chat.by \in Seq(Logins)
  BY DEF Chat
<1>2. /\ Len(chat.by) \in Nat /\ DOMAIN chat.by = 1 .. Len(chat.by)
      /\ \A m \in 1 .. Len(chat.by) : chat.by[m] \in Logins
  BY <1>1, LenProperties, ElementOfSeq
<1> DEFINE n == Len(chat.by)
           q == Messages(chat)
<1>3. q = [m \in 1 .. n |-> [id |-> m, by |-> chat.by[m]]]
  BY <1>2 DEF Messages
<1>4. \A m \in 1 .. n : [id |-> m, by |-> chat.by[m]] \in Msg
  BY <1>2 DEF Msg
<1>. HIDE DEF q
<1>5. q \in [1 .. n -> Msg]
  BY <1>3, <1>4
<1>6. \A m \in 1 .. n : q[m] = [id |-> m, by |-> chat.by[m]]
  BY <1>3
<1>. HIDE DEF n
<1>7. n \in Nat
  BY <1>2 DEF n
<1>8. q \in Seq(Msg) /\ Len(q) = n /\ DOMAIN q = 1 .. n
  BY <1>5, <1>7, Data!FunctionIsSeq
<1>9. \A m \in 1 .. n : q[m].id = m /\ q[m].by = chat.by[m]
  <2>. SUFFICES ASSUME NEW m \in 1 .. n PROVE q[m].id = m /\ q[m].by = chat.by[m]
    OBVIOUS
  <2> DEFINE by == chat.by[m]
  <2>1. q[m] = [id |-> m, by |-> by]
    BY <1>6
  <2>. HIDE DEF by
  <2>2. q[m].id = m /\ q[m].by = by
    BY <2>1, SMTT(40)
  <2>. QED BY <2>2 DEF by
<1>. QED BY <1>2, <1>6, <1>8, <1>9 DEF q, n

\* Console counts as this module does.
LEMMA CardinalityIs == \A S : C!Cardinality(S) = Cardinality(S)
BY DEF C!Cardinality, Cardinality

\* A copy that mirrors the chat counts at least the messages of others that come after
\* the pointer on the server and after the last own message.
LEMMA MirrorCounts ==
    ASSUME NEW s \in Store, NEW u \in Logins, NEW chat, IsChat(chat), Mirrors(s, u, chat),
           NEW msgs, msgs = Messages(s.chats[chat.id]),
           NEW read, read = s.chats[chat.id].lastRead[u],
           NEW T, T = {m \in DOMAIN msgs : /\ \A n \in m .. Len(msgs) : msgs[n].id # read
                                           /\ \A n \in m .. Len(msgs) : msgs[n].by # u}
    PROVE  C!ShownUnread(chat) >= Cardinality(T)
<1> DEFINE len == Len(msgs)
<1>1. s.chats[chat.id] \in Chat /\ chat.msgs = msgs
  BY StoreParts DEF Mirrors
<1>2. /\ len \in Nat /\ DOMAIN msgs = 1 .. len
      /\ \A m \in 1 .. len : msgs[m].id = m
  <2> DEFINE kept == s.chats[chat.id]
  <2>1. kept \in Chat /\ msgs = Messages(kept)
    BY <1>1
  <2>. HIDE DEF kept
  <2>2. Len(msgs) = Len(kept.by) /\ Len(kept.by) \in Nat /\ DOMAIN msgs = 1 .. Len(kept.by)
    BY <2>1, MessagesAre
  <2>3. \A m \in 1 .. Len(kept.by) : Messages(kept)[m].id = m
    BY <2>1, MessagesAre, Zenon
  <2>. QED BY <2>1, <2>2, <2>3
<1>. HIDE DEF len
<1>3. \A k \in Nat : k <= len =>
         /\ IsFiniteSet((k + 1) .. len) /\ Cardinality((k + 1) .. len) = len - k
  <2>. SUFFICES ASSUME NEW k \in Nat, k <= len
                PROVE  IsFiniteSet((k + 1) .. len) /\ Cardinality((k + 1) .. len) = len - k
    OBVIOUS
  <2>1. k + 1 \in Int /\ len \in Int
    BY <1>2
  <2>2. /\ IsFiniteSet((k + 1) .. len)
        /\ Cardinality((k + 1) .. len) = IF k + 1 > len THEN 0 ELSE len - (k + 1) + 1
    BY <2>1, FS_Interval, SMTT(40)
  <2>. QED BY <1>2, <2>2
<1>4. \A k \in Nat : k <= len /\ T \subseteq (k + 1) .. len => Cardinality(T) <= len - k
  <2>. SUFFICES ASSUME NEW k \in Nat, k <= len, T \subseteq (k + 1) .. len
                PROVE  Cardinality(T) <= len - k
    BY SMTT(40)
  <2> DEFINE I == (k + 1) .. len
  <2>1. IsFiniteSet(I) /\ Cardinality(I) = len - k /\ T \subseteq I
    BY <1>3, SMTT(40)
  <2>. HIDE DEF I
  <2>2. Cardinality(T) <= Cardinality(I)
    BY <2>1, FS_Subset, SMTT(40)
  <2>. QED BY <2>1, <2>2, SMTT(40)
<1>5. CASE chat.read \notin DOMAIN chat.stamped
  <2>1. C!ShownUnread(chat) = len
    BY <1>1, <1>5, SMTT(40) DEF C!ShownUnread, len
  <2>2. T \subseteq (0 + 1) .. len
    BY <1>2, SMTT(40)
  <2>3. Cardinality(T) <= len - 0
    BY <1>2, <1>4, <2>2, SMTT(40)
  <2>. QED BY <1>2, <2>1, <2>3
<1>6. CASE chat.read \in DOMAIN chat.stamped
  <2> DEFINE p == chat.stamped[chat.read]
  <2>1. p \in DOMAIN msgs
    BY <1>1, <1>6, SMTT(40) DEF IsChat, C!IsCopy
  <2>2. p = read \/ msgs[p].by = u
    BY <1>1, <1>6 DEF Mirrors
  <2>3. C!ShownUnread(chat) = len - p
    BY <1>1, <1>6, SMTT(40) DEF C!ShownUnread, len
  <2>. HIDE DEF p
  <2>4. T \subseteq (p + 1) .. len
    <3>. SUFFICES ASSUME NEW m \in T, m <= p PROVE FALSE
      BY <1>2, <2>1, SMTT(40)
    <3>1. p \in m .. Len(msgs)
      BY <1>2, <2>1, SMTT(40) DEF len
    <3>2. msgs[p].id # read /\ msgs[p].by # u
      BY <3>1
    <3>. QED BY <1>2, <2>1, <2>2, <3>2, SMTT(40)
  <2>5. p \in Nat /\ p <= len
    BY <1>2, <2>1, SMTT(40)
  <2>6. Cardinality(T) <= len - p
    BY <1>4, <2>4, <2>5, SMTT(40)
  <2>7. len - p \in Int /\ Cardinality(T) \in Int
    <3>1. IsFiniteSet(T)
      BY <1>3, <2>4, <2>5, FS_Subset
    <3>. QED BY <1>2, <2>5, <3>1, FS_CardinalityType, SMTT(40)
  <2>. QED BY <2>3, <2>6, <2>7, Zenon
<1>. QED BY <1>5, <1>6, SMTT(40)

\* A fresh client shows what the server would answer.
LEMMA FreshIsFaithful ==
    ASSUME CliInv, FreshInv
    PROVE  CopiesFaithful
<1> DEFINE s == server.store
<1>1. \A c \in Clients : C!Fresh(c) =>
         /\ IsTyped(client[c]) /\ client[c].user \in Logins /\ client[c].user \in s.users
         /\ ShowsAll(s, client[c].user, client[c].copy) /\ s \in Store
         /\ \A i \in DOMAIN client[c].copy : IsChat(client[c].copy[i])
  <2>. SUFFICES ASSUME NEW c \in Clients, C!Fresh(c)
                PROVE  /\ IsTyped(client[c]) /\ client[c].user \in Logins
                       /\ client[c].user \in s.users
                       /\ ShowsAll(s, client[c].user, client[c].copy) /\ s \in Store
                       /\ \A i \in DOMAIN client[c].copy : IsChat(client[c].copy[i])
    OBVIOUS
  <2>1. c \in Clients \ stale /\ client[c].menu \in LoggedIn
    BY DEF C!Fresh, LoggedIn
  <2>2. Agrees(s, client[c])
    BY <2>1 DEF FreshInv, IsFresh, LoggedIn
  <2>3. IsTyped(client[c]) /\ s \in Store
    BY ClientIs, ServerParts DEF IsGood
  <2>. HIDE DEF s
  <2>. QED BY <2>1, <2>2, <2>3, CopyIs DEF Agrees, IsTyped
<1>2. C!FreshCopy
  <2>. SUFFICES ASSUME NEW c \in Clients, C!Fresh(c),
                       NEW k \in DOMAIN C!ListOnServer(s, client[c].user)
                PROVE  LET q == C!ListOnServer(s, client[c].user)
                       IN  \E i \in DOMAIN client[c].copy :
                             /\ client[c].copy[i].id = q[k].id
                             /\ client[c].copy[i].members \cup {client[c].user} = q[k].members
                             /\ client[c].copy[i].msgs = q[k].msgs
    BY SMTT(40) DEF C!FreshCopy
  <2> DEFINE u == client[c].user
             q == C!ListOnServer(s, u)
             copy == client[c].copy
             chat == s.chats[q[k].id]
  <2>1. u \in s.users /\ ShowsAll(s, u, copy) /\ s \in Store
    BY <1>1
  <2>2. /\ q[k].id \in DOMAIN s.chats /\ chat.listed /\ u \in chat.members
        /\ q[k].members = chat.members /\ q[k].msgs = Messages(chat)
    <3>. HIDE DEF s, u
    <3>. QED BY <2>1, ServerListIs DEF u
  <2>. HIDE DEF s, u, q, copy
  <2>3. PICK i \in DOMAIN copy : copy[i].id = q[k].id
    BY <2>1, <2>2 DEF ShowsAll
  <2>4. Mirrors(s, u, copy[i])
    BY <2>1, SMTT(40) DEF ShowsAll
  <2>5. /\ copy[i].id = q[k].id /\ copy[i].members \cup {u} = q[k].members
        /\ copy[i].msgs = q[k].msgs
    BY <2>2, <2>3, <2>4 DEF Mirrors
  <2>. QED BY <2>5 DEF u, q, copy
<1>3. C!UnreadShown
  <2>. SUFFICES ASSUME NEW c \in Clients, C!Fresh(c)
                PROVE  LET u    == client[c].user
                           list == C!ListOnServer(server.store, u)
                       IN  \A k \in DOMAIN list, i \in DOMAIN client[c].copy :
                             client[c].copy[i].id = list[k].id =>
                               C!ShownUnread(client[c].copy[i])
                                 >= C!Cardinality({m \in DOMAIN list[k].msgs :
                                      /\ \A n \in m .. Len(list[k].msgs) :
                                            list[k].msgs[n].id # list[k].read
                                      /\ \A n \in m .. Len(list[k].msgs) :
                                            list[k].msgs[n].by # u})
    BY DEF C!UnreadShown
  <2>. SUFFICES ASSUME NEW k \in DOMAIN C!ListOnServer(s, client[c].user),
                       NEW i \in DOMAIN client[c].copy,
                       client[c].copy[i].id = C!ListOnServer(s, client[c].user)[k].id
                PROVE  LET q == C!ListOnServer(s, client[c].user)
                           u == client[c].user
                       IN  C!ShownUnread(client[c].copy[i])
                              >= C!Cardinality({m \in DOMAIN q[k].msgs :
                                   /\ \A n \in m .. Len(q[k].msgs) : q[k].msgs[n].id # q[k].read
                                   /\ \A n \in m .. Len(q[k].msgs) : q[k].msgs[n].by # u})
    OBVIOUS
  <2> DEFINE u == client[c].user
             q == C!ListOnServer(s, u)
             chat == client[c].copy[i]
             msgs == q[k].msgs
             read == q[k].read
             T == {m \in DOMAIN msgs : /\ \A n \in m .. Len(msgs) : msgs[n].id # read
                                       /\ \A n \in m .. Len(msgs) : msgs[n].by # u}
  <2>1. u \in Logins /\ u \in s.users /\ s \in Store /\ IsChat(chat) /\ Mirrors(s, u, chat)
    BY <1>1, SMTT(40) DEF ShowsAll
  <2>2. msgs = Messages(s.chats[chat.id]) /\ read = s.chats[chat.id].lastRead[u]
    <3>1. msgs = Messages(s.chats[q[k].id]) /\ read = s.chats[q[k].id].lastRead[u]
      <4>. HIDE DEF s, u
      <4>. QED BY <2>1, ServerListIs DEF u
    <3>. QED BY <3>1, SMTT(40)
  <2>3. T = {m \in DOMAIN msgs : /\ \A n \in m .. Len(msgs) : msgs[n].id # read
                                 /\ \A n \in m .. Len(msgs) : msgs[n].by # u}
    BY SMTT(40)
  <2>. HIDE DEF s, u, q, chat, msgs, read, T
  <2>4. C!ShownUnread(chat) >= Cardinality(T)
    BY <2>1, <2>2, <2>3, MirrorCounts, SMTT(40)
  <2>5. C!Cardinality(T) = Cardinality(T)
    BY CardinalityIs
  <2>6. C!ShownUnread(chat) >= C!Cardinality(T)
    BY <2>4, <2>5
  <2>. QED BY <2>6, ZenonT(40) DEF u, q, chat, msgs, read, T
<1>. QED BY <1>2, <1>3 DEF CopiesFaithful, C!CopiesFaithful

\* One chat of the copy changes with its chat on the server.
LEMMA ShowsReplaced ==
    ASSUME NEW s, NEW u, NEW copy, ShowsAll(s, u, copy), NEW i \in DOMAIN copy,
           NEW new, DOMAIN new = DOMAIN copy, \A j \in DOMAIN copy : j # i => new[j] = copy[j],
           new[i].id = copy[i].id,
           NEW n, DOMAIN n.chats = DOMAIN s.chats, Mirrors(n, u, new[i]),
           \A k \in DOMAIN s.chats : /\ k # copy[i].id => n.chats[k] = s.chats[k]
                                     /\ n.chats[k].listed = s.chats[k].listed
                                     /\ n.chats[k].members = s.chats[k].members
    PROVE  ShowsAll(n, u, new)
<1>1. /\ \A j \in DOMAIN copy : Mirrors(s, u, copy[j])
      /\ \A j, k \in DOMAIN copy : copy[j].id = copy[k].id => j = k
      /\ \A k \in DOMAIN s.chats : s.chats[k].listed /\ u \in s.chats[k].members =>
                                       \E j \in DOMAIN copy : copy[j].id = k
  BY DEF ShowsAll
<1>2. \A j \in DOMAIN new : new[j].id = copy[j].id
  BY SMTT(40)
<1>3. \A j \in DOMAIN new : Mirrors(n, u, new[j])
  <2>. SUFFICES ASSUME NEW j \in DOMAIN new, j # i PROVE Mirrors(n, u, new[j])
    OBVIOUS
  <2>1. Mirrors(s, u, copy[j]) /\ new[j] = copy[j] /\ copy[j].id # copy[i].id
    BY <1>1, SMTT(40)
  <2>2. copy[j].id \in DOMAIN s.chats
    BY <2>1 DEF Mirrors
  <2>3. n.chats[copy[j].id] = s.chats[copy[j].id]
    BY <2>1, <2>2
  <2>. QED BY <2>1, <2>2, <2>3 DEF Mirrors
<1>4. \A k \in DOMAIN n.chats : n.chats[k].listed /\ u \in n.chats[k].members =>
                                   \E j \in DOMAIN new : new[j].id = k
  BY <1>1, <1>2
<1>. QED BY <1>1, <1>2, <1>3, <1>4 DEF ShowsAll

\* A chat is added here and on the server.
LEMMA ShowsAppended ==
    ASSUME NEW s, NEW u, NEW copy, ShowsAll(s, u, copy), Data!IsSeq(copy), NEW chat,
           NEW n, chat.id \notin DOMAIN s.chats, DOMAIN n.chats = DOMAIN s.chats \cup {chat.id},
           Mirrors(n, u, chat), \A k \in DOMAIN s.chats : n.chats[k] = s.chats[k]
    PROVE  ShowsAll(n, u, Append(copy, chat))
<1> DEFINE new == Append(copy, chat)
           len == Len(copy)
<1>1. /\ \A j \in DOMAIN copy : Mirrors(s, u, copy[j])
      /\ \A j, k \in DOMAIN copy : copy[j].id = copy[k].id => j = k
      /\ \A k \in DOMAIN s.chats : s.chats[k].listed /\ u \in s.chats[k].members =>
                                       \E j \in DOMAIN copy : copy[j].id = k
  BY DEF ShowsAll
<1>2. /\ len \in Nat /\ DOMAIN copy = 1 .. len /\ DOMAIN new = 1 .. len + 1
      /\ \A j \in 1 .. len : new[j] = copy[j]
      /\ new[len + 1] = chat
  BY Data!AppendSeq DEF Data!IsSeq
<1>. HIDE DEF new, len
<1>3. DOMAIN new = DOMAIN copy \cup {len + 1} /\ len + 1 \notin DOMAIN copy
  BY <1>2
<1>4. \A j \in DOMAIN copy : copy[j].id \in DOMAIN s.chats
  BY <1>1, SMTT(40) DEF Mirrors
<1>5. \A j \in DOMAIN new : Mirrors(n, u, new[j])
  <2>. SUFFICES ASSUME NEW j \in DOMAIN copy PROVE Mirrors(n, u, copy[j])
    BY <1>2, <1>3
  <2>1. Mirrors(s, u, copy[j]) /\ n.chats[copy[j].id] = s.chats[copy[j].id]
    BY <1>1, <1>4
  <2>2. copy[j].id \in DOMAIN n.chats
    BY <1>4
  <2>. QED BY <2>1, <2>2 DEF Mirrors
<1>6. \A j, k \in DOMAIN new : new[j].id = new[k].id => j = k
  <2>1. \A j \in DOMAIN copy : new[j].id = copy[j].id /\ new[j].id # new[len + 1].id
    BY <1>2, <1>4
  <2>. QED BY <1>1, <1>3, <2>1
<1>7. \A k \in DOMAIN n.chats : n.chats[k].listed /\ u \in n.chats[k].members =>
                                   \E j \in DOMAIN new : new[j].id = k
  <2>1. \A j \in DOMAIN copy : new[j].id = copy[j].id /\ j \in DOMAIN new
    BY <1>2, <1>3
  <2>2. len + 1 \in DOMAIN new /\ new[len + 1].id = chat.id
    BY <1>2, <1>3, SMTT(40)
  <2>. QED BY <1>1, <2>1, <2>2
<1>. QED BY <1>5, <1>6, <1>7 DEF ShowsAll, new

\* A chat with its messages, as it came.
LEMMA FilledMirrors ==
    ASSUME NEW s \in Store, NEW u \in Logins, NEW q, q.id \in DOMAIN s.chats,
           q.members = s.chats[q.id].members, q.read = s.chats[q.id].lastRead[u],
           NEW msgs, msgs = Messages(s.chats[q.id]),
           NEW chat, chat = C!CopyChat(q.id, q.members, q.read, <<>>, <<>>)
    PROVE  Mirrors(s, u, C!Filled(chat, msgs, u)) /\ C!Filled(chat, msgs, u).id = q.id
<1> DEFINE own == {k \in DOMAIN msgs : msgs[k].by = u}
           ids == {msgs[k].id : k \in DOMAIN msgs}
           stamped == [m \in ids |-> CHOOSE k \in DOMAIN msgs : msgs[k].id = m]
           read == IF own = {} THEN chat.read ELSE msgs[C!Max(own)].id
           full == C!Filled(chat, msgs, u)
           len == Len(msgs)
<1>1. /\ DOMAIN chat = ChatFields /\ chat.id = q.id /\ chat.members = q.members
      /\ chat.read = q.read
  BY DEF C!CopyChat, ChatFields
<1>2. len \in Nat /\ DOMAIN msgs = 1 .. len /\ \A m \in 1 .. len : msgs[m].id = m
  <2> DEFINE kept == s.chats[q.id]
  <2>1. kept \in Chat /\ msgs = Messages(kept)
    BY StoreParts
  <2>. HIDE DEF kept
  <2>2. Len(msgs) = Len(kept.by) /\ Len(kept.by) \in Nat /\ DOMAIN msgs = 1 .. Len(kept.by)
    BY <2>1, MessagesAre
  <2>3. \A m \in 1 .. Len(kept.by) : Messages(kept)[m].id = m
    BY <2>1, MessagesAre, Zenon
  <2>. QED BY <2>1, <2>2, <2>3
<1>. HIDE DEF len
<1>3. ids = 1 .. len
  BY <1>2
<1>4. \A m \in ids : stamped[m] = m /\ m \in 0 .. len
  <2>. SUFFICES ASSUME NEW m \in ids PROVE stamped[m] = m /\ m \in 0 .. len
    BY ZenonT(40)
  <2> DEFINE at == CHOOSE k \in DOMAIN msgs : msgs[k].id = m
  <2>1. stamped[m] = at
    BY Zenon
  <2>2. \E k \in DOMAIN msgs : msgs[k].id = m
    OBVIOUS
  <2>3. at \in DOMAIN msgs /\ msgs[at].id = m
    BY <2>2, Zenon
  <2>. HIDE DEF stamped, ids, at
  <2>4. stamped[m] = m
    BY <1>2, <2>1, <2>3
  <2>5. m \in 0 .. len
    BY <1>2, <1>3, SMTT(40)
  <2>. QED BY <2>4, <2>5, SMTT(40)
<1>5. own # {} => msgs[read].by = u
  <2>1. own # {} => C!Max(own) \in own
    BY <1>2, MaxIsIn, Zenon
  <2>. HIDE DEF own
  <2>2. own # {} => read = C!Max(own)
    <3>1. own # {} => C!Max(own) \in 1 .. len
      BY <1>2, <2>1, ZenonT(40) DEF own
    <3>. QED BY <1>2, <3>1, SMTT(40)
  <2>. HIDE DEF read
  <2>. QED BY <2>1, <2>2, ZenonT(40) DEF own
<1>6. own = {} => read = s.chats[q.id].lastRead[u]
  BY <1>1, Zenon
<1>7. DOMAIN stamped = ids
  OBVIOUS
<1>8. full = [chat EXCEPT !.msgs = msgs, !.stamped = stamped, !.read = read]
  BY Zenon DEF C!Filled
<1>. HIDE DEF stamped, read, full, ids, own
<1>9. /\ full.id = chat.id /\ full.members = chat.members
      /\ full.msgs = msgs /\ full.stamped = stamped /\ full.read = read
  BY <1>1, <1>8, Zenon DEF ChatFields
<1>10. read \in DOMAIN stamped => stamped[read] = s.chats[q.id].lastRead[u]
                                  \/ msgs[stamped[read]].by = u
  BY <1>4, <1>5, <1>6, <1>7, SMTT(40)
<1>11. Mirrors(s, u, full)
  BY <1>1, <1>4, <1>7, <1>9, <1>10 DEF Mirrors, len
<1>. QED BY <1>1, <1>9, <1>11, Zenon DEF full

\* User u has added message id to chat c.
HasPost(s, n, u, c, id) ==
    /\ c \in DOMAIN n.chats /\ n.chats[c].members = s.chats[c].members
    /\ n.chats[c].by = Append(s.chats[c].by, u) /\ id = Len(s.chats[c].by) + 1

\* A message that is added here and on the server.
LEMMA PostMirrors ==
    ASSUME NEW s \in Store, NEW n \in Store, NEW u \in Logins, NEW chat, IsChat(chat),
           Mirrors(s, u, chat), NEW id, HasPost(s, n, u, chat.id, id)
    PROVE  Mirrors(n, u, C!WithPost(chat, id, u)) /\ C!WithPost(chat, id, u).id = chat.id
<1> DEFINE old == s.chats[chat.id]
           new == n.chats[chat.id]
           len == Len(old.by)
           msg == [id |-> id, by |-> u]
           msgs == Append(chat.msgs, msg)
           stamped == C!Stamp(chat.stamped, id, Len(chat.msgs) + 1)
           post == C!WithPost(chat, id, u)
<1>0. /\ chat.id \in DOMAIN n.chats /\ new.members = old.members
      /\ new.by = Append(old.by, u) /\ id = len + 1
  BY SMTT(40) DEF HasPost
<1>1. /\ old \in Chat /\ new \in Chat /\ chat.msgs = Messages(old) /\ chat.id \in DOMAIN s.chats
      /\ DOMAIN chat = ChatFields /\ chat.members = old.members
      /\ \A m \in DOMAIN chat.stamped : /\ m \in 0 .. Len(chat.msgs)
                                        /\ m # 0 => chat.stamped[m] = m
  BY <1>0, StoreParts DEF Mirrors, IsChat
<1>. HIDE DEF old, new
<1>2. /\ len \in Nat /\ Len(chat.msgs) = len /\ chat.msgs \in Seq(Msg)
  BY <1>1, MessagesAre
<1>3. id = len + 1
  BY <1>0
<1>4. /\ new.by = Append(old.by, u) /\ old.by \in Seq(Logins) /\ Len(new.by) = len + 1
      /\ \A m \in 1 .. len : new.by[m] = old.by[m]
      /\ new.by[len + 1] = u
  <2>1. new.by = Append(old.by, u) /\ old.by \in Seq(Logins)
    BY <1>0, <1>1 DEF Chat
  <2>. QED BY <2>1, AppendProperties, LenProperties
<1>5. msg \in Msg
  BY <1>2, <1>3 DEF Msg
<1>. HIDE DEF len
<1>6. /\ Len(msgs) = len + 1 /\ msgs \in Seq(Msg) /\ msgs[len + 1] = msg
      /\ \A m \in 1 .. len : msgs[m] = Messages(old)[m]
  <2>. HIDE DEF msg
  <2>. QED BY <1>1, <1>2, <1>5, AppendProperties
<1>7. msgs = Messages(new)
  <2> DEFINE want == Messages(new)
  <2>1. want \in Seq(Msg) /\ Len(want) = len + 1
    BY <1>1, <1>4, MessagesAre
  <2>2. \A m \in 1 .. len + 1 : want[m] = [id |-> m, by |-> new.by[m]]
    <3>1. \A m \in 1 .. Len(new.by) : want[m] = [id |-> m, by |-> new.by[m]]
      BY <1>1, MessagesAre, Zenon
    <3>. QED BY <1>4, <3>1, Zenon
  <2>3. \A m \in 1 .. len : Messages(old)[m] = [id |-> m, by |-> old.by[m]]
    BY <1>1, MessagesAre, Zenon DEF len
  <2>. HIDE DEF want, msgs
  <2>4. \A m \in 1 .. len + 1 : msgs[m] = want[m]
    <3>. SUFFICES ASSUME NEW m \in 1 .. len + 1 PROVE msgs[m] = want[m]
      OBVIOUS
    <3>1. CASE m \in 1 .. len
      BY <1>4, <1>6, <2>2, <2>3, <3>1, ZenonT(40)
    <3>2. CASE m = len + 1
      <4>1. want[m] = [id |-> m, by |-> u]
        BY <1>4, <2>2, <3>2
      <4>. QED BY <1>3, <1>6, <3>2, <4>1 DEF msg
    <3>. QED BY <1>2, <3>1, <3>2
  <2>5. msgs = want
    BY <1>6, <2>1, <2>4, SeqEqual
  <2>. QED BY <2>5 DEF want
<1>8. /\ \A m \in DOMAIN stamped : m \in 0 .. len + 1 /\ (m # 0 => stamped[m] = m)
      /\ id \in DOMAIN stamped /\ stamped[id] = len + 1
  BY <1>1, <1>2, <1>3 DEF C!Stamp
<1>9. post = [chat EXCEPT !.msgs = msgs, !.stamped = stamped, !.read = id]
  BY Zenon DEF C!WithPost, msg
<1>10. msgs[len + 1].by = u
  BY <1>6 DEF msg
<1>. HIDE DEF msgs, stamped, post
<1>11. /\ post.id = chat.id /\ post.members = chat.members
       /\ post.msgs = msgs /\ post.stamped = stamped /\ post.read = id
  BY <1>1, <1>9, ZenonT(40) DEF ChatFields
<1>12. Mirrors(n, u, post)
  BY <1>0, <1>1, <1>6, <1>7, <1>8, <1>10, <1>11 DEF Mirrors, old, new
<1>. QED BY <1>11, <1>12, SMTT(40) DEF post

\* A chat of one message that was created.
LEMMA SentMirrors ==
    ASSUME NEW n \in Store, NEW u \in Logins, NEW draft, draft.tries = 0,
           NEW ids, ids.chat \in DOMAIN n.chats, ids.message = 1,
           n.chats[ids.chat].members = draft.members,
           Len(n.chats[ids.chat].by) = 1, n.chats[ids.chat].by[1] = u
    PROVE  Mirrors(n, u, C!Sent(draft, u, ids)) /\ C!Sent(draft, u, ids).id = ids.chat
<1> DEFINE new == n.chats[ids.chat]
           msg == [id |-> ids.message, by |-> u]
           msgs == <<msg>>
           stamped == C!Stamp(<<>>, 0, 1)
           chat == C!Sent(draft, u, ids)
<1>1. new \in Chat
  BY StoreParts
<1>2. chat = C!CopyChat(ids.chat, draft.members, 0, msgs, stamped)
  BY DEF C!Sent
<1>3. msg \in Msg /\ msg = [id |-> 1, by |-> new.by[1]] /\ msg.by = u
  BY DEF Msg
<1>. HIDE DEF new, msg
<1>4. msgs \in Seq(Msg) /\ Len(msgs) = 1 /\ msgs[1] = msg
  BY <1>3
<1>5. msgs = Messages(new)
  <2>1. Messages(new) \in Seq(Msg) /\ Len(Messages(new)) = 1
    BY <1>1, MessagesAre DEF new
  <2>2. \A m \in 1 .. Len(new.by) : Messages(new)[m] = [id |-> m, by |-> new.by[m]]
    BY <1>1, MessagesAre, Zenon
  <2>3. 1 \in 1 .. Len(new.by)
    BY DEF new
  <2>4. Messages(new)[1] = msg
    BY <1>3, <2>2, <2>3
  <2>. HIDE DEF msgs
  <2>5. \A m \in 1 .. Len(msgs) : msgs[m] = Messages(new)[m]
    BY <1>4, <2>4
  <2>. QED BY <1>4, <2>1, <2>5, SeqEqual
<1>6. DOMAIN stamped = {0} /\ stamped[0] = 1
  <2>1. DOMAIN <<>> = {}
    OBVIOUS
  <2>. QED BY <2>1 DEF C!Stamp
<1>. HIDE DEF msgs, stamped, chat
<1>7. /\ chat.id = ids.chat /\ chat.members = draft.members
      /\ chat.read = 0 /\ chat.msgs = msgs /\ chat.stamped = stamped
  BY <1>2 DEF C!CopyChat
<1>8. Mirrors(n, u, chat)
  BY <1>3, <1>4, <1>5, <1>6, <1>7 DEF Mirrors, new
<1>. QED BY <1>7, <1>8 DEF chat

\* A chat of the copy with its pointer set.
ReadTo(chat, m) == [chat EXCEPT !.read = m]

\* The pointer stands at the last message, here and on the server.
LEMMA OpenedMirrors ==
    ASSUME NEW s \in Store, NEW n, NEW u, NEW chat, IsChat(chat), Mirrors(s, u, chat),
           chat.msgs # <<>>, chat.id \in DOMAIN n.chats,
           n.chats[chat.id].members = s.chats[chat.id].members,
           n.chats[chat.id].by = s.chats[chat.id].by,
           NEW last, last = C!LastId(chat),
           n.chats[chat.id].lastRead[u] = last \/ (last = chat.read /\ n = s),
           NEW opened, opened = ReadTo(chat, last)
    PROVE  last \in Nat /\ Mirrors(n, u, opened) /\ opened.id = chat.id
<1> DEFINE old == s.chats[chat.id]
           new == n.chats[chat.id]
<1>1. /\ old \in Chat /\ chat.msgs = Messages(old) /\ DOMAIN chat = ChatFields
      /\ chat.members = old.members
      /\ \A m \in DOMAIN chat.stamped : /\ m \in 0 .. Len(chat.msgs)
                                        /\ m # 0 => chat.stamped[m] = m
      /\ chat.read \in DOMAIN chat.stamped => \/ chat.stamped[chat.read] = old.lastRead[u]
                                              \/ chat.msgs[chat.stamped[chat.read]].by = u
  BY StoreParts DEF Mirrors, IsChat
<1>2. Messages(new) = Messages(old)
  BY DEF Messages
<1>. HIDE DEF old
<1>3. last \in Nat /\ last # 0
  <2>1. Messages(old) \in Seq(Msg) /\ Len(Messages(old)) = Len(old.by)
    BY <1>1, MessagesAre
  <2>2. \A m \in 1 .. Len(old.by) : Messages(old)[m].id = m
    BY <1>1, MessagesAre, Zenon
  <2>3. Messages(old) # <<>> => Len(old.by) \in 1 .. Len(old.by)
    <3>1. Len(old.by) \in Nat
      BY <1>1, MessagesAre
    <3> DEFINE q == Messages(old)
    <3>. HIDE DEF q
    <3>2. q \in Seq(Msg) /\ q # <<>> => Len(q) # 0
      OBVIOUS
    <3>. QED BY <2>1, <3>1, <3>2 DEF q
  <2>4. last = Len(old.by)
    BY <1>1, <2>1, <2>2, <2>3 DEF C!LastId
  <2>. QED BY <1>1, <2>3, <2>4
<1>. HIDE DEF new
<1>4. /\ opened.id = chat.id /\ opened.members = chat.members
      /\ opened.msgs = chat.msgs /\ opened.stamped = chat.stamped /\ opened.read = last
  BY <1>1, Zenon DEF ChatFields, ReadTo
<1>5. CASE n.chats[chat.id].lastRead[u] = last
  <2>1. last \in DOMAIN chat.stamped => chat.stamped[last] = n.chats[chat.id].lastRead[u]
    BY <1>1, <1>3, <1>5, SMTT(40)
  <2>. QED BY <1>1, <1>2, <1>3, <1>4, <2>1 DEF Mirrors, old, new
<1>6. CASE last = chat.read /\ n = s
  BY <1>1, <1>2, <1>3, <1>4, <1>6 DEF Mirrors, old, new
<1>. QED BY <1>5, <1>6, SMTT(40)

\* The next chat is loaded with all its participants.
LEMMA ChatLoadedAgrees ==
    ASSUME NEW c, IsTyped(client[c]), client[c].menu = "loading",
           client[c].at < Len(client[c].queue), NEW s, Agrees(s, client[c]),
           NEW known, client[c].queue[client[c].at + 1].members \subseteq known
    PROVE  C!ChatLoaded(c, known).menu = "loading" /\ Agrees(s, C!ChatLoaded(c, known))
<1> DEFINE me == client[c]
           at == me.at + 1
           chat == me.queue[at]
           more == C!CopyChat(chat.id, chat.members \cap known, chat.read, <<>>, <<>>)
           rec == C!ChatLoaded(c, known)
           copy == Append(me.copy, more)
<1>1. /\ DOMAIN me = ClientFields /\ me.menu = "loading" /\ IsLoading(me)
      /\ StillToLoad(s, me) /\ chat.members \subseteq known
  BY DEF IsTyped, Agrees
<1>2. rec = [me EXCEPT !.at = @ + 1, !.known = known, !.copy = Append(@, more)]
  BY Zenon DEF C!ChatLoaded
<1>3. more = C!CopyChat(chat.id, chat.members, chat.read, <<>>, <<>>)
  <2>1. chat.members \cap known = chat.members
    BY <1>1
  <2>. QED BY <2>1
<1>4. Data!IsSeq(me.copy) /\ Len(me.copy) = me.at /\ me.at \in Nat
  BY <1>1, CopyIs DEF IsLoading
<1>5. Agrees(s, me)
  OBVIOUS
<1>. HIDE DEF rec, more, me
<1>6. /\ rec.menu = me.menu /\ rec.queue = me.queue /\ rec.user = me.user
      /\ rec.copy = copy /\ rec.draft = me.draft
  BY <1>1, <1>2, Zenon DEF ClientFields
<1>7. /\ DOMAIN copy = 1 .. at /\ copy[at] = more
      /\ \A i \in 1 .. me.at : copy[i] = me.copy[i] /\ i \in DOMAIN me.copy
  BY <1>4, Data!AppendSeq
<1>8. \A i \in 1 .. at : i \in 1 .. me.at \/ i = at
  BY <1>4
<1>. HIDE DEF copy, at
<1>9. StillToLoad(s, rec)
  BY <1>1, <1>3, <1>6, <1>7, <1>8 DEF StillToLoad, chat
<1>. QED BY <1>1, <1>5, <1>6, <1>9 DEF Agrees, LoggedIn, rec

\* The chats of the answer, one for one.
LEMMA ShowsList ==
    ASSUME NEW s \in Store, NEW u \in s.users, NEW copy,
           DOMAIN copy = DOMAIN C!ListOnServer(s, u),
           \A i \in DOMAIN copy : /\ Mirrors(s, u, copy[i])
                                   /\ copy[i].id = C!ListOnServer(s, u)[i].id
    PROVE  ShowsAll(s, u, copy)
<1> DEFINE q == C!ListOnServer(s, u)
<1>1. /\ \A j, k \in DOMAIN q : q[j].id = q[k].id => j = k
      /\ \A i \in DOMAIN s.chats : s.chats[i].listed /\ u \in s.chats[i].members =>
                                      \E k \in DOMAIN q : q[k].id = i
  BY ServerListIs
<1>2. DOMAIN copy = DOMAIN q /\ \A i \in DOMAIN q : copy[i].id = q[i].id
  OBVIOUS
<1>. HIDE DEF q
<1>3. \A i, j \in DOMAIN copy : copy[i].id = copy[j].id => i = j
  BY <1>1, <1>2
<1>4. \A i \in DOMAIN s.chats : s.chats[i].listed /\ u \in s.chats[i].members =>
                                    \E k \in DOMAIN copy : copy[k].id = i
  BY <1>1, <1>2
<1>. QED BY <1>3, <1>4 DEF ShowsAll

\* All messages are there.
LEMMA LoadedShows ==
    ASSUME NEW s \in Store, NEW me, IsTyped(me), me.menu = "loading", me.at = Len(me.queue),
           Agrees(s, me), NEW filled,
           filled = [i \in DOMAIN me.copy |-> C!Filled(me.copy[i], me.queue[i].msgs, me.user)]
    PROVE  ShowsAll(s, me.user, filled)
<1> DEFINE u == me.user
           q == C!ListOnServer(s, u)
<1>1. /\ u \in s.users /\ u \in Logins /\ me.queue = q
      /\ \A i \in DOMAIN me.copy :
            me.copy[i] = C!CopyChat(q[i].id, q[i].members, q[i].read, <<>>, <<>>)
  BY DEF Agrees, StillToLoad, IsTyped
<1>2. DOMAIN me.copy = DOMAIN q
  <2>1. Data!IsSeq(me.queue) /\ Len(me.copy) = me.at /\ Data!IsSeq(me.copy)
    BY CopyIs DEF IsTyped, IsLoading
  <2>. QED BY <1>1, <2>1 DEF Data!IsSeq
<1>3. /\ \A k \in DOMAIN q :
            LET chat == s.chats[q[k].id]
            IN  /\ q[k].id \in DOMAIN s.chats /\ chat.listed /\ u \in chat.members
                /\ q[k].members = chat.members /\ q[k].read = chat.lastRead[u]
                /\ q[k].msgs = Messages(chat)
      /\ \A j, k \in DOMAIN q : q[j].id = q[k].id => j = k
      /\ \A i \in DOMAIN s.chats : s.chats[i].listed /\ u \in s.chats[i].members =>
                                      \E k \in DOMAIN q : q[k].id = i
  <2>. HIDE DEF u
  <2>. QED BY <1>1, ServerListIs
<1>. HIDE DEF q, u
<1>4. \A i \in DOMAIN q : Mirrors(s, u, filled[i]) /\ filled[i].id = q[i].id
  <2>. SUFFICES ASSUME NEW i \in DOMAIN q
                PROVE  Mirrors(s, u, filled[i]) /\ filled[i].id = q[i].id
    OBVIOUS
  <2> DEFINE p == q[i]
             chat == me.copy[i]
             msgs == p.msgs
  <2>1. filled[i] = C!Filled(chat, msgs, u)
    BY <1>1, <1>2 DEF u
  <2>2. /\ p.id \in DOMAIN s.chats /\ p.members = s.chats[p.id].members
        /\ p.read = s.chats[p.id].lastRead[u] /\ msgs = Messages(s.chats[p.id])
    BY <1>3
  <2>3. chat = C!CopyChat(p.id, p.members, p.read, <<>>, <<>>)
    BY <1>1, <1>2, SMTT(40)
  <2>. HIDE DEF p, chat, msgs
  <2>4. Mirrors(s, u, C!Filled(chat, msgs, u)) /\ C!Filled(chat, msgs, u).id = p.id
    BY <1>1, <2>2, <2>3, FilledMirrors
  <2>. QED BY <2>1, <2>4 DEF p
<1>5. DOMAIN filled = DOMAIN q
  BY <1>2
<1>6. ShowsAll(s, u, filled)
  BY <1>1, <1>4, <1>5, ShowsList DEF q
<1>. QED BY <1>6 DEF u

-----------------------------------------------------------------------------
(* The steps of a fresh client.                                            *)

\* What is known of a fresh client that is not in recv.
LEMMA FreshIs ==
    ASSUME CliInv, NEW c \in Clients, IsFresh(c)
    PROVE  /\ IsTyped(client[c]) /\ DOMAIN client[c] = ClientFields
           /\ IsGood(server.store) /\ server.store \in Store
           /\ client[c].menu # "dead" => Agrees(server.store, client[c])
           /\ link[c] # "asked" => link[c] = "ok"
  BY ClientIs, ServerParts DEF IsFresh, IsGood

\* The client goes on, with an answer or without.
LEMMA FreshGoes ==
    ASSUME CliInv, NEW c \in Clients, NEW r, IsFresh(c), link[c] = "ok", NEW rec, C!Is(c, rec),
           C!NoRequest \/ C!Answered(c, r) \/ C!Unanswered(c, r)
    PROVE  /\ Goes(c, rec)
           /\ C!NoRequest => server' = server
           /\ C!Answered(c, r) \/ C!Unanswered(c, r) =>
                 server'.store = CliHandle(server.store, r).store
           /\ C!Reply(r) = CliHandle(server.store, r)
           /\ C!Answered(c, r) => CliHandle(server.store, r).fate = "reply"
           /\ C!Unanswered(c, r) => CliHandle(server.store, r).fate = "empty"
<1>1. server.up /\ slot = c /\ ServerInv /\ DOMAIN client = Clients
  BY ClientIs DEF IsFresh, ClientsInv
<1>2. client'[c] = rec
  BY <1>1 DEF C!Is
<1>3. C!Reply(r) = CliHandle(server.store, r)
  BY DEF C!Reply
<1>4. CASE C!NoRequest
  <2>1. server' = server /\ slot' = slot /\ link' = link
    BY <1>4 DEF C!NoRequest
  <2>2. C!Answered(c, r) => CliHandle(server.store, r).fate = "reply"
    BY <1>3 DEF C!Answered
  <2>3. C!Unanswered(c, r) => CliHandle(server.store, r).fate = "empty"
    BY <1>1, FreshAnswered
  <2>4. C!Answered(c, r) \/ C!Unanswered(c, r) =>
           server'.store = CliHandle(server.store, r).store
    BY <1>1, FreshAnswered
  <2>. QED BY <1>1, <1>2, <1>3, <2>1, <2>2, <2>3, <2>4 DEF Goes
<1>5. CASE C!Answered(c, r) \/ C!Unanswered(c, r)
  <2>1. C!NoRequest => server' = server
    BY DEF C!NoRequest
  <2>2. /\ server'.up /\ slot' = c /\ link'[c] = "ok"
        /\ server'.store = CliHandle(server.store, r).store
        /\ C!Answered(c, r) => CliHandle(server.store, r).fate = "reply"
        /\ C!Unanswered(c, r) => CliHandle(server.store, r).fate = "empty"
    BY <1>1, <1>5, FreshAnswered
  <2>. QED BY <1>2, <1>3, <2>1, <2>2 DEF Goes
<1>. QED BY <1>4, <1>5

\* It is fresh if its chats still agree.
LEMMA GoesFresh ==
    ASSUME NEW c, NEW rec, Goes(c, rec), rec.menu \in LoggedIn \cup {"loading", "dead"},
           rec.menu # "dead" => Agrees(server'.store, rec)
    PROVE  IsFresh(c)'
  BY DEF Goes, IsFresh

\* A record of a client that has died.
LEMMA DeadIs == ASSUME NEW why PROVE [C!Off EXCEPT !.menu = "dead", !.why = why].menu = "dead"
  BY Zenon DEF C!Off

\* The next chat of the list comes with all its participants.
LEMMA LoadChatFresh ==
    ASSUME CliInv, NEW c \in Clients, IsFresh(c), C!LoadChat(c), c \notin stale'
    PROVE  IsFresh(c)'
<1> DEFINE me == client[c]
           s == server.store
           members == me.queue[me.at + 1].members
           missing == members \ me.known
           r == C!RqGetUsers(missing)
           all == me.known \cup missing
<1>1. me.menu = "loading" /\ link[c] = "ok" /\ me.at < Len(me.queue)
  BY FreshIs DEF C!LoadChat, C!In
<1>2. IsTyped(me) /\ Agrees(s, me)
  BY <1>1, FreshIs, SMTT(40)
<1>3. IsRequest(r) /\ r.type = "getUsers"
  BY RequestsAre DEF IsRequest, RequestTypes
<1>4. \/ missing = {} /\ C!NoRequest /\ C!Is(c, C!ChatLoaded(c, me.known))
      \/ C!Answered(c, r) /\ C!Is(c, C!ChatLoaded(c, all))
      \/ C!Unanswered(c, r) /\ C!Is(c, C!ChatLoaded(c, me.known))
      \/ C!Hangs(c, r)
  BY Zenon DEF C!LoadChat
<1>5. CliHandle(s, r).store = s /\ CliHandle(s, r).fate # "empty"
  <2>. HIDE DEF r
  <2>. QED BY <1>3, QuestionRequests
<1>6. members \subseteq all /\ (missing = {} => members \subseteq me.known)
  OBVIOUS
<1>. HIDE DEF r, missing, all
<1>7. \A known : members \subseteq known =>
         C!ChatLoaded(c, known).menu = "loading" /\ Agrees(s, C!ChatLoaded(c, known))
  BY <1>1, <1>2, ChatLoadedAgrees
<1>. HIDE DEF s
<1>8. ASSUME NEW known, members \subseteq known, C!Is(c, C!ChatLoaded(c, known)),
             C!NoRequest \/ C!Answered(c, r) \/ C!Unanswered(c, r)
      PROVE  IsFresh(c)'
  <2> DEFINE rec == C!ChatLoaded(c, known)
  <2>1. rec.menu = "loading" /\ Agrees(s, rec)
    BY <1>7, <1>8
  <2>2. C!Is(c, rec)
    BY <1>8
  <2>. HIDE DEF rec
  <2>3. Goes(c, rec) /\ server'.store = s
    BY <1>1, <1>5, <1>8, <2>2, FreshGoes DEF s
  <2>. QED BY <2>1, <2>3, GoesFresh
<1>9. ~C!Unanswered(c, r)
  <2>1. ServerInv /\ server.up /\ slot = c
    BY ClientIs DEF IsFresh
  <2>. QED BY <1>1, <1>5, <2>1, FreshAnswered DEF s
<1>. QED BY <1>1, <1>3, <1>4, <1>6, <1>8, <1>9, FreshHangs, SMTT(40)

\* All messages came: the copy is the server's chats.
LEMMA LoadMessagesFresh ==
    ASSUME CliInv, NEW c \in Clients, IsFresh(c), C!LoadMessages(c)
    PROVE  IsFresh(c)'
<1> DEFINE me == client[c]
           s == server.store
           filled == [i \in DOMAIN me.copy |->
                         C!Filled(me.copy[i], me.queue[i].msgs, me.user)]
           rec == [me EXCEPT !.menu = "main", !.queue = <<>>, !.at = 0, !.copy = filled]
           dead == [C!Off EXCEPT !.menu = "dead", !.why = "sender"]
           r == C!RqCheckLogin(C!None)
<1>1. me.menu = "loading" /\ link[c] = "ok" /\ me.at = Len(me.queue) /\ C!NoRequest
  BY FreshIs DEF C!LoadMessages, C!In
<1>2. IsTyped(me) /\ DOMAIN me = ClientFields /\ s \in Store /\ Agrees(s, me)
  BY <1>1, FreshIs
<1>3. C!Is(c, rec) \/ C!Is(c, dead)
  BY Zenon DEF C!LoadMessages, C!Dies
<1>4. ShowsAll(s, me.user, filled)
  <2>. HIDE DEF me, s, filled
  <2>1. me.menu = "loading" /\ me.at = Len(me.queue)
    BY <1>1 DEF me
  <2>. QED BY <1>2, <2>1, LoadedShows DEF filled
<1>. HIDE DEF filled, dead
<1>5. /\ rec.menu = "main" /\ rec.user = me.user /\ rec.copy = filled
      /\ rec.draft = me.draft
  <2>. HIDE DEF me
  <2>. QED BY <1>2, Zenon DEF ClientFields
<1>. HIDE DEF me, rec, s, r
<1>6. Agrees(s, rec)
  BY <1>2, <1>4, <1>5 DEF Agrees, LoggedIn
<1>7. \A x : C!Is(c, x) => Goes(c, x) /\ server' = server
  BY <1>1, FreshGoes
<1>8. dead.menu = "dead"
  BY DeadIs DEF dead
<1>9. CASE C!Is(c, rec)
  BY <1>5, <1>6, <1>7, <1>9, GoesFresh DEF s, LoggedIn
<1>10. CASE C!Is(c, dead)
  BY <1>7, <1>8, <1>10, GoesFresh
<1>. QED BY <1>3, <1>9, <1>10

\* Choosing the participants of a chat leaves the copy; who is chosen is on the server.
LEMMA ChooseFresh ==
    ASSUME CliInv, NEW c \in Clients, IsFresh(c), NEW v \in Typed, NEW alone \in BOOLEAN,
           C!Choose(c, v, alone), c \notin stale'
    PROVE  IsFresh(c)'
<1> DEFINE me == client[c]
           s == server.store
           r == C!RqFindUserByPart(me.user, {v})
           draft == C!Picked(me.draft, me.user, v, alone)
           rec == [me EXCEPT !.menu = "draft", !.known = @ \cup {v}, !.draft = draft]
<1>1. me.menu \in {"main", "draft"} /\ link[c] = "ok"
  BY FreshIs DEF C!Choose, C!In
<1>2. /\ IsTyped(me) /\ DOMAIN me = ClientFields /\ Agrees(s, me)
      /\ me.user \in Logins /\ v \in Logins
      /\ me.draft \in [members : SUBSET Logins, alone : BOOLEAN, tries : 0 .. MaxTries]
  BY <1>1, FreshIs, CopyIs, TypedAssumption DEF IsTyped, LoggedIn
<1>3. IsRequest(r) /\ r.type = "search"
  BY RequestsAre DEF IsRequest, RequestTypes
<1>4. \/ C!Answered(c, r) /\ v \in C!Reply(r).body /\ C!Is(c, rec)
      \/ C!Unanswered(c, r) /\ UNCHANGED client
      \/ C!Hangs(c, r)
  BY Zenon DEF C!Choose, C!Untouched
<1>. HIDE DEF r
<1>5. /\ CliHandle(s, r).store = s
      /\ CliHandle(s, r).fate = "reply" => CliHandle(s, r).body \subseteq s.users
  BY <1>3, QuestionRequests
<1>6. /\ draft.tries = me.draft.tries
      /\ draft.members \subseteq me.draft.members \cup {v, me.user}
  <2>. HIDE DEF me
  <2>. QED BY <1>2, PickedIs
<1>. HIDE DEF draft
<1>7. /\ rec.menu = "draft" /\ rec.user = me.user /\ rec.copy = me.copy
      /\ rec.draft = draft
  <2>. HIDE DEF me
  <2>. QED BY <1>2, Zenon DEF ClientFields
<1>. HIDE DEF rec
<1>8. CASE C!Answered(c, r) /\ v \in C!Reply(r).body /\ C!Is(c, rec)
  <2>1. Goes(c, rec) /\ server'.store = s /\ v \in s.users
    BY <1>1, <1>5, <1>8, FreshGoes
  <2>. HIDE DEF me, s
  <2>2. me.menu \in {"main", "draft"}
    BY <1>1 DEF me
  <2>3. Agrees(s, rec)
    BY <1>2, <1>6, <1>7, <2>1, <2>2 DEF Agrees, LoggedIn
  <2>. QED BY <1>7, <2>1, <2>3, GoesFresh DEF LoggedIn
<1>9. CASE C!Unanswered(c, r) /\ UNCHANGED client
  <2>1. /\ server'.up /\ slot' = c /\ link'[c] = "ok" /\ server'.store = s
    BY <1>1, <1>5, <1>9, ClientIs, FreshAnswered DEF IsFresh
  <2>. QED BY <1>9, <2>1 DEF IsFresh
<1>. QED BY <1>1, <1>3, <1>4, <1>8, <1>9, FreshHangs

\* The chat is created at the first try, here and on the server.
LEMMA SendDraftFresh ==
    ASSUME CliInv, NEW c \in Clients, IsFresh(c), C!SendDraft(c), c \notin stale'
    PROVE  IsFresh(c)'
<1> DEFINE me == client[c]
           s == server.store
           u == me.user
           draft == me.draft
           r == C!RqCreateChat(u, draft)
           n == CliHandle(s, r).store
           ids == C!Reply(r).body
           chat == C!Sent(draft, u, ids)
           sent == [me EXCEPT !.menu = "main", !.draft = C!NoDraft, !.copy = Append(@, chat)]
           again == [me EXCEPT !.draft.tries = @ + 1]
<1>1. me.menu = "draft" /\ link[c] = "ok"
  BY FreshIs DEF C!SendDraft, C!In
<1>2. /\ IsTyped(me) /\ DOMAIN me = ClientFields /\ s \in Store /\ IsGood(s) /\ FreeIs(s)
      /\ u \in Logins /\ u \in s.users /\ draft.tries = 0 /\ draft.members \subseteq s.users
      /\ ShowsAll(s, u, me.copy) /\ Data!IsSeq(me.copy)
  BY <1>1, FreshIs, CopyIs DEF IsTyped, Agrees, LoggedIn, IsGood
<1>3. /\ IsRequest(r) /\ r.type = "createChat" /\ r.author = u
      /\ r.members = draft.members /\ r.count = 1
  <2>1. /\ r.type = "createChat" /\ r.author = u
        /\ r.members = draft.members /\ r.count = draft.tries + 1
    BY RequestsAre
  <2>. HIDE DEF r, draft, u
  <2>2. r.count = 1
    BY <1>2, <2>1
  <2>. QED BY <2>1, <2>2 DEF IsRequest, RequestTypes
<1>4. \/ C!Answered(c, r) /\ C!Is(c, sent)
      \/ C!Unanswered(c, r) /\ C!Is(c, again)
      \/ C!Hangs(c, r)
  BY Zenon DEF C!SendDraft
<1>. HIDE DEF r, again
<1>5. \/ /\ CliHandle(s, r).fate = "reply" /\ n = Created(s, r) /\ s.free = {}
         /\ CliHandle(s, r).body = [chat |-> NextId(s), message |-> 1]
      \/ CliHandle(s, r).fate = "dies"
  <2>. HIDE DEF s, draft, u
  <2>. QED BY <1>2, <1>3, CreateChatRequest
<1>6. ASSUME CliHandle(s, r).fate = "reply", ids = CliHandle(s, r).body
      PROVE  Mirrors(n, u, chat) /\ ShowsAll(n, u, Append(me.copy, chat)) /\ u \in n.users
  <2>1. n = Created(s, r) /\ ids = [chat |-> NextId(s), message |-> 1] /\ NextId(s) = Len(s.chats) + 1
    BY <1>2, <1>5, <1>6, NextIdIs
  <2>2. ids.chat = Len(s.chats) + 1 /\ ids.message = 1
    BY <2>1
  <2>. HIDE DEF n, s, u, draft, ids
  <2> DEFINE k == Len(s.chats) + 1
             new == Created(s, r)
  <2>3. /\ IsGood(n) /\ n.users = s.users
        /\ DOMAIN n.chats = DOMAIN s.chats \cup {k}
        /\ \A i \in DOMAIN s.chats : n.chats[i] = s.chats[i]
        /\ n.chats[k].members = r.members
        /\ Len(n.chats[k].by) = r.count /\ \A m \in 1 .. r.count : n.chats[k].by[m] = r.author
    <3>1. r.members \subseteq s.users /\ r.author \in s.users /\ r.count \in Nat
      BY <1>2, <1>3
    <3>2. /\ IsGood(new) /\ new.users = s.users
          /\ DOMAIN new.chats = DOMAIN s.chats \cup {k}
          /\ \A i \in DOMAIN s.chats : new.chats[i] = s.chats[i]
          /\ new.chats[k].members = r.members
          /\ Len(new.chats[k].by) = r.count
          /\ \A m \in 1 .. r.count : new.chats[k].by[m] = r.author
      BY <1>2, <3>1, CreatedIs
    <3>. HIDE DEF new, k
    <3>3. n = new
      BY <2>1 DEF new
    <3>. QED BY <3>2, <3>3
  <2>4. k \notin DOMAIN s.chats
    BY <1>2, StoreParts
  <2>. HIDE DEF k
  <2>5. ids.chat = k
    BY <2>2 DEF k
  <2>6. /\ n \in Store /\ ids.chat \in DOMAIN n.chats /\ n.chats[ids.chat].members = draft.members
        /\ Len(n.chats[ids.chat].by) = 1 /\ n.chats[ids.chat].by[1] = u
    BY <1>3, <2>3, <2>5 DEF IsGood
  <2>7. Mirrors(n, u, chat) /\ chat.id = k
    BY <1>2, <2>2, <2>5, <2>6, SentMirrors
  <2>. HIDE DEF chat
  <2>8. ShowsAll(n, u, Append(me.copy, chat))
    BY <1>2, <2>3, <2>4, <2>7, ShowsAppended
  <2>. QED BY <1>2, <2>3, <2>7, <2>8
<1>. HIDE DEF chat, ids
<1>7. /\ sent.menu = "main" /\ sent.user = u /\ sent.copy = Append(me.copy, chat)
      /\ sent.draft = C!NoDraft
  <2>. HIDE DEF me
  <2>. QED BY <1>2, Zenon DEF ClientFields, u
<1>. HIDE DEF sent
<1>8. CASE C!Answered(c, r) /\ C!Is(c, sent)
  <2>1. /\ Goes(c, sent) /\ server'.store = n
        /\ CliHandle(s, r).fate = "reply" /\ ids = CliHandle(s, r).body
    BY <1>1, <1>8, FreshGoes DEF ids
  <2>. HIDE DEF n, s, u, me
  <2>2. Agrees(n, sent)
    BY <1>6, <1>7, <2>1, OffIsTyped DEF Agrees, LoggedIn
  <2>. QED BY <1>7, <2>1, <2>2, GoesFresh DEF LoggedIn
<1>9. ~C!Unanswered(c, r)
  <2>1. ServerInv /\ server.up /\ slot = c
    BY ClientIs DEF IsFresh
  <2>. QED BY <1>1, <1>5, <2>1, FreshAnswered
<1>. QED BY <1>1, <1>3, <1>4, <1>8, <1>9, FreshHangs

\* The pointer moves to the last message here and on the server, or the menu fails.
LEMMA OpenChatFresh ==
    ASSUME CliInv, NEW c \in Clients, IsFresh(c), NEW i, C!OpenChat(c, i), c \notin stale'
    PROVE  IsFresh(c)'
<1> DEFINE me == client[c]
           s == server.store
           u == me.user
           chat == me.copy[i]
           last == C!LastId(me.copy[i])
           r == C!RqSetLastRead(me.user, me.copy[i].id, last)
           rec == C!Opened(me, i)
           n == CliHandle(s, r).store
           copy == [me.copy EXCEPT ![i].read = last]
           dead == [C!Off EXCEPT !.menu = "dead", !.why = "list"]
           quiet == C!RqCheckLogin(C!None)
<1>1. me.menu = "main" /\ i \in DOMAIN me.copy /\ link[c] = "ok"
  BY FreshIs, SMTT(40) DEF C!OpenChat, C!In
<1>2. /\ IsTyped(me) /\ DOMAIN me = ClientFields /\ s \in Store /\ IsGood(s)
      /\ u \in Logins /\ u \in s.users /\ me.draft.tries = 0 /\ me.draft.members \subseteq s.users
      /\ ShowsAll(s, u, me.copy) /\ IsChat(chat) /\ Mirrors(s, u, chat)
      /\ chat.id \in DOMAIN s.chats
  <2>1. ShowsAll(s, u, me.copy)
    BY <1>1, FreshIs DEF Agrees, LoggedIn
  <2>2. Mirrors(s, u, chat)
    BY <1>1, <2>1 DEF ShowsAll
  <2>. QED BY <1>1, <2>1, <2>2, FreshIs, CopyIs, Zenon DEF IsTyped, Agrees, LoggedIn, Mirrors
<1>3. \/ C!Is(c, dead) /\ C!NoRequest
      \/ ~C!ListFails(me.copy) /\ last = chat.read /\ C!NoRequest /\ C!Is(c, rec)
      \/ /\ ~C!ListFails(me.copy)
         /\ \/ (C!Answered(c, r) \/ C!Unanswered(c, r)) /\ C!Is(c, rec)
            \/ C!Hangs(c, r)
  BY Zenon DEF C!OpenChat, C!Reported, C!Dies
<1>4. ~C!ListFails(me.copy) => chat.msgs # <<>>
  BY <1>1 DEF C!ListFails
<1>5. /\ r.type = "setLastRead" /\ r.message = last /\ r.login = u /\ r.chat = chat.id
  BY DEF C!RqSetLastRead
<1>6. /\ DOMAIN copy = DOMAIN me.copy
      /\ \A j \in DOMAIN me.copy : j # i => copy[j] = me.copy[j]
      /\ copy[i] = ReadTo(chat, last)
  BY <1>1 DEF ReadTo
<1>7. /\ rec.menu = "chat" /\ rec.user = u /\ rec.copy = copy
      /\ rec.draft = me.draft
  <2>1. rec = [me EXCEPT !.menu = "chat", !.at = i, !.copy[i].read = last]
    BY Zenon DEF C!Opened
  <2>. HIDE DEF me, last, rec
  <2>. QED BY <1>2, <2>1, Zenon DEF ClientFields, u
<1>8. dead.menu = "dead"
  BY DeadIs
<1>. HIDE DEF copy, rec, dead, r, quiet
<1>9. chat.msgs # <<>> => last \in Nat
  <2>1. chat.msgs \in Seq(Msg)
    BY <1>2 DEF IsChat, C!IsCopy, Msg
  <2>. HIDE DEF chat
  <2>2. chat.msgs # <<>> => chat.msgs[Len(chat.msgs)] \in Msg
    BY <2>1
  <2>3. chat.msgs # <<>> => C!LastId(chat) \in Nat
    BY <2>2, SMTT(40) DEF C!LastId, Msg
  <2>. QED BY <2>3, SMTT(40) DEF chat
<1>10. ASSUME chat.msgs # <<>>
       PROVE  /\ CliHandle(s, r).fate = "reply"
              /\ IsGood(n) /\ n.users = s.users /\ DOMAIN n.chats = DOMAIN s.chats
              /\ \A j \in DOMAIN s.chats : /\ n.chats[j].listed = s.chats[j].listed
                                           /\ n.chats[j].members = s.chats[j].members
                                           /\ n.chats[j].by = s.chats[j].by
                                           /\ j # chat.id => n.chats[j] = s.chats[j]
              /\ n.chats[chat.id].lastRead[u] = last
  <2> DEFINE id == chat.id
             read == MarkedRead(s, id, u, last)
  <2>1. id \in DOMAIN s.chats /\ last \in Nat /\ IsGood(s) /\ u \in Logins /\ u \in s.users
    BY <1>2, <1>9, <1>10
  <2>. HIDE DEF s, u, last, id
  <2>2. CliHandle(s, r).fate = "reply" /\ n = read
    BY <1>5, <2>1, SetLastReadRequest DEF id
  <2>3. /\ IsGood(read) /\ read.users = s.users /\ DOMAIN read.chats = DOMAIN s.chats
        /\ \A j \in DOMAIN s.chats : /\ read.chats[j].listed = s.chats[j].listed
                                     /\ read.chats[j].members = s.chats[j].members
                                     /\ read.chats[j].by = s.chats[j].by
                                     /\ j # id => read.chats[j] = s.chats[j]
        /\ read.chats[id].lastRead[u] = last
    BY <2>1, ReadRequestIs
  <2>. HIDE DEF n, read
  <2>. QED BY <2>2, <2>3 DEF id
<1>11. ASSUME chat.msgs # <<>>
       PROVE  ShowsAll(n, u, copy)
  <2>. HIDE DEF s, n, u, last
  <2> DEFINE opened == ReadTo(chat, last)
  <2>1. Mirrors(n, u, opened) /\ opened.id = chat.id
    <3>1. last = C!LastId(chat)
      BY SMTT(40) DEF last
    <3>2. /\ chat.id \in DOMAIN n.chats
          /\ n.chats[chat.id].members = s.chats[chat.id].members
          /\ n.chats[chat.id].by = s.chats[chat.id].by
          /\ n.chats[chat.id].lastRead[u] = last
      BY <1>2, <1>10, <1>11
    <3>. HIDE DEF chat
    <3>. QED BY <1>2, <1>11, <3>1, <3>2, OpenedMirrors
  <2>2. Mirrors(n, u, copy[i]) /\ copy[i].id = me.copy[i].id
    BY <1>6, <2>1
  <2>. HIDE DEF me
  <2>3. DOMAIN n.chats = DOMAIN s.chats
    BY <1>10, <1>11
  <2>4. \A k \in DOMAIN s.chats : /\ k # me.copy[i].id => n.chats[k] = s.chats[k]
                                  /\ n.chats[k].listed = s.chats[k].listed
                                  /\ n.chats[k].members = s.chats[k].members
    BY <1>10, <1>11
  <2>5. i \in DOMAIN me.copy
    BY <1>1 DEF me
  <2>. HIDE DEF chat
  <2>6. ShowsAll(s, u, me.copy)
    BY <1>2
  <2> DEFINE old == me.copy
  <2>7. DOMAIN copy = DOMAIN old /\ \A j \in DOMAIN old : j # i => copy[j] = old[j]
    BY <1>6
  <2>. HIDE DEF old
  <2>. QED BY <2>2, <2>3, <2>4, <2>5, <2>6, <2>7, ShowsReplaced, SMTT(40) DEF old
<1>12. ASSUME chat.msgs # <<>>, last = chat.read
       PROVE  ShowsAll(s, u, copy)
  <2>. HIDE DEF s, u, last
  <2> DEFINE opened == ReadTo(chat, last)
  <2>1. Mirrors(s, u, opened) /\ opened.id = chat.id
    <3>1. last = C!LastId(chat)
      BY DEF last
    <3> DEFINE same == s
    <3>2. /\ chat.id \in DOMAIN same.chats
          /\ same.chats[chat.id].members = s.chats[chat.id].members
          /\ same.chats[chat.id].by = s.chats[chat.id].by /\ same = s
      BY <1>2
    <3>. HIDE DEF chat, same
    <3>3. same.chats[chat.id].lastRead[u] = last \/ (last = chat.read /\ same = s)
      BY <1>12, <3>2
    <3>4. s \in Store /\ IsChat(chat) /\ Mirrors(s, u, chat) /\ chat.msgs # <<>>
      BY <1>2, <1>12
    <3>5. Mirrors(same, u, opened) /\ opened.id = chat.id
      BY <3>1, <3>2, <3>3, <3>4, OpenedMirrors
    <3>. QED BY <3>2, <3>5
  <2>2. Mirrors(s, u, copy[i]) /\ copy[i].id = me.copy[i].id
    BY <1>6, <2>1
  <2>3. i \in DOMAIN me.copy
    BY <1>1 DEF me
  <2>. HIDE DEF me, chat
  <2>. QED BY <1>2, <1>6, <2>2, <2>3, ShowsReplaced
<1>. HIDE DEF chat, u, last, n
<1>13. CASE C!Is(c, dead) /\ C!NoRequest
  <2>1. Goes(c, dead)
    BY <1>1, <1>13, FreshGoes
  <2>. QED BY <1>8, <2>1, GoesFresh
<1>14. CASE ~C!ListFails(me.copy) /\ last = chat.read /\ C!NoRequest /\ C!Is(c, rec)
  <2>1. Goes(c, rec) /\ server' = server
    BY <1>1, <1>14, FreshGoes
  <2>2. ShowsAll(s, u, copy)
    BY <1>4, <1>12, <1>14
  <2>. HIDE DEF me, s
  <2>3. Agrees(s, rec)
    BY <1>2, <1>7, <2>2 DEF Agrees, LoggedIn
  <2>. QED BY <1>7, <2>1, <2>3, GoesFresh DEF LoggedIn, s
<1>15. CASE ~C!ListFails(me.copy) /\ (C!Answered(c, r) \/ C!Unanswered(c, r)) /\ C!Is(c, rec)
  <2>1. Goes(c, rec) /\ server'.store = n
    BY <1>1, <1>15, FreshGoes DEF n
  <2>2. ShowsAll(n, u, copy) /\ n.users = s.users
    BY <1>4, <1>10, <1>11, <1>15
  <2>. HIDE DEF me, s
  <2>3. Agrees(n, rec)
    BY <1>2, <1>7, <2>2 DEF Agrees, LoggedIn
  <2>. QED BY <1>7, <2>1, <2>3, GoesFresh DEF LoggedIn
<1>16. CASE ~C!ListFails(me.copy) /\ C!Hangs(c, r)
  <2>1. IsRequest(r)
    BY <1>4, <1>5, <1>9, <1>16, SMTT(40) DEF IsRequest, RequestTypes
  <2>. QED BY <1>1, <1>16, <2>1, FreshHangs
<1>. QED BY <1>3, <1>13, <1>14, <1>15, <1>16

\* n is the store s with the message of number id of user u added to chat i.
Posted(s, n, i, u, id) ==
    /\ IsGood(n) /\ n.users = s.users
    /\ id = Len(s.chats[i].by) + 1
    /\ DOMAIN n.chats = DOMAIN s.chats /\ i \in DOMAIN s.chats
    /\ n.chats[i].by = Append(s.chats[i].by, u)
    /\ \A j \in DOMAIN s.chats : j # i => n.chats[j] = s.chats[j]
    /\ \A j \in DOMAIN s.chats : /\ n.chats[j].listed = s.chats[j].listed
                                 /\ n.chats[j].members = s.chats[j].members

\* createMessage adds the message of its author.
LEMMA PostedIs ==
    ASSUME NEW s, IsGood(s), NEW r, r.type = "createMessage", CliHandle(s, r).fate = "reply"
    PROVE  Posted(s, CliHandle(s, r).store, r.chat, r.author, CliHandle(s, r).body)
<1> DEFINE n == CliHandle(s, r).store
<1>1. IsGood(n) /\ n.users = s.users /\ DOMAIN n.chats = DOMAIN s.chats
  BY MessageRequestIs, SMTT(40)
<1>2. /\ CliHandle(s, r).body = Len(s.chats[r.chat].by) + 1
      /\ r.chat \in DOMAIN s.chats
  BY MessageRequestIs, SMTT(40)
<1>3. n.chats[r.chat].by = Append(s.chats[r.chat].by, r.author)
  BY MessageRequestIs, SMTT(40)
<1>4. ASSUME NEW j \in DOMAIN s.chats
      PROVE  /\ n.chats[j].listed = s.chats[j].listed
             /\ n.chats[j].members = s.chats[j].members
             /\ j # r.chat => n.chats[j] = s.chats[j]
  BY MessageRequestIs, SMTT(40)
<1>. HIDE DEF n
<1>. QED BY <1>1, <1>2, <1>3, <1>4, ZenonT(40) DEF Posted, n

\* The message gets its number, here and on the server.
LEMMA PostFresh ==
    ASSUME CliInv, NEW c \in Clients, IsFresh(c), C!Post(c), c \notin stale'
    PROVE  IsFresh(c)'
<1> DEFINE me == client[c]
           s == server.store
           u == me.user
           at == me.at
           chat == me.copy[at]
           r == C!RqCreateMessage(u, chat.id)
           id == C!Reply(r).body
           n == CliHandle(s, r).store
           post == C!WithPost(chat, id, u)
           copy == [me.copy EXCEPT ![at] = post]
           rec == [me EXCEPT !.copy[at] = C!WithPost(@, id, me.user)]
<1>1. me.menu = "chat" /\ link[c] = "ok"
  BY FreshIs, SMTT(40) DEF C!Post, C!In
<1>2. /\ IsTyped(me) /\ DOMAIN me = ClientFields /\ s \in Store /\ IsGood(s)
      /\ u \in Logins /\ u \in s.users /\ me.draft.tries = 0 /\ me.draft.members \subseteq s.users
      /\ ShowsAll(s, u, me.copy) /\ IsChat(chat) /\ Mirrors(s, u, chat)
      /\ chat.id \in DOMAIN s.chats /\ at \in DOMAIN me.copy
  <2>1. ShowsAll(s, u, me.copy) /\ at \in DOMAIN me.copy
    BY <1>1, FreshIs DEF Agrees, LoggedIn, IsTyped
  <2>2. Mirrors(s, u, chat)
    BY <2>1 DEF ShowsAll
  <2>. QED BY <1>1, <2>1, <2>2, FreshIs, CopyIs, Zenon DEF IsTyped, Agrees, LoggedIn, Mirrors
<1>3. \/ C!Answered(c, r) /\ C!Is(c, rec)
      \/ C!Unanswered(c, r) /\ UNCHANGED client
      \/ C!Hangs(c, r)
  BY Zenon DEF C!Post, C!Untouched
<1>4. /\ IsRequest(r) /\ r.type = "createMessage" /\ r.author = u /\ r.chat = chat.id
  BY SMTT(40) DEF C!RqCreateMessage, IsRequest, RequestTypes
<1>5. /\ DOMAIN copy = DOMAIN me.copy
      /\ \A j \in DOMAIN me.copy : j # at => copy[j] = me.copy[j]
      /\ copy[at] = post
  BY <1>2
<1>6. rec.menu = me.menu /\ rec.user = u /\ rec.copy = copy /\ rec.draft = me.draft
  <2>. HIDE DEF me, id
  <2>. QED BY <1>2, ZenonT(40) DEF ClientFields, u, at
<1>. HIDE DEF copy, rec, r, post
<1>7. ASSUME CliHandle(s, r).fate = "reply", id = CliHandle(s, r).body
      PROVE  ShowsAll(n, u, copy) /\ n.users = s.users
  <2>. HIDE DEF s, u, me, id, n
  <2> DEFINE old == s.chats[chat.id]
             new == n.chats[chat.id]
  <2>1. n = CliHandle(s, r).store
    BY SMTT(40) DEF n
  <2>2. /\ IsGood(n) /\ n.users = s.users
        /\ id = Len(old.by) + 1
        /\ DOMAIN n.chats = DOMAIN s.chats /\ chat.id \in DOMAIN s.chats
        /\ new.by = Append(old.by, u)
        /\ \A j \in DOMAIN s.chats : j # chat.id => n.chats[j] = s.chats[j]
        /\ \A j \in DOMAIN s.chats : /\ n.chats[j].listed = s.chats[j].listed
                                     /\ n.chats[j].members = s.chats[j].members
    <3>1. IsGood(s) /\ r.type = "createMessage" /\ CliHandle(s, r).fate = "reply"
      BY <1>2, <1>4, <1>7
    <3>2. Posted(s, CliHandle(s, r).store, r.chat, r.author, CliHandle(s, r).body)
      BY <3>1, PostedIs
    <3>3. r.chat = chat.id /\ r.author = u /\ id = CliHandle(s, r).body
      BY <1>4, <1>7
    <3>. HIDE DEF chat
    <3>4. Posted(s, n, chat.id, u, id)
      BY <2>1, <3>2, <3>3
    <3>. QED BY <3>4 DEF Posted
  <2>3. Mirrors(n, u, post) /\ post.id = chat.id
    <3>. HIDE DEF chat
    <3>1. n \in Store /\ s \in Store
      BY <1>2, <2>2, Zenon DEF IsGood
    <3>2. IsChat(chat) /\ Mirrors(s, u, chat) /\ u \in Logins
      BY <1>2, Zenon
    <3>3. HasPost(s, n, u, chat.id, id)
      BY <2>2, Zenon DEF HasPost
    <3>. QED BY <3>1, <3>2, <3>3, PostMirrors DEF post
  <2> DEFINE all == me.copy
  <2>4. /\ ShowsAll(s, u, all) /\ at \in DOMAIN all /\ DOMAIN copy = DOMAIN all
        /\ \A j \in DOMAIN all : j # at => copy[j] = all[j]
        /\ Mirrors(n, u, copy[at]) /\ copy[at].id = all[at].id
        /\ \A k \in DOMAIN s.chats : /\ k # all[at].id => n.chats[k] = s.chats[k]
                                     /\ n.chats[k].listed = s.chats[k].listed
                                     /\ n.chats[k].members = s.chats[k].members
    BY <1>2, <1>5, <2>2, <2>3, ZenonT(40)
  <2>. HIDE DEF all, chat, at
  <2>5. ShowsAll(n, u, copy)
    BY <2>2, <2>4, ShowsReplaced
  <2>. QED BY <2>2, <2>5
<1>. HIDE DEF chat, id
<1>8. CASE C!Answered(c, r) /\ C!Is(c, rec)
  <2>1. /\ Goes(c, rec) /\ server'.store = n
        /\ CliHandle(s, r).fate = "reply" /\ id = CliHandle(s, r).body
    BY <1>1, <1>8, FreshGoes DEF id
  <2>. HIDE DEF n
  <2>2. ShowsAll(n, u, copy) /\ n.users = s.users
    BY <1>7, <2>1
  <2>3. me.menu = "chat"
    BY <1>1
  <2>. HIDE DEF s, u, me
  <2>4. Agrees(n, rec)
    BY <1>2, <1>6, <2>2, <2>3 DEF Agrees, LoggedIn
  <2>. QED BY <1>6, <2>1, <2>3, <2>4, GoesFresh DEF LoggedIn
<1>9. CASE C!Unanswered(c, r) /\ UNCHANGED client
  <2>1. /\ server'.up /\ slot' = c /\ link'[c] = "ok" /\ server'.store = n
        /\ CliHandle(s, r).fate = "empty"
    BY <1>1, <1>9, ClientIs, FreshAnswered DEF IsFresh
  <2>2. n = s
    <3>. HIDE DEF s
    <3>. QED BY <1>4, <2>1, CreateMessageRequest
  <2>. QED BY <1>9, <2>1, <2>2 DEF IsFresh
<1>. QED BY <1>1, <1>3, <1>4, <1>8, <1>9, FreshHangs

\* Going back to the main menu changes no chat.
LEMMA QuietFresh ==
    ASSUME CliInv, NEW c \in Clients, IsFresh(c), C!GiveUp(c) \/ C!CloseChat(c)
    PROVE  IsFresh(c)'
<1> DEFINE me == client[c]
           s == server.store
           given == [me EXCEPT !.menu = "main", !.draft = C!NoDraft]
           closed == [me EXCEPT !.menu = "main", !.at = 0]
           r == C!RqCheckLogin(C!None)
<1>1. /\ me.menu \in {"draft", "chat"} /\ link[c] = "ok" /\ C!NoRequest
      /\ C!Is(c, given) \/ C!Is(c, closed)
  BY FreshIs DEF C!GiveUp, C!CloseChat, C!In
<1>2. DOMAIN me = ClientFields /\ Agrees(s, me)
  BY <1>1, FreshIs
<1>. HIDE DEF r
<1>3. \A x : C!Is(c, x) => Goes(c, x) /\ server' = server
  BY <1>1, FreshGoes
<1>. HIDE DEF me, s
<1>4. /\ given.menu = "main" /\ given.user = me.user /\ given.copy = me.copy
      /\ given.draft = C!NoDraft
      /\ closed.menu = "main" /\ closed.user = me.user /\ closed.copy = me.copy
      /\ closed.draft = me.draft
  BY <1>2, Zenon DEF ClientFields
<1>. HIDE DEF given, closed
<1>5. me.menu \in LoggedIn
  BY <1>1 DEF me, LoggedIn
<1>6. Agrees(s, given) /\ Agrees(s, closed)
  BY <1>2, <1>4, <1>5, OffIsTyped DEF Agrees, LoggedIn
<1>7. \A x \in {given, closed} : C!Is(c, x) => IsFresh(c)'
  BY <1>3, <1>4, <1>6, GoesFresh DEF s, LoggedIn
<1>. QED BY <1>1, <1>7

\* A client is fresh when it gets its chats.
LEMMA SignInFresh ==
    ASSUME CliInv, NEW c \in Clients, c \in stale, C!SignIn(c), c \notin stale'
    PROVE  IsFresh(c)'
<1> DEFINE me == client[c]
           s == server.store
           u == me.user
           r == C!RqRegister(u)
           body == C!Reply(r).body
           rec == C!SignedIn(c, body)
<1>1. me.menu = "signin" /\ IsTyped(me) /\ DOMAIN me = ClientFields /\ ServerInv
  BY ClientIs DEF C!SignIn, C!In
<1>2. C!Answered(c, r) /\ C!Is(c, rec)
  <2>1. ~C!Unanswered(c, r)
    BY DEF C!Unanswered
  <2>2. ~C!Hangs(c, r)
    BY DEF C!Hangs, C!ServerEnds, C!NoRequest
  <2>. QED BY <2>1, <2>2, Zenon DEF C!SignIn
<1>3. r.type = "register" /\ r.login = u
  BY RequestsAre
<1>4. /\ C!Served(c, r) /\ C!Reply(r).fate = "reply" /\ link' = [link EXCEPT ![c] = "ok"]
      /\ C!Reply(r) = CliHandle(s, r)
  BY <1>2 DEF C!Answered, C!Connected, C!Reply
<1>5. /\ server.up /\ slot' = c /\ server' = [server EXCEPT !.store = C!Reply(r).store]
  BY <1>4 DEF C!Served, C!Reaches, C!Accepts
<1>6. /\ server \in [up : BOOLEAN, store : Store, ended : Endings] /\ DOMAIN link = Clients
      /\ DOMAIN client = Clients
  BY <1>1, ClientIs, ServerParts DEF ServerInv, ClientsInv
<1>7. CliHandle(s, r).store = s /\ u \in s.users
  <2>. HIDE DEF r, s, u
  <2>. QED BY <1>3, <1>4, RegisterRequest
<1>8. server' = server
  <2>1. C!Reply(r).store = server.store
    BY <1>4, <1>7
  <2>. QED BY <1>5, <1>6, <2>1
<1>9. body = C!ListOnServer(s, u)
  BY <1>4 DEF C!ListOnServer
<1>10. rec = [me EXCEPT !.menu = "loading", !.queue = body, !.known = @ \cup {me.user}]
  BY Zenon DEF C!SignedIn
<1>11. Goes(c, rec)
  <2>. HIDE DEF rec, r
  <2>. QED BY <1>2, <1>4, <1>5, <1>6, <1>8 DEF Goes, C!Is
<1>12. me.copy = <<>> /\ me.draft.tries = 0 /\ me.draft.members = {}
  BY <1>1 DEF IsTyped, LoggedOut
<1>. HIDE DEF rec, body, me
<1>13. /\ rec.menu = "loading" /\ rec.user = me.user /\ rec.copy = me.copy
       /\ rec.draft = me.draft /\ rec.queue = body
  BY <1>1, <1>10, Zenon DEF ClientFields
<1>14. Agrees(s, rec)
  <2>1. DOMAIN <<>> = {}
    OBVIOUS
  <2>. HIDE DEF s
  <2>. QED BY <1>7, <1>9, <1>12, <1>13, <2>1 DEF Agrees, StillToLoad, LoggedIn, u
<1>. QED BY <1>8, <1>11, <1>13, <1>14, GoesFresh

\* Whoever is stale stays so until the next login.
LEMMA StaysStale ==
    ASSUME NEW c \in Clients, c \in stale, NEW r,
           \/ C!NoRequest \/ (C!Answered(c, r) /\ UNCHANGED stale)
           \/ C!Unanswered(c, r) \/ C!Hangs(c, r)
    PROVE  c \in stale'
  BY DEF C!NoRequest, C!Unanswered, C!Hangs, C!ServerEnds

\* A client that is stale is no longer so only when it logs in.
LEMMA StaleSteps ==
    ASSUME NEW c \in Clients, c \in stale, C!EntranceStep(c) \/ C!ChatStep(c), ~C!SignIn(c)
    PROVE  c \in stale'
<1>1. CASE C!Launch(c) \/ C!Gone(c) \/ C!Logout(c)
  BY <1>1, SMTT(40) DEF C!Launch, C!Gone, C!Logout
<1>2. CASE C!Cancel(c) \/ C!LoadMessages(c) \/ C!GiveUp(c) \/ C!CloseChat(c)
  BY <1>2 DEF C!Cancel, C!LoadMessages, C!GiveUp, C!CloseChat, C!NoRequest
<1>3. CASE C!CreateUser(c)
  BY <1>3, StaysStale, Zenon DEF C!CreateUser
<1>4. CASE C!CheckPassword(c)
  BY <1>4, StaysStale, Zenon DEF C!CheckPassword, C!PasswordRight
<1>5. CASE \E u \in Typed : C!NewLogin(c, u) \/ C!CheckLogin(c, u)
  BY <1>5, StaysStale, Zenon DEF C!NewLogin, C!CheckLogin, C!LoginTaken
<1>6. CASE C!LoadChat(c)
  BY <1>6, StaysStale, Zenon DEF C!LoadChat
<1>7. CASE \E v \in Typed, alone \in BOOLEAN : C!Choose(c, v, alone)
  BY <1>7, StaysStale, Zenon DEF C!Choose
<1>8. CASE C!SendDraft(c)
  BY <1>8, StaysStale, Zenon DEF C!SendDraft
<1>9. CASE \E i \in DOMAIN client[c].copy : C!OpenChat(c, i)
  BY <1>9, StaysStale, Zenon DEF C!OpenChat, C!Reported
<1>10. CASE C!Post(c)
  BY <1>10, StaysStale, Zenon DEF C!Post
<1>. QED BY <1>1, <1>2, <1>3, <1>4, <1>5, <1>6, <1>7, <1>8, <1>9, <1>10
         DEF C!EntranceStep, C!ChatStep

\* The steps of a fresh client are those of the menus behind the login.
LEMMA FreshSteps ==
    ASSUME CliInv, NEW c \in Clients, IsFresh(c), C!EntranceStep(c) \/ C!ChatStep(c),
           c \notin stale'
    PROVE  IsFresh(c)'
<1>1. client[c].menu \in LoggedIn \cup {"loading", "dead"}
  BY DEF IsFresh
<1>2. ~(C!Gone(c) \/ C!Logout(c))
  BY SMTT(40) DEF C!Gone, C!Logout
<1>3. /\ ~C!Launch(c) /\ ~C!Cancel(c) /\ ~C!CreateUser(c) /\ ~C!CheckPassword(c) /\ ~C!SignIn(c)
      /\ ~\E u \in Typed : C!NewLogin(c, u) \/ C!CheckLogin(c, u)
  BY <1>1 DEF C!Launch, C!Cancel, C!CreateUser, C!CheckPassword, C!SignIn, C!NewLogin,
              C!CheckLogin, C!In, LoggedIn
<1>4. C!ChatStep(c)
  BY <1>2, <1>3 DEF C!EntranceStep
<1>. QED BY <1>2, <1>4, LoadChatFresh, LoadMessagesFresh, ChooseFresh, SendDraftFresh,
         QuietFresh, OpenChatFresh, PostFresh DEF C!ChatStep

\* Each step keeps FreshInv.
LEMMA EveryStepFresh ==
    ASSUME CliInv, FreshInv, [C!Next]_(C!vars)
    PROVE  FreshInv'
<1>1. CASE UNCHANGED C!vars
  BY <1>1 DEF C!vars, FreshInv, IsFresh
<1>2. CASE C!Stop
  BY <1>2 DEF C!Stop, C!ServerEnds, FreshInv
<1>3. CASE C!Start
  BY <1>3 DEF C!Start, FreshInv, IsFresh
<1>4. ASSUME NEW c \in Clients, C!EntranceStep(c) \/ C!ChatStep(c)
      PROVE  FreshInv'
  <2>1. Apart(c)
    BY <1>4, ProcessKeeps, QuietKeeps, CreateUserKeeps, CheckPasswordKeeps, SignInKeeps,
       NewLoginKeeps, CheckLoginKeeps, LoadChatKeeps, LoadMessagesKeeps, ChooseKeeps,
       SendDraftKeeps, OpenChatKeeps, PostKeeps DEF C!EntranceStep, C!ChatStep
  <2>2. c \notin stale' => IsFresh(c)'
    <3>1. CASE c \in stale
      <4>1. c \notin stale' => C!SignIn(c)
        BY <1>4, <3>1, StaleSteps
      <4>. QED BY <3>1, <4>1, SignInFresh, SMTT(40)
    <3>2. CASE c \notin stale
      BY <1>4, <3>2, FreshSteps DEF FreshInv
    <3>. QED BY <3>1, <3>2
  <2>3. \A d \in Clients \ {c} : d \notin stale' => IsFresh(d)'
    BY <2>1 DEF Apart, FreshInv, IsFresh
  <2>. QED BY <2>2, <2>3 DEF FreshInv
<1>. QED BY <1>1, <1>2, <1>3, <1>4 DEF C!Next

\* A client that logged in to the server as it runs shows the user's chats as the server
\* would send them, with all messages in their order; and it counts as unread at least
\* what others wrote after the user's read pointer and last message.
THEOREM CopiesStayFaithful == Spec => []CopiesFaithful
<1>1. C!Init => FreshInv
  BY DEF C!Init, FreshInv
<1>2. CliInv /\ FreshInv /\ [C!Next]_(C!vars) => FreshInv'
  BY EveryStepFresh
<1>3. CliInv /\ FreshInv => CopiesFaithful
  BY FreshIsFaithful
<1>. QED BY <1>1, <1>2, <1>3, CliInvariant, PTL DEF Spec, C!Spec
==============================================================================
