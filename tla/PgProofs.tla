------------------------------ MODULE PgProofs ------------------------------
(***************************************************************************)
(* Proofs about Shark 3.0 Postgres: the database stays consistent whatever *)
(* the clients send and whichever statements fail; as long as none has and *)
(* it is the database they have logged in to, nothing but a search that    *)
(* finds nobody hurts a client or the server; and a client that logged in  *)
(* to the server as it runs, and of whose statements none has failed since *)
(* then, shows what it stores.                                             *)
(***************************************************************************)
EXTENDS PgSystem, Lemmas

ClientFields == {"menu", "user", "known", "copy", "queue", "at", "draft", "why"}
ChatFields == {"id", "members", "read", "msgs", "stamped"}
DraftFields == {"members", "alone", "tries"}

\* The server, the sockets and the counter have their domains, which is all that
\* EXCEPT asks of them; and the tables are consistent.
ServerInv ==
    /\ DOMAIN server = {"up", "store", "ended"} /\ server.up \in BOOLEAN
    /\ DOMAIN link = Clients
    /\ stops \in Nat
    /\ server.store \in Store /\ Consistent(server.store)

\* The clients have theirs.  A login that is typed for a registration can be stored.
IsRecord(me) == /\ DOMAIN me = ClientFields /\ DOMAIN me.draft = DraftFields
                /\ me.menu = "signup" => me.user \in Logins

ClientsInv == DOMAIN client = Clients /\ \A c \in Clients : IsRecord(client[c])

-----------------------------------------------------------------------------
(* While no statement has failed and the server has not ended yet.         *)

\* What user u gets of one chat from a store s.
IsPacket(s, u, p) ==
    /\ TakesPart(s, u, p.id)
    /\ p.members = Members(s, p.id)
    /\ IsSeq(p.msgs) /\ Len(p.msgs) # 0
    /\ \A k \in DOMAIN p.msgs : p.msgs[k].by \in Members(s, p.id)

\* A chat that is shown is there, with the user in it, and has messages.
IsShown(s, u, chat) ==
    /\ DOMAIN chat = ChatFields
    /\ TakesPart(s, u, chat.id)
    /\ IsSeq(chat.msgs) /\ Len(chat.msgs) # 0

LoggedIn == {"main", "draft", "chat"}

\* The chats that are loaded so far, each from its packet.
IsLoading(s, me) ==
    /\ IsSeq(me.queue)
    /\ \A i \in DOMAIN me.queue : IsPacket(s, me.user, me.queue[i])
    /\ me.at \in 0 .. Len(me.queue)
    /\ IsSeq(me.copy) /\ Len(me.copy) = me.at
    /\ \A i \in 1 .. me.at : /\ me.queue[i].members \subseteq me.known
                             /\ DOMAIN me.copy[i] = ChatFields
                             /\ me.copy[i].id = me.queue[i].id

\* A client whose user and users are in the store, and whose chats are.
IsCurrent(s, me) ==
    /\ me.why = C!None
    /\ me.known \subseteq s.users
    /\ me.menu \in {"password", "signin", "loading"} \cup LoggedIn => me.user \in s.users
    /\ me.menu \in {"entrance", "signup", "password", "signin"} => me.copy = <<>> /\ me.at = 0
    /\ me.menu # "draft" => me.draft.tries = 0
    /\ me.menu = "draft" /\ me.draft.tries # 0 => me.draft.members = {}
    /\ me.menu = "loading" => IsLoading(s, me)
    /\ me.menu \in LoggedIn => /\ IsSeq(me.copy)
                               /\ \A i \in DOMAIN me.copy : IsShown(s, me.user, me.copy[i])
    /\ me.menu = "chat" => me.at \in DOMAIN me.copy

Undisturbed ==
    /\ server.up /\ server.ended = C!None
    /\ Inhabited(server.store)
    /\ \A c \in Clients : /\ link[c] \in {"none", "ok", "asked"}
                          /\ link[c] = "asked" => client[c].menu = "main"
                          /\ IsCurrent(server.store, client[c])

SearchInv == /\ stops = 0 => Undisturbed
             /\ stops = 1 => server.ended \in {"stopped", "search"}

PgInv == /\ ServerInv /\ ClientsInv
         /\ failures \in Nat /\ (failures = 0 => SearchInv)

-----------------------------------------------------------------------------
(* The requests, and the store.                                            *)

RequestTypes == {"checkLogin", "checkPassword", "createUser", "register", "getUsers", "search",
                 "createChat", "createMessage", "setLastRead"}

\* What each of the five ends of a request is made of.
LEMMA Fates ==
    ASSUME NEW s, NEW body
    PROVE  /\ Replies(s, body).store = s /\ Replies(s, body).fate = "reply"
           /\ Replies(s, body).body = body
           /\ IsSilent(s).store = s /\ IsSilent(s).fate = "silent"
           /\ RepliesEmpty(s).store = s /\ RepliesEmpty(s).fate = "empty"
           /\ DiesOf(s).store = s /\ DiesOf(s).fate = "dies"
           /\ ClearsTwice(s).store = s /\ ClearsTwice(s).fate = "undefined"
BY Zenon DEF Replies, IsSilent, RepliesEmpty, DiesOf, ClearsTwice

\* The time of a new message.
LEMMA NowIsNat ==
    ASSUME NEW s \in Store
    PROVE  Now(s) \in Nat /\ \A m \in MessageIds(s) : s.messages[m].ts <= Now(s)
<1> DEFINE T == {0} \cup {s.messages[m].ts : m \in MessageIds(s)}
<1>1. s.messages \in Seq(MessageRow)
  BY DEF Store
<1>2. /\ MessageIds(s) = 1 .. Len(s.messages) /\ Len(s.messages) \in Nat
      /\ \A m \in MessageIds(s) : s.messages[m].ts \in Nat
  <2>1. /\ MessageIds(s) = 1 .. Len(s.messages) /\ Len(s.messages) \in Nat
        /\ \A m \in MessageIds(s) : s.messages[m] \in MessageRow
    BY <1>1, LenProperties, ElementOfSeq DEF MessageIds
  <2>. QED BY <2>1 DEF MessageRow
<1>3. T \in SUBSET Nat /\ T # {}
  BY <1>2
<1>4. PICK b \in Nat : \A x \in T : x <= b
  <2> DEFINE n == Len(s.messages)
             q == [i \in 1 .. n |-> s.messages[i].ts]
  <2>1. q \in [1 .. n -> Nat] /\ n \in Nat
    BY <1>2
  <2>2. PICK b \in Nat : \A i \in 1 .. n : q[i] <= b
    <3>. HIDE DEF q, n
    <3>. QED BY <2>1, SeqBounded
  <2>3. \A i \in 1 .. n : q[i] = s.messages[i].ts
    OBVIOUS
  <2>. HIDE DEF q
  <2>4. \A m \in MessageIds(s) : s.messages[m].ts <= b
    BY <1>2, <2>2, <2>3
  <2>5. 0 <= b /\ \A x \in T : x = 0 \/ \E m \in MessageIds(s) : x = s.messages[m].ts
    OBVIOUS
  <2>. QED BY <2>4, <2>5
<1>. HIDE DEF T
<1>5. PICK top \in T : \A x \in T : x <= top
  BY <1>3, <1>4, GreatestNat
<1>6. \A x \in T : top >= x
  BY <1>3, <1>5
<1>7. Max(T) \in T /\ \A x \in T : Max(T) >= x
  BY <1>6, Zenon DEF Max
<1>8. 1 + Max(T) \in Nat /\ \A x \in T : x <= 1 + Max(T)
  <2> DEFINE max == Max(T)
  <2>1. max \in Nat /\ \A x \in T : x \in Nat /\ max >= x
    BY <1>3, <1>7
  <2>. HIDE DEF max
  <2>2. 1 + max \in Nat /\ \A x \in T : x <= 1 + max
    BY <2>1
  <2>. QED BY <2>2 DEF max
<1>9. \A m \in MessageIds(s) : s.messages[m].ts \in T
  BY DEF T
<1>. QED BY <1>8, <1>9 DEF Now, T

-----------------------------------------------------------------------------
(* What becomes of each request.                                           *)

\* Asking for a login or a password writes nothing.
LEMMA UserRequests ==
    ASSUME NEW s, NEW r, r.type \in {"checkLogin", "checkPassword"}
    PROVE  PgHandle(s, r).store = s /\ PgHandle(s, r).fate = "reply"
           /\ PgHandle(s, r).body = (r.login \in s.users)
<1> DEFINE taken == r.login \in s.users
<1>1. PgHandle(s, r) = Replies(s, taken)
  BY DEF PgHandle, LoginChecked, PasswordChecked
<1>. HIDE DEF taken
<1>2. PgHandle(s, r).store = s /\ PgHandle(s, r).fate = "reply" /\ PgHandle(s, r).body = taken
  BY <1>1, Fates
<1>. QED BY <1>2 DEF taken

\* A login is added once.
LEMMA CreateUserRequest ==
    ASSUME NEW s, NEW r, r.type = "createUser"
    PROVE  /\ PgHandle(s, r).store \in {s, UserAdded(s, r.login)}
           /\ PgHandle(s, r).fate = "reply"
           /\ PgHandle(s, r).body = (r.login \notin s.users)
           /\ PgHandle(s, r).body => PgHandle(s, r).store = UserAdded(s, r.login)
<1>1. PgHandle(s, r) = UserCreated(s, r)
  BY DEF PgHandle
<1>2. CASE r.login \in s.users
  <2> DEFINE no == FALSE
  <2>1. PgHandle(s, r) = Replies(s, no)
    BY <1>1, <1>2, Zenon DEF UserCreated
  <2>. HIDE DEF no
  <2>2. /\ PgHandle(s, r).store = s
        /\ PgHandle(s, r).fate = "reply" /\ PgHandle(s, r).body = no
    BY <2>1, Fates
  <2>. QED BY <1>2, <2>2 DEF no
<1>3. CASE r.login \notin s.users
  <2> DEFINE yes == TRUE
  <2>1. PgHandle(s, r) = Replies(UserAdded(s, r.login), yes)
    BY <1>1, <1>3, Zenon DEF UserCreated
  <2>. HIDE DEF yes
  <2>2. /\ PgHandle(s, r).store = UserAdded(s, r.login)
        /\ PgHandle(s, r).fate = "reply" /\ PgHandle(s, r).body = yes
    BY <2>1, Fates
  <2>. QED BY <1>3, <2>2 DEF yes
<1>. QED BY <1>2, <1>3

\* Signing in is answered with the chats of a user.
LEMMA RegisterRequest ==
    ASSUME NEW s, NEW r, r.type = "register"
    PROVE  /\ PgHandle(s, r).store = s
           /\ r.login \in s.users =>
                 /\ PgHandle(s, r).fate = "reply"
                 /\ PgHandle(s, r).body = [k \in DOMAIN ListOf(s, r.login) |->
                                            Packet(s, ListOf(s, r.login)[k], r.login)]
           /\ r.login \notin s.users => PgHandle(s, r).fate = "undefined"
<1>1. PgHandle(s, r) = DataOf(s, r)
  BY DEF PgHandle
<1>2. CASE r.login \in s.users
  <2> DEFINE body == [k \in DOMAIN ListOf(s, r.login) |-> Packet(s, ListOf(s, r.login)[k], r.login)]
  <2>1. PgHandle(s, r) = Replies(s, body)
    BY <1>1, <1>2, Zenon DEF DataOf
  <2>. HIDE DEF body
  <2>2. PgHandle(s, r).store = s /\ PgHandle(s, r).fate = "reply" /\ PgHandle(s, r).body = body
    BY <2>1, Fates
  <2>. QED BY <1>2, <2>2 DEF body
<1>3. CASE r.login \notin s.users
  <2>1. PgHandle(s, r) = ClearsTwice(s)
    BY <1>1, <1>3, Zenon DEF DataOf
  <2>. QED BY <1>3, <2>1, Fates
<1>. QED BY <1>2, <1>3

\* Users are sent when all of them are known.
LEMMA GetUsersRequest ==
    ASSUME NEW s, NEW r, r.type = "getUsers"
    PROVE  /\ PgHandle(s, r).store = s
           /\ r.logins \subseteq s.users => PgHandle(s, r).fate = "reply"
<1>1. PgHandle(s, r) = UsersData(s, r)
  BY DEF PgHandle
<1>2. /\ r.logins \subseteq s.users => PgHandle(s, r) = Replies(s, r.logins)
      /\ ~(r.logins \subseteq s.users) => PgHandle(s, r) = IsSilent(s)
  BY <1>1, Zenon DEF UsersData
<1>. QED BY <1>2, Fates

\* A search finds users, or clears its empty result twice.
LEMMA SearchRequest ==
    ASSUME NEW s, NEW r, r.type = "search"
    PROVE  /\ PgHandle(s, r).store = s
           /\ \/ PgHandle(s, r).fate = "reply" /\ PgHandle(s, r).body \subseteq s.users
              \/ PgHandle(s, r).fate = "undefined"
<1>1. PgHandle(s, r) = Found(s, r)
  BY DEF PgHandle
<1>2. \/ PgHandle(s, r) = Replies(s, Matches(s, r)) \/ PgHandle(s, r) = ClearsTwice(s)
  BY <1>1, Zenon DEF Found
<1>3. Matches(s, r) \subseteq s.users
  BY DEF Matches
<1>. QED BY <1>2, <1>3, Fates

\* A chat with nobody is not created, one of an unknown author is left behind.
LEMMA CreateChatRequest ==
    ASSUME NEW s, NEW r, r.type = "createChat"
    PROVE  \/ r.members = {} /\ PgHandle(s, r).store = s /\ PgHandle(s, r).fate = "empty"
           \/ /\ r.members # {} /\ r.author \in s.users
              /\ PgHandle(s, r).store = ChatAdded(s, r.author, r.members, Now(s))
              /\ PgHandle(s, r).fate = "reply"
              /\ PgHandle(s, r).body = [chat |-> Len(s.chats) + 1, message |-> Len(s.messages) + 1]
           \/ /\ r.members # {} /\ r.author \notin s.users
              /\ PgHandle(s, r).store = OrphanChatAdded(s) /\ PgHandle(s, r).fate = "dies"
<1> DEFINE n == ChatAdded(s, r.author, r.members, Now(s))
           ids == [chat |-> Len(s.chats) + 1, message |-> Len(s.messages) + 1]
<1>1. PgHandle(s, r) = ChatCreated(s, r)
  BY DEF PgHandle
<1>2. \/ r.members = {} /\ PgHandle(s, r) = RepliesEmpty(s)
      \/ r.members # {} /\ r.author \in s.users /\ PgHandle(s, r) = Replies(n, ids)
      \/ r.members # {} /\ r.author \notin s.users /\ PgHandle(s, r) = DiesOf(OrphanChatAdded(s))
  BY <1>1, Zenon DEF ChatCreated
<1>. HIDE DEF n, ids
<1>3. \/ r.members = {} /\ PgHandle(s, r).store = s /\ PgHandle(s, r).fate = "empty"
      \/ /\ r.members # {} /\ r.author \in s.users /\ PgHandle(s, r).store = n
         /\ PgHandle(s, r).fate = "reply" /\ PgHandle(s, r).body = ids
      \/ /\ r.members # {} /\ r.author \notin s.users
         /\ PgHandle(s, r).store = OrphanChatAdded(s) /\ PgHandle(s, r).fate = "dies"
  BY <1>2, Fates
<1>. QED BY <1>3 DEF n, ids

\* A message needs its chat and its author, or the server dies.
LEMMA CreateMessageRequest ==
    ASSUME NEW s, NEW r, r.type = "createMessage"
    PROVE  \/ /\ r.chat \in ChatIds(s) /\ r.author \in s.users
              /\ PgHandle(s, r).store = MessageAdded(s, r.author, r.chat, Now(s))
              /\ PgHandle(s, r).fate = "reply" /\ PgHandle(s, r).body = Len(s.messages) + 1
           \/ /\ ~(r.chat \in ChatIds(s) /\ r.author \in s.users)
              /\ PgHandle(s, r).store = s /\ PgHandle(s, r).fate = "dies"
<1> DEFINE n == MessageAdded(s, r.author, r.chat, Now(s))
           id == Len(s.messages) + 1
<1>1. PgHandle(s, r) = MessageCreated(s, r)
  BY DEF PgHandle
<1>2. \/ r.chat \in ChatIds(s) /\ r.author \in s.users /\ PgHandle(s, r) = Replies(n, id)
      \/ ~(r.chat \in ChatIds(s) /\ r.author \in s.users) /\ PgHandle(s, r) = DiesOf(s)
  BY <1>1, Zenon DEF MessageCreated
<1>. HIDE DEF n, id
<1>3. \/ /\ r.chat \in ChatIds(s) /\ r.author \in s.users /\ PgHandle(s, r).store = n
         /\ PgHandle(s, r).fate = "reply" /\ PgHandle(s, r).body = id
      \/ /\ ~(r.chat \in ChatIds(s) /\ r.author \in s.users)
         /\ PgHandle(s, r).store = s /\ PgHandle(s, r).fate = "dies"
  BY <1>2, Fates
<1>. QED BY <1>3 DEF n, id

\* A read mark is written where the foreign key accepts it.
LEMMA SetLastReadRequest ==
    ASSUME NEW s, NEW r, r.type = "setLastRead"
    PROVE  /\ PgHandle(s, r).fate = "reply"
           /\ \/ /\ PgHandle(s, r).store = s
                 /\ ~(TakesPart(s, r.login, r.chat) /\ IsMessageOf(s, r.message, r.chat))
              \/ /\ TakesPart(s, r.login, r.chat) => IsMessageOf(s, r.message, r.chat)
                 /\ TakesPart(s, r.login, r.chat) \/ ReadUpTo(s, r.login, r.chat, r.message) # {}
                 /\ PgHandle(s, r).store = ReadMarked(s, r.login, r.chat, r.message)
<1>1. PgHandle(s, r) = ReadSet(s, r)
  BY DEF PgHandle
<1> DEFINE pointer == TakesPart(s, r.login, r.chat)
           message == IsMessageOf(s, r.message, r.chat)
           nothing == ReadUpTo(s, r.login, r.chat, r.message) = {}
           n == ReadMarked(s, r.login, r.chat, r.message)
<1>2. PgHandle(s, r) = IF (pointer /\ ~message) \/ (~pointer /\ nothing) THEN Replies(s, FALSE)
                       ELSE Replies(n, TRUE)
  BY <1>1, Zenon DEF ReadSet
<1>. HIDE DEF pointer, message, nothing, n
<1>3. CASE (pointer /\ ~message) \/ (~pointer /\ nothing)
  <2> DEFINE no == FALSE
  <2>1. PgHandle(s, r) = Replies(s, no)
    BY <1>2, <1>3, Zenon
  <2>. HIDE DEF no
  <2>2. PgHandle(s, r).store = s /\ PgHandle(s, r).fate = "reply"
    BY <2>1, Fates
  <2>. QED BY <1>3, <2>2 DEF pointer, message, nothing
<1>4. CASE ~((pointer /\ ~message) \/ (~pointer /\ nothing))
  <2> DEFINE yes == TRUE
  <2>1. PgHandle(s, r) = Replies(n, yes)
    BY <1>2, <1>4, Zenon
  <2>. HIDE DEF yes
  <2>2. PgHandle(s, r).store = n /\ PgHandle(s, r).fate = "reply"
    BY <2>1, Fates
  <2>. QED BY <1>4, <2>2 DEF pointer, message, nothing, n
<1>. QED BY <1>3, <1>4

\* What setLastRead writes: also without a participant's row whatever it marks has a
\* status row for the login.
LEMMA ReadStays ==
    ASSUME NEW s \in Store, Consistent(s), NEW u, NEW c, NEW m,
           TakesPart(s, u, c) => IsMessageOf(s, m, c),
           TakesPart(s, u, c) \/ ReadUpTo(s, u, c, m) # {}
    PROVE  LET n == ReadMarked(s, u, c, m)
           IN  /\ n \in Store /\ Consistent(n) /\ Kept(s, n)
               /\ ChatIds(n) = ChatIds(s) /\ MessageIds(n) = MessageIds(s)
<1>1. s.chats \in Seq(ChatRow) /\ s.messages \in Seq(MessageRow)
  BY DEF Store
<1>2. MessageIds(s) \subseteq Nat /\ \A k \in MessageIds(s) : s.messages[k].rows \subseteq Logins
  <2>1. MessageIds(s) \subseteq Nat /\ \A k \in MessageIds(s) : s.messages[k] \in MessageRow
    BY <1>1, LenProperties, ElementOfSeq DEF MessageIds
  <2>. QED BY <2>1 DEF MessageRow
<1>3. \A d \in ChatIds(s) : Members(s, d) \subseteq Logins
  <2>1. \A d \in ChatIds(s) : s.chats[d] \in ChatRow
    BY <1>1, LenProperties, ElementOfSeq DEF ChatIds
  <2>. QED BY <2>1 DEF ChatRow, Members
<1>4. u \in Logins /\ m \in Nat
  <2>1. CASE TakesPart(s, u, c)
    BY <1>2, <1>3, <2>1 DEF TakesPart, IsMessageOf
  <2>2. CASE ReadUpTo(s, u, c, m) # {}
    BY <1>2, <2>2 DEF ReadUpTo, Unread
  <2>. QED BY <2>1, <2>2
<1>. QED BY <1>4, ReadMarkedConsistent

\* Whatever a client sends, the tables stay consistent: where a foreign key or a
\* condition on the rows is missing, no row is written for a login that is none.
LEMMA HandleConsistent ==
    ASSUME NEW s \in Store, Consistent(s), NEW r, r.type \in RequestTypes,
           r.type = "createUser" => r.login \in Logins
    PROVE  PgHandle(s, r).store \in Store /\ Consistent(PgHandle(s, r).store)
<1>1. CASE r.type \in {"checkLogin", "checkPassword", "register", "getUsers", "search"}
  <2>1. PgHandle(s, r).store = s
    <3>1. r.type = "register" => PgHandle(s, r).store = s
      BY RegisterRequest
    <3>. QED BY <1>1, <3>1, UserRequests, GetUsersRequest, SearchRequest
  <2>. QED BY <2>1
<1>2. CASE r.type = "createUser"
  BY <1>2, CreateUserRequest, UserAddedConsistent
<1>3. CASE r.type = "createChat"
  <2>1. r.author \in s.users =>
           LET n == ChatAdded(s, r.author, r.members, Now(s)) IN n \in Store /\ Consistent(n)
    BY NowIsNat, ChatAddedConsistent
  <2>. QED BY <1>3, <2>1, CreateChatRequest, OrphanChatConsistent
<1>4. CASE r.type = "createMessage"
  <2>1. r.author \in s.users /\ r.chat \in ChatIds(s) =>
           LET n == MessageAdded(s, r.author, r.chat, Now(s)) IN n \in Store /\ Consistent(n)
    BY NowIsNat, MessageAddedConsistent
  <2>. QED BY <1>4, <2>1, CreateMessageRequest
<1>5. CASE r.type = "setLastRead"
  BY <1>5, SetLastReadRequest, ReadStays
<1>. QED BY <1>1, <1>2, <1>3, <1>4, <1>5 DEF RequestTypes

-----------------------------------------------------------------------------
(* The server's side of every step.                                        *)

\* The end of the server leaves the seed, whatever was written.
LEMMA EndsKeeps ==
    ASSUME ServerInv, NEW how, NEW after, C!ServerEnds(how, after)
    PROVE  /\ ServerInv'
           /\ ~server'.up /\ server'.ended = how /\ stops' = stops + 1
           /\ UNCHANGED client
<1>1. server' = [up |-> FALSE, store |-> Seed, ended |-> how] /\ stops' = stops + 1 /\ client' = client
  BY DEF C!ServerEnds
<1>2. DOMAIN link' = Clients
  BY DEF C!ServerEnds
<1>3. DOMAIN server' = {"up", "store", "ended"} /\ server'.up = FALSE /\ server'.ended = how
  BY <1>1
<1>4. server'.store = Seed
  BY <1>1
<1>. QED BY <1>1, <1>2, <1>3, <1>4, PgSeedAssumption DEF ServerInv

\* A request that gets through leaves what the server makes of it.
LEMMA ServedKeeps ==
    ASSUME ServerInv, NEW c \in Clients, NEW r, r.type \in RequestTypes,
           r.type = "createUser" => r.login \in Logins,
           C!Served(c, r), NEW l, link' = [link EXCEPT ![c] = l]
    PROVE  /\ ServerInv'
           /\ server'.store = PgHandle(server.store, r).store
           /\ server'.up = server.up /\ server'.ended = server.ended /\ stops' = stops
           /\ link'[c] = l /\ \A d \in Clients \ {c} : link'[d] = link[d]
<1> DEFINE n == PgHandle(server.store, r).store
<1>1. server' = [server EXCEPT !.store = n] /\ stops' = stops
  BY DEF C!Served, C!Reply
<1>2. n \in Store /\ Consistent(n)
  BY HandleConsistent DEF ServerInv
<1>. HIDE DEF n
<1>3. /\ DOMAIN server' = {"up", "store", "ended"} /\ server'.up = server.up
      /\ server'.ended = server.ended /\ server'.store = n
  BY <1>1, Zenon DEF ServerInv
<1>4. DOMAIN link' = Clients /\ link'[c] = l /\ \A d \in Clients \ {c} : link'[d] = link[d]
  BY Zenon DEF ServerInv
<1>5. ServerInv'
  BY <1>1, <1>2, <1>3, <1>4 DEF ServerInv
<1>. QED BY <1>1, <1>3, <1>4, <1>5 DEF n

\* The step does not end the server, or counts that it does.
Counted == \/ stops' = stops /\ server'.ended = server.ended
           \/ stops' = stops + 1

\* The three ends of a request, as the client sees them.
LEMMA AnsweredKeeps ==
    ASSUME ServerInv, NEW c \in Clients, NEW r, r.type \in RequestTypes,
           r.type = "createUser" => r.login \in Logins,
           C!Answered(c, r)
    PROVE  ServerInv' /\ Counted
<1>1. C!Served(c, r) /\ link' = [link EXCEPT ![c] = "ok"]
  BY DEF C!Answered, C!Connected
<1>. QED BY <1>1, ServedKeeps DEF Counted

LEMMA UnansweredKeeps ==
    ASSUME ServerInv, NEW c \in Clients, NEW r, r.type \in RequestTypes,
           r.type = "createUser" => r.login \in Logins,
           C!Unanswered(c, r)
    PROVE  ServerInv' /\ Counted
<1>1. CASE C!Served(c, r) /\ link' = [link EXCEPT ![c] = "ok"]
  BY <1>1, ServedKeeps DEF Counted
<1>2. CASE link' = [link EXCEPT ![c] = C!NextFailure[@]] /\ UNCHANGED <<server, slot, stops, writes>>
  <2>1. DOMAIN link' = Clients
    BY <1>2, Zenon DEF ServerInv
  <2>. QED BY <1>2, <2>1 DEF ServerInv, Counted
<1>. QED BY <1>1, <1>2 DEF C!Unanswered, C!Connected

LEMMA HangsKeeps ==
    ASSUME ServerInv, NEW c \in Clients, NEW r, r.type \in RequestTypes,
           r.type = "createUser" => r.login \in Logins,
           C!Hangs(c, r)
    PROVE  ServerInv' /\ Counted /\ (UNCHANGED client \/ C!Dies(c, "pipe"))
<1>1. CASE C!Served(c, r) /\ link' = [link EXCEPT ![c] = "asked"] /\ UNCHANGED client
  BY <1>1, ServedKeeps DEF Counted
<1>2. CASE \E after : C!ServerEnds(r.type, after)
  BY <1>2, EndsKeeps DEF Counted
<1>3. CASE C!Dies(c, "pipe") /\ C!NoRequest
  BY <1>3 DEF C!NoRequest, ServerInv, Counted
<1>. QED BY <1>1, <1>2, <1>3 DEF C!Hangs

\* A statement of the request fails: it was carried out, or was not.
LEMMA FailsKeeps ==
    ASSUME ServerInv, NEW c \in Clients, NEW r, r.type \in RequestTypes,
           r.type = "createUser" => r.login \in Logins,
           Fails(c, r)
    PROVE  ServerInv' /\ Counted
<1>1. PICK n \in {server.store, PgHandle(server.store, r).store} :
         server' = [server EXCEPT !.store = n]
  BY DEF Fails, C!Reply
<1>2. n \in Store /\ Consistent(n)
  BY HandleConsistent DEF ServerInv
<1>3. /\ DOMAIN server' = {"up", "store", "ended"} /\ server'.up = server.up
      /\ server'.ended = server.ended /\ server'.store = n
  BY <1>1, Zenon DEF ServerInv
<1>4. DOMAIN link' = Clients /\ stops' = stops
  <2> DEFINE l == IF r.type \in SilentOnError THEN "asked" ELSE "ok"
  <2>1. link' = [link EXCEPT ![c] = l] /\ stops' = stops
    BY DEF Fails
  <2>. HIDE DEF l
  <2>. QED BY <2>1, Zenon DEF ServerInv
<1>. QED BY <1>2, <1>3, <1>4 DEF ServerInv, Counted

-----------------------------------------------------------------------------
(* The clients' side.                                                      *)

\* A request as the clients make them.
IsRequest(r) == /\ r.type \in RequestTypes
                /\ r.type = "createUser" => r.login \in Logins

\* Client c sends r, and may get no further than that; or it sends nothing.
Talks(c, r) == C!NoRequest \/ C!Answered(c, r) \/ C!Unanswered(c, r) \/ C!Hangs(c, r)

\* Client c becomes rec, or stays as it is, or dies.
Moves(c, rec) == UNCHANGED client \/ C!Is(c, rec) \/ \E why : C!Dies(c, why)

\* A client without a process, and one that has died.
LEMMA OffIsRecord ==
    /\ IsRecord(C!Off) /\ C!Off.menu = "off" /\ C!Off.why = C!None /\ C!Off.copy = <<>>
    /\ C!Off.at = 0 /\ C!Off.known = {} /\ C!Off.draft.tries = 0
<1>1. DOMAIN C!Off = ClientFields
  BY DEF C!Off, ClientFields
<1>2. /\ C!Off.menu = "off" /\ C!Off.why = C!None /\ C!Off.copy = <<>>
      /\ C!Off.at = 0 /\ C!Off.known = {} /\ C!Off.draft = C!NoDraft
  BY DEF C!Off
<1>3. DOMAIN C!NoDraft = DraftFields /\ C!NoDraft.tries = 0
  BY DEF C!NoDraft, DraftFields
<1>. QED BY <1>1, <1>2, <1>3 DEF IsRecord

LEMMA DeadIsRecord ==
    ASSUME NEW why
    PROVE  IsRecord([C!Off EXCEPT !.menu = "dead", !.why = why])
<1> DEFINE off == C!Off
           dead == [off EXCEPT !.menu = "dead", !.why = why]
<1>1. DOMAIN off = ClientFields /\ DOMAIN off.draft = DraftFields
  BY OffIsRecord DEF IsRecord
<1>. HIDE DEF off
<1>2. DOMAIN dead = ClientFields /\ dead.draft = off.draft /\ dead.menu = "dead"
  BY <1>1, Zenon DEF ClientFields
<1>. QED BY <1>1, <1>2 DEF IsRecord, off

\* Only the client who takes the step changes.
LEMMA IsKeeps ==
    ASSUME ClientsInv, NEW c \in Clients, NEW rec, C!Is(c, rec)
    PROVE  /\ client'[c] = rec /\ \A d \in Clients \ {c} : client'[d] = client[d]
           /\ IsRecord(rec) => ClientsInv'
<1>1. client' = [client EXCEPT ![c] = rec]
  BY DEF C!Is
<1>2. /\ DOMAIN client' = Clients /\ client'[c] = rec
      /\ \A d \in Clients \ {c} : client'[d] = client[d]
  BY <1>1, Zenon DEF ClientsInv
<1>. QED BY <1>2 DEF ClientsInv

\* A step of a client is a request and a change of its own record.
LEMMA StepKeeps ==
    ASSUME ServerInv, ClientsInv, NEW c \in Clients, NEW r, IsRequest(r),
           Talks(c, r) \/ Fails(c, r), NEW rec, IsRecord(rec), Moves(c, rec)
    PROVE  ServerInv' /\ ClientsInv' /\ Counted
<1>1. ServerInv' /\ Counted
  <2>1. C!NoRequest => ServerInv' /\ Counted
    BY DEF C!NoRequest, ServerInv, Counted
  <2>. QED BY <2>1, AnsweredKeeps, UnansweredKeeps, HangsKeeps, FailsKeeps DEF Talks, IsRequest
<1>2. CASE UNCHANGED client
  BY <1>1, <1>2 DEF ClientsInv
<1>3. CASE C!Is(c, rec)
  BY <1>1, <1>3, IsKeeps
<1>4. CASE \E why : C!Dies(c, why)
  <2>1. PICK why : C!Dies(c, why)
    BY <1>4
  <2> DEFINE dead == [C!Off EXCEPT !.menu = "dead", !.why = why]
  <2>2. C!Is(c, dead) /\ IsRecord(dead)
    BY <2>1, DeadIsRecord, Zenon DEF C!Dies
  <2>. HIDE DEF dead
  <2>. QED BY <1>1, <2>2, IsKeeps
<1>. QED BY <1>2, <1>3, <1>4 DEF Moves

\* Requests and their types.
LEMMA RequestsAre ==
    ASSUME NEW u, NEW text, NEW chat, NEW m, NEW draft
    PROVE  /\ C!RqCheckLogin(u).type = "checkLogin" /\ C!RqCheckLogin(u).login = u
           /\ C!RqCheckPassword(u).type = "checkPassword" /\ C!RqCheckPassword(u).login = u
           /\ C!RqCreateUser(u).type = "createUser" /\ C!RqCreateUser(u).login = u
           /\ C!RqRegister(u).type = "register" /\ C!RqRegister(u).login = u
           /\ C!RqGetUsers(text).type = "getUsers" /\ C!RqGetUsers(text).logins = text
           /\ C!RqFindUserByPart(u, text).type = "search"
           /\ C!RqSetLastRead(u, chat, m).type = "setLastRead"
           /\ C!RqCreateMessage(u, chat).type = "createMessage"
           /\ C!RqCreateMessage(u, chat).author = u /\ C!RqCreateMessage(u, chat).chat = chat
           /\ C!RqCreateChat(u, draft).type = "createChat"
           /\ C!RqCreateChat(u, draft).author = u
           /\ C!RqCreateChat(u, draft).members = draft.members
BY DEF C!RqCheckLogin, C!RqCheckPassword, C!RqCreateUser, C!RqRegister, C!RqGetUsers,
       C!RqFindUserByPart, C!RqSetLastRead, C!RqCreateMessage, C!RqCreateChat

\* Registration and login, step by step; a login is typed before it is created.
LEMMA NewLoginKeeps ==
    ASSUME ServerInv, ClientsInv, NEW c \in Clients, NEW u \in Typed, NewLogin(c, u)
    PROVE  ServerInv' /\ ClientsInv' /\ Counted
<1> DEFINE r == C!RqCheckLogin(u)
           rec == [client[c] EXCEPT !.menu = "signup", !.user = u]
<1>1. IsRequest(r)
  BY RequestsAre DEF IsRequest, RequestTypes
<1>2. IsRecord(rec)
  <2>1. DOMAIN client[c] = ClientFields /\ DOMAIN client[c].draft = DraftFields
    BY DEF ClientsInv, IsRecord
  <2>2. DOMAIN rec = ClientFields /\ rec.draft = client[c].draft /\ rec.user = u
    BY <2>1, Zenon DEF ClientFields
  <2>. QED BY <2>1, <2>2, PgTypedAssumption DEF IsRecord
<1>3. Talks(c, r)
  BY Zenon DEF NewLogin, C!NewLogin, C!LoginTaken, Talks
<1>4. Moves(c, rec)
  BY HangsKeeps, <1>1 DEF NewLogin, C!NewLogin, C!LoginTaken, C!Untouched, Moves, IsRequest
<1>. HIDE DEF r, rec
<1>. QED BY <1>1, <1>2, <1>3, <1>4, StepKeeps

LEMMA CreateUserKeeps ==
    ASSUME ServerInv, ClientsInv, NEW c \in Clients, CreateUser(c)
    PROVE  ServerInv' /\ ClientsInv' /\ Counted
<1> DEFINE me == client[c]
           r == C!RqCreateUser(me.user)
           known == IF C!Reply(r).body THEN me.known \cup {me.user} ELSE me.known
           rec == [me EXCEPT !.menu = "entrance", !.user = C!None, !.known = known]
<1>1. IsRequest(r)
  BY RequestsAre DEF IsRequest, RequestTypes, CreateUser, C!CreateUser, C!In, ClientsInv, IsRecord
<1>2. IsRecord(rec)
  <2>1. DOMAIN me = ClientFields /\ DOMAIN me.draft = DraftFields
    BY DEF ClientsInv, IsRecord
  <2>. HIDE DEF me, known
  <2>2. DOMAIN rec = ClientFields /\ rec.draft = me.draft /\ rec.menu = "entrance"
    BY <2>1, Zenon DEF ClientFields
  <2>. QED BY <2>1, <2>2 DEF IsRecord
<1>3. Talks(c, r)
  BY Zenon DEF CreateUser, C!CreateUser, Talks
<1>4. Moves(c, rec)
  BY HangsKeeps, <1>1 DEF CreateUser, C!CreateUser, Moves, IsRequest
<1>. HIDE DEF r, rec
<1>. QED BY <1>1, <1>2, <1>3, <1>4, StepKeeps

LEMMA CheckLoginKeeps ==
    ASSUME ServerInv, ClientsInv, NEW c \in Clients, NEW u \in Typed, CheckLogin(c, u)
    PROVE  ServerInv' /\ ClientsInv' /\ Counted
<1> DEFINE r == C!RqCheckLogin(u)
           rec == [client[c] EXCEPT !.menu = "password", !.user = u]
<1>1. IsRequest(r)
  BY RequestsAre DEF IsRequest, RequestTypes
<1>2. IsRecord(rec)
  <2>1. DOMAIN client[c] = ClientFields /\ DOMAIN client[c].draft = DraftFields
    BY DEF ClientsInv, IsRecord
  <2>2. DOMAIN rec = ClientFields /\ rec.draft = client[c].draft /\ rec.menu = "password"
    BY <2>1, Zenon DEF ClientFields
  <2>. QED BY <2>1, <2>2 DEF IsRecord
<1>3. Talks(c, r)
  BY Zenon DEF CheckLogin, C!CheckLogin, C!LoginTaken, Talks
<1>4. Moves(c, rec)
  BY HangsKeeps, <1>1 DEF CheckLogin, C!CheckLogin, C!LoginTaken, C!Untouched, Moves, IsRequest
<1>. HIDE DEF r, rec
<1>. QED BY <1>1, <1>2, <1>3, <1>4, StepKeeps

LEMMA CheckPasswordKeeps ==
    ASSUME ServerInv, ClientsInv, NEW c \in Clients, CheckPassword(c)
    PROVE  ServerInv' /\ ClientsInv' /\ Counted
<1> DEFINE me == client[c]
           r == C!RqCheckPassword(me.user)
           rec == [me EXCEPT !.menu = "signin"]
<1>1. IsRequest(r)
  BY RequestsAre DEF IsRequest, RequestTypes
<1>2. IsRecord(rec)
  <2>1. DOMAIN me = ClientFields /\ DOMAIN me.draft = DraftFields
    BY DEF ClientsInv, IsRecord
  <2>2. DOMAIN rec = ClientFields /\ rec.draft = me.draft /\ rec.menu = "signin"
    BY <2>1, Zenon DEF ClientFields
  <2>. QED BY <2>1, <2>2 DEF IsRecord
<1>3. Talks(c, r)
  BY Zenon DEF CheckPassword, C!CheckPassword, C!PasswordRight, Talks
<1>4. Moves(c, rec)
  BY HangsKeeps, <1>1
  DEF CheckPassword, C!CheckPassword, C!PasswordRight, C!Untouched, Moves, IsRequest
<1>. HIDE DEF r, rec
<1>. QED BY <1>1, <1>2, <1>3, <1>4, StepKeeps

LEMMA SignInKeeps ==
    ASSUME ServerInv, ClientsInv, NEW c \in Clients, SignIn(c)
    PROVE  ServerInv' /\ ClientsInv' /\ Counted
<1> DEFINE me == client[c]
           r == C!RqRegister(me.user)
           body == C!Reply(r).body
           rec == C!SignedIn(c, body)
<1>1. IsRequest(r)
  BY RequestsAre DEF IsRequest, RequestTypes
<1>2. IsRecord(rec)
  <2>1. DOMAIN me = ClientFields /\ DOMAIN me.draft = DraftFields
    BY DEF ClientsInv, IsRecord
  <2>. HIDE DEF body
  <2>2. rec = [me EXCEPT !.menu = "loading", !.queue = body, !.known = @ \cup {me.user}]
    BY Zenon DEF C!SignedIn
  <2>. HIDE DEF me, rec
  <2>3. DOMAIN rec = ClientFields /\ rec.draft = me.draft /\ rec.menu = "loading"
    BY <2>1, <2>2, Zenon DEF ClientFields
  <2>. QED BY <2>1, <2>3 DEF IsRecord
<1>3. Talks(c, r)
  BY Zenon DEF SignIn, C!SignIn, Talks
<1>4. Moves(c, rec)
  BY HangsKeeps, <1>1 DEF SignIn, C!SignIn, Moves, IsRequest
<1>. HIDE DEF r, rec
<1>. QED BY <1>1, <1>2, <1>3, <1>4, StepKeeps

\* Chats, step by step.
LEMMA LoadChatKeeps ==
    ASSUME ServerInv, ClientsInv, NEW c \in Clients, LoadChat(c)
    PROVE  ServerInv' /\ ClientsInv' /\ Counted
<1> DEFINE me == client[c]
           missing == me.queue[me.at + 1].members \ me.known
           r == C!RqGetUsers(missing)
<1>1. IsRequest(r)
  BY RequestsAre DEF IsRequest, RequestTypes
<1>2. ASSUME NEW known PROVE IsRecord(C!ChatLoaded(c, known))
  <2> DEFINE rec == C!ChatLoaded(c, known)
             chat == me.queue[me.at + 1]
             more == C!CopyChat(chat.id, chat.members \cap known, chat.read, <<>>, <<>>)
  <2>1. DOMAIN me = ClientFields /\ DOMAIN me.draft = DraftFields /\ (me.menu = "signup" => me.user \in Logins)
    BY DEF ClientsInv, IsRecord
  <2>2. rec = [me EXCEPT !.at = @ + 1, !.known = known, !.copy = Append(@, more)]
    BY Zenon DEF C!ChatLoaded
  <2>. HIDE DEF me, rec, more
  <2>3. DOMAIN rec = ClientFields /\ rec.draft = me.draft /\ rec.menu = me.menu /\ rec.user = me.user
    BY <2>1, <2>2, Zenon DEF ClientFields
  <2>4. IsRecord(rec)
    BY <2>1, <2>3 DEF IsRecord
  <2>. QED BY <2>4 DEF rec
<1>3. Talks(c, r)
  BY ZenonT(40) DEF LoadChat, C!LoadChat, Talks
<1>4. Moves(c, C!ChatLoaded(c, me.known)) \/ Moves(c, C!ChatLoaded(c, me.known \cup missing))
  BY HangsKeeps, <1>1 DEF LoadChat, C!LoadChat, Moves, IsRequest
<1>. HIDE DEF r
<1>. QED BY <1>1, <1>2, <1>3, <1>4, StepKeeps, SMTT(40)

LEMMA ChooseKeeps ==
    ASSUME ServerInv, ClientsInv, NEW c \in Clients, NEW text, NEW picked, NEW alone,
           Choose(c, text, picked, alone)
    PROVE  ServerInv' /\ ClientsInv' /\ Counted
<1> DEFINE me == client[c]
           r == C!RqFindUserByPart(me.user, text)
           list == picked \cup (IF alone THEN {me.user} ELSE {})
           rec == [me EXCEPT !.menu = "draft", !.known = @ \cup picked,
                             !.draft.alone = alone, !.draft.members = list]
<1>1. IsRequest(r)
  BY RequestsAre DEF IsRequest, RequestTypes
<1>2. IsRecord(rec)
  <2>1. DOMAIN me = ClientFields /\ DOMAIN me.draft = DraftFields
    BY DEF ClientsInv, IsRecord
  <2>. HIDE DEF me, list
  <2>2. DOMAIN rec = ClientFields /\ rec.menu = "draft"
    BY <2>1, Zenon DEF ClientFields
  <2>3. DOMAIN rec.draft = DraftFields
    BY <2>1, Zenon DEF ClientFields, DraftFields
  <2>. QED BY <2>2, <2>3 DEF IsRecord
<1>3. Talks(c, r)
  BY Zenon DEF Choose, Talks
<1>4. Moves(c, rec)
  BY HangsKeeps, <1>1 DEF Choose, C!Untouched, Moves, IsRequest
<1>. HIDE DEF r, rec
<1>. QED BY <1>1, <1>2, <1>3, <1>4, StepKeeps

LEMMA SendDraftKeeps ==
    ASSUME ServerInv, ClientsInv, NEW c \in Clients, SendDraft(c)
    PROVE  ServerInv' /\ ClientsInv' /\ Counted
<1> DEFINE me == client[c]
           r == C!RqCreateChat(me.user, me.draft)
           chat == C!Sent(me.draft, me.user, C!Reply(r).body)
           sent == [me EXCEPT !.menu = "main", !.draft = C!NoDraft, !.copy = Append(@, chat)]
           again == [me EXCEPT !.draft.tries = @ + 1]
<1>1. IsRequest(r)
  BY RequestsAre DEF IsRequest, RequestTypes
<1>2. IsRecord(sent) /\ IsRecord(again)
  <2>1. DOMAIN me = ClientFields /\ DOMAIN me.draft = DraftFields /\ (me.menu = "signup" => me.user \in Logins)
    BY DEF ClientsInv, IsRecord
  <2>. HIDE DEF me, chat
  <2>2. DOMAIN sent = ClientFields /\ sent.menu = "main" /\ sent.draft = C!NoDraft
    BY <2>1, Zenon DEF ClientFields
  <2>3. DOMAIN again = ClientFields /\ again.menu = me.menu /\ again.user = me.user
    BY <2>1, Zenon DEF ClientFields
  <2>4. DOMAIN again.draft = DraftFields
    BY <2>1, Zenon DEF ClientFields, DraftFields
  <2>5. DOMAIN C!NoDraft = DraftFields
    BY DEF C!NoDraft, DraftFields
  <2>. QED BY <2>1, <2>2, <2>3, <2>4, <2>5 DEF IsRecord
<1>3. Talks(c, r)
  BY Zenon DEF SendDraft, C!SendDraft, Talks
<1>4. Moves(c, sent) \/ Moves(c, again)
  BY HangsKeeps, <1>1 DEF SendDraft, C!SendDraft, Moves, IsRequest
<1>. HIDE DEF r, sent, again
<1>. QED BY <1>1, <1>2, <1>3, <1>4, StepKeeps

LEMMA OpenChatKeeps ==
    ASSUME ServerInv, ClientsInv, NEW c \in Clients, NEW i, OpenChat(c, i)
    PROVE  ServerInv' /\ ClientsInv' /\ Counted
<1> DEFINE me == client[c]
           last == C!LastId(me.copy[i])
           r == C!RqSetLastRead(me.user, me.copy[i].id, last)
           rec == C!Opened(me, i)
<1>1. IsRequest(r)
  BY RequestsAre DEF IsRequest, RequestTypes
<1>2. IsRecord(rec)
  <2>1. DOMAIN me = ClientFields /\ DOMAIN me.draft = DraftFields
    BY DEF ClientsInv, IsRecord
  <2>. HIDE DEF me, last
  <2>2. rec = [me EXCEPT !.menu = "chat", !.at = i, !.copy[i].read = last]
    BY Zenon DEF C!Opened, last
  <2>. HIDE DEF rec
  <2>3. DOMAIN rec = ClientFields /\ rec.draft = me.draft /\ rec.menu = "chat"
    BY <2>1, <2>2, Zenon DEF ClientFields
  <2>. QED BY <2>1, <2>3 DEF IsRecord
<1>3. Talks(c, r)
  BY Zenon DEF OpenChat, C!OpenChat, C!Reported, Talks
<1>4. Moves(c, rec)
  BY HangsKeeps, <1>1, SMTT(40) DEF OpenChat, C!OpenChat, C!Reported, Moves, IsRequest
<1>. HIDE DEF r, rec
<1>. QED BY <1>1, <1>2, <1>3, <1>4, StepKeeps

LEMMA PostKeeps ==
    ASSUME ServerInv, ClientsInv, NEW c \in Clients, Post(c)
    PROVE  ServerInv' /\ ClientsInv' /\ Counted
<1> DEFINE me == client[c]
           r == C!RqCreateMessage(me.user, me.copy[me.at].id)
           id == C!Reply(r).body
           rec == [me EXCEPT !.copy[me.at] = C!WithPost(@, id, me.user)]
<1>1. IsRequest(r)
  BY RequestsAre DEF IsRequest, RequestTypes
<1>2. IsRecord(rec)
  <2>1. DOMAIN me = ClientFields /\ DOMAIN me.draft = DraftFields /\ (me.menu = "signup" => me.user \in Logins)
    BY DEF ClientsInv, IsRecord
  <2>. HIDE DEF me, id
  <2>2. DOMAIN rec = ClientFields /\ rec.draft = me.draft /\ rec.menu = me.menu /\ rec.user = me.user
    BY <2>1, Zenon DEF ClientFields
  <2>. QED BY <2>1, <2>2 DEF IsRecord
<1>3. Talks(c, r)
  BY Zenon DEF Post, C!Post, Talks
<1>4. Moves(c, rec)
  BY HangsKeeps, <1>1 DEF Post, C!Post, C!Untouched, Moves, IsRequest
<1>. HIDE DEF r, rec
<1>. QED BY <1>1, <1>2, <1>3, <1>4, StepKeeps

\* Steps without a request.
LEMMA QuietKeeps ==
    ASSUME ServerInv, ClientsInv, NEW c \in Clients,
           Cancel(c) \/ GiveUp(c) \/ CloseChat(c) \/ LoadMessages(c)
    PROVE  ServerInv' /\ ClientsInv' /\ Counted
<1> DEFINE me == client[c]
           r == C!RqCheckLogin(C!None)
           filled == [i \in DOMAIN me.copy |->
                         C!Filled(me.copy[i], me.queue[i].msgs, me.user)]
           cancelled == [me EXCEPT !.menu = "entrance", !.user = C!None]
           given == [me EXCEPT !.menu = "main", !.draft = C!NoDraft]
           closed == [me EXCEPT !.menu = "main", !.at = 0]
           loaded == [me EXCEPT !.menu = "main", !.queue = <<>>, !.at = 0, !.copy = filled]
<1>1. IsRequest(r) /\ Talks(c, r)
  <2>1. IsRequest(r)
    BY RequestsAre, SMTT(40) DEF IsRequest, RequestTypes
  <2>2. C!NoRequest
    BY DEF Cancel, C!Cancel, GiveUp, C!GiveUp, CloseChat, C!CloseChat, LoadMessages, C!LoadMessages
  <2>. QED BY <2>1, <2>2 DEF Talks
<1>2. IsRecord(cancelled) /\ IsRecord(given) /\ IsRecord(closed) /\ IsRecord(loaded)
  <2>1. DOMAIN me = ClientFields /\ DOMAIN me.draft = DraftFields
    BY DEF ClientsInv, IsRecord
  <2>. HIDE DEF me, filled
  <2>2. DOMAIN cancelled = ClientFields /\ cancelled.menu = "entrance" /\ cancelled.draft = me.draft
    BY <2>1, Zenon DEF ClientFields
  <2>3. DOMAIN given = ClientFields /\ given.menu = "main" /\ given.draft = C!NoDraft
    BY <2>1, Zenon DEF ClientFields
  <2>4. DOMAIN closed = ClientFields /\ closed.menu = "main" /\ closed.draft = me.draft
    BY <2>1, Zenon DEF ClientFields
  <2>5. DOMAIN loaded = ClientFields /\ loaded.menu = "main" /\ loaded.draft = me.draft
    BY <2>1, Zenon DEF ClientFields
  <2>6. DOMAIN C!NoDraft = DraftFields
    BY DEF C!NoDraft, DraftFields
  <2>. QED BY <2>1, <2>2, <2>3, <2>4, <2>5, <2>6 DEF IsRecord
<1>3. \/ Moves(c, cancelled) \/ Moves(c, given) \/ Moves(c, closed) \/ Moves(c, loaded)
  <2>1. Cancel(c) => Moves(c, cancelled)
    BY DEF Cancel, C!Cancel, Moves
  <2>2. GiveUp(c) => Moves(c, given)
    BY DEF GiveUp, C!GiveUp, Moves
  <2>3. CloseChat(c) => Moves(c, closed)
    BY DEF CloseChat, C!CloseChat, Moves
  <2>4. LoadMessages(c) => Moves(c, loaded)
    BY Zenon DEF LoadMessages, C!LoadMessages, Moves
  <2>. QED BY <2>1, <2>2, <2>3, <2>4
<1>. HIDE DEF r, cancelled, given, closed, loaded
<1>. QED BY <1>1, <1>2, <1>3, StepKeeps

\* The steps of a client that a statement fails for.
LEMMA EntranceFailsKeeps ==
    ASSUME ServerInv, ClientsInv, NEW c \in Clients, EntranceFails(c)
    PROVE  ServerInv' /\ ClientsInv' /\ Counted
<1> DEFINE me == client[c]
           back == [me EXCEPT !.menu = "entrance", !.user = C!None]
<1>1. DOMAIN me = ClientFields /\ DOMAIN me.draft = DraftFields /\ IsRecord(me)
  BY DEF ClientsInv, IsRecord
<1>2. ASSUME NEW r, IsRequest(r), Fails(c, r), C!Untouched PROVE ServerInv' /\ ClientsInv' /\ Counted
  BY <1>1, <1>2, StepKeeps DEF Moves, C!Untouched
<1>3. ASSUME NEW u \in Typed, Fails(c, C!RqCheckLogin(u)),
             C!Untouched \/ C!Is(c, [me EXCEPT !.menu = "signup", !.user = u])
      PROVE  ServerInv' /\ ClientsInv' /\ Counted
  <2> DEFINE r == C!RqCheckLogin(u)
             rec == [me EXCEPT !.menu = "signup", !.user = u]
  <2>1. IsRequest(r)
    BY RequestsAre DEF IsRequest, RequestTypes
  <2>2. Fails(c, r) /\ (C!Untouched \/ C!Is(c, rec))
    BY <1>3
  <2>. HIDE DEF me, r
  <2>3. DOMAIN rec = ClientFields /\ rec.draft = me.draft /\ rec.user = u
    BY <1>1, Zenon DEF ClientFields
  <2>4. IsRecord(rec)
    BY <1>1, <2>3, PgTypedAssumption DEF IsRecord
  <2>. HIDE DEF rec
  <2>. QED BY <1>2, <2>1, <2>2, <2>4, StepKeeps DEF Moves
<1>4. CASE me.menu = "signup" /\ Fails(c, C!RqCreateUser(me.user)) /\ C!Is(c, back)
  <2> DEFINE r == C!RqCreateUser(me.user)
  <2>1. IsRequest(r)
    BY <1>1, <1>4, RequestsAre DEF IsRequest, RequestTypes, IsRecord
  <2>2. Fails(c, r) /\ C!Is(c, back)
    BY <1>4
  <2>. HIDE DEF me, r
  <2>3. DOMAIN back = ClientFields /\ back.draft = me.draft /\ back.menu = "entrance"
    BY <1>1, Zenon DEF ClientFields
  <2>4. IsRecord(back)
    BY <1>1, <2>3 DEF IsRecord
  <2>. HIDE DEF back
  <2>. QED BY <2>1, <2>2, <2>4, StepKeeps DEF Moves
<1>5. IsRequest(C!RqCheckPassword(me.user)) /\ IsRequest(C!RqRegister(me.user))
  BY RequestsAre DEF IsRequest, RequestTypes
<1>. QED BY <1>2, <1>3, <1>4, <1>5, ZenonT(40) DEF EntranceFails, C!In

LEMMA SignInPartlyKeeps ==
    ASSUME ServerInv, ClientsInv, NEW c \in Clients, SignInPartly(c)
    PROVE  ServerInv' /\ ClientsInv' /\ Counted
<1> DEFINE me == client[c]
           r == C!RqRegister(me.user)
<1>1. IsRequest(r)
  BY RequestsAre DEF IsRequest, RequestTypes
<1>2. PICK packets : C!Is(c, C!SignedIn(c, packets))
  BY DEF SignInPartly
<1> DEFINE rec == C!SignedIn(c, packets)
<1>3. IsRecord(rec)
  <2>1. DOMAIN me = ClientFields /\ DOMAIN me.draft = DraftFields
    BY DEF ClientsInv, IsRecord
  <2>2. rec = [me EXCEPT !.menu = "loading", !.queue = packets, !.known = @ \cup {me.user}]
    BY Zenon DEF C!SignedIn
  <2>. HIDE DEF me, rec
  <2>3. DOMAIN rec = ClientFields /\ rec.draft = me.draft /\ rec.menu = "loading"
    BY <2>1, <2>2, Zenon DEF ClientFields
  <2>. QED BY <2>1, <2>3 DEF IsRecord
<1>4. Talks(c, r)
  BY ZenonT(40) DEF SignInPartly, Talks
<1>. HIDE DEF r, rec
<1>. QED BY <1>1, <1>2, <1>3, <1>4, StepKeeps DEF Moves, rec

LEMMA ChatFailsKeeps ==
    ASSUME ServerInv, ClientsInv, NEW c \in Clients, ChatFails(c)
    PROVE  ServerInv' /\ ClientsInv' /\ Counted
<1> DEFINE me == client[c]
           missing == me.queue[me.at + 1].members \ me.known
           again == [me EXCEPT !.draft.tries = @ + 1]
<1>1. DOMAIN me = ClientFields /\ DOMAIN me.draft = DraftFields /\ IsRecord(me)
  BY DEF ClientsInv, IsRecord
<1>2. ASSUME NEW r, IsRequest(r), Fails(c, r), C!Untouched PROVE ServerInv' /\ ClientsInv' /\ Counted
  BY <1>1, <1>2, StepKeeps DEF Moves, C!Untouched
<1>3. CASE Fails(c, C!RqCreateChat(me.user, me.draft)) /\ C!Is(c, again)
  <2> DEFINE r == C!RqCreateChat(me.user, me.draft)
  <2>1. IsRequest(r)
    BY RequestsAre DEF IsRequest, RequestTypes
  <2>2. Fails(c, r) /\ C!Is(c, again)
    BY <1>3
  <2>. HIDE DEF me, r
  <2>3. DOMAIN again = ClientFields /\ again.menu = me.menu /\ again.user = me.user
    BY <1>1, Zenon DEF ClientFields
  <2>4. DOMAIN again.draft = DraftFields
    BY <1>1, Zenon DEF ClientFields, DraftFields
  <2>5. IsRecord(again)
    BY <1>1, <2>3, <2>4 DEF IsRecord
  <2>. HIDE DEF again
  <2>. QED BY <2>1, <2>2, <2>5, StepKeeps DEF Moves
<1>4. ASSUME NEW i, NEW last, Fails(c, C!RqSetLastRead(me.user, me.copy[i].id, last)),
             C!Is(c, C!Opened(me, i))
      PROVE  ServerInv' /\ ClientsInv' /\ Counted
  <2> DEFINE r == C!RqSetLastRead(me.user, me.copy[i].id, last)
             rec == C!Opened(me, i)
             id == C!LastId(me.copy[i])
  <2>1. IsRequest(r)
    BY RequestsAre DEF IsRequest, RequestTypes
  <2>2. Fails(c, r) /\ C!Is(c, rec)
    BY <1>4
  <2>. HIDE DEF me, r, id
  <2>3. rec = [me EXCEPT !.menu = "chat", !.at = i, !.copy[i].read = id]
    BY Zenon DEF C!Opened, id
  <2>. HIDE DEF rec
  <2>4. DOMAIN rec = ClientFields /\ rec.draft = me.draft /\ rec.menu = "chat"
    BY <1>1, <2>3, Zenon DEF ClientFields
  <2>5. IsRecord(rec)
    BY <1>1, <2>4, SMTT(40) DEF IsRecord
  <2>. QED BY <2>1, <2>2, <2>5, StepKeeps DEF Moves
<1>5. /\ IsRequest(C!RqGetUsers(missing)) /\ \A text : IsRequest(C!RqFindUserByPart(me.user, text))
      /\ IsRequest(C!RqCreateMessage(me.user, me.copy[me.at].id))
  BY RequestsAre DEF IsRequest, RequestTypes
<1>. QED BY <1>2, <1>3, <1>4, <1>5 DEF ChatFails

\* Processes start and end; the server does.
LEMMA ProcessKeeps ==
    ASSUME ServerInv, ClientsInv, NEW c \in Clients, Launch(c) \/ Gone(c) \/ Logout(c)
    PROVE  ServerInv' /\ ClientsInv' /\ Counted
<1> DEFINE off == C!Off
           entrance == [off EXCEPT !.menu = "entrance"]
<1>1. ServerInv' /\ Counted
  <2>1. server' = server /\ stops' = stops
    BY DEF Launch, C!Launch, Gone, C!Gone, Logout, C!Logout
  <2>2. DOMAIN link' = DOMAIN link
    BY DEF Launch, C!Launch, Gone, C!Gone, Logout, C!Logout
  <2>. QED BY <2>1, <2>2 DEF ServerInv, Counted
<1>2. IsRecord(off) /\ IsRecord(entrance)
  <2>1. IsRecord(off)
    BY OffIsRecord
  <2>. HIDE DEF off
  <2>2. DOMAIN entrance = ClientFields /\ entrance.draft = off.draft /\ entrance.menu = "entrance"
    BY <2>1, Zenon DEF ClientFields, IsRecord
  <2>. QED BY <2>1, <2>2 DEF IsRecord
<1>3. C!Is(c, off) \/ C!Is(c, entrance)
  BY DEF Launch, C!Launch, Gone, C!Gone, Logout, C!Logout
<1>. HIDE DEF off, entrance
<1>. QED BY <1>1, <1>2, <1>3, IsKeeps

LEMMA ServerKeeps ==
    ASSUME ServerInv, ClientsInv, Start \/ Stop
    PROVE  ServerInv' /\ ClientsInv' /\ Counted
<1>1. CASE Start
  <2>1. server' = [server EXCEPT !.up = TRUE] /\ UNCHANGED <<link, client, stops>>
    BY <1>1 DEF Start, C!Start
  <2>2. /\ DOMAIN server' = {"up", "store", "ended"}
        /\ server'.up = TRUE /\ server'.store = server.store /\ server'.ended = server.ended
    BY <2>1 DEF ServerInv
  <2>. QED BY <2>1, <2>2 DEF ServerInv, ClientsInv, Counted
<1>2. CASE Stop
  <2>1. C!ServerEnds("stopped", C!AfterEnds)
    BY <1>2 DEF Stop, C!Stop
  <2>. QED BY <2>1, EndsKeeps DEF ClientsInv, Counted
<1>. QED BY <1>1, <1>2

\* Every step in which no statement fails keeps the tables and the domains.
LEMMA StepCounts ==
    ASSUME ServerInv, ClientsInv,
           Start \/ Stop \/ \E c \in Clients : EntranceStep(c) \/ ChatStep(c)
    PROVE  ServerInv' /\ ClientsInv' /\ Counted
<1>1. ASSUME NEW c \in Clients, EntranceStep(c)
      PROVE  ServerInv' /\ ClientsInv' /\ Counted
  BY <1>1, ProcessKeeps, QuietKeeps, CreateUserKeeps, CheckPasswordKeeps, SignInKeeps,
     NewLoginKeeps, CheckLoginKeeps DEF EntranceStep
<1>2. ASSUME NEW c \in Clients, ChatStep(c)
      PROVE  ServerInv' /\ ClientsInv' /\ Counted
  BY <1>2, ProcessKeeps, QuietKeeps, LoadChatKeeps, ChooseKeeps, SendDraftKeeps, OpenChatKeeps,
     PostKeeps DEF ChatStep
<1>. QED BY <1>1, <1>2, ServerKeeps

\* And every other step.
LEMMA EveryStepKeeps ==
    ASSUME ServerInv, ClientsInv, [Next]_vars
    PROVE  ServerInv' /\ ClientsInv' /\ Counted
<1>1. CASE UNCHANGED vars
  BY <1>1 DEF vars, ServerInv, ClientsInv, Counted
<1>2. ASSUME NEW c \in Clients, FailedStep(c)
      PROVE  ServerInv' /\ ClientsInv' /\ Counted
  BY <1>2, EntranceFailsKeeps, SignInPartlyKeeps, ChatFailsKeeps DEF FailedStep
<1>. QED BY <1>1, <1>2, StepCounts DEF Next

\* The seed is consistent, and there is no process yet.
LEMMA InitConsistent == ASSUME Init PROVE ServerInv /\ ClientsInv
<1>1. server = [up |-> TRUE, store |-> Seed, ended |-> C!None] /\ DOMAIN link = Clients /\ stops = 0
  BY DEF Init, C!Init
<1>2. client = [c \in Clients |-> C!Off]
  BY DEF Init, C!Init
<1>3. ServerInv
  BY <1>1, PgSeedAssumption DEF ServerInv
<1>. QED BY <1>2, <1>3, OffIsRecord DEF ClientsInv

\* The tables are consistent in every state, also after the server has ended and
\* clients go on with what they know of a database that is gone.
THEOREM ConsistentTables == Spec => []StoreConsistent
<1>1. Init => ServerInv /\ ClientsInv
  BY InitConsistent
<1>2. ServerInv /\ ClientsInv /\ [Next]_vars => ServerInv' /\ ClientsInv'
  BY EveryStepKeeps
<1>3. ServerInv => StoreConsistent
  BY DEF ServerInv, StoreConsistent
<1>. QED BY <1>1, <1>2, <1>3, PTL DEF Spec

-----------------------------------------------------------------------------
(* While the database is the one the clients have logged in to.            *)

\* What a client has from the database stays true when the database only grows.
LEMMA CurrentStays ==
    ASSUME NEW s, NEW n, Kept(s, n), NEW me, IsCurrent(s, me)
    PROVE  IsCurrent(n, me)
<1>1. \A c : TakesPart(s, me.user, c) => TakesPart(n, me.user, c) /\ Members(n, c) = Members(s, c)
  BY DEF TakesPart, Kept
<1>2. \A p : IsPacket(s, me.user, p) => IsPacket(n, me.user, p)
  BY <1>1 DEF IsPacket
<1>3. \A chat : IsShown(s, me.user, chat) => IsShown(n, me.user, chat)
  BY <1>1 DEF IsShown
<1>4. IsLoading(s, me) => IsLoading(n, me)
  BY <1>2 DEF IsLoading
<1>5. s.users \subseteq n.users
  BY DEF Kept
<1>. QED BY <1>3, <1>4, <1>5, Zenon DEF IsCurrent

\* A request of a client that is right about who it is and what it has.
Knows(s, r) == /\ r.type = "register" => r.login \in s.users
               /\ r.type = "getUsers" => r.logins \subseteq s.users
               /\ r.type = "createChat" => r.author \in s.users
               /\ r.type = "createMessage" => TakesPart(s, r.author, r.chat)

\* A message of a participant leaves every chat with a message.
LEMMA OneMoreInhabited ==
    ASSUME NEW s \in Store, Consistent(s), Inhabited(s), NEW n, Kept(s, n), NEW c, NEW u,
           OneMore(s, n, c, u), u \in Members(n, c),
           \A d \in ChatIds(n) : d \in ChatIds(s) \/ d = c
    PROVE  Inhabited(n)
<1> DEFINE m == Len(s.messages) + 1
<1>1. MessageIds(n) = MessageIds(s) \cup {m} /\ n.messages[m].chat = c /\ n.messages[m].sender = u
  BY DEF OneMore
<1>. HIDE DEF m
<1>2. \A k \in MessageIds(s) : /\ s.messages[k].chat \in ChatIds(s)
                               /\ n.messages[k].chat = s.messages[k].chat
                               /\ n.messages[k].sender = s.messages[k].sender
  BY DEF Kept, Consistent, StatusRowsComplete, RowsComplete
<1>3. \A d \in ChatIds(s) : Members(n, d) = Members(s, d)
  BY DEF Kept
<1>. QED BY <1>1, <1>2, <1>3 DEF Inhabited

\* Neither a user nor a read mark adds a chat.
LEMMA SameInhabited ==
    ASSUME NEW s \in Store, Consistent(s), Inhabited(s), NEW n, Kept(s, n),
           ChatIds(n) = ChatIds(s), MessageIds(n) = MessageIds(s)
    PROVE  Inhabited(n)
<1>1. \A k \in MessageIds(s) : /\ s.messages[k].chat \in ChatIds(s)
                               /\ n.messages[k].chat = s.messages[k].chat
                               /\ n.messages[k].sender = s.messages[k].sender
  BY DEF Kept, Consistent, StatusRowsComplete, RowsComplete
<1>2. \A d \in ChatIds(s) : Members(n, d) = Members(s, d)
  BY DEF Kept
<1>. QED BY <1>1, <1>2 DEF Inhabited

\* Such a request takes nothing from the database and is answered, but for a search
\* that finds nobody and a chat with nobody.
LEMMA KnownRequest ==
    ASSUME NEW s \in Store, Consistent(s), Inhabited(s), NEW r, IsRequest(r), Knows(s, r)
    PROVE  /\ Kept(s, PgHandle(s, r).store) /\ Inhabited(PgHandle(s, r).store)
           /\ \/ PgHandle(s, r).fate = "reply"
              \/ r.type = "search" /\ PgHandle(s, r).fate = "undefined"
              \/ r.type = "createChat" /\ r.members = {} /\ PgHandle(s, r).fate = "empty"
<1> DEFINE n == PgHandle(s, r).store
<1>0. Kept(s, s)
  BY DEF Kept, Consistent, StatusRowsComplete, RowsComplete
<1>1. CASE r.type \in {"checkLogin", "checkPassword"}
  BY <1>0, <1>1, UserRequests
<1>2. CASE r.type \in {"register", "getUsers", "search"}
  <2>1. r.type = "register" => n = s /\ PgHandle(s, r).fate = "reply"
    BY RegisterRequest, ZenonT(40) DEF Knows
  <2>2. r.type = "getUsers" => n = s /\ PgHandle(s, r).fate = "reply"
    BY GetUsersRequest DEF Knows
  <2>. QED BY <1>0, <1>2, <2>1, <2>2, SearchRequest
<1>3. CASE r.type = "createUser"
  <2>1. Kept(s, UserAdded(s, r.login)) /\ Inhabited(UserAdded(s, r.login))
    BY <1>3, UserAddedConsistent, SameInhabited DEF IsRequest
  <2>. QED BY <1>0, <1>3, <2>1, CreateUserRequest
<1>4. CASE r.type = "createChat"
  <2> DEFINE k == ChatAdded(s, r.author, r.members, Now(s))
  <2>1. r.author \in s.users
    BY <1>4 DEF Knows
  <2>2. Kept(s, k) /\ Inhabited(k)
    <3> DEFINE c == Len(s.chats) + 1
    <3>1. /\ Kept(s, k) /\ ChatIds(k) = ChatIds(s) \cup {c}
          /\ r.author \in Members(k, c) /\ OneMore(s, k, c, r.author)
      BY <2>1, NowIsNat, ChatAddedConsistent
    <3>. HIDE DEF k, c
    <3>. QED BY <3>1, OneMoreInhabited
  <2>. QED BY <1>0, <1>4, <2>1, <2>2, CreateChatRequest
<1>5. CASE r.type = "createMessage"
  <2> DEFINE k == MessageAdded(s, r.author, r.chat, Now(s))
  <2>1. r.chat \in ChatIds(s) /\ r.author \in Members(s, r.chat) /\ r.author \in s.users
    BY <1>5 DEF Knows, TakesPart, Consistent, ReferencesExist
  <2>2. Kept(s, k) /\ Inhabited(k)
    <3>1. Kept(s, k) /\ ChatIds(k) = ChatIds(s) /\ OneMore(s, k, r.chat, r.author)
      BY <2>1, NowIsNat, MessageAddedConsistent
    <3>2. r.author \in Members(k, r.chat)
      BY <2>1, <3>1 DEF Kept
    <3>. HIDE DEF k
    <3>. QED BY <3>1, <3>2, OneMoreInhabited
  <2>. QED BY <1>5, <2>1, <2>2, CreateMessageRequest
<1>6. CASE r.type = "setLastRead"
  <2>1. n = s \/ n = ReadMarked(s, r.login, r.chat, r.message)
    BY <1>6, SetLastReadRequest
  <2>. QED BY <1>0, <1>6, <2>1, SetLastReadRequest, ReadStays, SameInhabited
<1>. QED BY <1>1, <1>2, <1>3, <1>4, <1>5, <1>6 DEF IsRequest, RequestTypes

\* What a client gets when it signs in: packets of chats the user is in, with messages
\* of participants.
LEMMA PacketsAre ==
    ASSUME NEW s \in Store, Consistent(s), Inhabited(s), NEW r, r.type = "register",
           r.login \in s.users
    PROVE  LET q == PgHandle(s, r).body
           IN  IsSeq(q) /\ \A i \in DOMAIN q : IsPacket(s, r.login, q[i])
<1> DEFINE u == r.login
           list == ListOf(s, u)
           q == [k \in DOMAIN list |-> Packet(s, list[k], u)]
           mine == {c \in ChatIds(s) : TakesPart(s, u, c)}
<1>1. PgHandle(s, r).body = q
  BY RegisterRequest
<1>2. /\ Len(s.chats) \in Nat /\ ChatIds(s) = 1 .. Len(s.chats)
      /\ Len(s.messages) \in Nat /\ MessageIds(s) = 1 .. Len(s.messages)
  <2>1. s.chats \in Seq(ChatRow) /\ s.messages \in Seq(MessageRow)
    BY DEF Store
  <2>. QED BY <2>1, LenProperties DEF ChatIds, MessageIds
<1>3. list \in Seq(mine)
  <2>1. mine \in SUBSET (1 .. Len(s.chats))
    BY <1>2
  <2> DEFINE key == [c \in ChatIds(s) |-> c]
  <2>2. list = InKeyOrder(mine, Len(s.chats), key)
    BY Zenon DEF ListOf
  <2>. HIDE DEF mine, list, key
  <2>. QED BY <1>2, <2>1, <2>2, InKeyOrderIs
<1>4. /\ Len(list) \in Nat /\ DOMAIN list = 1 .. Len(list)
      /\ \A k \in DOMAIN list : TakesPart(s, u, list[k])
  <2>1. \A c \in mine : TakesPart(s, u, c)
    OBVIOUS
  <2>. HIDE DEF mine, list
  <2>. QED BY <1>3, <2>1, LenProperties, ElementOfSeq
<1>5. ASSUME NEW c, TakesPart(s, u, c) PROVE IsPacket(s, u, Packet(s, c, u))
  <2> DEFINE ms == InOrder(s, c)
             msgs == [k \in DOMAIN ms |-> [id |-> ms[k], by |-> s.messages[ms[k]].sender]]
             its == {m \in MessageIds(s) : s.messages[m].chat = c}
             key == [m \in MessageIds(s) |-> s.messages[m].ts]
  <2>1. /\ Packet(s, c, u).id = c /\ Packet(s, c, u).members = Members(s, c)
        /\ Packet(s, c, u).msgs = msgs
    BY DEF Packet
  <2>2. ms = InKeyOrder(its, Len(s.messages), key)
    BY Zenon DEF InOrder
  <2>3. its \in SUBSET (1 .. Len(s.messages))
    BY <1>2
  <2>4. \E m \in its : TRUE
    BY <1>5 DEF Inhabited, TakesPart
  <2>5. \A m \in its : s.messages[m].sender \in Members(s, c)
    BY DEF Inhabited
  <2>. HIDE DEF ms, its, key
  <2>6. ms \in Seq(its) /\ \E k \in DOMAIN ms : TRUE
    <3>1. ms \in Seq(its) /\ \A m \in its : Lists(ms, m)
      BY <1>2, <2>2, <2>3, InKeyOrderIs
    <3>. QED BY <2>4, <3>1 DEF Lists
  <2>7. Len(ms) \in Nat /\ DOMAIN ms = 1 .. Len(ms) /\ \A k \in DOMAIN ms : ms[k] \in its
    BY <2>6, LenProperties, ElementOfSeq
  <2>8. Len(ms) # 0
    BY <2>6, <2>7
  <2>9. \A k \in DOMAIN msgs : k \in DOMAIN ms /\ msgs[k].by = s.messages[ms[k]].sender
    OBVIOUS
  <2>10. DOMAIN msgs = DOMAIN ms
    OBVIOUS
  <2>11. msgs = [k \in 1 .. Len(ms) |-> msgs[k]]
    BY <2>7
  <2>. HIDE DEF msgs
  <2>12. IsSeq(msgs) /\ Len(msgs) = Len(ms)
    BY <2>7, <2>11, FunctionSeq
  <2>13. \A k \in DOMAIN msgs : msgs[k].by \in Members(s, c)
    BY <2>5, <2>7, <2>9
  <2>. QED BY <1>5, <2>1, <2>8, <2>12, <2>13 DEF IsPacket
<1>. HIDE DEF list
<1>6. q = [k \in 1 .. Len(list) |-> q[k]] /\ DOMAIN q = DOMAIN list
  BY <1>4
<1>7. \A k \in DOMAIN q : q[k] = Packet(s, list[k], u)
  OBVIOUS
<1>. HIDE DEF q, u
<1>8. IsSeq(q)
  BY <1>4, <1>6, FunctionSeq
<1>. QED BY <1>1, <1>4, <1>5, <1>6, <1>7, <1>8 DEF u

\* What comes of such a request while nothing has happened: the database has grown, and
\* only a search may have left the client waiting; or a search has ended the server.
Outcome(c, r) ==
    \/ /\ stops' = 0 /\ server'.up /\ server'.ended = C!None
       /\ Kept(server.store, server'.store) /\ Inhabited(server'.store)
       /\ \A d \in Clients \ {c} : link'[d] = link[d]
       /\ \/ link'[c] = "ok"
          \/ link'[c] = link[c]
          \/ link'[c] = "asked" /\ r.type = "search" /\ UNCHANGED client
    \/ stops' = 1 /\ server'.ended = "search" /\ r.type = "search" /\ UNCHANGED client

\* By kind of answer.
LEMMA TalkOutcome ==
    ASSUME ServerInv, stops = 0, Undisturbed, NEW c \in Clients, link[c] # "asked",
           NEW r, IsRequest(r), Knows(server.store, r), Talks(c, r)
    PROVE  /\ Outcome(c, r)
           /\ \/ C!NoRequest
              \/ C!Answered(c, r)
              \/ C!Unanswered(c, r) /\ r.type = "createChat" /\ r.members = {}
              \/ r.type = "search" /\ UNCHANGED client
<1> DEFINE s == server.store
           n == PgHandle(s, r).store
           fate == PgHandle(s, r).fate
<1>1. /\ Kept(s, n) /\ Inhabited(n)
      /\ \/ fate = "reply"
         \/ r.type = "search" /\ fate = "undefined"
         \/ r.type = "createChat" /\ r.members = {} /\ fate = "empty"
  BY KnownRequest DEF ServerInv, Undisturbed
<1>2. /\ link[c] \in {"none", "ok"} /\ server.up /\ server.ended = C!None /\ Inhabited(s)
      /\ Kept(s, s)
  BY DEF Undisturbed, ServerInv, Kept, Consistent, StatusRowsComplete, RowsComplete
<1>3. r.type \in RequestTypes /\ (r.type = "createUser" => r.login \in Logins)
  BY DEF IsRequest
<1>4. ASSUME NEW l, C!Served(c, r), link' = [link EXCEPT ![c] = l]
      PROVE  /\ stops' = 0 /\ server'.up /\ server'.ended = C!None /\ server'.store = n
             /\ link'[c] = l /\ \A d \in Clients \ {c} : link'[d] = link[d]
  BY <1>2, <1>3, <1>4, ServedKeeps
<1>. HIDE DEF n, fate
<1>5. CASE C!NoRequest
  BY <1>2, <1>5 DEF C!NoRequest, Outcome
<1>6. CASE C!Answered(c, r)
  BY <1>1, <1>4, <1>6 DEF C!Answered, C!Connected, Outcome
<1>7. CASE C!Unanswered(c, r)
  <2>1. /\ C!Served(c, r) /\ link' = [link EXCEPT ![c] = "ok"] /\ fate = "empty"
    BY <1>2, <1>7 DEF C!Unanswered, C!Connected, C!Reply, fate
  <2>. QED BY <1>1, <1>4, <1>7, <2>1 DEF Outcome
<1>8. CASE C!Hangs(c, r)
  <2>1. \/ /\ C!Served(c, r) /\ link' = [link EXCEPT ![c] = "asked"] /\ UNCHANGED client
           /\ fate \in {"silent", "undefined"}
        \/ fate \in {"dies", "undefined"} /\ \E after : C!ServerEnds(r.type, after)
    BY <1>2, <1>8 DEF C!Hangs, C!Reply, fate
  <2>2. r.type = "search"
    BY <1>1, <2>1
  <2>3. CASE C!Served(c, r) /\ link' = [link EXCEPT ![c] = "asked"] /\ UNCHANGED client
    BY <1>1, <1>4, <2>2, <2>3 DEF Outcome
  <2>4. CASE \E after : C!ServerEnds(r.type, after)
    BY <2>2, <2>4, EndsKeeps DEF Outcome
  <2>. QED BY <2>1, <2>2, <2>3, <2>4
<1>. QED BY <1>5, <1>6, <1>7, <1>8 DEF Talks

\* It is enough to look at the client who takes the step.
LEMMA OutcomeKeeps ==
    ASSUME ClientsInv, stops = 0, Undisturbed, NEW c \in Clients, NEW r, Outcome(c, r),
           r.type = "search" => client[c].menu = "main", link[c] # "asked",
           NEW rec, UNCHANGED client \/ C!Is(c, rec),
           \/ UNCHANGED client
           \/ IsCurrent(server.store, rec)
           \/ stops' = 0 => IsCurrent(server'.store, rec)
    PROVE  SearchInv'
<1>1. CASE stops' = 1
  BY <1>1 DEF Outcome, SearchInv
<1>2. CASE stops' # 1
  <2>1. /\ stops' = 0 /\ server'.up /\ server'.ended = C!None
        /\ Kept(server.store, server'.store) /\ Inhabited(server'.store)
        /\ \A d \in Clients \ {c} : link'[d] = link[d]
        /\ \/ link'[c] = "ok"
           \/ link'[c] = link[c]
           \/ link'[c] = "asked" /\ r.type = "search" /\ UNCHANGED client
    BY <1>2 DEF Outcome
  <2>2. C!Is(c, rec) => client'[c] = rec /\ \A d \in Clients \ {c} : client'[d] = client[d]
    BY IsKeeps
  <2>3. /\ client'[c] = client[c] \/ client'[c] = rec
        /\ \A d \in Clients \ {c} : client'[d] = client[d]
    BY <2>2
  <2>4. ASSUME NEW d \in Clients \ {c}
        PROVE  /\ link'[d] \in {"none", "ok", "asked"}
               /\ link'[d] = "asked" => client'[d].menu = "main"
               /\ IsCurrent(server'.store, client'[d])
    BY <2>1, <2>3, CurrentStays DEF Undisturbed
  <2>5. /\ link'[c] \in {"none", "ok", "asked"}
        /\ link'[c] = "asked" => client'[c].menu = "main"
    BY <2>1, <2>3 DEF Undisturbed
  <2>6. IsCurrent(server'.store, client'[c])
    <3>1. IsCurrent(server.store, client[c])
      BY DEF Undisturbed
    <3>2. CASE UNCHANGED client
      BY <2>1, <3>1, <3>2, CurrentStays
    <3>3. CASE ~UNCHANGED client
      <4>1. client'[c] = rec
        BY <2>2, <3>3
      <4>. QED BY <2>1, <3>3, <4>1, CurrentStays
    <3>. QED BY <3>2, <3>3
  <2>. QED BY <2>1, <2>4, <2>5, <2>6 DEF SearchInv, Undisturbed
<1>. QED BY <1>1, <1>2

\* What an undisturbed client has.
LEMMA Current ==
    ASSUME ServerInv, ClientsInv, Undisturbed, NEW c \in Clients
    PROVE  /\ DOMAIN client[c] = ClientFields /\ DOMAIN client[c].draft = DraftFields
           /\ IsCurrent(server.store, client[c])
           /\ server.store \in Store /\ Consistent(server.store) /\ Inhabited(server.store)
           /\ \A d : Members(server.store, d) \subseteq server.store.users
                        \/ d \notin ChatIds(server.store)
BY DEF ServerInv, ClientsInv, IsRecord, Undisturbed, Consistent, ReferencesExist

\* No socket has an error that send would raise a signal for.
LEMMA HangsStill ==
    ASSUME Undisturbed, NEW c \in Clients, NEW r, C!Hangs(c, r)
    PROVE  UNCHANGED client
<1>1. link[c] # "spent"
  BY DEF Undisturbed
<1>. QED BY <1>1 DEF C!Hangs, C!ServerEnds

\* A login that is free is not stored yet.
LEMMA NewLoginUndisturbed ==
    ASSUME ServerInv, ClientsInv, stops = 0, Undisturbed,
           NEW c \in Clients, NEW u \in Typed, NewLogin(c, u)
    PROVE  SearchInv'
<1> DEFINE me == client[c]
           r == C!RqCheckLogin(u)
           rec == [me EXCEPT !.menu = "signup", !.user = u]
<1>1. IsRequest(r) /\ Knows(server.store, r) /\ r.type # "search" /\ r.type # "createChat"
  BY RequestsAre DEF IsRequest, RequestTypes, Knows
<1>2. Talks(c, r) /\ link[c] # "asked" /\ me.menu = "entrance"
  BY Zenon DEF NewLogin, C!NewLogin, C!LoginTaken, C!In, Talks
<1>3. Outcome(c, r) /\ (C!NoRequest \/ C!Answered(c, r))
  <2>. HIDE DEF r
  <2>. QED BY <1>1, <1>2, TalkOutcome
<1>4. UNCHANGED client \/ C!Is(c, rec)
  <2>1. \/ C!Untouched \/ C!Is(c, rec) \/ C!Hangs(c, r)
    BY Zenon DEF NewLogin, C!NewLogin, C!LoginTaken
  <2>. QED BY <2>1, HangsStill DEF C!Untouched
<1>5. IsCurrent(server.store, rec)
  <2>1. DOMAIN me = ClientFields /\ IsCurrent(server.store, me)
    BY Current
  <2>. HIDE DEF me
  <2>2. /\ rec.menu = "signup" /\ rec.user = u /\ rec.known = me.known /\ rec.copy = me.copy
        /\ rec.at = me.at /\ rec.draft = me.draft /\ rec.why = me.why
    BY <2>1, Zenon DEF ClientFields
  <2>. HIDE DEF rec
  <2>. QED BY <1>2, <2>1, <2>2 DEF IsCurrent, LoggedIn
<1>. HIDE DEF r, rec
<1>. QED BY <1>1, <1>2, <1>3, <1>4, <1>5, OutcomeKeeps

\* A login that is known is one of a user.
LEMMA CheckLoginUndisturbed ==
    ASSUME ServerInv, ClientsInv, stops = 0, Undisturbed,
           NEW c \in Clients, NEW u \in Typed, CheckLogin(c, u)
    PROVE  SearchInv'
<1> DEFINE me == client[c]
           s == server.store
           r == C!RqCheckLogin(u)
           rec == [me EXCEPT !.menu = "password", !.user = u]
<1>1. IsRequest(r) /\ Knows(s, r) /\ r.type = "checkLogin" /\ r.login = u
  BY RequestsAre DEF IsRequest, RequestTypes, Knows
<1>2. Talks(c, r) /\ link[c] # "asked" /\ me.menu = "entrance"
  BY Zenon DEF CheckLogin, C!CheckLogin, C!LoginTaken, C!In, Talks
<1>3. Outcome(c, r)
  <2>. HIDE DEF r
  <2>. QED BY <1>1, <1>2, TalkOutcome
<1>4. UNCHANGED client \/ (C!Is(c, rec) /\ (u \in me.known \/ C!Reply(r).body))
  <2>1. \/ C!Untouched \/ (C!Is(c, rec) /\ (u \in me.known \/ C!Reply(r).body)) \/ C!Hangs(c, r)
    BY Zenon DEF CheckLogin, C!CheckLogin, C!LoginTaken
  <2>. QED BY <2>1, HangsStill DEF C!Untouched
<1>5. (u \in me.known \/ C!Reply(r).body) => u \in s.users
  <2>1. IsCurrent(s, me)
    BY Current
  <2>2. C!Reply(r).body = PgHandle(s, r).body
    BY DEF C!Reply
  <2>. HIDE DEF r, s, me
  <2>3. PgHandle(s, r).body = (u \in s.users)
    BY <1>1, UserRequests
  <2>. QED BY <2>1, <2>2, <2>3 DEF IsCurrent
<1>6. u \in s.users => IsCurrent(s, rec)
  <2>1. DOMAIN me = ClientFields /\ IsCurrent(s, me)
    BY Current
  <2>. HIDE DEF me
  <2>2. /\ rec.menu = "password" /\ rec.user = u /\ rec.known = me.known /\ rec.copy = me.copy
        /\ rec.at = me.at /\ rec.draft = me.draft /\ rec.why = me.why
    BY <2>1, Zenon DEF ClientFields
  <2>. HIDE DEF rec
  <2>. QED BY <1>2, <2>1, <2>2 DEF IsCurrent, LoggedIn
<1>. HIDE DEF r, rec
<1>. QED BY <1>1, <1>2, <1>3, <1>4, <1>5, <1>6, OutcomeKeeps

\* The password is that of a user, since the login is.
LEMMA CheckPasswordUndisturbed ==
    ASSUME ServerInv, ClientsInv, stops = 0, Undisturbed, NEW c \in Clients, CheckPassword(c)
    PROVE  SearchInv'
<1> DEFINE me == client[c]
           s == server.store
           r == C!RqCheckPassword(me.user)
           rec == [me EXCEPT !.menu = "signin"]
<1>1. IsRequest(r) /\ Knows(s, r) /\ r.type = "checkPassword"
  BY RequestsAre DEF IsRequest, RequestTypes, Knows
<1>2. Talks(c, r) /\ link[c] # "asked" /\ me.menu = "password"
  BY Zenon DEF CheckPassword, C!CheckPassword, C!PasswordRight, C!In, Talks
<1>3. Outcome(c, r)
  <2>. HIDE DEF r
  <2>. QED BY <1>1, <1>2, TalkOutcome
<1>4. UNCHANGED client \/ C!Is(c, rec)
  <2>1. \/ C!Untouched \/ C!Is(c, rec) \/ C!Hangs(c, r)
    BY Zenon DEF CheckPassword, C!CheckPassword, C!PasswordRight
  <2>. QED BY <2>1, HangsStill DEF C!Untouched
<1>5. IsCurrent(s, rec)
  <2>1. DOMAIN me = ClientFields /\ IsCurrent(s, me)
    BY Current
  <2>. HIDE DEF me
  <2>2. /\ rec.menu = "signin" /\ rec.user = me.user /\ rec.known = me.known
        /\ rec.copy = me.copy /\ rec.at = me.at /\ rec.draft = me.draft /\ rec.why = me.why
    BY <2>1, Zenon DEF ClientFields
  <2>. HIDE DEF rec
  <2>. QED BY <1>2, <2>1, <2>2 DEF IsCurrent, LoggedIn
<1>. HIDE DEF r, rec
<1>. QED BY <1>1, <1>2, <1>3, <1>4, <1>5, OutcomeKeeps

\* Whoever is registered is a user of the client's, and of the database.
LEMMA CreateUserUndisturbed ==
    ASSUME ServerInv, ClientsInv, stops = 0, Undisturbed, NEW c \in Clients, CreateUser(c)
    PROVE  SearchInv'
<1> DEFINE me == client[c]
           s == server.store
           r == C!RqCreateUser(me.user)
           body == C!Reply(r).body
           known == IF body THEN me.known \cup {me.user} ELSE me.known
           rec == [me EXCEPT !.menu = "entrance", !.user = C!None, !.known = known]
<1>1. /\ IsRequest(r) /\ Knows(s, r) /\ r.type = "createUser" /\ r.login = me.user
      /\ Talks(c, r) /\ link[c] # "asked" /\ me.menu = "signup"
  <2>1. me.menu = "signup" /\ link[c] # "asked"
    BY DEF CreateUser, C!CreateUser, C!In
  <2>2. Talks(c, r)
    BY Zenon DEF CreateUser, C!CreateUser, Talks
  <2>. QED BY <2>1, <2>2, RequestsAre DEF IsRequest, RequestTypes, Knows, ClientsInv, IsRecord
<1>2. Outcome(c, r) /\ ~C!Unanswered(c, r)
  <2>1. Outcome(c, r) /\ (C!NoRequest \/ C!Answered(c, r))
    <3>. HIDE DEF r
    <3>. QED BY <1>1, TalkOutcome
  <2>2. C!Unanswered(c, r) => PgHandle(s, r).fate = "empty"
    BY DEF C!Unanswered, C!Reply, Undisturbed
  <2>3. PgHandle(s, r).fate = "reply"
    <3>. HIDE DEF r
    <3>. QED BY <1>1, CreateUserRequest
  <2>. QED BY <2>1, <2>2, <2>3
<1>3. UNCHANGED client \/ (C!Is(c, rec) /\ C!Answered(c, r))
  <2>1. \/ (C!Is(c, rec) /\ C!Answered(c, r)) \/ C!Hangs(c, r)
    BY <1>2, Zenon DEF CreateUser, C!CreateUser
  <2>. QED BY <2>1, HangsStill
<1>4. ASSUME C!Answered(c, r), stops' = 0 PROVE IsCurrent(server'.store, rec)
  <2>1. DOMAIN me = ClientFields /\ IsCurrent(s, me) /\ s \in Store
    BY Current
  <2>2. Kept(s, server'.store)
    BY <1>2, <1>4 DEF Outcome
  <2>3. IsCurrent(server'.store, me)
    BY <2>1, <2>2, CurrentStays
  <2>4. body => me.user \in server'.store.users
    <3>1. server'.store = PgHandle(s, r).store
      BY <1>4, ServedKeeps, <1>1 DEF C!Answered, C!Connected, IsRequest
    <3>2. body => PgHandle(s, r).store = UserAdded(s, me.user)
      <4>. HIDE DEF r
      <4>. QED BY <1>1, CreateUserRequest DEF C!Reply
    <3>3. UserAdded(s, me.user).users = s.users \cup {me.user}
      BY <2>1 DEF UserAdded, Store
    <3>. QED BY <3>1, <3>2, <3>3
  <2>. HIDE DEF body
  <2>5. known \subseteq server'.store.users
    BY <2>3, <2>4 DEF IsCurrent
  <2>. HIDE DEF me, known
  <2>6. /\ rec.menu = "entrance" /\ rec.known = known /\ rec.copy = me.copy
        /\ rec.at = me.at /\ rec.draft = me.draft /\ rec.why = me.why
    BY <2>1, Zenon DEF ClientFields
  <2>. HIDE DEF rec
  <2>. QED BY <1>1, <2>3, <2>5, <2>6 DEF IsCurrent, LoggedIn, me
<1>. HIDE DEF r, rec
<1>. QED BY <1>1, <1>2, <1>3, <1>4, OutcomeKeeps

\* The packets that come with the login are those of the database.
LEMMA SignInUndisturbed ==
    ASSUME ServerInv, ClientsInv, stops = 0, Undisturbed, NEW c \in Clients, SignIn(c)
    PROVE  SearchInv'
<1> DEFINE me == client[c]
           s == server.store
           r == C!RqRegister(me.user)
           body == C!Reply(r).body
           rec == C!SignedIn(c, body)
<1>1. IsCurrent(s, me) /\ s \in Store /\ Consistent(s) /\ Inhabited(s) /\ DOMAIN me = ClientFields
  BY Current
<1>2. me.menu = "signin" /\ link[c] # "asked" /\ me.user \in s.users
  BY <1>1 DEF SignIn, C!SignIn, C!In, IsCurrent
<1>3. /\ IsRequest(r) /\ Knows(s, r) /\ r.type = "register" /\ r.login = me.user
      /\ Talks(c, r)
  <2>1. Talks(c, r)
    BY Zenon DEF SignIn, C!SignIn, Talks
  <2>. QED BY <1>2, <2>1, RequestsAre DEF IsRequest, RequestTypes, Knows
<1>4. Outcome(c, r) /\ ~C!Unanswered(c, r)
  <2>1. Outcome(c, r)
    <3>. HIDE DEF r
    <3>. QED BY <1>2, <1>3, TalkOutcome
  <2>2. C!Unanswered(c, r) => PgHandle(s, r).fate = "empty"
    BY DEF C!Unanswered, C!Reply, Undisturbed
  <2>3. PgHandle(s, r).fate = "reply"
    <3>1. r.type = "register" /\ r.login \in s.users
      BY <1>2, <1>3
    <3>. HIDE DEF r, s
    <3>. QED BY <3>1, RegisterRequest, ZenonT(40)
  <2>. QED BY <2>1, <2>2, <2>3
<1>5. UNCHANGED client \/ C!Is(c, rec)
  <2>1. C!Is(c, rec) \/ C!Hangs(c, r)
    BY <1>4, Zenon DEF SignIn, C!SignIn
  <2>. QED BY <2>1, HangsStill
<1>6. IsCurrent(s, rec)
  <2>1. IsSeq(body) /\ \A i \in DOMAIN body : IsPacket(s, me.user, body[i])
    <3>. HIDE DEF r
    <3>. QED BY <1>1, <1>2, <1>3, PacketsAre DEF C!Reply
  <2>. HIDE DEF body
  <2>2. rec = [me EXCEPT !.menu = "loading", !.queue = body, !.known = @ \cup {me.user}]
    BY Zenon DEF C!SignedIn
  <2>. HIDE DEF me, rec
  <2>3. /\ rec.menu = "loading" /\ rec.queue = body /\ rec.known = me.known \cup {me.user}
        /\ rec.user = me.user /\ rec.copy = me.copy
        /\ rec.at = me.at /\ rec.draft = me.draft /\ rec.why = me.why
    BY <1>1, <2>2, Zenon DEF ClientFields
  <2>4. me.copy = <<>> /\ me.at = 0 /\ me.draft.tries = 0 /\ me.known \subseteq s.users
        /\ me.why = C!None
    BY <1>1, <1>2 DEF IsCurrent, me
  <2>5. IsSeq(<<>>) /\ Len(<<>>) = 0
    BY DEF IsSeq
  <2>6. IsLoading(s, rec)
    BY <2>1, <2>3, <2>4, <2>5 DEF IsLoading, IsSeq
  <2>. QED BY <1>2, <2>3, <2>4, <2>6 DEF IsCurrent, LoggedIn, me
<1>. HIDE DEF r, rec
<1>. QED BY <1>2, <1>3, <1>4, <1>5, <1>6, OutcomeKeeps

\* The participants of a chat that is loaded are users of the client's before it is.
LEMMA LoadChatUndisturbed ==
    ASSUME ServerInv, ClientsInv, stops = 0, Undisturbed, NEW c \in Clients, LoadChat(c)
    PROVE  SearchInv'
<1> DEFINE me == client[c]
           s == server.store
           next == me.queue[me.at + 1]
           missing == next.members \ me.known
           r == C!RqGetUsers(missing)
           rec == C!ChatLoaded(c, me.known \cup missing)
<1>1. /\ IsCurrent(s, me) /\ s \in Store /\ DOMAIN me = ClientFields
      /\ \A d : Members(s, d) \subseteq s.users \/ d \notin ChatIds(s)
  BY Current, SMTT(40)
<1>2. me.menu = "loading" /\ link[c] # "asked" /\ me.at < Len(me.queue)
  BY DEF LoadChat, C!LoadChat, C!In
<1>3. IsLoading(s, me)
  BY <1>1, <1>2, SMTT(40) DEF IsCurrent
<1>4. me.at + 1 \in DOMAIN me.queue /\ IsPacket(s, me.user, next) /\ next.members \subseteq s.users
  <2>1. me.at \in Nat /\ Len(me.queue) \in Nat /\ DOMAIN me.queue = 1 .. Len(me.queue)
    BY <1>3 DEF IsLoading, IsSeq
  <2>2. me.at + 1 \in DOMAIN me.queue
    BY <1>2, <2>1
  <2>3. IsPacket(s, me.user, next)
    BY <1>3, <2>2 DEF IsLoading
  <2>4. next.members = Members(s, next.id) /\ next.id \in ChatIds(s)
    <3>. HIDE DEF next
    <3>. QED BY <2>3 DEF IsPacket, TakesPart
  <2>. QED BY <1>1, <2>2, <2>3, <2>4
<1>5. IsRequest(r) /\ Knows(s, r) /\ r.type = "getUsers" /\ Talks(c, r)
  <2>1. Talks(c, r)
    BY ZenonT(40) DEF LoadChat, C!LoadChat, Talks
  <2>2. r.logins = missing /\ r.type = "getUsers" /\ missing \subseteq s.users
    BY <1>4, RequestsAre, SMTT(40)
  <2>. HIDE DEF r, missing
  <2>. QED BY <2>1, <2>2 DEF IsRequest, RequestTypes, Knows
<1>6. Outcome(c, r) /\ ~C!Unanswered(c, r)
  <2>1. Outcome(c, r)
    <3>. HIDE DEF r
    <3>. QED BY <1>2, <1>5, TalkOutcome
  <2>2. C!Unanswered(c, r) => PgHandle(s, r).fate = "empty"
    BY DEF C!Unanswered, C!Reply, Undisturbed
  <2>3. PgHandle(s, r).fate = "reply"
    <3>. HIDE DEF r, s
    <3>. QED BY <1>5, GetUsersRequest DEF Knows
  <2>. QED BY <2>1, <2>2, <2>3
<1>7. UNCHANGED client \/ C!Is(c, rec)
  <2>1. \/ C!Is(c, rec) \/ C!Unanswered(c, r) \/ C!Hangs(c, r)
        \/ missing = {} /\ C!Is(c, C!ChatLoaded(c, me.known))
    BY Zenon DEF LoadChat, C!LoadChat
  <2>2. missing = {} => me.known \cup missing = me.known
    OBVIOUS
  <2>3. C!Hangs(c, r) => UNCHANGED client
    BY HangsStill
  <2>. QED BY <1>6, <2>1, <2>2, <2>3, Zenon
<1>8. IsCurrent(s, rec)
  <2> DEFINE known == me.known \cup missing
             more == C!CopyChat(next.id, next.members \cap known, next.read, <<>>, <<>>)
  <2>1. rec = [me EXCEPT !.at = @ + 1, !.known = known, !.copy = Append(@, more)]
    BY Zenon DEF C!ChatLoaded
  <2>2. DOMAIN more = ChatFields /\ more.id = next.id
    BY SMTT(40) DEF C!CopyChat, ChatFields
  <2>3. known \subseteq s.users /\ next.members \subseteq known /\ me.known \subseteq known
    BY <1>1, <1>4 DEF IsCurrent
  <2>. HIDE DEF me, known, more, rec
  <2>4. /\ rec.menu = me.menu /\ rec.queue = me.queue /\ rec.known = known
        /\ rec.user = me.user /\ rec.copy = Append(me.copy, more)
        /\ rec.at = me.at + 1 /\ rec.draft = me.draft /\ rec.why = me.why
    BY <1>1, <2>1, Zenon DEF ClientFields
  <2>5. /\ IsSeq(me.queue) /\ IsSeq(me.copy) /\ Len(me.copy) = me.at /\ me.at \in Nat
        /\ Len(me.queue) \in Nat
        /\ \A i \in DOMAIN me.queue : IsPacket(s, me.user, me.queue[i])
        /\ \A i \in 1 .. me.at : /\ me.queue[i].members \subseteq me.known
                                 /\ DOMAIN me.copy[i] = ChatFields
                                 /\ me.copy[i].id = me.queue[i].id
    BY <1>3 DEF IsLoading, IsSeq
  <2> DEFINE copy == Append(me.copy, more)
             at == me.at + 1
  <2>6. /\ IsSeq(copy) /\ Len(copy) = at /\ at \in 0 .. Len(me.queue)
        /\ \A i \in 1 .. me.at : copy[i] = me.copy[i]
        /\ copy[at] = more
    BY <1>2, <2>5, AppendSeq, SMTT(40) DEF me
  <2>7. \A i \in 1 .. at : i \in 1 .. me.at \/ i = at
    BY <2>5
  <2>8. me.queue[at] = next
    BY DEF me
  <2>. HIDE DEF copy, at, next
  <2>9. \A i \in 1 .. at : /\ me.queue[i].members \subseteq known
                           /\ DOMAIN copy[i] = ChatFields
                           /\ copy[i].id = me.queue[i].id
    BY <2>2, <2>3, <2>5, <2>6, <2>7, <2>8, SMTT(40)
  <2>10. IsLoading(s, rec)
    BY <2>4, <2>5, <2>6, <2>9 DEF IsLoading, copy, at
  <2>11. me.menu = "loading" /\ IsCurrent(s, me)
    BY <1>1, <1>2 DEF me
  <2>. QED BY <2>3, <2>4, <2>10, <2>11 DEF IsCurrent, LoggedIn
<1>. HIDE DEF r, rec
<1>. QED BY <1>2, <1>5, <1>6, <1>7, <1>8, OutcomeKeeps

\* Every sender is a user of the client's; and every chat has a last message.
LEMMA LoadMessagesUndisturbed ==
    ASSUME ServerInv, ClientsInv, stops = 0, Undisturbed, NEW c \in Clients, LoadMessages(c)
    PROVE  SearchInv'
<1> DEFINE me == client[c]
           s == server.store
           r == C!RqCheckLogin(C!None)
           senders == UNION {{me.queue[i].msgs[k].by : k \in DOMAIN me.queue[i].msgs} :
                                i \in DOMAIN me.queue}
           filled == [i \in DOMAIN me.copy |->
                         C!Filled(me.copy[i], me.queue[i].msgs, me.user)]
           rec == [me EXCEPT !.menu = "main", !.queue = <<>>, !.at = 0, !.copy = filled]
<1>1. IsCurrent(s, me) /\ DOMAIN me = ClientFields
  BY Current
<1>2. me.menu = "loading" /\ link[c] # "asked" /\ me.at = Len(me.queue) /\ C!NoRequest
  BY DEF LoadMessages, C!LoadMessages, C!In
<1>3. /\ IsSeq(me.queue) /\ IsSeq(me.copy) /\ Len(me.copy) = Len(me.queue)
      /\ \A i \in DOMAIN me.queue : IsPacket(s, me.user, me.queue[i])
      /\ \A i \in DOMAIN me.queue : /\ me.queue[i].members \subseteq me.known
                                    /\ DOMAIN me.copy[i] = ChatFields
                                    /\ me.copy[i].id = me.queue[i].id
  <2>1. IsLoading(s, me)
    BY <1>1, <1>2 DEF IsCurrent
  <2>2. DOMAIN me.queue = 1 .. Len(me.queue)
    BY <2>1 DEF IsLoading, IsSeq
  <2>. HIDE DEF me
  <2>. QED BY <1>2, <2>1, <2>2 DEF IsLoading, me
<1>4. DOMAIN me.queue = 1 .. Len(me.queue) /\ DOMAIN me.copy = DOMAIN me.queue
      /\ Len(me.queue) \in Nat
  BY <1>3 DEF IsSeq
<1>5. senders \subseteq me.known
  <2>1. \A i \in DOMAIN me.queue : \A k \in DOMAIN me.queue[i].msgs :
           me.queue[i].msgs[k].by \in me.known
    BY <1>3 DEF IsPacket
  <2>. HIDE DEF me
  <2>. QED BY <2>1
<1>6. C!Is(c, rec)
  BY <1>5, Zenon DEF LoadMessages, C!LoadMessages
<1>7. Outcome(c, r) /\ IsRequest(r) /\ r.type # "search"
  <2>1. IsRequest(r) /\ Knows(s, r) /\ r.type # "search" /\ Talks(c, r)
    BY <1>2, RequestsAre DEF IsRequest, RequestTypes, Knows, Talks
  <2>. HIDE DEF r
  <2>. QED BY <1>2, <2>1, TalkOutcome
<1>8. ASSUME NEW i \in DOMAIN me.queue
      PROVE  IsShown(s, me.user, C!Filled(me.copy[i], me.queue[i].msgs, me.user))
  <2> DEFINE chat == me.copy[i]
             msgs == me.queue[i].msgs
             more == C!Filled(chat, msgs, me.user)
  <2>1. DOMAIN chat = ChatFields /\ IsPacket(s, me.user, me.queue[i]) /\ chat.id = me.queue[i].id
    BY <1>3
  <2>. HIDE DEF me, chat, msgs
  <2>2. DOMAIN more = ChatFields /\ more.id = chat.id /\ more.msgs = msgs
    BY <2>1, Zenon DEF C!Filled, ChatFields
  <2>. HIDE DEF more
  <2>3. IsShown(s, me.user, more)
    BY <2>1, <2>2 DEF IsShown, IsPacket, msgs
  <2>. QED BY <2>3 DEF more, chat, msgs
<1>9. IsCurrent(s, rec)
  <2>1. DOMAIN filled = 1 .. Len(me.queue) /\ Len(me.queue) \in Nat
    BY <1>4
  <2>2. filled = [i \in 1 .. Len(me.queue) |-> filled[i]]
    BY <1>4
  <2>3. \A i \in DOMAIN filled : IsShown(s, me.user, filled[i])
    BY <1>4, <1>8
  <2>. HIDE DEF me, filled
  <2>4. IsSeq(filled)
    BY <2>1, <2>2, FunctionSeq
  <2>5. /\ rec.menu = "main" /\ rec.known = me.known
        /\ rec.user = me.user /\ rec.copy = filled
        /\ rec.at = 0 /\ rec.draft = me.draft /\ rec.why = me.why
    BY <1>1, Zenon DEF ClientFields, me
  <2>. HIDE DEF rec
  <2>6. me.menu = "loading"
    BY <1>2 DEF me
  <2>7. IsCurrent(s, me)
    BY <1>1 DEF me
  <2>. QED BY <2>3, <2>4, <2>5, <2>6, <2>7 DEF IsCurrent, LoggedIn
<1>. HIDE DEF r, rec
<1>. QED BY <1>2, <1>6, <1>7, <1>9, OutcomeKeeps

\* Who is found is a user; a search that finds nobody is the one request that hurts.
LEMMA ChooseUndisturbed ==
    ASSUME ServerInv, ClientsInv, stops = 0, Undisturbed,
           NEW c \in Clients, NEW text, NEW picked, NEW alone, Choose(c, text, picked, alone)
    PROVE  SearchInv'
<1> DEFINE me == client[c]
           s == server.store
           r == C!RqFindUserByPart(me.user, text)
           body == C!Reply(r).body
           list == picked \cup (IF alone THEN {me.user} ELSE {})
           rec == [me EXCEPT !.menu = "draft", !.known = @ \cup picked,
                             !.draft.alone = alone, !.draft.members = list]
<1>1. /\ IsCurrent(s, me) /\ DOMAIN me = ClientFields /\ DOMAIN me.draft = DraftFields
  BY Current
<1>2. me.menu = "main" /\ link[c] # "asked"
  BY DEF Choose, C!In
<1>3. IsRequest(r) /\ Knows(s, r) /\ r.type = "search" /\ Talks(c, r)
  <2>1. Talks(c, r)
    BY Zenon DEF Choose, Talks
  <2>. QED BY <2>1, RequestsAre DEF IsRequest, RequestTypes, Knows
<1>4. Outcome(c, r)
  <2>. HIDE DEF r
  <2>. QED BY <1>2, <1>3, TalkOutcome
<1>5. UNCHANGED client \/ (C!Is(c, rec) /\ C!Reply(r).fate = "reply" /\ picked \subseteq body)
  <2>1. \/ C!Is(c, rec) /\ C!Answered(c, r) /\ picked \subseteq body
        \/ C!Untouched \/ C!Hangs(c, r)
    BY Zenon DEF Choose
  <2>2. C!Hangs(c, r) => UNCHANGED client
    BY HangsStill
  <2>3. C!Answered(c, r) => C!Reply(r).fate = "reply"
    BY DEF C!Answered
  <2>. QED BY <2>1, <2>2, <2>3, Zenon DEF C!Untouched
<1>6. ASSUME C!Reply(r).fate = "reply", picked \subseteq body PROVE IsCurrent(s, rec)
  <2>1. picked \subseteq s.users
    <3>. HIDE DEF r
    <3>. QED BY <1>3, <1>6, SearchRequest DEF C!Reply
  <2>2. me.draft.tries = 0
    BY <1>1, <1>2 DEF IsCurrent
  <2>. HIDE DEF me, list, s
  <2>3. /\ rec.menu = "draft" /\ rec.known = me.known \cup picked
        /\ rec.user = me.user /\ rec.copy = me.copy
        /\ rec.at = me.at /\ rec.why = me.why
    BY <1>1, Zenon DEF ClientFields
  <2>4. rec.draft.tries = me.draft.tries
    BY <1>1, Zenon DEF ClientFields, DraftFields
  <2>. HIDE DEF rec
  <2>. QED BY <1>1, <1>2, <2>1, <2>2, <2>3, <2>4 DEF IsCurrent, LoggedIn
<1>. HIDE DEF r, rec
<1>. QED BY <1>2, <1>3, <1>4, <1>5, <1>6, OutcomeKeeps

\* A chat that is created has its author in it, and its first message.
LEMMA SendDraftUndisturbed ==
    ASSUME ServerInv, ClientsInv, stops = 0, Undisturbed, NEW c \in Clients, SendDraft(c)
    PROVE  SearchInv'
<1> DEFINE me == client[c]
           s == server.store
           r == C!RqCreateChat(me.user, me.draft)
           ids == C!Reply(r).body
           chat == C!Sent(me.draft, me.user, ids)
           sent == [me EXCEPT !.menu = "main", !.draft = C!NoDraft, !.copy = Append(@, chat)]
           again == [me EXCEPT !.draft.tries = @ + 1]
<1>1. /\ IsCurrent(s, me) /\ s \in Store /\ Consistent(s) /\ DOMAIN me = ClientFields
      /\ DOMAIN me.draft = DraftFields
  BY Current
<1>2. me.menu = "draft" /\ link[c] # "asked"
  BY DEF SendDraft, C!SendDraft, C!In
<1>3. me.user \in s.users
  BY <1>1, <1>2 DEF IsCurrent, LoggedIn
<1>4. /\ IsRequest(r) /\ Knows(s, r) /\ r.type = "createChat" /\ Talks(c, r)
      /\ r.author = me.user /\ r.members = me.draft.members
  <2>1. Talks(c, r)
    BY Zenon DEF SendDraft, C!SendDraft, Talks
  <2>. QED BY <1>3, <2>1, RequestsAre DEF IsRequest, RequestTypes, Knows
<1>5. Outcome(c, r) /\ (C!Unanswered(c, r) => r.members = {})
  <2>1. Outcome(c, r)
    <3>. HIDE DEF r
    <3>. QED BY <1>2, <1>4, TalkOutcome
  <2>2. C!Unanswered(c, r) => PgHandle(s, r).fate = "empty"
    BY DEF C!Unanswered, C!Reply, Undisturbed
  <2>3. PgHandle(s, r).fate = "empty" => r.members = {}
    <3>. HIDE DEF r, s
    <3>. QED BY <1>4, CreateChatRequest
  <2>. QED BY <2>1, <2>2, <2>3
<1>6. \/ UNCHANGED client
      \/ C!Is(c, sent) /\ C!Answered(c, r)
      \/ C!Is(c, again) /\ C!Unanswered(c, r)
  <2>1. \/ C!Is(c, sent) /\ C!Answered(c, r)
        \/ C!Is(c, again) /\ C!Unanswered(c, r)
        \/ C!Hangs(c, r)
    BY Zenon DEF SendDraft, C!SendDraft
  <2>. QED BY <2>1, HangsStill
<1>7. ASSUME C!Unanswered(c, r) PROVE IsCurrent(s, again)
  <2>1. me.draft.members = {}
    BY <1>4, <1>5, <1>7
  <2>. HIDE DEF me, s
  <2>2. /\ again.menu = me.menu /\ again.known = me.known
        /\ again.user = me.user /\ again.copy = me.copy
        /\ again.at = me.at /\ again.why = me.why
    BY <1>1, Zenon DEF ClientFields
  <2>3. again.draft.members = me.draft.members
    BY <1>1, Zenon DEF ClientFields, DraftFields
  <2>4. me.menu = "draft"
    BY <1>2 DEF me
  <2>. HIDE DEF again
  <2>. QED BY <1>1, <2>1, <2>2, <2>3, <2>4 DEF IsCurrent, LoggedIn
<1>8. ASSUME C!Answered(c, r), stops' = 0 PROVE IsCurrent(server'.store, sent)
  <2> DEFINE n == server'.store
             id == Len(s.chats) + 1
  <2>1. IsCurrent(n, me)
    BY <1>1, <1>5, <1>8, CurrentStays DEF Outcome
  <2>2. n = PgHandle(s, r).store /\ PgHandle(s, r).fate = "reply"
    BY <1>4, <1>8, ServedKeeps DEF C!Answered, C!Connected, IsRequest, C!Reply
  <2>3. /\ r.members # {} /\ ids = [chat |-> id, message |-> Len(s.messages) + 1]
        /\ n = ChatAdded(s, me.user, r.members, Now(s))
    <3>. HIDE DEF r, s, n, id
    <3>. QED BY <1>4, <2>2, CreateChatRequest DEF C!Reply, s, id
  <2>4. TakesPart(n, me.user, id)
    <3>1. LET k == ChatAdded(s, me.user, r.members, Now(s))
          IN  ChatIds(k) = ChatIds(s) \cup {id} /\ me.user \in Members(k, id)
      BY <1>1, <1>3, NowIsNat, ChatAddedConsistent
    <3>. QED BY <2>3, <3>1 DEF TakesPart
  <2>5. me.draft.tries = 0
    BY <1>1, <1>2, <1>4, <2>3 DEF IsCurrent
  <2>6. IsShown(n, me.user, chat)
    <3> DEFINE msgs == <<[id |-> ids.message, by |-> me.user]>>
    <3>1. chat = C!CopyChat(ids.chat, me.draft.members, 0, msgs, C!Stamp(<<>>, 0, 1))
      BY <2>5 DEF C!Sent
    <3>2. ids.chat = id
      BY <2>3
    <3>3. IsSeq(msgs) /\ Len(msgs) # 0
      BY DEF IsSeq
    <3>. HIDE DEF msgs, chat, ids, id, n
    <3>4. DOMAIN chat = ChatFields /\ chat.id = ids.chat /\ chat.msgs = msgs
      BY <3>1 DEF C!CopyChat, ChatFields
    <3>. QED BY <2>4, <3>2, <3>3, <3>4 DEF IsShown
  <2>. HIDE DEF me, chat, n
  <2>7. /\ sent.menu = "main" /\ sent.known = me.known
        /\ sent.user = me.user /\ sent.copy = Append(me.copy, chat)
        /\ sent.at = me.at /\ sent.why = me.why /\ sent.draft = C!NoDraft
    BY <1>1, Zenon DEF ClientFields, me
  <2>. HIDE DEF sent
  <2>8. C!NoDraft.tries = 0
    BY DEF C!NoDraft
  <2>9. IsSeq(me.copy) /\ \A i \in DOMAIN me.copy : IsShown(n, me.user, me.copy[i])
    BY <1>2, <2>1 DEF IsCurrent, LoggedIn, me
  <2>10. IsSeq(sent.copy) /\ \A i \in DOMAIN sent.copy : IsShown(n, me.user, sent.copy[i])
    <3>1. /\ IsSeq(sent.copy) /\ DOMAIN me.copy = 1 .. Len(me.copy)
          /\ DOMAIN sent.copy = 1 .. Len(me.copy) + 1
          /\ \A i \in 1 .. Len(me.copy) : sent.copy[i] = me.copy[i]
          /\ sent.copy[Len(me.copy) + 1] = chat
      BY <2>7, <2>9, AppendSeq
    <3>2. Len(me.copy) \in Nat
      BY <2>9 DEF IsSeq
    <3>. QED BY <2>6, <2>9, <3>1, <3>2
  <2>. QED BY <1>2, <2>1, <2>7, <2>8, <2>10 DEF IsCurrent, LoggedIn, me, n
<1>. HIDE DEF r, sent, again
<1>. QED BY <1>2, <1>4, <1>5, <1>6, <1>7, <1>8, OutcomeKeeps

\* Every chat of the list has a last message, and the one that is opened stays shown.
LEMMA OpenChatUndisturbed ==
    ASSUME ServerInv, ClientsInv, stops = 0, Undisturbed, NEW c \in Clients, NEW i, OpenChat(c, i)
    PROVE  SearchInv'
<1> DEFINE me == client[c]
           s == server.store
           last == C!LastId(me.copy[i])
           r == C!RqSetLastRead(me.user, me.copy[i].id, last)
           rec == C!Opened(me, i)
<1>1. IsCurrent(s, me) /\ DOMAIN me = ClientFields
  BY Current
<1>2. me.menu = "main" /\ link[c] # "asked" /\ i \in DOMAIN me.copy
  BY DEF OpenChat, C!OpenChat, C!In
<1>3. IsSeq(me.copy) /\ \A j \in DOMAIN me.copy : IsShown(s, me.user, me.copy[j])
  BY <1>1, <1>2 DEF IsCurrent, LoggedIn
<1>4. ~C!ListFails(me.copy)
  <2>1. \A j \in DOMAIN me.copy : Len(me.copy[j].msgs) # 0
    BY <1>3 DEF IsShown
  <2>. HIDE DEF me
  <2>2. \A j \in DOMAIN me.copy : me.copy[j].msgs # <<>>
    BY <2>1, SMTT(40)
  <2>. QED BY <2>2 DEF C!ListFails
<1>5. IsRequest(r) /\ Knows(s, r) /\ r.type = "setLastRead" /\ Talks(c, r)
  <2>1. Talks(c, r)
    BY Zenon DEF OpenChat, C!OpenChat, C!Reported, Talks
  <2>. QED BY <2>1, RequestsAre DEF IsRequest, RequestTypes, Knows
<1>6. Outcome(c, r)
  <2>. HIDE DEF r
  <2>. QED BY <1>2, <1>5, TalkOutcome
<1>7. UNCHANGED client \/ C!Is(c, rec)
  <2>1. C!ListFails(me.copy) \/ C!Is(c, rec) \/ C!Hangs(c, r)
    BY Zenon DEF OpenChat, C!OpenChat, C!Reported
  <2>. QED BY <1>4, <2>1, HangsStill
<1>8. IsCurrent(s, rec)
  <2>. HIDE DEF me, last, s
  <2>1. rec = [me EXCEPT !.menu = "chat", !.at = i, !.copy[i].read = last]
    BY Zenon DEF C!Opened, last
  <2> DEFINE copy == [me.copy EXCEPT ![i].read = last]
  <2>2. /\ DOMAIN copy = DOMAIN me.copy
        /\ \A j \in DOMAIN me.copy : j # i => copy[j] = me.copy[j]
        /\ copy[i] = [me.copy[i] EXCEPT !.read = last]
        /\ copy = [j \in DOMAIN me.copy |-> copy[j]]
    BY <1>2
  <2>. HIDE DEF rec
  <2>3. /\ rec.menu = "chat" /\ rec.known = me.known
        /\ rec.user = me.user /\ rec.copy = copy
        /\ rec.at = i /\ rec.why = me.why /\ rec.draft = me.draft
    BY <1>1, <2>1, Zenon DEF ClientFields
  <2>. HIDE DEF copy
  <2>4. IsSeq(copy)
    BY <1>2, <1>3, <2>2, ReplacedSeq, ZenonT(40)
  <2>5. IsShown(s, me.user, me.copy[i])
    BY <1>2, <1>3
  <2> DEFINE chat == me.copy[i]
  <2>6. DOMAIN copy[i] = ChatFields /\ copy[i].id = chat.id /\ copy[i].msgs = chat.msgs
    <3>1. DOMAIN chat = ChatFields /\ copy[i] = [chat EXCEPT !.read = last]
      BY <2>2, <2>5 DEF IsShown
    <3>. HIDE DEF chat
    <3>. QED BY <3>1, Zenon DEF ChatFields
  <2>7. IsShown(s, me.user, copy[i])
    BY <2>5, <2>6 DEF IsShown
  <2>8. \A j \in DOMAIN copy : IsShown(s, me.user, copy[j])
    BY <1>3, <2>2, <2>7
  <2>9. me.menu = "main" /\ i \in DOMAIN copy /\ IsCurrent(s, me)
    BY <1>1, <1>2, <2>2 DEF me
  <2>. QED BY <2>3, <2>4, <2>8, <2>9 DEF IsCurrent, LoggedIn
<1>. HIDE DEF r, rec
<1>. QED BY <1>2, <1>5, <1>6, <1>7, <1>8, OutcomeKeeps

\* The chat a message is posted to is there, and the author in it.
LEMMA PostUndisturbed ==
    ASSUME ServerInv, ClientsInv, stops = 0, Undisturbed, NEW c \in Clients, Post(c)
    PROVE  SearchInv'
<1> DEFINE me == client[c]
           s == server.store
           at == me.at
           chat == me.copy[at]
           r == C!RqCreateMessage(me.user, chat.id)
           id == C!Reply(r).body
           rec == [me EXCEPT !.copy[at] = C!WithPost(@, id, me.user)]
<1>1. IsCurrent(s, me) /\ DOMAIN me = ClientFields
  BY Current
<1>2. me.menu = "chat" /\ link[c] # "asked"
  BY DEF Post, C!Post, C!In
<1>3. /\ IsSeq(me.copy) /\ \A j \in DOMAIN me.copy : IsShown(s, me.user, me.copy[j])
      /\ at \in DOMAIN me.copy
  BY <1>1, <1>2 DEF IsCurrent, LoggedIn
<1>4. IsRequest(r) /\ Knows(s, r) /\ r.type = "createMessage" /\ Talks(c, r)
  <2>1. Talks(c, r)
    BY Zenon DEF Post, C!Post, Talks
  <2>2. TakesPart(s, me.user, chat.id)
    BY <1>3 DEF IsShown
  <2>3. r.type = "createMessage" /\ r.author = me.user /\ r.chat = chat.id
    BY RequestsAre
  <2>. HIDE DEF r
  <2>. QED BY <2>1, <2>2, <2>3 DEF IsRequest, RequestTypes, Knows
<1>5. Outcome(c, r)
  <2>. HIDE DEF r
  <2>. QED BY <1>2, <1>4, TalkOutcome
<1>6. UNCHANGED client \/ C!Is(c, rec)
  <2>1. C!Untouched \/ C!Is(c, rec) \/ C!Hangs(c, r)
    BY Zenon DEF Post, C!Post
  <2>. QED BY <2>1, HangsStill DEF C!Untouched
<1>7. IsCurrent(s, rec)
  <2> DEFINE post == C!WithPost(chat, id, me.user)
             copy == [me.copy EXCEPT ![at] = post]
  <2>. HIDE DEF me, id, s
  <2>2. /\ DOMAIN copy = DOMAIN me.copy
        /\ \A j \in DOMAIN me.copy : j # at => copy[j] = me.copy[j]
        /\ copy[at] = post
        /\ copy = [j \in DOMAIN me.copy |-> copy[j]]
    BY <1>3
  <2>3. /\ rec.menu = me.menu /\ rec.known = me.known
        /\ rec.user = me.user /\ rec.copy = copy
        /\ rec.at = me.at /\ rec.why = me.why /\ rec.draft = me.draft
    BY <1>1, Zenon DEF ClientFields
  <2>. HIDE DEF copy, rec
  <2>4. IsSeq(copy)
    BY <1>3, <2>2, ReplacedSeq
  <2>5. IsShown(s, me.user, chat)
    BY <1>3
  <2>6. IsShown(s, me.user, post)
    <3> DEFINE more == Append(chat.msgs, [id |-> id, by |-> me.user])
               stamped == C!Stamp(chat.stamped, id, Len(chat.msgs) + 1)
    <3>1. DOMAIN chat = ChatFields /\ IsSeq(chat.msgs)
      BY <2>5 DEF IsShown
    <3>2. post = [chat EXCEPT !.msgs = more, !.stamped = stamped, !.read = id]
      BY ZenonT(40) DEF C!WithPost
    <3>3. IsSeq(more) /\ Len(more) = Len(chat.msgs) + 1 /\ Len(chat.msgs) \in Nat
      BY <3>1, AppendSeq DEF IsSeq
    <3>4. Len(more) # 0
      BY <3>3
    <3>. HIDE DEF more, stamped, chat, post
    <3>5. DOMAIN post = ChatFields /\ post.id = chat.id /\ post.msgs = more
      BY <3>1, <3>2, Zenon DEF ChatFields
    <3>. QED BY <2>5, <3>3, <3>4, <3>5 DEF IsShown
  <2>. HIDE DEF post
  <2>7. \A j \in DOMAIN copy : IsShown(s, me.user, copy[j])
    BY <1>3, <2>2, <2>6
  <2>8. me.menu = "chat" /\ IsCurrent(s, me) /\ at \in DOMAIN copy
    BY <1>1, <1>2, <1>3, <2>2 DEF me
  <2>. QED BY <2>3, <2>4, <2>7, <2>8 DEF IsCurrent, LoggedIn
<1>. HIDE DEF r, rec
<1>. QED BY <1>2, <1>4, <1>5, <1>6, <1>7, OutcomeKeeps

\* Back to the menus one came from.
LEMMA QuietUndisturbed ==
    ASSUME ServerInv, ClientsInv, stops = 0, Undisturbed, NEW c \in Clients,
           Cancel(c) \/ GiveUp(c) \/ CloseChat(c)
    PROVE  SearchInv'
<1> DEFINE me == client[c]
           s == server.store
           r == C!RqCheckLogin(C!None)
           cancelled == [me EXCEPT !.menu = "entrance", !.user = C!None]
           given == [me EXCEPT !.menu = "main", !.draft = C!NoDraft]
           closed == [me EXCEPT !.menu = "main", !.at = 0]
<1>1. IsCurrent(s, me) /\ DOMAIN me = ClientFields
  BY Current
<1>2. link[c] # "asked" /\ C!NoRequest
  BY DEF Cancel, C!Cancel, GiveUp, C!GiveUp, CloseChat, C!CloseChat, C!In
<1>3. Outcome(c, r) /\ IsRequest(r) /\ r.type # "search"
  <2>1. IsRequest(r) /\ Knows(s, r) /\ r.type # "search" /\ Talks(c, r)
    BY <1>2, RequestsAre DEF IsRequest, RequestTypes, Knows, Talks
  <2>. HIDE DEF r
  <2>. QED BY <1>2, <2>1, TalkOutcome
<1>4. C!NoDraft.tries = 0
  BY DEF C!NoDraft
<1>5. CASE Cancel(c)
  <2>1. me.menu \in {"signup", "password"} /\ C!Is(c, cancelled)
    BY <1>5 DEF Cancel, C!Cancel, C!In
  <2>. HIDE DEF me, s
  <2>2. /\ cancelled.menu = "entrance" /\ cancelled.known = me.known /\ cancelled.copy = me.copy
        /\ cancelled.at = me.at /\ cancelled.why = me.why /\ cancelled.draft = me.draft
    BY <1>1, Zenon DEF ClientFields
  <2>. HIDE DEF cancelled, r
  <2>3. IsCurrent(s, cancelled)
    BY <1>1, <2>1, <2>2 DEF IsCurrent, LoggedIn
  <2>. QED BY <1>2, <1>3, <2>1, <2>3, OutcomeKeeps DEF s
<1>6. CASE GiveUp(c)
  <2>1. me.menu = "draft" /\ C!Is(c, given)
    BY <1>6 DEF GiveUp, C!GiveUp, C!In
  <2>. HIDE DEF me, s
  <2>2. /\ given.menu = "main" /\ given.known = me.known /\ given.copy = me.copy
        /\ given.user = me.user
        /\ given.at = me.at /\ given.why = me.why /\ given.draft = C!NoDraft
    BY <1>1, Zenon DEF ClientFields
  <2>. HIDE DEF given, r
  <2>3. IsCurrent(s, given)
    BY <1>1, <1>4, <2>1, <2>2 DEF IsCurrent, LoggedIn
  <2>. QED BY <1>2, <1>3, <2>1, <2>3, OutcomeKeeps DEF s
<1>7. CASE CloseChat(c)
  <2>1. me.menu = "chat" /\ C!Is(c, closed)
    BY <1>7 DEF CloseChat, C!CloseChat, C!In
  <2>. HIDE DEF me, s
  <2>2. /\ closed.menu = "main" /\ closed.known = me.known /\ closed.copy = me.copy
        /\ closed.user = me.user
        /\ closed.at = 0 /\ closed.why = me.why /\ closed.draft = me.draft
    BY <1>1, Zenon DEF ClientFields
  <2>. HIDE DEF closed, r
  <2>3. IsCurrent(s, closed)
    BY <1>1, <2>1, <2>2 DEF IsCurrent, LoggedIn
  <2>. QED BY <1>2, <1>3, <2>1, <2>3, OutcomeKeeps DEF s
<1>. QED BY <1>5, <1>6, <1>7

\* A process starts with nothing, and leaves with nothing.
LEMMA ProcessUndisturbed ==
    ASSUME ServerInv, ClientsInv, stops = 0, Undisturbed, NEW c \in Clients,
           Launch(c) \/ Gone(c) \/ Logout(c)
    PROVE  SearchInv'
<1> DEFINE s == server.store
           off == C!Off
           entrance == [off EXCEPT !.menu = "entrance"]
<1>1. server' = server /\ stops' = 0 /\ server.up /\ server.ended = C!None /\ Inhabited(s)
  BY DEF Launch, C!Launch, Gone, C!Gone, Logout, C!Logout, Undisturbed
<1>2. /\ link'[c] \in {"none", "ok"} \/ Logout(c)
      /\ \A d \in Clients \ {c} : link'[d] = link[d]
      /\ Logout(c) => link' = link /\ link[c] # "asked"
  <2>1. Launch(c) => link' = [link EXCEPT ![c] = "ok"]
    BY <1>1 DEF Launch, C!Launch, C!Searched
  <2>2. Gone(c) => link' = [link EXCEPT ![c] = "none"]
    BY DEF Gone, C!Gone
  <2>3. Logout(c) => link' = link /\ link[c] # "asked"
    BY DEF Logout, C!Logout, C!In
  <2>. QED BY <2>1, <2>2, <2>3 DEF ServerInv
<1>3. /\ link'[c] \in {"none", "ok", "asked"} /\ link'[c] # "asked"
  BY <1>2 DEF Undisturbed
<1>4. IsCurrent(s, off) /\ IsCurrent(s, entrance)
  <2>1. /\ DOMAIN off = ClientFields /\ off.menu = "off" /\ off.why = C!None
        /\ off.copy = <<>> /\ off.at = 0 /\ off.known = {} /\ off.draft.tries = 0
    BY OffIsRecord DEF IsRecord
  <2>. HIDE DEF off
  <2>2. /\ entrance.menu = "entrance" /\ entrance.why = off.why /\ entrance.copy = off.copy
        /\ entrance.at = off.at /\ entrance.known = off.known /\ entrance.draft = off.draft
    BY <2>1, Zenon DEF ClientFields
  <2>. HIDE DEF entrance
  <2>. QED BY <2>1, <2>2 DEF IsCurrent, LoggedIn
<1>5. C!Is(c, off) \/ C!Is(c, entrance)
  BY DEF Launch, C!Launch, Gone, C!Gone, Logout, C!Logout
<1>. HIDE DEF off, entrance
<1>6. IsCurrent(s, client'[c]) /\ \A d \in Clients \ {c} : client'[d] = client[d]
  BY <1>4, <1>5, IsKeeps
<1>7. \A d \in Clients : /\ link'[d] \in {"none", "ok", "asked"}
                         /\ link'[d] = "asked" => client'[d].menu = "main"
                         /\ IsCurrent(s, client'[d])
  BY <1>2, <1>3, <1>6 DEF Undisturbed
<1>. QED BY <1>1, <1>7 DEF SearchInv, Undisturbed

\* Every step in which no statement fails, first as long as the server has not ended,
\* then after it has.
LEMMA StepSearches ==
    ASSUME ServerInv, ClientsInv, SearchInv,
           Start \/ Stop \/ \E c \in Clients : EntranceStep(c) \/ ChatStep(c)
    PROVE  SearchInv'
<1>1. ServerInv /\ ClientsInv /\ stops \in Nat
  BY DEF ServerInv
<1>2. CASE stops = 0
  <2>0. Undisturbed
    BY <1>2 DEF SearchInv
  <2>2. ASSUME NEW c \in Clients, EntranceStep(c)
        PROVE  SearchInv'
    <3>1. CASE Cancel(c)
      BY <1>1, <1>2, <2>0, <3>1, QuietUndisturbed
    <3>2. CASE Launch(c) \/ Gone(c)
      BY <1>1, <1>2, <2>0, <3>2, ProcessUndisturbed
    <3>. QED BY <1>1, <1>2, <2>0, <2>2, <3>1, <3>2, CreateUserUndisturbed,
                CheckPasswordUndisturbed, SignInUndisturbed, NewLoginUndisturbed,
                CheckLoginUndisturbed DEF EntranceStep
  <2>3. ASSUME NEW c \in Clients, ChatStep(c)
        PROVE  SearchInv'
    <3>1. CASE GiveUp(c) \/ CloseChat(c)
      BY <1>1, <1>2, <2>0, <3>1, QuietUndisturbed
    <3>2. CASE Logout(c)
      BY <1>1, <1>2, <2>0, <3>2, ProcessUndisturbed
    <3>. QED BY <1>1, <1>2, <2>0, <2>3, <3>1, <3>2, LoadChatUndisturbed,
                LoadMessagesUndisturbed, ChooseUndisturbed, SendDraftUndisturbed,
                OpenChatUndisturbed, PostUndisturbed DEF ChatStep
  <2>4. Start => FALSE
    BY <2>0 DEF Start, C!Start, Undisturbed
  <2>5. CASE Stop
    <3>1. C!ServerEnds("stopped", C!AfterEnds)
      BY <2>5 DEF Stop, C!Stop
    <3>2. stops' = 1 /\ server'.ended = "stopped"
      BY <1>1, <1>2, <3>1, EndsKeeps
    <3>. QED BY <3>2 DEF SearchInv
  <2>. QED BY <2>2, <2>3, <2>4, <2>5
<1>3. CASE stops # 0
  <2>1. Counted
    BY <1>1, StepCounts
  <2>2. stops' # 0 /\ (stops' = 1 => server'.ended = server.ended /\ stops = 1)
    BY <1>1, <1>3, <2>1 DEF Counted
  <2>. QED BY <2>2 DEF SearchInv
<1>. QED BY <1>2, <1>3

\* And the others, which are counted.
LEMMA EveryStepSearches ==
    ASSUME PgInv, [Next]_vars
    PROVE  failures' \in Nat /\ (failures' = 0 => SearchInv')
<1>1. ServerInv /\ ClientsInv /\ failures \in Nat /\ (failures = 0 => SearchInv)
  BY DEF PgInv
<1>2. CASE UNCHANGED vars
  BY <1>1, <1>2 DEF vars, SearchInv, Undisturbed
<1>3. CASE /\ Start \/ Stop \/ \E c \in Clients : EntranceStep(c) \/ ChatStep(c)
           /\ UNCHANGED failures
  BY <1>1, <1>3, StepSearches
<1>4. ASSUME NEW c \in Clients, FailedStep(c)
      PROVE  failures' \in Nat /\ (failures' = 0 => SearchInv')
  <2>1. failures' = failures + 1
    <3>1. EntranceFails(c) => \E r : Fails(c, r)
      BY Zenon DEF EntranceFails
    <3>2. ChatFails(c) => \E r : Fails(c, r)
      BY Zenon DEF ChatFails
    <3>3. SignInPartly(c) => failures' = failures + 1
      BY DEF SignInPartly
    <3>. QED BY <1>4, <3>1, <3>2, <3>3 DEF FailedStep, Fails
  <2>. QED BY <1>1, <2>1
<1>. QED BY <1>2, <1>3, <1>4 DEF Next

\* Nothing has happened yet.
LEMMA InitUndisturbed == ASSUME Init PROVE PgInv
<1>1. /\ server = [up |-> TRUE, store |-> Seed, ended |-> C!None] /\ stops = 0
      /\ link = [c \in Clients |-> "none"] /\ client = [c \in Clients |-> C!Off]
  BY DEF Init, C!Init
<1>2. IsCurrent(Seed, C!Off)
  BY OffIsRecord DEF IsCurrent, LoggedIn
<1>3. Undisturbed
  BY <1>1, <1>2, PgSeedAssumption DEF Undisturbed
<1>4. failures = 0
  BY DEF Init
<1>. QED BY <1>1, <1>3, <1>4, InitConsistent DEF PgInv, SearchInv

\* The inductive invariant of the system.
THEOREM PgInvariant == Spec => []PgInv
<1>1. Init => PgInv
  BY InitUndisturbed
<1>2. PgInv /\ [Next]_vars => PgInv'
  BY EveryStepKeeps, EveryStepSearches DEF PgInv
<1>. QED BY <1>1, <1>2, PTL DEF Spec

\* Until a statement fails, a search that finds nobody is the one request that ends a
\* server whose clients are right about their chats, or leaves one of them waiting; no
\* such client follows a null pointer, whatever it loads, opens, posts and creates.
THEOREM OnlySearchesHurt == Spec => []OnlySearchHurts
<1>1. PgInv => OnlySearchHurts
  <2>. SUFFICES ASSUME PgInv, failures = 0 PROVE OnlySearchHurts
    BY DEF OnlySearchHurts
  <2>1. stops \in Nat /\ (stops = 0 \/ stops = 1 \/ stops >= 2)
    BY DEF PgInv, ServerInv
  <2>2. CASE stops = 0
    BY <2>2 DEF PgInv, SearchInv, Undisturbed, IsCurrent, OnlySearchHurts
  <2>3. CASE stops # 0
    BY <2>1, <2>3 DEF PgInv, SearchInv, OnlySearchHurts
  <2>. QED BY <2>2, <2>3
<1>. QED BY <1>1, PgInvariant, PTL
-----------------------------------------------------------------------------
(* The messages of a chat, and what each statement does to them.           *)

\* The messages of chat c as a user gets them.
Messages(s, c) == LET list == InOrder(s, c) IN
    [k \in DOMAIN list |-> [id |-> list[k], by |-> s.messages[list[k]].sender]]

\* The messages of chat c, by their ids, and when each of them was sent.
Its(s, c) == {m \in MessageIds(s) : s.messages[m].chat = c}
Times(s) == [m \in MessageIds(s) |-> s.messages[m].ts]

\* The ids of the chat's messages by time and id: each once, and no others.
LEMMA InOrderIs ==
    ASSUME NEW s \in Store, NEW c
    PROVE  /\ Len(s.messages) \in Nat /\ MessageIds(s) = 1 .. Len(s.messages)
           /\ Its(s, c) \in SUBSET (1 .. Len(s.messages))
           /\ InOrder(s, c) = InKeyOrder(Its(s, c), Len(s.messages), Times(s))
           /\ InOrder(s, c) \in Seq(Its(s, c))
           /\ \A m \in Its(s, c) : Lists(InOrder(s, c), m)
           /\ IsInjective(InOrder(s, c))
<1>1. Len(s.messages) \in Nat /\ MessageIds(s) = 1 .. Len(s.messages)
  <2>1. s.messages \in Seq(MessageRow)
    BY DEF Store
  <2>. QED BY <2>1, LenProperties DEF MessageIds
<1>2. Its(s, c) \in SUBSET (1 .. Len(s.messages))
  BY <1>1 DEF Its
<1>3. InOrder(s, c) = InKeyOrder(Its(s, c), Len(s.messages), Times(s))
  BY Zenon DEF InOrder, Its, Times
<1> DEFINE l == Len(s.messages)
           its == Its(s, c)
           key == Times(s)
<1>4. l \in Nat /\ its \in SUBSET (1 .. l)
  BY <1>1, <1>2
<1>. HIDE DEF l, its, key
<1>5. /\ InKeyOrder(its, l, key) \in Seq(its)
      /\ \A k \in its : Lists(InKeyOrder(its, l, key), k)
      /\ IsInjective(InKeyOrder(its, l, key))
  BY <1>4, InKeyOrderIs
<1>. QED BY <1>1, <1>2, <1>3, <1>5 DEF l, its, key

\* The list of the messages: each of them once, with who sent it.
LEMMA MessagesAre ==
    ASSUME NEW s \in Store, NEW c
    PROVE  /\ IsSeq(Messages(s, c))
           /\ Len(Messages(s, c)) = Len(InOrder(s, c))
           /\ \A k \in DOMAIN Messages(s, c) :
                 /\ Messages(s, c)[k].id = InOrder(s, c)[k]
                 /\ IsMessageOf(s, Messages(s, c)[k].id, c)
                 /\ Messages(s, c)[k].by = s.messages[Messages(s, c)[k].id].sender
           /\ \A j, k \in DOMAIN Messages(s, c) :
                 Messages(s, c)[j].id = Messages(s, c)[k].id => j = k
           /\ \A m : IsMessageOf(s, m, c) => \E k \in DOMAIN Messages(s, c) : Messages(s, c)[k].id = m
<1> DEFINE q == InOrder(s, c)
           p == Messages(s, c)
           its == Its(s, c)
<1>1. q \in Seq(its) /\ (\A m \in its : Lists(q, m)) /\ IsInjective(q)
  BY InOrderIs
<1>2. p = [k \in DOMAIN q |-> [id |-> q[k], by |-> s.messages[q[k]].sender]]
  BY Zenon DEF Messages
<1>. HIDE DEF q
<1>3. Len(q) \in Nat /\ DOMAIN q = 1 .. Len(q) /\ \A k \in DOMAIN q : q[k] \in its
  BY <1>1, LenProperties, ElementOfSeq
<1>4. /\ DOMAIN p = DOMAIN q
      /\ \A k \in DOMAIN p : p[k].id = q[k] /\ p[k].by = s.messages[q[k]].sender
  <2>. HIDE DEF p
  <2>. QED BY <1>2
<1>5. p = [k \in 1 .. Len(q) |-> p[k]]
  <2>. HIDE DEF p
  <2>. QED BY <1>2, <1>3
<1>. HIDE DEF p
<1>6. IsSeq(p) /\ Len(p) = Len(q)
  BY <1>3, <1>5, FunctionSeq
<1>7. \A k \in DOMAIN p : IsMessageOf(s, p[k].id, c)
  BY <1>3, <1>4 DEF its, Its, IsMessageOf
<1>8. ASSUME NEW j \in DOMAIN p, NEW k \in DOMAIN p, p[j].id = p[k].id PROVE j = k
  BY <1>1, <1>4, <1>8 DEF IsInjective
<1>9. ASSUME NEW m, IsMessageOf(s, m, c) PROVE \E k \in DOMAIN p : p[k].id = m
  <2>1. m \in its
    BY <1>9 DEF its, Its, IsMessageOf
  <2>. QED BY <1>1, <1>4, <2>1 DEF Lists
<1>10. \A k \in DOMAIN p : /\ p[k].id = q[k] /\ IsMessageOf(s, p[k].id, c)
                           /\ p[k].by = s.messages[p[k].id].sender
  BY <1>4, <1>7
<1>. HIDE DEF its
<1>11. \A j, k \in DOMAIN p : p[j].id = p[k].id => j = k
  BY <1>8
<1>. QED BY <1>6, <1>9, <1>10, <1>11, Zenon DEF p, q

\* Without a new message the lists stay.
LEMMA MessagesStay ==
    ASSUME NEW s \in Store, NEW n \in Store, Kept(s, n), MessageIds(n) = MessageIds(s), NEW c
    PROVE  Messages(n, c) = Messages(s, c)
<1>1. Its(n, c) = Its(s, c) /\ Times(n) = Times(s)
  BY DEF Kept, Its, Times
<1>2. Len(n.messages) = Len(s.messages)
  <2>1. Len(s.messages) \in Nat /\ Len(n.messages) \in Nat
    BY InOrderIs
  <2>2. 1 .. Len(n.messages) = 1 .. Len(s.messages)
    BY InOrderIs
  <2>. QED BY <2>1, <2>2
<1>3. InOrder(n, c) = InOrder(s, c)
  BY <1>1, <1>2, InOrderIs
<1>4. \A k \in DOMAIN InOrder(s, c) : n.messages[InOrder(s, c)[k]].sender = s.messages[InOrder(s, c)[k]].sender
  <2>1. \A k \in DOMAIN InOrder(s, c) : InOrder(s, c)[k] \in Its(s, c)
    BY InOrderIs, LenProperties, ElementOfSeq
  <2>2. \A m \in Its(s, c) : n.messages[m].sender = s.messages[m].sender
    BY DEF Kept, Its
  <2>. QED BY <2>1, <2>2
<1>. QED BY <1>3, <1>4, Zenon DEF Messages

\* A new message that is younger than all others is the last one of its chat.
LEMMA MessagesGrow ==
    ASSUME NEW s \in Store, NEW n \in Store, Kept(s, n), NEW c, NEW u, OneMore(s, n, c, u),
           NEW t \in Nat, n.messages[Len(s.messages) + 1].ts = t,
           \A m \in MessageIds(s) : s.messages[m].ts <= t
    PROVE  /\ \A d : d # c => Messages(n, d) = Messages(s, d)
           /\ Messages(n, c) = Append(Messages(s, c), [id |-> Len(s.messages) + 1, by |-> u])
<1> DEFINE l == Len(s.messages)
           m == l + 1
<1>1. l \in Nat /\ MessageIds(s) = 1 .. l
  BY InOrderIs
<1>2. /\ MessageIds(n) = MessageIds(s) \cup {m}
      /\ n.messages[m].chat = c /\ n.messages[m].sender = u /\ n.messages[m].ts = t
  BY DEF OneMore
<1>3. Len(n.messages) = m
  <2>1. Len(n.messages) \in Nat /\ MessageIds(n) = 1 .. Len(n.messages)
    BY InOrderIs
  <2> DEFINE y == Len(n.messages)
  <2>2. y \in Nat /\ \A k : k \in 1 .. y <=> (k \in 1 .. l \/ k = m)
    BY <1>1, <1>2, <2>1
  <2>. HIDE DEF y, l
  <2>3. m \in 1 .. y /\ (y \in 1 .. y => y \in 1 .. l \/ y = m)
    BY <2>2
  <2>4. y = m
    BY <1>1, <2>2, <2>3
  <2>. QED BY <2>4 DEF y
<1>4. /\ \A x \in MessageIds(s) : Times(n)[x] = Times(s)[x] /\ Times(n)[x] <= t
      /\ Times(n)[m] = t
  <2>1. m \in MessageIds(n)
    BY <1>2
  <2>. HIDE DEF m
  <2>. QED BY <1>2, <2>1 DEF Kept, Times
<1>5. m \notin MessageIds(s)
  BY <1>1
<1>6. \A x \in MessageIds(s) : /\ n.messages[x].sender = s.messages[x].sender
                               /\ n.messages[x].chat = s.messages[x].chat
  BY DEF Kept
<1>7. /\ \A d : d # c => Its(n, d) = Its(s, d)
      /\ Its(n, c) = Its(s, c) \cup {m}
  <2>. HIDE DEF m
  <2>. QED BY <1>2, <1>5, <1>6 DEF Its
<1>8. \A d : /\ Its(s, d) \in SUBSET (1 .. l) /\ Its(s, d) \subseteq MessageIds(s)
             /\ InOrder(s, d) = InKeyOrder(Its(s, d), l, Times(s))
             /\ InOrder(n, d) = InKeyOrder(Its(n, d), m, Times(n))
             /\ InOrder(s, d) \in Seq(Its(s, d))
  <2>. SUFFICES ASSUME NEW d
                PROVE  /\ Its(s, d) \in SUBSET (1 .. l) /\ Its(s, d) \subseteq MessageIds(s)
                       /\ InOrder(s, d) = InKeyOrder(Its(s, d), l, Times(s))
                       /\ InOrder(n, d) = InKeyOrder(Its(n, d), m, Times(n))
                       /\ InOrder(s, d) \in Seq(Its(s, d))
    BY Zenon
  <2>1. Its(s, d) \subseteq MessageIds(s)
    BY DEF Its
  <2>2. /\ Its(s, d) \in SUBSET (1 .. l) /\ InOrder(s, d) \in Seq(Its(s, d))
        /\ InOrder(s, d) = InKeyOrder(Its(s, d), l, Times(s))
    BY InOrderIs
  <2>3. InOrder(n, d) = InKeyOrder(Its(n, d), m, Times(n))
    <3>1. InOrder(n, d) = InKeyOrder(Its(n, d), Len(n.messages), Times(n))
      BY InOrderIs
    <3>. QED BY <1>3, <3>1
  <2>. QED BY <2>1, <2>2, <2>3
<1>9. ASSUME NEW d, d # c PROVE Messages(n, d) = Messages(s, d)
  <2> DEFINE T == Its(s, d)
             key == Times(s)
             key2 == Times(n)
  <2>1. T \in SUBSET (1 .. l) /\ \A x \in T : key2[x] = key[x]
    BY <1>4, <1>8
  <2>. HIDE DEF T, key, key2, l
  <2>2. InKeyOrder(T, l + 1, key2) = InKeyOrder(T, l, key)
    BY <1>1, <2>1, NoNumber
  <2>3. InOrder(n, d) = InOrder(s, d)
    BY <1>7, <1>8, <1>9, <2>2 DEF T, key, key2
  <2>4. \A k \in DOMAIN InOrder(s, d) : InOrder(s, d)[k] \in MessageIds(s)
    BY <1>8, LenProperties, ElementOfSeq
  <2>. QED BY <1>6, <2>3, <2>4, Zenon DEF Messages
<1>10. Messages(n, c) = Append(Messages(s, c), [id |-> m, by |-> u])
  <2> DEFINE T == Its(s, c)
             key == Times(s)
             key2 == Times(n)
             q == InOrder(s, c)
  <2>1. /\ T \in SUBSET (1 .. l) /\ (\A x \in T : key2[x] = key[x])
        /\ \A x \in T \cup {l + 1} : key2[x] <= key2[l + 1]
    <3>1. T \in SUBSET (1 .. l) /\ \A x \in T : x \in MessageIds(s)
      BY <1>8
    <3>2. key2[l + 1] = t /\ t <= t
      BY <1>4
    <3>. HIDE DEF T, key, key2, l
    <3>. QED BY <1>4, <3>1, <3>2 DEF key, key2
  <2>2. InOrder(n, c) = Append(q, m)
    <3>. HIDE DEF T, key, key2, l
    <3>1. InKeyOrder(T \cup {l + 1}, l + 1, key2) = Append(InKeyOrder(T, l, key), l + 1)
      BY <1>1, <2>1, LastNumber
    <3>. QED BY <1>7, <1>8, <3>1 DEF T, key, key2
  <2>3. q \in Seq(MessageIds(s)) /\ \A k \in DOMAIN q : q[k] \in MessageIds(s)
    BY <1>8, LenProperties, ElementOfSeq
  <2>. HIDE DEF q, m, l
  <2>4. /\ Len(q) \in Nat /\ DOMAIN q = 1 .. Len(q)
        /\ DOMAIN Append(q, m) = 1 .. Len(q) + 1
        /\ \A k \in 1 .. Len(q) : Append(q, m)[k] = q[k]
        /\ Append(q, m)[Len(q) + 1] = m
    <3>1. q \in Seq(MessageIds(s) \cup {m}) /\ m \in MessageIds(s) \cup {m}
      BY <2>3
    <3>. QED BY <3>1, LenProperties, AppendProperties
  <2> DEFINE p == Messages(s, c)
             e == [id |-> m, by |-> u]
             r == Messages(n, c)
  <2>5. r = [k \in 1 .. Len(q) + 1 |-> r[k]] /\ \A k \in 1 .. Len(q) + 1 :
           r[k] = [id |-> Append(q, m)[k], by |-> n.messages[Append(q, m)[k]].sender]
    <3>1. r = [k \in DOMAIN Append(q, m) |-> [id |-> Append(q, m)[k], by |-> n.messages[Append(q, m)[k]].sender]]
      BY <2>2, Zenon DEF Messages
    <3>. HIDE DEF r
    <3>. QED BY <2>4, <3>1
  <2>6. IsSeq(p) /\ Len(p) = Len(q) /\ DOMAIN p = 1 .. Len(q)
        /\ \A k \in 1 .. Len(q) : p[k] = [id |-> q[k], by |-> s.messages[q[k]].sender]
    <3>1. p = [k \in DOMAIN q |-> [id |-> q[k], by |-> s.messages[q[k]].sender]]
      BY Zenon DEF Messages, q
    <3>2. IsSeq(p) /\ Len(p) = Len(q)
      BY MessagesAre DEF q
    <3>. HIDE DEF p
    <3>. QED BY <2>4, <3>1, <3>2
  <2>. HIDE DEF p, e, r
  <2>7. /\ IsSeq(Append(p, e)) /\ DOMAIN Append(p, e) = 1 .. Len(p) + 1
        /\ \A k \in 1 .. Len(p) : Append(p, e)[k] = p[k]
        /\ Append(p, e)[Len(p) + 1] = e
        /\ Len(Append(p, e)) = Len(p) + 1
    BY <2>6, AppendSeq
  <2>8. Append(p, e) = [k \in 1 .. Len(q) + 1 |-> Append(p, e)[k]]
    BY <2>6, <2>7 DEF IsSeq
  <2>9. ASSUME NEW k \in 1 .. Len(q) + 1 PROVE r[k] = Append(p, e)[k]
    <3>1. CASE k = Len(q) + 1
      <4>1. r[k] = [id |-> m, by |-> n.messages[m].sender]
        BY <2>4, <2>5, <3>1
      <4>. QED BY <1>2, <2>6, <2>7, <3>1, <4>1 DEF e
    <3>2. CASE k # Len(q) + 1
      <4>1. k \in 1 .. Len(q)
        BY <2>4, <3>2
      <4>2. r[k] = [id |-> q[k], by |-> n.messages[q[k]].sender]
        BY <2>4, <2>5, <4>1
      <4>3. n.messages[q[k]].sender = s.messages[q[k]].sender
        BY <1>6, <2>3, <2>4, <4>1
      <4>. QED BY <2>6, <2>7, <4>1, <4>2, <4>3
    <3>. QED BY <3>1, <3>2
  <2>10. r = Append(p, e)
    BY <2>5, <2>8, <2>9, Zenon
  <2>. QED BY <2>10 DEF p, e, r
<1>. QED BY <1>9, <1>10
-----------------------------------------------------------------------------
(* The rows each statement touches.                                        *)

\* A new chat leaves the rows of the others.
LEMMA ChatAddedRows ==
    ASSUME NEW s \in Store, NEW u \in s.users, NEW list, NEW t \in Nat
    PROVE  LET n == ChatAdded(s, u, list, t)
               c == Len(s.chats) + 1
           IN  /\ n.users = s.users
               /\ c \notin ChatIds(s)
               /\ \A d \in ChatIds(s) : n.chats[d] = s.chats[d]
               /\ n.chats[c].lastRead[u] = Len(s.messages) + 1
               /\ n.messages[Len(s.messages) + 1].ts = t
<1> DEFINE n == ChatAdded(s, u, list, t)
           c == Len(s.chats) + 1
           m == Len(s.messages) + 1
           all == (list \cap s.users) \cup {u}
           row == [members |-> all, lastRead |-> [w \in Logins |-> IF w = u THEN m ELSE 0]]
           msg == [chat |-> c, sender |-> u, ts |-> t, rows |-> all, read |-> {u}]
<1>1. /\ s.chats \in Seq(ChatRow) /\ s.messages \in Seq(MessageRow)
      /\ s.users \subseteq Logins /\ u \in Logins
      /\ Len(s.chats) \in Nat /\ m \in Nat
  BY DEF Store
<1>2. row \in ChatRow /\ msg \in MessageRow
  BY <1>1 DEF ChatRow, MessageRow
<1>3. row.lastRead[u] = m /\ msg.ts = t
  BY <1>1
<1>4. n = [s EXCEPT !.messages = Append(@, msg), !.chats = Append(@, row)]
  BY Zenon DEF ChatAdded
<1>. HIDE DEF row, msg, m, n
<1>5. n.users = s.users /\ n.chats = Append(s.chats, row) /\ n.messages = Append(s.messages, msg)
  BY <1>4 DEF Store
<1>6. c \notin ChatIds(s) /\ (\A d \in ChatIds(s) : n.chats[d] = s.chats[d]) /\ n.chats[c] = row
  BY <1>1, <1>2, <1>5, AppendAt DEF ChatIds
<1>7. n.messages[m] = msg
  BY <1>1, <1>2, <1>5, AppendAt DEF m
<1>. QED BY <1>3, <1>5, <1>6, <1>7 DEF n, m

\* A new message leaves the rows of the other chats.
LEMMA MessageAddedRows ==
    ASSUME NEW s \in Store, NEW u \in s.users, NEW c \in ChatIds(s), NEW t \in Nat
    PROVE  LET n == MessageAdded(s, u, c, t)
           IN  /\ n.users = s.users
               /\ \A d \in ChatIds(s) : d # c => n.chats[d] = s.chats[d]
               /\ u \in Members(s, c) => n.chats[c].lastRead[u] = Len(s.messages) + 1
               /\ n.messages[Len(s.messages) + 1].ts = t
<1> DEFINE n == MessageAdded(s, u, c, t)
           m == Len(s.messages) + 1
           older == PreviousUnread(s, u, c, t)
           marked == MarkRead(s.messages, u, older)
           msg == [chat |-> c, sender |-> u, ts |-> t,
                   rows |-> Members(s, c) \cup {u}, read |-> {u}]
           pointers == [w \in Logins |-> IF w = u /\ u \in Members(s, c)
                                         THEN m ELSE s.chats[c].lastRead[w]]
           row == [s.chats[c] EXCEPT !.lastRead = pointers]
<1>1. /\ s.chats \in Seq(ChatRow) /\ s.messages \in Seq(MessageRow)
      /\ s.users \subseteq Logins /\ u \in Logins
      /\ m \in Nat
  BY DEF Store
<1>2. s.chats[c] \in ChatRow
  BY <1>1, LenProperties, ElementOfSeq DEF ChatIds
<1>3. row.lastRead = pointers
  <2>. HIDE DEF pointers
  <2>. QED BY <1>2 DEF ChatRow
<1>4. u \in Members(s, c) => pointers[u] = m
  BY <1>1
<1>5. msg \in MessageRow /\ msg.ts = t
  <2>1. Members(s, c) \subseteq Logins /\ c \in Nat
    BY <1>1, <1>2, LenProperties DEF Members, ChatRow, ChatIds
  <2>. QED BY <1>1, <2>1 DEF MessageRow
<1>6. n = [s EXCEPT !.messages = Append(marked, msg), !.chats = [s.chats EXCEPT ![c] = row]]
  BY Zenon DEF MessageAdded
<1>7. marked \in Seq(MessageRow) /\ Len(marked) = Len(s.messages)
  BY <1>1, MarkReadKeeps
<1>. HIDE DEF row, msg, m, n, marked, pointers
<1>8. /\ n.users = s.users /\ n.chats = [s.chats EXCEPT ![c] = row]
      /\ n.messages = Append(marked, msg)
  BY <1>6 DEF Store
<1>9. (\A d \in ChatIds(s) : d # c => n.chats[d] = s.chats[d]) /\ n.chats[c] = row
  BY <1>8 DEF ChatIds
<1>10. n.messages[m] = msg
  BY <1>1, <1>5, <1>7, <1>8, AppendAt DEF m
<1>. QED BY <1>3, <1>4, <1>5, <1>8, <1>9, <1>10 DEF n, m

\* A read mark moves one pointer.
LEMMA ReadMarkedRows ==
    ASSUME NEW s \in Store, NEW u \in Logins, NEW c, NEW m, TakesPart(s, u, c)
    PROVE  LET n == ReadMarked(s, u, c, m)
           IN  /\ n.users = s.users
               /\ \A d \in ChatIds(s) : d # c => n.chats[d] = s.chats[d]
               /\ n.chats[c].lastRead[u] = m
<1> DEFINE n == ReadMarked(s, u, c, m)
           marked == MarkRead(s.messages, u, ReadUpTo(s, u, c, m))
           old == s.chats[c].lastRead
           pointers == [old EXCEPT ![u] = m]
           row == [s.chats[c] EXCEPT !.lastRead = pointers]
<1>1. s.chats \in Seq(ChatRow) /\ c \in ChatIds(s)
  BY DEF Store, TakesPart
<1>2. s.chats[c] \in ChatRow
  BY <1>1, LenProperties, ElementOfSeq DEF ChatIds
<1>3. row.lastRead = pointers /\ pointers[u] = m
  <2>1. DOMAIN old = Logins
    BY <1>2 DEF ChatRow
  <2>2. pointers[u] = m
    BY <2>1
  <2>3. row.lastRead = pointers
    <3>. HIDE DEF pointers
    <3>. QED BY <1>2 DEF ChatRow
  <2>. QED BY <2>2, <2>3
<1>4. n = [s EXCEPT !.messages = marked, !.chats = [s.chats EXCEPT ![c] = row]]
  <2>1. n = [s EXCEPT !.messages = marked,
                      !.chats = IF TakesPart(s, u, c) THEN [s.chats EXCEPT ![c] = row] ELSE s.chats]
    BY Zenon DEF ReadMarked
  <2>. HIDE DEF n, marked, row
  <2>. QED BY <2>1
<1>. HIDE DEF row, n, marked, pointers, old
<1>5. n.users = s.users /\ n.chats = [s.chats EXCEPT ![c] = row]
  BY <1>4 DEF Store
<1>6. (\A d \in ChatIds(s) : d # c => n.chats[d] = s.chats[d]) /\ n.chats[c] = row
  BY <1>1, <1>5 DEF ChatIds
<1>. QED BY <1>3, <1>5, <1>6 DEF n
-----------------------------------------------------------------------------
(* A client that logged in to the server as it runs is served by it until  *)
(* the client leaves, and shows the server's chats.                        *)

\* The menus of who is not logged in.
LoggedOut == {"off", "entrance", "signup", "password", "signin"}

\* A chat of the copy is the server's chat of that id.  A position that is stamped is
\* that of its message; the one that the user's pointer stands at is the user's own, or
\* the pointer on the server stands there.
Mirrors(s, u, chat) ==
    /\ DOMAIN chat = ChatFields
    /\ TakesPart(s, u, chat.id)
    /\ chat.members \cup {u} = Members(s, chat.id)
    /\ chat.msgs = Messages(s, chat.id)
    /\ \A m \in DOMAIN chat.stamped : /\ chat.stamped[m] \in DOMAIN chat.msgs
                                      /\ m # 0 => chat.msgs[chat.stamped[m]].id = m
    /\ chat.read \in DOMAIN chat.stamped =>
          LET last == chat.msgs[chat.stamped[chat.read]]
          IN  last.id = s.chats[chat.id].lastRead[u] \/ last.by = u

\* The copy has each of the user's chats once.
ShowsAll(s, u, copy) ==
    /\ IsSeq(copy)
    /\ \A i \in DOMAIN copy : Mirrors(s, u, copy[i])
    /\ \A i, j \in DOMAIN copy : copy[i].id = copy[j].id => i = j
    /\ \A c \in ChatIds(s) : u \in Members(s, c) => \E i \in DOMAIN copy : copy[i].id = c

\* What is not loaded yet is what the server would answer now.
StillToLoad(s, me) ==
    /\ me.queue = C!ListOnServer(s, me.user)
    /\ me.at \in 0 .. Len(me.queue)
    /\ IsSeq(me.copy) /\ Len(me.copy) = me.at
    /\ \A i \in DOMAIN me.copy :
          me.copy[i] = C!CopyChat(me.queue[i].id, me.queue[i].members, me.queue[i].read, <<>>, <<>>)

\* A draft that could not be sent is one without participants, and never will be.
Agrees(s, me) ==
    /\ me.user \in s.users
    /\ me.menu # "draft" => me.draft.tries = 0
    /\ me.draft.members \subseteq s.users
    /\ me.draft.tries # 0 => me.draft.members = {}
    /\ me.menu = "loading" => StillToLoad(s, me)
    /\ me.menu \in LoggedIn => ShowsAll(s, me.user, me.copy)
    /\ me.menu = "chat" => me.at \in DOMAIN me.copy

\* Such a client is the one in the slot.
IsFresh(c) ==
    /\ server.up /\ slot = c /\ link[c] \in {"ok", "asked"}
    /\ client[c].menu \in LoggedIn \cup {"loading", "dead"}
    /\ client[c].menu # "dead" => Agrees(server.store, client[c])

\* Nothing of an earlier login is left in a client that is logged out.
IsEmpty(me) == me.menu \in LoggedOut => me.copy = <<>> /\ me.at = 0 /\ me.draft = C!NoDraft

\* Every client that is not stale is fresh, and who is logged out has no chats.
FreshInv == /\ \A c \in Clients \ stale : IsFresh(c)
            /\ \A c \in Clients : IsEmpty(client[c])

\* Client c is still served, and is rec.
Goes(c, rec) == /\ server'.up /\ slot' = c /\ link'[c] = "ok" /\ client'[c] = rec

\* What a client that shows its chats asks for.
ChatRequests == {"getUsers", "search", "createChat", "createMessage", "setLastRead"}

\* The answer came, and the server has done what it does.
LEMMA FreshAnswered ==
    ASSUME ServerInv, NEW c \in Clients, NEW r, r.type \in ChatRequests \cup {"register"},
           server.up, slot = c, link[c] = "ok",
           C!Answered(c, r) \/ C!Unanswered(c, r)
    PROVE  /\ server'.up /\ slot' = c /\ link'[c] = "ok"
           /\ server'.store = PgHandle(server.store, r).store
           /\ C!Reply(r) = PgHandle(server.store, r)
           /\ C!Answered(c, r) => PgHandle(server.store, r).fate = "reply"
           /\ C!Unanswered(c, r) => PgHandle(server.store, r).fate = "empty"
<1>1. C!Reply(r) = PgHandle(server.store, r)
  BY DEF C!Reply
<1>2. C!Served(c, r) /\ link' = [link EXCEPT ![c] = "ok"]
  BY DEF C!Answered, C!Unanswered, C!Connected
<1>3. C!Unanswered(c, r) => C!Reply(r).fate = "empty"
  BY DEF C!Unanswered
<1>4. C!Answered(c, r) => C!Reply(r).fate = "reply"
  BY DEF C!Answered
<1>5. slot' = c
  BY <1>2 DEF C!Served
<1>6. r.type \in RequestTypes /\ r.type # "createUser"
  BY DEF RequestTypes, ChatRequests
<1>7. server'.store = PgHandle(server.store, r).store /\ server'.up = server.up /\ link'[c] = "ok"
  BY <1>2, <1>6, ServedKeeps
<1>. QED BY <1>1, <1>3, <1>4, <1>5, <1>7

\* A client that the server knows waits for nothing but an answer that leaves the tables
\* as they are; then it waits for ever.
LEMMA FreshHangs ==
    ASSUME ServerInv, NEW c \in Clients, NEW r, r.type \in ChatRequests, IsFresh(c),
           link[c] = "ok", C!Hangs(c, r), c \notin stale'
    PROVE  IsFresh(c)'
<1> DEFINE s == server.store
           fate == PgHandle(s, r).fate
<1>1. C!Reply(r) = PgHandle(s, r)
  BY DEF C!Reply
<1>2. ~\E after : C!ServerEnds(r.type, after)
  BY DEF C!ServerEnds
<1>3. /\ C!Served(c, r) /\ fate \in {"silent", "undefined"} /\ link' = [link EXCEPT ![c] = "asked"]
      /\ UNCHANGED client
  BY <1>1, <1>2 DEF C!Hangs
<1>4. slot' = c
  BY <1>3 DEF C!Served
<1>5. PgHandle(s, r).store = s
  <2>1. r.type = "getUsers" => PgHandle(s, r).store = s
    BY GetUsersRequest
  <2>2. r.type = "search" => PgHandle(s, r).store = s
    BY SearchRequest
  <2>3. r.type = "createChat" => fate \notin {"silent", "undefined"}
    BY CreateChatRequest
  <2>4. r.type = "createMessage" => fate \notin {"silent", "undefined"}
    BY CreateMessageRequest
  <2>5. r.type = "setLastRead" => fate \notin {"silent", "undefined"}
    BY SetLastReadRequest
  <2>. QED BY <1>3, <2>1, <2>2, <2>3, <2>4, <2>5 DEF ChatRequests
<1>6. r.type \in RequestTypes /\ r.type # "createUser"
  BY DEF RequestTypes, ChatRequests
<1>7. server'.store = s /\ server'.up = server.up /\ link'[c] = "asked"
  BY <1>3, <1>5, <1>6, ServedKeeps, ZenonT(40)
<1>. QED BY <1>3, <1>4, <1>7 DEF IsFresh, s

\* What the server answers to a login: each of the user's chats once, as it is.
LEMMA ServerListIs ==
    ASSUME NEW s \in Store, NEW u \in s.users
    PROVE  LET q == C!ListOnServer(s, u)
           IN  /\ C!KnowsUser(s, u) /\ IsSeq(q)
               /\ \A k \in DOMAIN q :
                     /\ TakesPart(s, u, q[k].id)
                     /\ q[k].members = Members(s, q[k].id)
                     /\ q[k].read = s.chats[q[k].id].lastRead[u]
                     /\ q[k].msgs = Messages(s, q[k].id)
               /\ \A j, k \in DOMAIN q : q[j].id = q[k].id => j = k
               /\ \A c \in ChatIds(s) : u \in Members(s, c) => \E k \in DOMAIN q : q[k].id = c
<1> DEFINE r == C!RqRegister(u)
           q == C!ListOnServer(s, u)
           list == ListOf(s, u)
           mine == {c \in ChatIds(s) : TakesPart(s, u, c)}
           key == [c \in ChatIds(s) |-> c]
           n == Len(s.chats)
<1>1. r.type = "register" /\ r.login = u
  BY RequestsAre
<1>2. q = PgHandle(s, r).body /\ (C!KnowsUser(s, u) <=> PgHandle(s, r).fate = "reply")
  BY DEF C!ListOnServer, C!KnowsUser
<1>. HIDE DEF r, q
<1>3. C!KnowsUser(s, u) /\ q = [k \in DOMAIN list |-> Packet(s, list[k], u)]
  <2>. HIDE DEF list
  <2>. QED BY <1>1, <1>2, RegisterRequest DEF list
<1>4. n \in Nat /\ mine \in SUBSET (1 .. n) /\ list = InKeyOrder(mine, n, key)
  <2>1. s.chats \in Seq(ChatRow)
    BY DEF Store
  <2>2. n \in Nat /\ ChatIds(s) = 1 .. n
    BY <2>1, LenProperties DEF ChatIds
  <2>3. list = InKeyOrder(mine, n, key)
    BY Zenon DEF ListOf
  <2>. QED BY <2>2, <2>3
<1>5. list \in Seq(mine) /\ (\A c \in mine : Lists(list, c)) /\ IsInjective(list)
  <2>. HIDE DEF list, mine, key, n
  <2>. QED BY <1>4, InKeyOrderIs
<1>. HIDE DEF list, n
<1>6. Len(list) \in Nat /\ DOMAIN list = 1 .. Len(list) /\ \A k \in DOMAIN list : list[k] \in mine
  <2>. HIDE DEF mine
  <2>. QED BY <1>5, LenProperties, ElementOfSeq
<1>7. q = [k \in 1 .. Len(list) |-> q[k]] /\ DOMAIN q = DOMAIN list
  BY <1>3, <1>6
<1>8. IsSeq(q)
  BY <1>6, <1>7, FunctionSeq
<1>9. \A c : /\ Packet(s, c, u).id = c /\ Packet(s, c, u).members = Members(s, c)
             /\ Packet(s, c, u).read = s.chats[c].lastRead[u]
             /\ Packet(s, c, u).msgs = Messages(s, c)
  <2>. SUFFICES ASSUME NEW c
                PROVE  /\ Packet(s, c, u).id = c /\ Packet(s, c, u).members = Members(s, c)
                       /\ Packet(s, c, u).read = s.chats[c].lastRead[u]
                       /\ Packet(s, c, u).msgs = Messages(s, c)
    BY Zenon
  <2> DEFINE all == Members(s, c)
             at == s.chats[c].lastRead[u]
             msgs == Messages(s, c)
  <2>1. Packet(s, c, u) = [id |-> c, members |-> all, read |-> at, msgs |-> msgs]
    BY Zenon DEF Packet, Messages
  <2>. HIDE DEF all, at, msgs
  <2>2. /\ Packet(s, c, u).id = c /\ Packet(s, c, u).members = all
        /\ Packet(s, c, u).read = at /\ Packet(s, c, u).msgs = msgs
    BY <2>1
  <2>. QED BY <2>2 DEF all, at, msgs
<1>10. \A k \in DOMAIN q : q[k] = Packet(s, list[k], u) /\ q[k].id = list[k] /\ list[k] \in mine
  BY <1>3, <1>6, <1>7, <1>9
<1>11. \A k \in DOMAIN q : /\ TakesPart(s, u, q[k].id)
                           /\ q[k].members = Members(s, q[k].id)
                           /\ q[k].read = s.chats[q[k].id].lastRead[u]
                           /\ q[k].msgs = Messages(s, q[k].id)
  BY <1>9, <1>10
<1>12. \A j, k \in DOMAIN q : q[j].id = q[k].id => j = k
  BY <1>5, <1>7, <1>10 DEF IsInjective
<1>13. \A c \in ChatIds(s) : u \in Members(s, c) => \E k \in DOMAIN q : q[k].id = c
  BY <1>5, <1>7, <1>10 DEF Lists, TakesPart
<1>. QED BY <1>3, <1>8, <1>11, <1>12, <1>13 DEF q

\* Console counts as this module does.
LEMMA CardinalityIs == \A S : C!Cardinality(S) = Cardinality(S)
BY DEF C!Cardinality, Cardinality

\* A copy that mirrors the chat counts at least the messages of others that come after
\* the pointer on the server and after the last own message.
LEMMA MirrorCounts ==
    ASSUME NEW s \in Store, NEW u, NEW chat, Mirrors(s, u, chat),
           NEW msgs, msgs = Messages(s, chat.id),
           NEW read, read = s.chats[chat.id].lastRead[u],
           NEW T, T = {m \in DOMAIN msgs : /\ \A n \in m .. Len(msgs) : msgs[n].id # read
                                           /\ \A n \in m .. Len(msgs) : msgs[n].by # u}
    PROVE  C!ShownUnread(chat) >= Cardinality(T)
<1> DEFINE len == Len(msgs)
<1>1. chat.msgs = msgs
  BY DEF Mirrors
<1>2. len \in Nat /\ DOMAIN msgs = 1 .. len
  <2>1. IsSeq(msgs)
    BY MessagesAre
  <2>. QED BY <2>1 DEF IsSeq
<1>. HIDE DEF len
<1>3. \A k \in Nat : k <= len =>
         /\ IsFiniteSet((k + 1) .. len) /\ Cardinality((k + 1) .. len) = len - k
  <2>. SUFFICES ASSUME NEW k \in Nat, k <= len
                PROVE  IsFiniteSet((k + 1) .. len) /\ Cardinality((k + 1) .. len) = len - k
    OBVIOUS
  <2>1. k + 1 \in Int /\ len \in Int
    BY <1>2
  <2>2. /\ IsFiniteSet((k + 1) .. len)
        /\ Cardinality((k + 1) .. len) = IF k + 1 > len THEN 0 ELSE len - (k + 1) + 1
    BY <2>1, FS_Interval, SMTT(40)
  <2>. QED BY <1>2, <2>2
<1>4. \A k \in Nat : k <= len /\ T \subseteq (k + 1) .. len => Cardinality(T) <= len - k
  <2>. SUFFICES ASSUME NEW k \in Nat, k <= len, T \subseteq (k + 1) .. len
                PROVE  Cardinality(T) <= len - k
    OBVIOUS
  <2> DEFINE I == (k + 1) .. len
  <2>1. IsFiniteSet(I) /\ Cardinality(I) = len - k /\ T \subseteq I
    BY <1>3
  <2>. HIDE DEF I
  <2>2. Cardinality(T) <= Cardinality(I)
    BY <2>1, FS_Subset, SMTT(40)
  <2>. QED BY <2>1, <2>2, SMTT(40)
<1>5. CASE chat.read \notin DOMAIN chat.stamped
  <2>1. C!ShownUnread(chat) = len
    BY <1>1, <1>5 DEF C!ShownUnread, len
  <2> DEFINE z == 0
  <2>2. z \in Nat /\ z <= len /\ T \subseteq (z + 1) .. len
    BY <1>2
  <2>. HIDE DEF z
  <2>3. Cardinality(T) <= len - z
    BY <1>4, <2>2
  <2>4. IsFiniteSet(T)
    BY <1>3, <2>2, FS_Subset
  <2>5. Cardinality(T) \in Int
    BY <2>4, FS_CardinalityType
  <2>. QED BY <1>2, <2>1, <2>3, <2>5 DEF z
<1>6. CASE chat.read \in DOMAIN chat.stamped
  <2> DEFINE p == chat.stamped[chat.read]
  <2>1. p \in DOMAIN msgs
    BY <1>1, <1>6, SMTT(40) DEF Mirrors
  <2>2. msgs[p].id = read \/ msgs[p].by = u
    BY <1>1, <1>6 DEF Mirrors
  <2>3. C!ShownUnread(chat) = len - p
    BY <1>1, <1>6 DEF C!ShownUnread, len
  <2>. HIDE DEF p
  <2>4. T \subseteq (p + 1) .. len
    <3>. SUFFICES ASSUME NEW m \in T, m <= p PROVE FALSE
      BY <1>2, <2>1
    <3>1. p \in m .. Len(msgs)
      BY <1>2, <2>1 DEF len
    <3>2. msgs[p].id # read /\ msgs[p].by # u
      BY <3>1
    <3>. QED BY <2>2, <3>2
  <2>5. p \in Nat /\ p <= len
    BY <1>2, <2>1, SMTT(40)
  <2>6. Cardinality(T) <= len - p
    BY <1>4, <2>4, <2>5, SMTT(40)
  <2>7. len - p \in Int /\ Cardinality(T) \in Int
    <3>1. IsFiniteSet(T)
      BY <1>3, <2>4, <2>5, FS_Subset
    <3>. QED BY <1>2, <2>5, <3>1, FS_CardinalityType
  <2>. QED BY <2>3, <2>6, <2>7, SMTT(40)
<1>. QED BY <1>5, <1>6

\* A fresh client shows what the server would answer.
LEMMA FreshIsFaithful ==
    ASSUME ServerInv, FreshInv
    PROVE  CopiesFaithful
<1> DEFINE s == server.store
<1>1. \A c \in Clients : C!Fresh(c) =>
         /\ client[c].user \in s.users /\ s \in Store
         /\ ShowsAll(s, client[c].user, client[c].copy)
  <2>. SUFFICES ASSUME NEW c \in Clients, C!Fresh(c)
                PROVE  /\ client[c].user \in s.users /\ s \in Store
                       /\ ShowsAll(s, client[c].user, client[c].copy)
    OBVIOUS
  <2>1. c \in Clients \ stale /\ client[c].menu \in LoggedIn /\ client[c].menu # "dead"
    BY DEF C!Fresh, LoggedIn
  <2>2. Agrees(s, client[c])
    BY <2>1 DEF FreshInv, IsFresh
  <2>3. s \in Store
    BY DEF ServerInv
  <2>. HIDE DEF s
  <2>. QED BY <2>1, <2>2, <2>3 DEF Agrees
<1>2. C!FreshCopy
  <2>. SUFFICES ASSUME NEW c \in Clients, C!Fresh(c),
                       NEW k \in DOMAIN C!ListOnServer(s, client[c].user)
                PROVE  LET q == C!ListOnServer(s, client[c].user)
                       IN  \E i \in DOMAIN client[c].copy :
                             /\ client[c].copy[i].id = q[k].id
                             /\ client[c].copy[i].members \cup {client[c].user} = q[k].members
                             /\ client[c].copy[i].msgs = q[k].msgs
    BY DEF C!FreshCopy
  <2> DEFINE u == client[c].user
             q == C!ListOnServer(s, u)
             copy == client[c].copy
  <2>1. u \in s.users /\ ShowsAll(s, u, copy) /\ s \in Store
    BY <1>1
  <2>2. /\ TakesPart(s, u, q[k].id)
        /\ q[k].members = Members(s, q[k].id) /\ q[k].msgs = Messages(s, q[k].id)
    <3>. HIDE DEF s, u
    <3>. QED BY <2>1, ServerListIs DEF u
  <2>. HIDE DEF s, u, q, copy
  <2>3. PICK i \in DOMAIN copy : copy[i].id = q[k].id
    BY <2>1, <2>2 DEF ShowsAll, TakesPart
  <2>4. Mirrors(s, u, copy[i])
    BY <2>1, SMTT(40) DEF ShowsAll
  <2>5. /\ copy[i].id = q[k].id /\ copy[i].members \cup {u} = q[k].members
        /\ copy[i].msgs = q[k].msgs
    BY <2>2, <2>3, <2>4 DEF Mirrors
  <2>. QED BY <2>5 DEF u, q, copy
<1>3. C!UnreadShown
  <2>. SUFFICES ASSUME NEW c \in Clients, C!Fresh(c)
                PROVE  LET u    == client[c].user
                           list == C!ListOnServer(server.store, u)
                       IN  \A k \in DOMAIN list, i \in DOMAIN client[c].copy :
                             client[c].copy[i].id = list[k].id =>
                               C!ShownUnread(client[c].copy[i])
                                 >= C!Cardinality({m \in DOMAIN list[k].msgs :
                                      /\ \A n \in m .. Len(list[k].msgs) :
                                            list[k].msgs[n].id # list[k].read
                                      /\ \A n \in m .. Len(list[k].msgs) :
                                            list[k].msgs[n].by # u})
    BY DEF C!UnreadShown
  <2>. SUFFICES ASSUME NEW k \in DOMAIN C!ListOnServer(s, client[c].user),
                       NEW i \in DOMAIN client[c].copy,
                       client[c].copy[i].id = C!ListOnServer(s, client[c].user)[k].id
                PROVE  LET q == C!ListOnServer(s, client[c].user)
                           u == client[c].user
                       IN  C!ShownUnread(client[c].copy[i])
                              >= C!Cardinality({m \in DOMAIN q[k].msgs :
                                   /\ \A n \in m .. Len(q[k].msgs) : q[k].msgs[n].id # q[k].read
                                   /\ \A n \in m .. Len(q[k].msgs) : q[k].msgs[n].by # u})
    OBVIOUS
  <2> DEFINE u == client[c].user
             q == C!ListOnServer(s, u)
             chat == client[c].copy[i]
             msgs == q[k].msgs
             read == q[k].read
             T == {m \in DOMAIN msgs : /\ \A n \in m .. Len(msgs) : msgs[n].id # read
                                       /\ \A n \in m .. Len(msgs) : msgs[n].by # u}
  <2>1. u \in s.users /\ s \in Store /\ Mirrors(s, u, chat)
    BY <1>1, SMTT(40) DEF ShowsAll
  <2>2. msgs = Messages(s, chat.id) /\ read = s.chats[chat.id].lastRead[u]
    <3>1. msgs = Messages(s, q[k].id) /\ read = s.chats[q[k].id].lastRead[u]
      <4>. HIDE DEF s, u
      <4>. QED BY <2>1, ServerListIs DEF u
    <3>. QED BY <3>1, SMTT(40)
  <2>3. T = {m \in DOMAIN msgs : /\ \A n \in m .. Len(msgs) : msgs[n].id # read
                                 /\ \A n \in m .. Len(msgs) : msgs[n].by # u}
    BY SMTT(40)
  <2>. HIDE DEF s, u, q, chat, msgs, read, T
  <2>4. C!ShownUnread(chat) >= Cardinality(T)
    BY <2>1, <2>2, <2>3, MirrorCounts
  <2>5. C!Cardinality(T) = Cardinality(T)
    BY CardinalityIs
  <2>6. C!ShownUnread(chat) >= C!Cardinality(T)
    BY <2>4, <2>5, SMTT(40)
  <2>. QED BY <2>6, ZenonT(40) DEF u, q, chat, msgs, read, T
<1>. QED BY <1>2, <1>3 DEF CopiesFaithful, C!CopiesFaithful
-----------------------------------------------------------------------------
(* Copies and tables that change together.                                 *)

\* What the user sees of chat c is the same in n as in s.
SameFor(s, n, u, c) ==
    /\ c \in ChatIds(n) /\ Members(n, c) = Members(s, c)
    /\ Messages(n, c) = Messages(s, c)
    /\ n.chats[c].lastRead[u] = s.chats[c].lastRead[u]

\* A change of the tables that this user does not see leaves the mirror one.
LEMMA MirrorStays ==
    ASSUME NEW s, NEW n, NEW u, NEW chat, Mirrors(s, u, chat), SameFor(s, n, u, chat.id)
    PROVE  Mirrors(n, u, chat)
BY DEF Mirrors, SameFor, TakesPart

\* One chat of the copy changes with its chat on the server.
LEMMA ShowsReplaced ==
    ASSUME NEW s, NEW u, NEW copy, ShowsAll(s, u, copy), NEW i \in DOMAIN copy,
           NEW new, DOMAIN new = DOMAIN copy, IsSeq(new),
           \A j \in DOMAIN copy : j # i => new[j] = copy[j],
           new[i].id = copy[i].id,
           NEW n, ChatIds(n) = ChatIds(s), Mirrors(n, u, new[i]),
           \A c \in ChatIds(s) : /\ c # copy[i].id => SameFor(s, n, u, c)
                                 /\ Members(n, c) = Members(s, c)
    PROVE  ShowsAll(n, u, new)
<1>1. /\ \A j \in DOMAIN copy : Mirrors(s, u, copy[j])
      /\ \A j, k \in DOMAIN copy : copy[j].id = copy[k].id => j = k
      /\ \A c \in ChatIds(s) : u \in Members(s, c) => \E j \in DOMAIN copy : copy[j].id = c
  BY DEF ShowsAll
<1>2. \A j \in DOMAIN new : new[j].id = copy[j].id
  OBVIOUS
<1>3. \A j \in DOMAIN new : Mirrors(n, u, new[j])
  <2>. SUFFICES ASSUME NEW j \in DOMAIN new, j # i PROVE Mirrors(n, u, new[j])
    OBVIOUS
  <2>1. Mirrors(s, u, copy[j]) /\ new[j] = copy[j] /\ copy[j].id # copy[i].id
    BY <1>1, SMTT(40)
  <2>2. copy[j].id \in ChatIds(s)
    BY <2>1 DEF Mirrors, TakesPart
  <2> DEFINE chat == copy[j]
  <2>3. Mirrors(s, u, chat) /\ SameFor(s, n, u, chat.id)
    BY <2>1, <2>2
  <2>. HIDE DEF chat
  <2>4. Mirrors(n, u, chat)
    BY <2>3, MirrorStays
  <2>. QED BY <2>1, <2>4 DEF chat
<1>4. \A c \in ChatIds(n) : u \in Members(n, c) => \E j \in DOMAIN new : new[j].id = c
  BY <1>1, <1>2
<1>5. \A j, k \in DOMAIN new : new[j].id = new[k].id => j = k
  BY <1>1, <1>2
<1>. QED BY <1>3, <1>4, <1>5 DEF ShowsAll

\* A chat is added here and on the server.
LEMMA ShowsAppended ==
    ASSUME NEW s, NEW u, NEW copy, ShowsAll(s, u, copy), NEW chat,
           NEW n, chat.id \notin ChatIds(s), ChatIds(n) = ChatIds(s) \cup {chat.id},
           Mirrors(n, u, chat), \A c \in ChatIds(s) : SameFor(s, n, u, c)
    PROVE  ShowsAll(n, u, Append(copy, chat))
<1> DEFINE new == Append(copy, chat)
           len == Len(copy)
<1>1. /\ \A j \in DOMAIN copy : Mirrors(s, u, copy[j])
      /\ \A j, k \in DOMAIN copy : copy[j].id = copy[k].id => j = k
      /\ \A c \in ChatIds(s) : u \in Members(s, c) => \E j \in DOMAIN copy : copy[j].id = c
      /\ IsSeq(copy)
  BY DEF ShowsAll
<1>2. /\ len \in Nat /\ DOMAIN copy = 1 .. len /\ DOMAIN new = 1 .. len + 1
      /\ \A j \in 1 .. len : new[j] = copy[j]
      /\ new[len + 1] = chat /\ IsSeq(new)
  BY <1>1, AppendSeq DEF IsSeq
<1>. HIDE DEF new, len
<1>3. DOMAIN new = DOMAIN copy \cup {len + 1} /\ len + 1 \notin DOMAIN copy
  BY <1>2, SMTT(40)
<1>4. \A j \in DOMAIN copy : copy[j].id \in ChatIds(s)
  BY <1>1 DEF Mirrors, TakesPart
<1>5. \A j \in DOMAIN new : Mirrors(n, u, new[j])
  <2>. SUFFICES ASSUME NEW j \in DOMAIN copy PROVE Mirrors(n, u, copy[j])
    BY <1>2, <1>3
  <2> DEFINE old == copy[j]
  <2>1. Mirrors(s, u, old) /\ SameFor(s, n, u, old.id)
    BY <1>1, <1>4
  <2>. HIDE DEF old
  <2>2. Mirrors(n, u, old)
    BY <2>1, MirrorStays
  <2>. QED BY <2>2 DEF old
<1>6. \A j, k \in DOMAIN new : new[j].id = new[k].id => j = k
  <2>1. \A j \in DOMAIN copy : new[j].id = copy[j].id /\ new[j].id # new[len + 1].id
    BY <1>2, <1>4
  <2>. QED BY <1>1, <1>3, <2>1
<1>7. \A c \in ChatIds(n) : u \in Members(n, c) => \E j \in DOMAIN new : new[j].id = c
  <2>1. \A j \in DOMAIN copy : new[j].id = copy[j].id /\ j \in DOMAIN new
    BY <1>2, <1>3
  <2>2. len + 1 \in DOMAIN new /\ new[len + 1].id = chat.id
    BY <1>2, <1>3
  <2>3. \A c \in ChatIds(s) : Members(n, c) = Members(s, c)
    BY DEF SameFor
  <2>. QED BY <1>1, <2>1, <2>2, <2>3
<1>. QED BY <1>2, <1>5, <1>6, <1>7 DEF ShowsAll, new

\* Console takes the greatest of finitely many numbers.
LEMMA MaxIsIn ==
    ASSUME NEW n \in Nat, NEW T \in SUBSET (1 .. n), T # {}
    PROVE  C!Max(T) \in T
<1>1. T \in SUBSET Nat /\ \A k \in T : k \in Nat /\ k <= n
  OBVIOUS
<1>2. PICK m \in T : \A k \in T : k <= m
  BY <1>1, GreatestNat
<1>3. \A k \in T : m >= k
  BY <1>1, <1>2
<1>. QED BY <1>2, <1>3, Zenon DEF C!Max

\* A chat with its messages, as it came.
LEMMA FilledMirrors ==
    ASSUME NEW s \in Store, NEW u, NEW q, TakesPart(s, u, q.id),
           q.members = Members(s, q.id), q.read = s.chats[q.id].lastRead[u],
           q.msgs = Messages(s, q.id), NEW full,
           full = C!Filled(C!CopyChat(q.id, q.members, q.read, <<>>, <<>>), q.msgs, u)
    PROVE  Mirrors(s, u, full) /\ full.id = q.id
<1> DEFINE msgs == q.msgs
           chat == C!CopyChat(q.id, q.members, q.read, <<>>, <<>>)
           own == {k \in DOMAIN msgs : msgs[k].by = u}
           ids == {msgs[k].id : k \in DOMAIN msgs}
           stamped == [m \in ids |-> CHOOSE k \in DOMAIN msgs : msgs[k].id = m]
           read == IF own = {} THEN chat.read ELSE msgs[C!Max(own)].id
           len == Len(msgs)
<1>1. /\ DOMAIN chat = ChatFields /\ chat.id = q.id /\ chat.members = q.members
      /\ chat.read = q.read
  BY DEF C!CopyChat, ChatFields
<1>. HIDE DEF chat
<1>2. /\ len \in Nat /\ DOMAIN msgs = 1 .. len
      /\ \A j, k \in DOMAIN msgs : msgs[j].id = msgs[k].id => j = k
  <2>1. IsSeq(msgs) /\ \A j, k \in DOMAIN msgs : msgs[j].id = msgs[k].id => j = k
    BY MessagesAre
  <2>. QED BY <2>1 DEF IsSeq
<1>. HIDE DEF len
<1>3. \A m \in ids : stamped[m] \in DOMAIN msgs /\ msgs[stamped[m]].id = m
  <2>. SUFFICES ASSUME NEW m \in ids PROVE stamped[m] \in DOMAIN msgs /\ msgs[stamped[m]].id = m
    BY SMTT(40)
  <2> DEFINE at == CHOOSE k \in DOMAIN msgs : msgs[k].id = m
  <2>1. stamped[m] = at
    OBVIOUS
  <2>2. \E k \in DOMAIN msgs : msgs[k].id = m
    OBVIOUS
  <2>3. at \in DOMAIN msgs /\ msgs[at].id = m
    BY <2>2, Zenon
  <2>. HIDE DEF stamped, ids, at
  <2>. QED BY <2>1, <2>3, SMTT(40)
<1>4. own # {} => \E k \in DOMAIN msgs : msgs[k].by = u /\ read = msgs[k].id
  <2>1. own \in SUBSET (1 .. len)
    BY <1>2
  <2> DEFINE last == C!Max(own)
  <2>2. own # {} => last \in own
    <3>. HIDE DEF own
    <3>. QED BY <1>2, <2>1, MaxIsIn
  <2>3. own # {} => read = msgs[last].id
    OBVIOUS
  <2>. HIDE DEF last, read
  <2>. QED BY <2>2, <2>3
<1>5. own = {} => read = s.chats[q.id].lastRead[u]
  BY <1>1
<1>6. DOMAIN stamped = ids
  OBVIOUS
<1>7. full = [chat EXCEPT !.msgs = msgs, !.stamped = stamped, !.read = read]
  <2>1. full = C!Filled(chat, msgs, u)
    BY DEF chat
  <2>. QED BY <2>1, Zenon DEF C!Filled
<1>. HIDE DEF stamped, read, ids, own, msgs
<1>8. /\ full.id = chat.id /\ full.members = chat.members
      /\ full.msgs = msgs /\ full.stamped = stamped /\ full.read = read
      /\ DOMAIN full = ChatFields
  BY <1>1, <1>7, Zenon DEF ChatFields
<1>9. read \in DOMAIN stamped =>
         msgs[stamped[read]].id = s.chats[q.id].lastRead[u] \/ msgs[stamped[read]].by = u
  <2>. SUFFICES ASSUME read \in ids
                PROVE  msgs[stamped[read]].id = s.chats[q.id].lastRead[u] \/ msgs[stamped[read]].by = u
    BY <1>6
  <2>1. stamped[read] \in DOMAIN msgs /\ msgs[stamped[read]].id = read
    BY <1>3, SMTT(40)
  <2>. QED BY <1>2, <1>4, <1>5, <2>1
<1>10. full.members \cup {u} = Members(s, q.id)
  BY <1>1, <1>8 DEF TakesPart
<1>11. msgs = Messages(s, q.id)
  BY SMTT(40) DEF msgs
<1>12. Mirrors(s, u, full)
  BY <1>1, <1>3, <1>6, <1>8, <1>9, <1>10, <1>11, Zenon DEF Mirrors
<1>. QED BY <1>1, <1>8, <1>12

\* n is the store s with message id of user u in chat c.
HasPost(s, n, u, c, id) ==
    /\ id # 0 /\ TakesPart(n, u, c) /\ Members(n, c) = Members(s, c)
    /\ Messages(n, c) = Append(Messages(s, c), [id |-> id, by |-> u])
    /\ n.chats[c].lastRead[u] = id

\* A message that is added here and on the server.
LEMMA PostMirrors ==
    ASSUME NEW s \in Store, NEW n, NEW u, NEW chat, Mirrors(s, u, chat),
           NEW id, HasPost(s, n, u, chat.id, id)
    PROVE  Mirrors(n, u, C!WithPost(chat, id, u)) /\ C!WithPost(chat, id, u).id = chat.id
<1> DEFINE len == Len(chat.msgs)
           msg == [id |-> id, by |-> u]
           msgs == Append(chat.msgs, msg)
           stamped == C!Stamp(chat.stamped, id, len + 1)
           post == C!WithPost(chat, id, u)
<1>0. /\ id # 0 /\ TakesPart(n, u, chat.id)
      /\ Members(n, chat.id) = Members(s, chat.id)
      /\ Messages(n, chat.id) = Append(Messages(s, chat.id), msg)
      /\ n.chats[chat.id].lastRead[u] = id
  BY DEF HasPost
<1>1. /\ chat.msgs = Messages(s, chat.id) /\ TakesPart(s, u, chat.id)
      /\ DOMAIN chat = ChatFields /\ chat.members \cup {u} = Members(s, chat.id)
      /\ \A m \in DOMAIN chat.stamped : /\ chat.stamped[m] \in DOMAIN chat.msgs
                                        /\ m # 0 => chat.msgs[chat.stamped[m]].id = m
  BY DEF Mirrors
<1>2. IsSeq(chat.msgs)
  BY <1>1, MessagesAre
<1>3. msgs = Messages(n, chat.id)
  BY <1>0, <1>1
<1>4. msg.id = id /\ msg.by = u
  OBVIOUS
<1>. HIDE DEF msg, len
<1>5. /\ DOMAIN chat.msgs = 1 .. len /\ DOMAIN msgs = 1 .. len + 1 /\ len \in Nat
      /\ \A k \in DOMAIN chat.msgs : msgs[k] = chat.msgs[k]
      /\ msgs[len + 1] = msg
  BY <1>2, AppendSeq DEF len, IsSeq
<1>6. /\ DOMAIN stamped = DOMAIN chat.stamped \cup {id}
      /\ \A m \in DOMAIN chat.stamped : stamped[m] = chat.stamped[m]
      /\ id \notin DOMAIN chat.stamped => stamped[id] = len + 1
  BY DEF C!Stamp
<1>7. post = [chat EXCEPT !.msgs = msgs, !.stamped = stamped, !.read = id]
  BY Zenon DEF C!WithPost, msg, len
<1>. HIDE DEF msgs, stamped, post
<1>8. \A m \in DOMAIN stamped : /\ stamped[m] \in DOMAIN msgs
                                /\ m # 0 => msgs[stamped[m]].id = m
  <2>. SUFFICES ASSUME NEW m \in DOMAIN stamped
                PROVE  stamped[m] \in DOMAIN msgs /\ (m # 0 => msgs[stamped[m]].id = m)
    OBVIOUS
  <2>1. CASE m \in DOMAIN chat.stamped
    <3>1. /\ stamped[m] = chat.stamped[m] /\ stamped[m] \in DOMAIN chat.msgs
          /\ m # 0 => chat.msgs[stamped[m]].id = m
      BY <1>1, <1>6, <2>1
    <3>. QED BY <1>5, <3>1
  <2>2. CASE m \notin DOMAIN chat.stamped
    <3>1. m = id /\ stamped[m] = len + 1
      BY <1>6, <2>2
    <3>. QED BY <1>4, <1>5, <3>1
  <2>. QED BY <2>1, <2>2
<1>9. msgs[stamped[id]].id = id \/ msgs[stamped[id]].by = u
  <2>1. CASE id \in DOMAIN chat.stamped
    BY <1>0, <1>6, <1>8, <2>1
  <2>2. CASE id \notin DOMAIN chat.stamped
    BY <1>4, <1>5, <1>6, <2>2
  <2>. QED BY <2>1, <2>2
<1>10. /\ post.id = chat.id /\ post.members = chat.members
       /\ post.msgs = msgs /\ post.stamped = stamped /\ post.read = id
       /\ DOMAIN post = ChatFields
  BY <1>1, <1>7, Zenon DEF ChatFields
<1>11. Mirrors(n, u, post)
  BY <1>0, <1>1, <1>3, <1>8, <1>9, <1>10 DEF Mirrors
<1>. QED BY <1>10, <1>11 DEF post

\* n is the store s with the chat that u has composed as draft, and its first message.
HasDraft(s, n, u, draft, ids) ==
    LET id == ids.chat
    IN  /\ id \notin ChatIds(s) /\ TakesPart(n, u, id)
        /\ draft.members \cup {u} = Members(n, id)
        /\ Messages(n, id) = Append(Messages(s, id), [id |-> ids.message, by |-> u])

\* The chat is in the copy as it is on the server.
LEMMA SentMirrors ==
    ASSUME NEW s \in Store, Consistent(s), NEW n, NEW u, NEW draft, draft.tries = 0,
           NEW ids, HasDraft(s, n, u, draft, ids)
    PROVE  Mirrors(n, u, C!Sent(draft, u, ids)) /\ C!Sent(draft, u, ids).id = ids.chat
<1> DEFINE id == ids.chat
           msg == [id |-> ids.message, by |-> u]
<1>0. /\ id \notin ChatIds(s) /\ TakesPart(n, u, id)
      /\ draft.members \cup {u} = Members(n, id)
      /\ Messages(n, id) = Append(Messages(s, id), msg)
  BY DEF HasDraft
<1> DEFINE old == Messages(s, id)
           chat == C!Sent(draft, u, ids)
           msgs == <<msg>>
           stamped == C!Stamp(<<>>, 0, 1)
<1>1. old = <<>>
  <2>1. IsSeq(old) /\ \A k \in DOMAIN old : IsMessageOf(s, old[k].id, id)
    BY MessagesAre
  <2>2. \A m : ~IsMessageOf(s, m, id)
    BY <1>0 DEF Consistent, StatusRowsComplete, RowsComplete, IsMessageOf
  <2>3. Len(old) \in Nat /\ DOMAIN old = 1 .. Len(old) /\ old = [k \in 1 .. Len(old) |-> old[k]]
    BY <2>1 DEF IsSeq
  <2>4. Len(old) = 0
    <3>1. 1 \notin DOMAIN old
      BY <2>1, <2>2
    <3>. QED BY <2>3, <3>1
  <2>5. old = [k \in 1 .. 0 |-> old[k]]
    BY <2>3, <2>4
  <2>. QED BY <2>5
<1>2. chat = C!CopyChat(id, draft.members, 0, msgs, stamped)
  BY DEF C!Sent
<1>3. msg.by = u
  OBVIOUS
<1>. HIDE DEF id, old
<1>. HIDE DEF msg
<1>4. msgs = Messages(n, id)
  <2>1. Append(<<>>, msg) = <<msg>>
    OBVIOUS
  <2>. QED BY <1>0, <1>1, <2>1 DEF old
<1>5. DOMAIN msgs = {1} /\ msgs[1] = msg
  OBVIOUS
<1>6. DOMAIN stamped = {0} /\ stamped[0] = 1
  <2>1. DOMAIN <<>> = {}
    OBVIOUS
  <2>. QED BY <2>1 DEF C!Stamp
<1>. HIDE DEF msgs, stamped, chat
<1>7. /\ chat.id = id /\ chat.members = draft.members
      /\ chat.read = 0 /\ chat.msgs = msgs /\ chat.stamped = stamped
      /\ DOMAIN chat = ChatFields
  BY <1>2 DEF C!CopyChat, ChatFields
<1>8. Mirrors(n, u, chat)
  BY <1>0, <1>3, <1>4, <1>5, <1>6, <1>7 DEF Mirrors
<1>. QED BY <1>7, <1>8 DEF chat, id

\* A chat of the copy with its pointer set.
ReadTo(chat, m) == [chat EXCEPT !.read = m]

\* The last message that is shown is one of the chat.
LEMMA LastIs ==
    ASSUME NEW s \in Store, NEW u, NEW chat, Mirrors(s, u, chat), chat.msgs # <<>>
    PROVE  IsMessageOf(s, C!LastId(chat), chat.id) /\ C!LastId(chat) # 0
<1> DEFINE q == chat.msgs
           last == C!LastId(chat)
<1>1. IsSeq(q) /\ \A k \in DOMAIN q : IsMessageOf(s, q[k].id, chat.id)
  BY MessagesAre DEF Mirrors
<1>2. q # <<>> /\ last = q[Len(q)].id
  BY DEF C!LastId
<1>. HIDE DEF q, last
<1>3. Len(q) \in DOMAIN q
  <2>1. Len(q) \in Nat /\ DOMAIN q = 1 .. Len(q) /\ q = [k \in 1 .. Len(q) |-> q[k]]
    BY <1>1 DEF IsSeq
  <2>2. Len(q) = 0 => q = [k \in 1 .. 0 |-> q[k]]
    BY <2>1
  <2>3. [k \in 1 .. 0 |-> q[k]] = <<>>
    OBVIOUS
  <2>. QED BY <1>2, <2>1, <2>2, <2>3
<1>4. IsMessageOf(s, last, chat.id)
  BY <1>1, <1>2, <1>3
<1>5. last # 0
  BY <1>4, InOrderIs DEF IsMessageOf
<1>. QED BY <1>4, <1>5 DEF last

\* The pointer stands at the last message, here and on the server.
LEMMA OpenedMirrors ==
    ASSUME NEW s \in Store, NEW n, NEW u, NEW chat, Mirrors(s, u, chat),
           chat.msgs # <<>>, ChatIds(n) = ChatIds(s),
           Members(n, chat.id) = Members(s, chat.id),
           Messages(n, chat.id) = Messages(s, chat.id),
           NEW last, last = C!LastId(chat),
           n.chats[chat.id].lastRead[u] = last \/ (last = chat.read /\ n = s),
           NEW opened, opened = ReadTo(chat, last)
    PROVE  Mirrors(n, u, opened) /\ opened.id = chat.id
<1>1. /\ chat.msgs = Messages(s, chat.id) /\ TakesPart(s, u, chat.id)
      /\ DOMAIN chat = ChatFields /\ chat.members \cup {u} = Members(s, chat.id)
      /\ \A m \in DOMAIN chat.stamped : /\ chat.stamped[m] \in DOMAIN chat.msgs
                                        /\ m # 0 => chat.msgs[chat.stamped[m]].id = m
  BY DEF Mirrors
<1>2. last # 0
  BY LastIs
<1>3. /\ opened.id = chat.id /\ opened.members = chat.members
      /\ opened.msgs = chat.msgs /\ opened.stamped = chat.stamped /\ opened.read = last
      /\ DOMAIN opened = ChatFields
  BY <1>1, Zenon DEF ChatFields, ReadTo
<1>4. CASE n.chats[chat.id].lastRead[u] = last
  <2>1. last \in DOMAIN chat.stamped => chat.msgs[chat.stamped[last]].id = n.chats[chat.id].lastRead[u]
    BY <1>1, <1>2, <1>4, SMTT(40)
  <2>. QED BY <1>1, <1>3, <2>1 DEF Mirrors, TakesPart
<1>5. CASE last = chat.read /\ n = s
  BY <1>1, <1>3, <1>5 DEF Mirrors
<1>. QED BY <1>3, <1>4, <1>5

\* The next chat is loaded with all its participants.
LEMMA ChatLoadedAgrees ==
    ASSUME NEW c, DOMAIN client[c] = ClientFields, client[c].menu = "loading",
           client[c].at < Len(client[c].queue), NEW s, Agrees(s, client[c]),
           NEW known, client[c].queue[client[c].at + 1].members \subseteq known
    PROVE  C!ChatLoaded(c, known).menu = "loading" /\ Agrees(s, C!ChatLoaded(c, known))
<1> DEFINE me == client[c]
           at == me.at + 1
           chat == me.queue[at]
           more == C!CopyChat(chat.id, chat.members \cap known, chat.read, <<>>, <<>>)
           rec == C!ChatLoaded(c, known)
           copy == Append(me.copy, more)
           len == Len(me.queue)
<1>1. /\ DOMAIN me = ClientFields /\ me.menu = "loading"
      /\ StillToLoad(s, me) /\ chat.members \subseteq known
  BY DEF Agrees
<1>2. rec = [me EXCEPT !.at = @ + 1, !.known = known, !.copy = Append(@, more)]
  BY Zenon DEF C!ChatLoaded
<1>3. more = C!CopyChat(chat.id, chat.members, chat.read, <<>>, <<>>)
  <2>1. chat.members \cap known = chat.members
    BY <1>1
  <2>. QED BY <2>1
<1>4. IsSeq(me.copy) /\ Len(me.copy) = me.at /\ me.at \in 0 .. len /\ me.at < len
  BY <1>1 DEF StillToLoad
<1>5. Agrees(s, me)
  OBVIOUS
<1>. HIDE DEF rec, more, me
<1>6. /\ rec.menu = me.menu /\ rec.queue = me.queue /\ rec.user = me.user
      /\ rec.copy = copy /\ rec.draft = me.draft /\ rec.at = me.at + 1
  BY <1>1, <1>2, Zenon DEF ClientFields
<1>7. /\ IsSeq(copy) /\ Len(copy) = Len(me.copy) + 1
      /\ DOMAIN copy = 1 .. Len(me.copy) + 1 /\ copy[Len(me.copy) + 1] = more
      /\ \A i \in 1 .. Len(me.copy) : copy[i] = me.copy[i]
      /\ DOMAIN me.copy = 1 .. Len(me.copy)
  BY <1>4, AppendSeq, SMTT(40)
<1>8. /\ \A i \in 1 .. at : i \in 1 .. me.at \/ i = at
      /\ len \in Int => at \in 0 .. len
  BY <1>4
<1>9. at \in 0 .. len
  <2>1. me.queue = C!ListOnServer(s, me.user) /\ me.user \in s.users
    BY <1>1, <1>5 DEF StillToLoad, Agrees
  <2>. QED BY <1>4
<1>10. /\ IsSeq(copy) /\ Len(copy) = at /\ DOMAIN copy = 1 .. at /\ copy[at] = more
       /\ \A i \in 1 .. me.at : copy[i] = me.copy[i] /\ i \in DOMAIN me.copy
       /\ rec.at = at
  BY <1>4, <1>6, <1>7
<1>. HIDE DEF copy, at, len
<1>11. \A i \in DOMAIN copy :
          copy[i] = C!CopyChat(me.queue[i].id, me.queue[i].members, me.queue[i].read, <<>>, <<>>)
  BY <1>1, <1>3, <1>8, <1>10 DEF StillToLoad, chat
<1>12. StillToLoad(s, rec)
  BY <1>1, <1>6, <1>9, <1>10, <1>11 DEF StillToLoad, len
<1>13. rec.menu = "loading"
  BY <1>1, <1>6
<1>. QED BY <1>5, <1>6, <1>12, <1>13 DEF Agrees, LoggedIn, rec

\* The chats of the answer, one for one.
LEMMA ShowsList ==
    ASSUME NEW s \in Store, NEW u \in s.users, NEW copy, IsSeq(copy),
           DOMAIN copy = DOMAIN C!ListOnServer(s, u),
           \A i \in DOMAIN copy : /\ Mirrors(s, u, copy[i])
                                   /\ copy[i].id = C!ListOnServer(s, u)[i].id
    PROVE  ShowsAll(s, u, copy)
<1> DEFINE q == C!ListOnServer(s, u)
<1>1. /\ \A j, k \in DOMAIN q : q[j].id = q[k].id => j = k
      /\ \A d \in ChatIds(s) : u \in Members(s, d) => \E k \in DOMAIN q : q[k].id = d
  BY ServerListIs
<1>2. DOMAIN copy = DOMAIN q /\ \A i \in DOMAIN q : copy[i].id = q[i].id
  OBVIOUS
<1>. HIDE DEF q
<1>3. \A i, j \in DOMAIN copy : copy[i].id = copy[j].id => i = j
  BY <1>1, <1>2
<1>4. \A d \in ChatIds(s) : u \in Members(s, d) => \E k \in DOMAIN copy : copy[k].id = d
  BY <1>1, <1>2
<1>. QED BY <1>3, <1>4 DEF ShowsAll

\* All messages are there.
LEMMA LoadedShows ==
    ASSUME NEW s \in Store, NEW me, me.menu = "loading", me.at = Len(me.queue),
           Agrees(s, me)
    PROVE  ShowsAll(s, me.user, [i \in DOMAIN me.copy |->
                                    C!Filled(me.copy[i], me.queue[i].msgs, me.user)])
<1> DEFINE u == me.user
           q == C!ListOnServer(s, u)
           filled == [i \in DOMAIN me.copy |-> C!Filled(me.copy[i], me.queue[i].msgs, u)]
<1>1. /\ u \in s.users /\ me.queue = q /\ IsSeq(me.copy) /\ Len(me.copy) = me.at
      /\ \A i \in DOMAIN me.copy :
            me.copy[i] = C!CopyChat(q[i].id, q[i].members, q[i].read, <<>>, <<>>)
  BY DEF Agrees, StillToLoad
<1>2. /\ IsSeq(q)
      /\ \A k \in DOMAIN q : /\ TakesPart(s, u, q[k].id)
                             /\ q[k].members = Members(s, q[k].id)
                             /\ q[k].read = s.chats[q[k].id].lastRead[u]
                             /\ q[k].msgs = Messages(s, q[k].id)
  <2>. HIDE DEF u
  <2>. QED BY <1>1, ServerListIs
<1>3. DOMAIN me.copy = DOMAIN q /\ DOMAIN q = 1 .. Len(q) /\ Len(q) \in Nat
  <2>1. DOMAIN me.copy = 1 .. Len(me.copy) /\ DOMAIN q = 1 .. Len(q) /\ Len(q) \in Nat
    BY <1>1, <1>2 DEF IsSeq
  <2>. QED BY <1>1, <2>1
<1>4. ASSUME NEW i \in DOMAIN q
      PROVE  Mirrors(s, u, filled[i]) /\ filled[i].id = q[i].id
  <2> DEFINE p == q[i]
             full == filled[i]
  <2>1. full = C!Filled(C!CopyChat(p.id, p.members, p.read, <<>>, <<>>), p.msgs, u)
    <3>1. full = C!Filled(me.copy[i], me.queue[i].msgs, u)
      BY <1>3
    <3>2. me.copy[i] = C!CopyChat(p.id, p.members, p.read, <<>>, <<>>) /\ me.queue[i].msgs = p.msgs
      BY <1>1, <1>3
    <3>. HIDE DEF full, p, u
    <3>. QED BY <3>1, <3>2
  <2>2. /\ TakesPart(s, u, p.id) /\ p.members = Members(s, p.id)
        /\ p.read = s.chats[p.id].lastRead[u] /\ p.msgs = Messages(s, p.id)
    BY <1>2
  <2>. HIDE DEF p, full, u
  <2>3. Mirrors(s, u, full) /\ full.id = p.id
    BY <2>1, <2>2, FilledMirrors
  <2>. QED BY <2>3 DEF p, full
<1>5. filled = [i \in 1 .. Len(q) |-> filled[i]] /\ DOMAIN filled = DOMAIN q
  BY <1>3
<1>. HIDE DEF filled, u
<1>6. IsSeq(filled)
  <2>. HIDE DEF q
  <2>. QED BY <1>3, <1>5, FunctionSeq
<1>7. ShowsAll(s, u, filled)
  BY <1>1, <1>4, <1>5, <1>6, ShowsList
<1>. QED BY <1>7 DEF u, filled

-----------------------------------------------------------------------------
(* The steps of a fresh client.                                            *)

\* What is known of a fresh client that is not in recv.
LEMMA FreshIs ==
    ASSUME ServerInv, ClientsInv, NEW c \in Clients, IsFresh(c)
    PROVE  /\ DOMAIN client[c] = ClientFields /\ DOMAIN client[c].draft = DraftFields
           /\ server.store \in Store /\ Consistent(server.store)
           /\ client[c].menu # "dead" => Agrees(server.store, client[c])
           /\ link[c] # "asked" => link[c] = "ok"
  BY DEF IsFresh, ServerInv, ClientsInv, IsRecord

\* The client goes on, with an answer or without.
LEMMA FreshGoes ==
    ASSUME ServerInv, ClientsInv, NEW c \in Clients, NEW r, r.type \in ChatRequests,
           IsFresh(c), link[c] = "ok", NEW rec, C!Is(c, rec),
           C!NoRequest \/ C!Answered(c, r) \/ C!Unanswered(c, r)
    PROVE  /\ Goes(c, rec)
           /\ C!NoRequest => server' = server
           /\ C!Answered(c, r) \/ C!Unanswered(c, r) =>
                 server'.store = PgHandle(server.store, r).store
           /\ C!Reply(r) = PgHandle(server.store, r)
           /\ C!Answered(c, r) => PgHandle(server.store, r).fate = "reply"
           /\ C!Unanswered(c, r) => PgHandle(server.store, r).fate = "empty"
<1>1. server.up /\ slot = c /\ DOMAIN client = Clients
  BY DEF IsFresh, ClientsInv
<1>2. client'[c] = rec
  BY <1>1 DEF C!Is
<1>3. C!Reply(r) = PgHandle(server.store, r)
  BY DEF C!Reply
<1>4. C!Answered(c, r) \/ C!Unanswered(c, r) =>
         /\ server'.up /\ slot' = c /\ link'[c] = "ok"
         /\ server'.store = PgHandle(server.store, r).store
         /\ C!Answered(c, r) => PgHandle(server.store, r).fate = "reply"
         /\ C!Unanswered(c, r) => PgHandle(server.store, r).fate = "empty"
  BY <1>1, FreshAnswered
<1>5. C!NoRequest => server' = server /\ slot' = slot /\ link' = link
  BY DEF C!NoRequest
<1>. QED BY <1>1, <1>2, <1>3, <1>4, <1>5 DEF Goes

\* It is fresh if its chats still agree.
LEMMA GoesFresh ==
    ASSUME NEW c, NEW rec, Goes(c, rec), rec.menu \in LoggedIn \cup {"loading", "dead"},
           rec.menu # "dead" => Agrees(server'.store, rec)
    PROVE  IsFresh(c)'
  BY DEF Goes, IsFresh

\* A record of a client that has died.
LEMMA DeadIs == ASSUME NEW why PROVE [C!Off EXCEPT !.menu = "dead", !.why = why].menu = "dead"
  BY Zenon DEF C!Off

\* The next chat of the list comes with all its participants.
LEMMA LoadChatFresh ==
    ASSUME ServerInv, ClientsInv, NEW c \in Clients, IsFresh(c), LoadChat(c), c \notin stale'
    PROVE  IsFresh(c)'
<1> DEFINE me == client[c]
           s == server.store
           members == me.queue[me.at + 1].members
           missing == members \ me.known
           r == C!RqGetUsers(missing)
           all == me.known \cup missing
<1>1. me.menu = "loading" /\ link[c] = "ok" /\ me.at < Len(me.queue)
  BY FreshIs DEF LoadChat, C!LoadChat, C!In
<1>2. DOMAIN me = ClientFields /\ Agrees(s, me) /\ s \in Store /\ Consistent(s)
  BY <1>1, FreshIs, SMTT(40)
<1>3. r.type = "getUsers" /\ r.logins = missing /\ r.type \in ChatRequests
  BY RequestsAre DEF ChatRequests
<1>4. \/ missing = {} /\ C!NoRequest /\ C!Is(c, C!ChatLoaded(c, me.known))
      \/ C!Answered(c, r) /\ C!Is(c, C!ChatLoaded(c, all))
      \/ C!Unanswered(c, r) /\ C!Is(c, C!ChatLoaded(c, me.known))
      \/ C!Hangs(c, r)
  BY Zenon DEF LoadChat, C!LoadChat
<1>5. missing \subseteq s.users
  <2> DEFINE u == me.user
             q == C!ListOnServer(s, u)
             i == me.at + 1
  <2>1. me.queue = q /\ me.at \in 0 .. Len(me.queue) /\ u \in s.users
    BY <1>1, <1>2 DEF Agrees, StillToLoad
  <2>2. /\ IsSeq(q)
        /\ \A k \in DOMAIN q : TakesPart(s, u, q[k].id) /\ q[k].members = Members(s, q[k].id)
    <3>. HIDE DEF s, u
    <3>. QED BY <1>2, <2>1, ServerListIs
  <2>3. i \in 1 .. Len(q)
    <3>. HIDE DEF me, q
    <3>. QED BY <1>1, <2>1, <2>2 DEF IsSeq
  <2>. HIDE DEF q, i
  <2>4. i \in DOMAIN q
    BY <2>2, <2>3 DEF IsSeq
  <2>5. q[i].members \subseteq s.users
    BY <1>2, <2>2, <2>4 DEF Consistent, ReferencesExist, TakesPart
  <2>. QED BY <2>1, <2>5 DEF i
<1>6. members \subseteq all /\ (missing = {} => members \subseteq me.known)
  OBVIOUS
<1>. HIDE DEF r, missing, all
<1>7. PgHandle(s, r).store = s /\ PgHandle(s, r).fate = "reply"
  BY <1>3, <1>5, GetUsersRequest
<1>8. \A known : members \subseteq known =>
         C!ChatLoaded(c, known).menu = "loading" /\ Agrees(s, C!ChatLoaded(c, known))
  BY <1>1, <1>2, ChatLoadedAgrees
<1>. HIDE DEF s
<1>9. ASSUME NEW known, members \subseteq known, C!Is(c, C!ChatLoaded(c, known)),
             C!NoRequest \/ C!Answered(c, r) \/ C!Unanswered(c, r)
      PROVE  IsFresh(c)'
  <2> DEFINE rec == C!ChatLoaded(c, known)
  <2>1. rec.menu = "loading" /\ Agrees(s, rec)
    BY <1>8, <1>9
  <2>2. C!Is(c, rec)
    BY <1>9
  <2>. HIDE DEF rec
  <2>3. Goes(c, rec) /\ server'.store = s
    BY <1>1, <1>3, <1>7, <1>9, <2>2, FreshGoes DEF s
  <2>. QED BY <2>1, <2>3, GoesFresh
<1>10. ~C!Unanswered(c, r)
  <2>1. server.up /\ slot = c
    BY DEF IsFresh
  <2>. QED BY <1>1, <1>3, <1>7, <2>1, FreshAnswered DEF s
<1>. QED BY <1>1, <1>3, <1>4, <1>6, <1>9, <1>10, FreshHangs, SMTT(40)

\* All messages came: the copy is the server's chats.
LEMMA LoadMessagesFresh ==
    ASSUME ServerInv, ClientsInv, NEW c \in Clients, IsFresh(c), LoadMessages(c)
    PROVE  IsFresh(c)'
<1> DEFINE me == client[c]
           s == server.store
           filled == [i \in DOMAIN me.copy |->
                         C!Filled(me.copy[i], me.queue[i].msgs, me.user)]
           rec == [me EXCEPT !.menu = "main", !.queue = <<>>, !.at = 0, !.copy = filled]
           dead == [C!Off EXCEPT !.menu = "dead", !.why = "sender"]
           r == C!RqGetUsers({})
<1>1. me.menu = "loading" /\ link[c] = "ok" /\ me.at = Len(me.queue) /\ C!NoRequest
  BY FreshIs DEF LoadMessages, C!LoadMessages, C!In
<1>2. DOMAIN me = ClientFields /\ s \in Store /\ Agrees(s, me)
  BY <1>1, FreshIs
<1>3. C!Is(c, rec) \/ C!Is(c, dead)
  BY Zenon DEF LoadMessages, C!LoadMessages, C!Dies
<1>4. ShowsAll(s, me.user, filled)
  <2>. HIDE DEF me, s, filled
  <2>1. me.menu = "loading" /\ me.at = Len(me.queue)
    BY <1>1 DEF me
  <2>. QED BY <1>2, <2>1, LoadedShows DEF filled
<1>. HIDE DEF filled, dead
<1>5. /\ rec.menu = "main" /\ rec.user = me.user /\ rec.copy = filled
      /\ rec.draft = me.draft
  <2>. HIDE DEF me
  <2>. QED BY <1>2, Zenon DEF ClientFields
<1>6. r.type \in ChatRequests
  BY RequestsAre DEF ChatRequests
<1>. HIDE DEF rec, s, r
<1>7. me.draft.tries = 0 /\ me.draft.members \subseteq s.users /\ me.user \in s.users
  BY <1>1, <1>2 DEF Agrees
<1>8. Agrees(s, rec)
  <2>. HIDE DEF me
  <2>. QED BY <1>4, <1>5, <1>7 DEF Agrees, LoggedIn
<1>9. \A x : C!Is(c, x) => Goes(c, x) /\ server' = server
  BY <1>1, <1>6, FreshGoes
<1>10. dead.menu = "dead"
  BY DeadIs DEF dead
<1>11. CASE C!Is(c, rec)
  BY <1>5, <1>8, <1>9, <1>11, GoesFresh DEF s, LoggedIn
<1>12. CASE C!Is(c, dead)
  BY <1>9, <1>10, <1>12, GoesFresh
<1>. QED BY <1>3, <1>11, <1>12, SMTT(40)

\* Who is picked has been found on the server.
LEMMA ChooseFresh ==
    ASSUME ServerInv, ClientsInv, NEW c \in Clients, IsFresh(c), NEW text, NEW picked,
           NEW alone \in BOOLEAN, Choose(c, text, picked, alone), c \notin stale'
    PROVE  IsFresh(c)'
<1> DEFINE me == client[c]
           s == server.store
           r == C!RqFindUserByPart(me.user, text)
           members == picked \cup (IF alone THEN {me.user} ELSE {})
           rec == [me EXCEPT !.menu = "draft", !.known = @ \cup picked,
                             !.draft.alone = alone, !.draft.members = members]
<1>1. me.menu = "main" /\ link[c] = "ok"
  BY FreshIs DEF Choose, C!In
<1>2. DOMAIN me = ClientFields /\ DOMAIN me.draft = DraftFields /\ Agrees(s, me)
  BY <1>1, FreshIs
<1>3. r.type = "search" /\ r.type \in ChatRequests
  BY RequestsAre DEF ChatRequests
<1>4. \/ C!Answered(c, r) /\ picked \subseteq C!Reply(r).body /\ C!Is(c, rec)
      \/ C!Unanswered(c, r)
      \/ C!Hangs(c, r)
  BY Zenon DEF Choose
<1>. HIDE DEF r
<1>5. /\ PgHandle(s, r).store = s /\ PgHandle(s, r).fate # "empty"
      /\ PgHandle(s, r).fate = "reply" => PgHandle(s, r).body \subseteq s.users
  BY <1>3, SearchRequest
<1>. HIDE DEF members
<1>6. /\ rec.menu = "draft" /\ rec.user = me.user /\ rec.copy = me.copy
      /\ rec.draft.members = members /\ rec.draft.tries = me.draft.tries
  <2>. HIDE DEF me
  <2>. QED BY <1>2, Zenon DEF ClientFields, DraftFields
<1>. HIDE DEF rec
<1>7. CASE C!Answered(c, r) /\ picked \subseteq C!Reply(r).body /\ C!Is(c, rec)
  <2>1. Goes(c, rec) /\ server'.store = s /\ picked \subseteq s.users
    BY <1>1, <1>3, <1>5, <1>7, FreshGoes
  <2>2. me.menu \in LoggedIn /\ me.menu # "draft"
    BY <1>1 DEF LoggedIn
  <2>. HIDE DEF me, s
  <2>3. me.user \in s.users /\ ShowsAll(s, me.user, me.copy) /\ me.draft.tries = 0
    BY <1>2, <2>2 DEF Agrees
  <2>4. members \subseteq s.users
    BY <2>1, <2>3 DEF members
  <2>5. Agrees(s, rec)
    BY <1>6, <2>3, <2>4 DEF Agrees, LoggedIn
  <2>. QED BY <1>6, <2>1, <2>5, GoesFresh DEF LoggedIn
<1>8. ~C!Unanswered(c, r)
  <2>1. server.up /\ slot = c
    BY DEF IsFresh
  <2>. QED BY <1>1, <1>3, <1>5, <2>1, FreshAnswered
<1>. QED BY <1>1, <1>3, <1>4, <1>7, <1>8, FreshHangs

\* Going back to the main menu changes no chat.
LEMMA QuietFresh ==
    ASSUME ServerInv, ClientsInv, NEW c \in Clients, IsFresh(c), GiveUp(c) \/ CloseChat(c)
    PROVE  IsFresh(c)'
<1> DEFINE me == client[c]
           s == server.store
           given == [me EXCEPT !.menu = "main", !.draft = C!NoDraft]
           closed == [me EXCEPT !.menu = "main", !.at = 0]
           r == C!RqGetUsers({})
<1>1. /\ me.menu \in {"draft", "chat"} /\ link[c] = "ok" /\ C!NoRequest
      /\ C!Is(c, given) \/ (C!Is(c, closed) /\ me.menu = "chat")
  BY FreshIs DEF GiveUp, C!GiveUp, CloseChat, C!CloseChat, C!In
<1>2. DOMAIN me = ClientFields /\ Agrees(s, me)
  BY <1>1, FreshIs
<1>3. r.type \in ChatRequests
  BY RequestsAre DEF ChatRequests
<1>. HIDE DEF r
<1>4. \A x : C!Is(c, x) => Goes(c, x) /\ server' = server
  BY <1>1, <1>3, FreshGoes
<1>5. me.menu \in LoggedIn
  BY <1>1 DEF LoggedIn
<1>6. C!NoDraft.members = {} /\ C!NoDraft.tries = 0
  BY DEF C!NoDraft
<1>. HIDE DEF me, s
<1>7. /\ given.menu = "main" /\ given.user = me.user /\ given.copy = me.copy
      /\ given.draft = C!NoDraft
      /\ closed.menu = "main" /\ closed.user = me.user /\ closed.copy = me.copy
      /\ closed.draft = me.draft
  BY <1>2, Zenon DEF ClientFields
<1>. HIDE DEF given, closed
<1>8. Agrees(s, given) /\ (me.menu = "chat" => Agrees(s, closed))
  BY <1>2, <1>5, <1>6, <1>7 DEF Agrees, LoggedIn
<1>9. C!Is(c, given) => IsFresh(c)'
  BY <1>4, <1>7, <1>8, GoesFresh DEF s, LoggedIn
<1>10. C!Is(c, closed) /\ me.menu = "chat" => IsFresh(c)'
  BY <1>4, <1>7, <1>8, GoesFresh DEF s, LoggedIn
<1>. QED BY <1>1, <1>9, <1>10 DEF me

\* The new chat is the user's in the tables, and in the copy with the ids of the answer.
LEMMA SentShows ==
    ASSUME NEW s \in Store, Consistent(s), NEW u \in s.users, NEW draft,
           draft.tries = 0, draft.members \subseteq s.users,
           NEW copy, ShowsAll(s, u, copy)
    PROVE  LET n   == ChatAdded(s, u, draft.members, Now(s))
               ids == [chat |-> Len(s.chats) + 1, message |-> Len(s.messages) + 1]
           IN  u \in n.users /\ ShowsAll(n, u, Append(copy, C!Sent(draft, u, ids)))
<1> DEFINE k == Len(s.chats) + 1
           m == Len(s.messages) + 1
           t == Now(s)
           n == ChatAdded(s, u, draft.members, Now(s))
           ids == [chat |-> k, message |-> m]
           list == draft.members
           chat == C!Sent(draft, u, ids)
<1>1. t \in Nat /\ \A x \in MessageIds(s) : s.messages[x].ts <= t
  BY NowIsNat
<1>. HIDE DEF n, t, list
<1>2. /\ n \in Store /\ Kept(s, n) /\ ChatIds(n) = ChatIds(s) \cup {k}
      /\ Members(n, k) = (list \cap s.users) \cup {u} /\ OneMore(s, n, k, u)
  BY <1>1, ChatAddedConsistent DEF n, t, list
<1>3. /\ n.users = s.users /\ k \notin ChatIds(s)
      /\ \A d \in ChatIds(s) : n.chats[d] = s.chats[d]
      /\ n.messages[m].ts = t
  BY <1>1, ChatAddedRows DEF n, t, list
<1>4. ids.chat = k /\ ids.message = m
  <2>. HIDE DEF k, m
  <2>. QED OBVIOUS
<1>. HIDE DEF k, ids
<1>5. /\ \A d : d # k => Messages(n, d) = Messages(s, d)
      /\ Messages(n, k) = Append(Messages(s, k), [id |-> m, by |-> u])
  BY <1>1, <1>2, <1>3, MessagesGrow
<1>. HIDE DEF m
<1>6. Mirrors(n, u, chat) /\ chat.id = k
  <2>1. HasDraft(s, n, u, draft, ids)
    BY <1>2, <1>3, <1>4, <1>5 DEF TakesPart, list, HasDraft
  <2>2. Mirrors(n, u, chat) /\ chat.id = ids.chat
    BY <2>1, SentMirrors
  <2>. HIDE DEF chat
  <2>. QED BY <1>4, <2>2
<1>7. \A d \in ChatIds(s) : SameFor(s, n, u, d)
  BY <1>2, <1>3, <1>5 DEF SameFor, Kept
<1>. HIDE DEF chat
<1>8. ShowsAll(n, u, Append(copy, chat))
  BY <1>2, <1>3, <1>6, <1>7, ShowsAppended
<1>. QED BY <1>3, <1>8 DEF n, ids, k, m, chat

\* The chat is created at the first try, here and on the server; or it never will be.
LEMMA SendDraftFresh ==
    ASSUME ServerInv, ClientsInv, NEW c \in Clients, IsFresh(c), SendDraft(c), c \notin stale'
    PROVE  IsFresh(c)'
<1> DEFINE me == client[c]
           s == server.store
           u == me.user
           draft == me.draft
           r == C!RqCreateChat(u, draft)
           n == PgHandle(s, r).store
           ids == C!Reply(r).body
           chat == C!Sent(draft, u, ids)
           sent == [me EXCEPT !.menu = "main", !.draft = C!NoDraft, !.copy = Append(@, chat)]
           again == [me EXCEPT !.draft.tries = @ + 1]
<1>1. me.menu = "draft" /\ link[c] = "ok"
  BY FreshIs DEF SendDraft, C!SendDraft, C!In
<1>2. /\ DOMAIN me = ClientFields /\ DOMAIN draft = DraftFields
      /\ s \in Store /\ Consistent(s) /\ Agrees(s, me)
      /\ u \in s.users /\ draft.members \subseteq s.users /\ ShowsAll(s, u, me.copy)
      /\ draft.tries # 0 => draft.members = {}
  <2>1. me.menu \in LoggedIn
    BY <1>1 DEF LoggedIn
  <2>2. /\ DOMAIN me = ClientFields /\ DOMAIN draft = DraftFields
        /\ s \in Store /\ Consistent(s) /\ Agrees(s, me)
    BY <1>1, FreshIs
  <2>. HIDE DEF me, s
  <2>. QED BY <2>1, <2>2 DEF Agrees
<1>3. /\ r.type = "createChat" /\ r.author = u /\ r.members = draft.members
      /\ r.type \in ChatRequests
  BY RequestsAre DEF ChatRequests
<1>4. \/ C!Answered(c, r) /\ C!Is(c, sent)
      \/ C!Unanswered(c, r) /\ C!Is(c, again)
      \/ C!Hangs(c, r)
  BY Zenon DEF SendDraft, C!SendDraft
<1>. HIDE DEF r
<1>5. \/ /\ draft.members = {} /\ n = s /\ PgHandle(s, r).fate = "empty"
      \/ /\ draft.members # {} /\ PgHandle(s, r).fate = "reply"
         /\ n = ChatAdded(s, u, draft.members, Now(s))
         /\ PgHandle(s, r).body = [chat |-> Len(s.chats) + 1, message |-> Len(s.messages) + 1]
  <2>. HIDE DEF s, u, draft
  <2>. QED BY <1>2, <1>3, CreateChatRequest
<1>. HIDE DEF chat, ids, n
<1>6. /\ sent.menu = "main" /\ sent.user = u /\ sent.copy = Append(me.copy, chat)
      /\ sent.draft = C!NoDraft
      /\ again.menu = me.menu /\ again.user = u /\ again.copy = me.copy
      /\ again.draft.members = draft.members
  <2>. HIDE DEF me
  <2>. QED BY <1>2, Zenon DEF ClientFields, DraftFields, u, draft
<1>7. C!NoDraft.members = {} /\ C!NoDraft.tries = 0
  BY DEF C!NoDraft
<1>. HIDE DEF sent, again
<1>8. CASE C!Answered(c, r) /\ C!Is(c, sent)
  <2>1. /\ Goes(c, sent) /\ server'.store = n
        /\ PgHandle(s, r).fate = "reply" /\ ids = PgHandle(s, r).body
    BY <1>1, <1>3, <1>8, FreshGoes DEF ids, n
  <2>. HIDE DEF s, u, me, draft
  <2>2. draft.tries = 0
    BY <1>2, <1>5, <2>1
  <2>3. u \in n.users /\ ShowsAll(n, u, Append(me.copy, chat))
    <3> DEFINE copy == me.copy
    <3>1. ShowsAll(s, u, copy)
      BY <1>2
    <3>2. /\ n = ChatAdded(s, u, draft.members, Now(s))
          /\ ids = [chat |-> Len(s.chats) + 1, message |-> Len(s.messages) + 1]
      BY <1>5, <2>1
    <3>. HIDE DEF copy
    <3>3. u \in n.users /\ ShowsAll(n, u, Append(copy, C!Sent(draft, u, ids)))
      BY <1>2, <2>2, <3>1, <3>2, SentShows
    <3>. QED BY <3>3 DEF chat, copy
  <2>4. Agrees(n, sent)
    BY <1>6, <1>7, <2>3 DEF Agrees, LoggedIn
  <2>. QED BY <1>6, <2>1, <2>4, GoesFresh DEF LoggedIn
<1>9. CASE C!Unanswered(c, r) /\ C!Is(c, again)
  <2>1. Goes(c, again) /\ server'.store = n /\ PgHandle(s, r).fate = "empty"
    BY <1>1, <1>3, <1>9, FreshGoes DEF n
  <2>. HIDE DEF s, u, me, draft
  <2>2. n = s /\ draft.members = {}
    BY <1>5, <2>1
  <2>3. again.menu = "draft"
    BY <1>1, <1>6 DEF me
  <2>4. Agrees(s, again)
    BY <1>2, <1>6, <2>2, <2>3 DEF Agrees, LoggedIn
  <2>. QED BY <2>1, <2>2, <2>3, <2>4, GoesFresh DEF LoggedIn
<1>. QED BY <1>1, <1>3, <1>4, <1>8, <1>9, FreshHangs

\* The message is in the tables, and in the copy with the id of the answer.
LEMMA PostShows ==
    ASSUME NEW s \in Store, Consistent(s), NEW u \in s.users,
           NEW copy, ShowsAll(s, u, copy), NEW at \in DOMAIN copy
    PROVE  LET chat == copy[at]
               n    == MessageAdded(s, u, chat.id, Now(s))
               id   == Len(s.messages) + 1
           IN  /\ chat.id \in ChatIds(s) /\ u \in n.users
               /\ ShowsAll(n, u, [copy EXCEPT ![at] = C!WithPost(chat, id, u)])
<1> DEFINE chat == copy[at]
           k == chat.id
           t == Now(s)
           n == MessageAdded(s, u, k, t)
           m == Len(s.messages) + 1
           post == C!WithPost(chat, m, u)
           new == [copy EXCEPT ![at] = post]
<1>1. t \in Nat /\ \A x \in MessageIds(s) : s.messages[x].ts <= t
  BY NowIsNat
<1>2. Mirrors(s, u, chat) /\ IsSeq(copy)
  BY DEF ShowsAll
<1>. HIDE DEF t, chat
<1>3. TakesPart(s, u, k) /\ k \in ChatIds(s) /\ u \in Members(s, k)
  BY <1>2 DEF Mirrors, TakesPart
<1>. HIDE DEF k, n
<1>4. /\ n \in Store /\ Kept(s, n) /\ ChatIds(n) = ChatIds(s) /\ OneMore(s, n, k, u)
  BY <1>1, <1>3, MessageAddedConsistent DEF n
<1>5. /\ n.users = s.users
      /\ \A d \in ChatIds(s) : d # k => n.chats[d] = s.chats[d]
      /\ n.chats[k].lastRead[u] = m
      /\ n.messages[m].ts = t
  BY <1>1, <1>3, MessageAddedRows DEF n
<1>6. /\ \A d : d # k => Messages(n, d) = Messages(s, d)
      /\ Messages(n, k) = Append(Messages(s, k), [id |-> m, by |-> u])
  BY <1>1, <1>4, <1>5, MessagesGrow
<1>7. m # 0
  <2>1. Len(s.messages) \in Nat
    BY InOrderIs
  <2>. QED BY <2>1
<1>. HIDE DEF m
<1>8. \A d \in ChatIds(s) : Members(n, d) = Members(s, d)
  BY <1>4 DEF Kept
<1>9. HasPost(s, n, u, k, m)
  BY <1>3, <1>4, <1>5, <1>6, <1>7, <1>8 DEF TakesPart, HasPost
<1>10. Mirrors(n, u, post) /\ post.id = k
  BY <1>2, <1>9, PostMirrors DEF k
<1>. HIDE DEF post
<1>11. /\ DOMAIN new = DOMAIN copy /\ new = [j \in DOMAIN copy |-> new[j]]
       /\ \A j \in DOMAIN copy : j # at => new[j] = copy[j]
       /\ new[at] = post
  OBVIOUS
<1>. HIDE DEF new
<1>12. IsSeq(new)
  BY <1>2, <1>11, ReplacedSeq
<1>13. \A d \in ChatIds(s) : d # k => SameFor(s, n, u, d)
  BY <1>4, <1>5, <1>6, <1>8 DEF SameFor
<1>14. ShowsAll(n, u, new)
  BY <1>4, <1>8, <1>10, <1>11, <1>12, <1>13, ShowsReplaced DEF k, chat
<1>. QED BY <1>3, <1>5, <1>14 DEF new, post, m, n, t, k, chat

\* n is the store s, where user u has now read chat c to message m.
HasRead(s, n, u, c, m) ==
    /\ n.users = s.users /\ ChatIds(n) = ChatIds(s)
    /\ \A d \in ChatIds(s) : /\ Members(n, d) = Members(s, d)
                             /\ Messages(n, d) = Messages(s, d)
                             /\ d # c => n.chats[d] = s.chats[d]
    /\ n.chats[c].lastRead[u] = m

\* The read mark is accepted.
LEMMA ReadIs ==
    ASSUME NEW s \in Store, Consistent(s), NEW u \in s.users, NEW c, NEW m,
           TakesPart(s, u, c), IsMessageOf(s, m, c)
    PROVE  HasRead(s, ReadMarked(s, u, c, m), u, c, m)
<1> DEFINE n == ReadMarked(s, u, c, m)
<1>1. u \in Logins
  BY DEF Store
<1>2. /\ n \in Store /\ Kept(s, n) /\ ChatIds(n) = ChatIds(s)
      /\ MessageIds(n) = MessageIds(s)
  BY ReadStays
<1>3. /\ n.users = s.users /\ n.chats[c].lastRead[u] = m
      /\ \A d \in ChatIds(s) : d # c => n.chats[d] = s.chats[d]
  BY <1>1, ReadMarkedRows
<1>. HIDE DEF n
<1>4. \A d : Messages(n, d) = Messages(s, d)
  BY <1>2, MessagesStay
<1>5. \A d \in ChatIds(s) : Members(n, d) = Members(s, d)
  BY <1>2 DEF Kept
<1>. QED BY <1>2, <1>3, <1>4, <1>5 DEF HasRead, n

\* The chat that is opened is read to its end, here and on the server.
LEMMA OpenedShows ==
    ASSUME NEW s \in Store, NEW u, NEW copy, ShowsAll(s, u, copy), NEW i \in DOMAIN copy,
           copy[i].msgs # <<>>, NEW last, last = C!LastId(copy[i]), NEW n,
           HasRead(s, n, u, copy[i].id, last) \/ (last = copy[i].read /\ n = s)
    PROVE  ShowsAll(n, u, [copy EXCEPT ![i] = ReadTo(copy[i], last)])
<1> DEFINE chat == copy[i]
           opened == ReadTo(chat, last)
           new == [copy EXCEPT ![i] = opened]
<1>1. Mirrors(s, u, chat) /\ IsSeq(copy)
  BY DEF ShowsAll
<1>. HIDE DEF chat
<1>2. TakesPart(s, u, chat.id) /\ chat.id \in ChatIds(s)
  BY <1>1 DEF Mirrors, TakesPart
<1>3. /\ ChatIds(n) = ChatIds(s)
      /\ \A d \in ChatIds(s) : /\ Members(n, d) = Members(s, d)
                               /\ Messages(n, d) = Messages(s, d)
                               /\ d # chat.id => n.chats[d] = s.chats[d]
      /\ n.chats[chat.id].lastRead[u] = last \/ (last = chat.read /\ n = s)
  <2>1. CASE HasRead(s, n, u, chat.id, last)
    BY <2>1 DEF HasRead
  <2>2. CASE last = chat.read /\ n = s
    BY <2>2
  <2>. QED BY <2>1, <2>2 DEF chat
<1>4. last = C!LastId(chat) /\ chat.msgs # <<>>
  BY DEF chat
<1>5. Mirrors(n, u, opened) /\ opened.id = chat.id
  <2>1. opened = ReadTo(chat, last)
    OBVIOUS
  <2>. HIDE DEF opened
  <2>. QED BY <1>1, <1>2, <1>3, <1>4, <2>1, OpenedMirrors
<1>. HIDE DEF opened
<1>6. /\ DOMAIN new = DOMAIN copy /\ new = [j \in DOMAIN copy |-> new[j]]
      /\ \A j \in DOMAIN copy : j # i => new[j] = copy[j]
      /\ new[i] = opened
  OBVIOUS
<1>. HIDE DEF new
<1>7. IsSeq(new)
  BY <1>1, <1>6, ReplacedSeq
<1>8. \A d \in ChatIds(s) : d # chat.id => SameFor(s, n, u, d)
  BY <1>3 DEF SameFor
<1>9. ShowsAll(n, u, new)
  BY <1>3, <1>5, <1>6, <1>7, <1>8, ShowsReplaced DEF chat
<1>. QED BY <1>9 DEF new, opened, chat

\* The pointer moves to the last message here and on the server, or the menu fails.
LEMMA OpenChatFresh ==
    ASSUME ServerInv, ClientsInv, NEW c \in Clients, IsFresh(c), NEW i, OpenChat(c, i),
           c \notin stale'
    PROVE  IsFresh(c)'
<1> DEFINE me == client[c]
           s == server.store
           u == me.user
           chat == me.copy[i]
           last == C!LastId(me.copy[i])
           r == C!RqSetLastRead(me.user, me.copy[i].id, last)
           rec == C!Opened(me, i)
           n == PgHandle(s, r).store
           copy == [me.copy EXCEPT ![i] = ReadTo(chat, last)]
           dead == [C!Off EXCEPT !.menu = "dead", !.why = "list"]
<1>1. me.menu = "main" /\ i \in DOMAIN me.copy /\ link[c] = "ok"
  BY FreshIs DEF OpenChat, C!OpenChat, C!In
<1>2. /\ DOMAIN me = ClientFields /\ s \in Store /\ Consistent(s)
      /\ u \in s.users /\ me.draft.tries = 0 /\ me.draft.members \subseteq s.users
      /\ ShowsAll(s, u, me.copy)
  <2>1. DOMAIN me = ClientFields /\ s \in Store /\ Consistent(s) /\ Agrees(s, me)
    BY <1>1, FreshIs
  <2>2. me.menu \in LoggedIn /\ me.menu # "draft"
    BY <1>1 DEF LoggedIn
  <2>. HIDE DEF me, s
  <2>. QED BY <2>1, <2>2 DEF Agrees
<1>3. \/ C!Is(c, dead) /\ C!NoRequest
      \/ ~C!ListFails(me.copy) /\ last = chat.read /\ C!NoRequest /\ C!Is(c, rec)
      \/ /\ ~C!ListFails(me.copy) /\ last # chat.read
         /\ \/ (C!Answered(c, r) \/ C!Unanswered(c, r)) /\ C!Is(c, rec)
            \/ C!Hangs(c, r)
  BY Zenon DEF OpenChat, C!OpenChat, C!Reported, C!Dies
<1>4. ~C!ListFails(me.copy) => chat.msgs # <<>>
  BY <1>1 DEF C!ListFails
<1>5. /\ r.type = "setLastRead" /\ r.message = last /\ r.login = u /\ r.chat = chat.id
      /\ r.type \in ChatRequests
  BY DEF C!RqSetLastRead, ChatRequests
<1>6. /\ rec.menu = "chat" /\ rec.user = u /\ rec.copy = copy
      /\ rec.draft = me.draft /\ rec.at = i
  <2>1. rec = [me EXCEPT !.menu = "chat", !.at = i,
                         !.copy = [me.copy EXCEPT ![i] = [me.copy[i] EXCEPT !.read = last]]]
    BY DEF C!Opened
  <2>2. copy = [me.copy EXCEPT ![i] = [me.copy[i] EXCEPT !.read = last]]
    BY Zenon DEF ReadTo
  <2>. HIDE DEF me, last, rec, copy
  <2>3. rec = [me EXCEPT !.menu = "chat", !.at = i, !.copy = copy]
    BY <2>1, <2>2
  <2>. QED BY <1>2, <2>3, Zenon DEF ClientFields, u
<1>7. dead.menu = "dead"
  BY DeadIs
<1>8. DOMAIN copy = DOMAIN me.copy
  OBVIOUS
<1>. HIDE DEF rec, dead, r, n
<1>9. ASSUME chat.msgs # <<>>
      PROVE  PgHandle(s, r).fate = "reply" /\ HasRead(s, n, u, chat.id, last)
  <2> DEFINE id == chat.id
  <2>1. Mirrors(s, u, chat)
    BY <1>1, <1>2 DEF ShowsAll
  <2>2. TakesPart(s, u, id) /\ IsMessageOf(s, last, id)
    <3>. HIDE DEF s, u
    <3>1. Mirrors(s, u, chat) /\ chat.msgs # <<>> /\ s \in Store
      BY <1>2, <1>9, <2>1
    <3>2. IsMessageOf(s, C!LastId(chat), chat.id)
      <4>. HIDE DEF chat
      <4>. QED BY <3>1, LastIs
    <3>3. last = C!LastId(chat)
      OBVIOUS
    <3>. HIDE DEF chat, last
    <3>. QED BY <3>1, <3>2, <3>3 DEF Mirrors
  <2>. HIDE DEF s, u, last, id
  <2>3. PgHandle(s, r).fate = "reply" /\ n = ReadMarked(s, u, id, last)
    BY <1>5, <2>2, SetLastReadRequest DEF n, id
  <2>. QED BY <1>2, <2>2, <2>3, ReadIs DEF id
<1>10. \A x : chat.msgs # <<>> /\ (HasRead(s, x, u, chat.id, last) \/ (last = chat.read /\ x = s))
                 => ShowsAll(x, u, copy)
  <2> DEFINE all == me.copy
  <2>1. ShowsAll(s, u, all) /\ i \in DOMAIN all /\ s \in Store
    BY <1>1, <1>2
  <2>2. last = C!LastId(all[i]) /\ chat = all[i]
    OBVIOUS
  <2>. HIDE DEF s, u, last, all
  <2>3. copy = [all EXCEPT ![i] = ReadTo(all[i], last)]
    BY DEF all
  <2>. HIDE DEF copy, chat
  <2>. QED BY <2>1, <2>2, <2>3, OpenedShows
<1>11. CASE C!Is(c, dead) /\ C!NoRequest
  <2>1. Goes(c, dead)
    BY <1>1, <1>5, <1>11, FreshGoes
  <2>. QED BY <1>7, <2>1, GoesFresh
<1>. HIDE DEF copy, chat, last, u
<1>12. CASE ~C!ListFails(me.copy) /\ last = chat.read /\ C!NoRequest /\ C!Is(c, rec)
  <2>1. Goes(c, rec) /\ server' = server
    BY <1>1, <1>5, <1>12, FreshGoes
  <2>2. ShowsAll(s, u, copy)
    BY <1>4, <1>10, <1>12
  <2>3. i \in DOMAIN copy
    BY <1>1, <1>8
  <2>. HIDE DEF me, s
  <2>4. Agrees(s, rec)
    BY <1>2, <1>6, <2>2, <2>3 DEF Agrees, LoggedIn
  <2>. QED BY <1>6, <2>1, <2>4, GoesFresh DEF LoggedIn, s
<1>13. CASE ~C!ListFails(me.copy) /\ (C!Answered(c, r) \/ C!Unanswered(c, r)) /\ C!Is(c, rec)
  <2>1. Goes(c, rec) /\ server'.store = n
    BY <1>1, <1>5, <1>13, FreshGoes DEF n
  <2>2. HasRead(s, n, u, chat.id, last)
    BY <1>4, <1>9, <1>13
  <2>3. ShowsAll(n, u, copy) /\ n.users = s.users
    BY <1>4, <1>10, <1>13, <2>2 DEF HasRead
  <2>4. i \in DOMAIN copy
    BY <1>1, <1>8
  <2>. HIDE DEF me, s
  <2>5. Agrees(n, rec)
    BY <1>2, <1>6, <2>3, <2>4 DEF Agrees, LoggedIn
  <2>. QED BY <1>6, <2>1, <2>5, GoesFresh DEF LoggedIn
<1>14. C!Hangs(c, r) => IsFresh(c)'
  BY <1>1, <1>5, FreshHangs
<1>. QED BY <1>3, <1>11, <1>12, <1>13, <1>14

\* The message gets its number, here and on the server.
LEMMA PostFresh ==
    ASSUME ServerInv, ClientsInv, NEW c \in Clients, IsFresh(c), Post(c), c \notin stale'
    PROVE  IsFresh(c)'
<1> DEFINE me == client[c]
           s == server.store
           u == me.user
           at == me.at
           chat == me.copy[at]
           r == C!RqCreateMessage(u, chat.id)
           id == C!Reply(r).body
           n == PgHandle(s, r).store
           copy == [me.copy EXCEPT ![at] = C!WithPost(chat, id, u)]
           rec == [me EXCEPT !.copy[at] = C!WithPost(@, id, me.user)]
<1>1. me.menu = "chat" /\ link[c] = "ok"
  BY FreshIs DEF Post, C!Post, C!In
<1>2. /\ DOMAIN me = ClientFields /\ s \in Store /\ Consistent(s)
      /\ u \in s.users /\ me.draft.tries = 0 /\ me.draft.members \subseteq s.users
      /\ ShowsAll(s, u, me.copy) /\ at \in DOMAIN me.copy
  <2>1. DOMAIN me = ClientFields /\ s \in Store /\ Consistent(s) /\ Agrees(s, me)
    BY <1>1, FreshIs
  <2>2. me.menu \in LoggedIn /\ me.menu # "draft"
    BY <1>1 DEF LoggedIn
  <2>3. me.menu = "chat"
    BY <1>1
  <2>. HIDE DEF me, s
  <2>. QED BY <2>1, <2>2, <2>3 DEF Agrees
<1>3. \/ C!Answered(c, r) /\ C!Is(c, rec)
      \/ C!Unanswered(c, r)
      \/ C!Hangs(c, r)
  BY Zenon DEF Post, C!Post
<1>4. r.type = "createMessage" /\ r.author = u /\ r.chat = chat.id /\ r.type \in ChatRequests
  BY RequestsAre DEF ChatRequests
<1>5. /\ rec.menu = me.menu /\ rec.user = u /\ rec.copy = copy /\ rec.draft = me.draft
      /\ rec.at = at
  <2>. HIDE DEF me, id
  <2>. QED BY <1>2, Zenon DEF ClientFields, u, at, chat
<1>6. DOMAIN copy = DOMAIN me.copy
  OBVIOUS
<1>7. LET new  == MessageAdded(s, u, chat.id, Now(s))
          next == Len(s.messages) + 1
      IN  /\ chat.id \in ChatIds(s) /\ u \in new.users
          /\ ShowsAll(new, u, [me.copy EXCEPT ![at] = C!WithPost(chat, next, u)])
  <2> DEFINE all == me.copy
  <2>1. s \in Store /\ Consistent(s) /\ u \in s.users /\ ShowsAll(s, u, all) /\ at \in DOMAIN all
    BY <1>2
  <2>. HIDE DEF s, u, at, all
  <2>2. LET new  == MessageAdded(s, u, all[at].id, Now(s))
            next == Len(s.messages) + 1
        IN  /\ all[at].id \in ChatIds(s) /\ u \in new.users
            /\ ShowsAll(new, u, [all EXCEPT ![at] = C!WithPost(all[at], next, u)])
    BY <2>1, PostShows
  <2>. QED BY <2>2 DEF all
<1>. HIDE DEF r, rec
<1>8. /\ PgHandle(s, r).fate = "reply" /\ PgHandle(s, r).body = Len(s.messages) + 1
      /\ n = MessageAdded(s, u, chat.id, Now(s))
  <2>1. chat.id \in ChatIds(s)
    BY <1>7
  <2>. HIDE DEF s, u, chat
  <2>. QED BY <1>2, <1>4, <2>1, CreateMessageRequest, SMTT(40)
<1>9. CASE C!Answered(c, r) /\ C!Is(c, rec)
  <2>1. Goes(c, rec) /\ server'.store = n /\ id = PgHandle(s, r).body
    BY <1>1, <1>4, <1>9, FreshGoes
  <2>2. u \in n.users /\ ShowsAll(n, u, copy)
    <3>1. id = Len(s.messages) + 1
      BY <1>8, <2>1
    <3>. HIDE DEF s, u, at, chat, id, n, me
    <3>. QED BY <1>7, <1>8, <3>1
  <2>3. me.menu = "chat"
    BY <1>1
  <2>. HIDE DEF s, u, me, n, copy
  <2>4. n.users = s.users
    <3>1. n = MessageAdded(s, u, chat.id, Now(s)) /\ chat.id \in ChatIds(s) /\ Now(s) \in Nat
      BY <1>2, <1>7, <1>8, NowIsNat DEF n
    <3>. QED BY <1>2, <3>1, MessageAddedRows
  <2>5. Agrees(n, rec)
    BY <1>2, <1>5, <1>6, <2>2, <2>3, <2>4 DEF Agrees, LoggedIn
  <2>. QED BY <1>5, <2>1, <2>3, <2>5, GoesFresh DEF LoggedIn
<1>10. ~C!Unanswered(c, r)
  <2>1. server.up /\ slot = c
    BY DEF IsFresh
  <2>. QED BY <1>1, <1>4, <1>8, <2>1, FreshAnswered
<1>. QED BY <1>1, <1>3, <1>4, <1>9, <1>10, FreshHangs, SMTT(40)

\* A client is fresh when it gets its chats.
LEMMA SignInFresh ==
    ASSUME ServerInv, ClientsInv, NEW c \in Clients, c \in stale, IsEmpty(client[c]),
           SignIn(c), c \notin stale'
    PROVE  IsFresh(c)'
<1> DEFINE me == client[c]
           s == server.store
           u == me.user
           r == C!RqRegister(u)
           body == C!Reply(r).body
           rec == C!SignedIn(c, body)
<1>1. me.menu = "signin" /\ DOMAIN me = ClientFields
  BY DEF SignIn, C!SignIn, C!In, ClientsInv, IsRecord
<1>2. C!Answered(c, r) /\ C!Is(c, rec)
  <2>1. ~C!Unanswered(c, r)
    BY DEF C!Unanswered
  <2>2. ~C!Hangs(c, r)
    BY DEF C!Hangs, C!ServerEnds, C!NoRequest
  <2>. QED BY <2>1, <2>2, Zenon DEF SignIn, C!SignIn
<1>3. r.type = "register" /\ r.login = u
  BY RequestsAre
<1>4. C!Served(c, r) /\ PgHandle(s, r).fate = "reply" /\ link' = [link EXCEPT ![c] = "ok"]
  BY <1>2 DEF C!Answered, C!Connected, C!Reply
<1>5. server.up /\ slot' = c
  BY <1>4 DEF C!Served, C!Reaches, C!Accepts
<1>6. body = C!ListOnServer(s, u)
  BY DEF C!ListOnServer, C!Reply
<1>7. C!Is(c, rec) /\ rec = [me EXCEPT !.menu = "loading", !.queue = body, !.known = @ \cup {me.user}]
  BY <1>2, Zenon DEF C!SignedIn
<1>. HIDE DEF r
<1>8. PgHandle(s, r).store = s /\ u \in s.users /\ s \in Store
  <2>1. s \in Store
    BY DEF ServerInv
  <2>. HIDE DEF s, u
  <2>. QED BY <1>3, <1>4, <2>1, RegisterRequest
<1>9. r.type \in RequestTypes /\ r.type # "createUser"
  BY <1>3 DEF RequestTypes
<1>10. server'.store = s /\ server'.up /\ link'[c] = "ok"
  BY <1>4, <1>5, <1>8, <1>9, ServedKeeps, ZenonT(40)
<1>. HIDE DEF rec, body
<1>11. client'[c] = rec
  BY <1>7, IsKeeps
<1>12. me.copy = <<>> /\ me.at = 0 /\ me.draft.members = {} /\ me.draft.tries = 0
  BY <1>1 DEF IsEmpty, LoggedOut, C!NoDraft
<1>13. /\ rec.menu = "loading" /\ rec.user = u /\ rec.copy = me.copy /\ rec.at = me.at
       /\ rec.draft = me.draft /\ rec.queue = body
  <2>. HIDE DEF me
  <2>. QED BY <1>1, <1>7, Zenon DEF ClientFields, u
<1>14. Len(body) \in Nat
  <2>. HIDE DEF s, u
  <2>. QED BY <1>6, <1>8, ServerListIs DEF IsSeq
<1>15. IsSeq(<<>>) /\ Len(<<>>) = 0 /\ DOMAIN <<>> = {}
  BY DEF IsSeq
<1>. HIDE DEF me, s, u
<1>16. StillToLoad(s, rec)
  BY <1>6, <1>12, <1>13, <1>14, <1>15 DEF StillToLoad
<1>17. Agrees(s, rec)
  BY <1>8, <1>12, <1>13, <1>16 DEF Agrees, LoggedIn
<1>18. Goes(c, rec)
  BY <1>5, <1>10, <1>11 DEF Goes
<1>. QED BY <1>10, <1>13, <1>17, <1>18, GoesFresh
-----------------------------------------------------------------------------
(* A step of one client, and what it leaves alone.                         *)

\* Whether client c asks for something, and gets an answer.
Asks(c, r) == \/ C!NoRequest
              \/ C!Answered(c, r) /\ (UNCHANGED stale \/ stale' = stale \ {c})
              \/ C!Unanswered(c, r) \/ C!Hangs(c, r) \/ Fails(c, r)

\* No client but c changes.
OnlyItself(c) == UNCHANGED client \/ \E rec : C!Is(c, rec)

\* No other client is logged in by it, and the server stays as it is for who is in the slot.
Apart(c) ==
    \A d \in Clients \ {c} :
        /\ client'[d] = client[d] /\ (d \in stale => d \in stale')
        /\ slot = d => server' = server /\ slot' = slot /\ link'[d] = link[d]

\* A client whose request is never answered changes no other client.
LEMMA HangsOnlyItself ==
    ASSUME NEW c, NEW r, C!Hangs(c, r)
    PROVE  OnlyItself(c)
  BY Zenon DEF C!Hangs, C!ServerEnds, C!Dies, OnlyItself

\* Whoever talks to the server leaves the others alone, and the server to who is in the slot.
LEMMA AskApart ==
    ASSUME ServerInv, ClientsInv, NEW c \in Clients, NEW r, Asks(c, r), OnlyItself(c)
    PROVE  Apart(c)
<1>. SUFFICES ASSUME NEW d \in Clients \ {c}
              PROVE  /\ client'[d] = client[d] /\ (d \in stale => d \in stale')
                     /\ slot = d => server' = server /\ slot' = slot /\ link'[d] = link[d]
  BY DEF Apart
<1>1. client'[d] = client[d]
  BY IsKeeps DEF OnlyItself
<1>2. d \in stale => d \in stale'
  BY DEF Asks, C!NoRequest, C!Unanswered, C!Hangs, C!ServerEnds, Fails
<1>3. ASSUME slot = d PROVE server' = server /\ slot' = slot /\ link'[d] = link[d]
  <2>1. ~C!Reaches(c)
    BY <1>3, PgClientsAssumption DEF C!Reaches, C!Accepts
  <2>2. \/ C!NoRequest
        \/ \E l : link' = [link EXCEPT ![c] = l] /\ UNCHANGED <<server, slot>>
    BY <2>1, Zenon DEF Asks, C!Answered, C!Unanswered, C!Hangs, C!Served, Fails
  <2>. QED BY <2>2 DEF C!NoRequest, ServerInv
<1>. QED BY <1>1, <1>2, <1>3

\* Whoever takes a step but these three talks to the server, or does without.
LEMMA StepAsks ==
    ASSUME NEW c \in Clients, EntranceStep(c) \/ ChatStep(c),
           ~(Launch(c) \/ Gone(c) \/ Logout(c))
    PROVE  (\E r : Asks(c, r)) /\ (c \in stale => c \in stale' \/ SignIn(c))
<1> DEFINE Done == (\E r : Asks(c, r)) /\ (c \in stale => c \in stale' \/ SignIn(c))
<1>1. ASSUME NEW r, C!NoRequest \/ (C!Answered(c, r) /\ UNCHANGED stale)
                    \/ C!Unanswered(c, r) \/ C!Hangs(c, r)
      PROVE  Done
  <2>1. Asks(c, r)
    BY <1>1, Zenon DEF Asks
  <2>2. c \in stale => c \in stale'
    BY <1>1 DEF C!NoRequest, C!Unanswered, C!Hangs, C!ServerEnds
  <2>. QED BY <2>1, <2>2
<1>. SUFFICES Done
  OBVIOUS
<1>2. CASE SignIn(c)
  BY <1>2, Zenon DEF SignIn, C!SignIn, Asks
<1>. HIDE DEF Done
<1>3. CASE Cancel(c) \/ LoadMessages(c) \/ GiveUp(c) \/ CloseChat(c)
  BY <1>1, <1>3, Zenon DEF Cancel, C!Cancel, LoadMessages, C!LoadMessages, GiveUp, C!GiveUp,
                           CloseChat, C!CloseChat
<1>4. CASE CreateUser(c)
  BY <1>1, <1>4, Zenon DEF CreateUser, C!CreateUser
<1>5. CASE CheckPassword(c)
  BY <1>1, <1>5, Zenon DEF CheckPassword, C!CheckPassword, C!PasswordRight
<1>6. CASE \E u \in Typed : NewLogin(c, u) \/ CheckLogin(c, u)
  BY <1>1, <1>6, Zenon DEF NewLogin, C!NewLogin, CheckLogin, C!CheckLogin, C!LoginTaken
<1>7. CASE LoadChat(c)
  BY <1>1, <1>7, Zenon DEF LoadChat, C!LoadChat
<1>8. ASSUME NEW text, NEW picked, NEW alone, Choose(c, text, picked, alone) PROVE Done
  BY <1>1, <1>8, Zenon DEF Choose
<1>9. CASE SendDraft(c)
  BY <1>1, <1>9, Zenon DEF SendDraft, C!SendDraft
<1>10. CASE \E i \in DOMAIN client[c].copy : OpenChat(c, i)
  BY <1>1, <1>10, Zenon DEF OpenChat, C!OpenChat, C!Reported
<1>11. CASE Post(c)
  BY <1>1, <1>11, Zenon DEF Post, C!Post
<1>. QED BY <1>2, <1>3, <1>4, <1>5, <1>6, <1>7, <1>8, <1>9, <1>10, <1>11
         DEF EntranceStep, ChatStep

\* No step changes two clients.
LEMMA StepOnlyItself ==
    ASSUME NEW c \in Clients, EntranceStep(c) \/ ChatStep(c)
    PROVE  OnlyItself(c)
<1>1. CASE Launch(c) \/ Gone(c) \/ Logout(c) \/ Cancel(c) \/ GiveUp(c) \/ CloseChat(c)
  BY <1>1, Zenon DEF Launch, C!Launch, Gone, C!Gone, Logout, C!Logout, Cancel, C!Cancel,
                     GiveUp, C!GiveUp, CloseChat, C!CloseChat, OnlyItself
<1>2. CASE LoadMessages(c)
  BY <1>2, Zenon DEF LoadMessages, C!LoadMessages, C!Dies, OnlyItself
<1>3. CASE CreateUser(c)
  BY <1>3, HangsOnlyItself, Zenon DEF CreateUser, C!CreateUser, C!Dies, OnlyItself
<1>4. CASE CheckPassword(c)
  BY <1>4, HangsOnlyItself, Zenon DEF CheckPassword, C!CheckPassword, C!PasswordRight,
                                 C!Untouched, OnlyItself
<1>5. CASE \E u \in Typed : NewLogin(c, u) \/ CheckLogin(c, u)
  BY <1>5, HangsOnlyItself, Zenon DEF NewLogin, C!NewLogin, CheckLogin, C!CheckLogin, C!LoginTaken,
                                 C!Untouched, OnlyItself
<1>6. CASE LoadChat(c)
  BY <1>6, HangsOnlyItself, Zenon DEF LoadChat, C!LoadChat, OnlyItself
<1>7. ASSUME NEW text, NEW picked, NEW alone, Choose(c, text, picked, alone) PROVE OnlyItself(c)
  BY <1>7, HangsOnlyItself, Zenon DEF Choose, C!Untouched, OnlyItself
<1>8. CASE SendDraft(c)
  BY <1>8, HangsOnlyItself, Zenon DEF SendDraft, C!SendDraft, OnlyItself
<1>9. CASE \E i \in DOMAIN client[c].copy : OpenChat(c, i)
  BY <1>9, HangsOnlyItself, Zenon DEF OpenChat, C!OpenChat, C!Reported, C!Dies, OnlyItself
<1>10. CASE Post(c)
  BY <1>10, HangsOnlyItself, Zenon DEF Post, C!Post, C!Untouched, OnlyItself
<1>11. CASE SignIn(c)
  BY <1>11, HangsOnlyItself, Zenon DEF SignIn, C!SignIn, C!Dies, OnlyItself
<1>. QED BY <1>1, <1>2, <1>3, <1>4, <1>5, <1>6, <1>7, <1>8, <1>9, <1>10, <1>11
         DEF EntranceStep, ChatStep

\* The other clients stay.
LEMMA StepApart ==
    ASSUME ServerInv, ClientsInv, NEW c \in Clients, EntranceStep(c) \/ ChatStep(c)
    PROVE  Apart(c)
<1>1. OnlyItself(c)
  BY StepOnlyItself
<1>2. CASE Launch(c) \/ Gone(c) \/ Logout(c)
  <2>. SUFFICES ASSUME NEW d \in Clients \ {c}
                PROVE  /\ client'[d] = client[d] /\ (d \in stale => d \in stale')
                       /\ slot = d => server' = server /\ slot' = slot /\ link'[d] = link[d]
    BY DEF Apart
  <2>1. client'[d] = client[d]
    BY <1>1, IsKeeps DEF OnlyItself
  <2>0. DOMAIN link = Clients
    BY DEF ServerInv
  <2>2. /\ server' = server /\ (slot' = slot \/ (slot = c /\ slot' = C!None))
        /\ stale \subseteq stale'
        /\ link' = link \/ \E l : link' = [link EXCEPT ![c] = l]
    BY <1>2 DEF Launch, C!Launch, Gone, C!Gone, Logout, C!Logout
  <2>3. link'[d] = link[d]
    BY <2>0, <2>2
  <2>. QED BY <2>1, <2>2, <2>3
<1>3. CASE ~(Launch(c) \/ Gone(c) \/ Logout(c))
  BY <1>1, <1>3, StepAsks, AskApart
<1>. QED BY <1>2, <1>3

\* The steps of a fresh client are those of the menus behind the login.
LEMMA FreshSteps ==
    ASSUME ServerInv, ClientsInv, NEW c \in Clients, IsFresh(c),
           EntranceStep(c) \/ ChatStep(c), c \notin stale'
    PROVE  IsFresh(c)'
<1>1. client[c].menu \in LoggedIn \cup {"loading", "dead"}
  BY DEF IsFresh
<1>2. ~(Gone(c) \/ Logout(c))
  BY SMTT(40) DEF Gone, C!Gone, Logout, C!Logout
<1>3. /\ ~Launch(c) /\ ~Cancel(c) /\ ~CreateUser(c) /\ ~CheckPassword(c) /\ ~SignIn(c)
      /\ ~\E u \in Typed : NewLogin(c, u) \/ CheckLogin(c, u)
  BY <1>1 DEF Launch, C!Launch, Cancel, C!Cancel, CreateUser, C!CreateUser,
              CheckPassword, C!CheckPassword, SignIn, C!SignIn, NewLogin, C!NewLogin,
              CheckLogin, C!CheckLogin, C!In, LoggedIn
<1>4. ChatStep(c)
  BY <1>2, <1>3 DEF EntranceStep
<1>. QED BY <1>2, <1>4, LoadChatFresh, LoadMessagesFresh, ChooseFresh, SendDraftFresh,
         QuietFresh, OpenChatFresh, PostFresh DEF ChatStep
-----------------------------------------------------------------------------
(* Who is logged out has nothing left of a login.                          *)

\* Of every client.
Empties == \A c \in Clients : IsEmpty(client[c])

\* Client c, if it changes, is empty or goes to a menu behind the login.
Settles(c) == UNCHANGED client \/ \E rec : C!Is(c, rec) /\ IsEmpty(rec)

\* A change of this kind leaves them all empty.
LEMMA SettlesIs ==
    ASSUME ClientsInv, Empties, NEW c \in Clients, Settles(c)
    PROVE  Empties'
<1>1. CASE UNCHANGED client
  BY <1>1 DEF Empties
<1>2. ASSUME NEW rec, C!Is(c, rec), IsEmpty(rec) PROVE Empties'
  <2>1. client'[c] = rec /\ \A d \in Clients \ {c} : client'[d] = client[d]
    BY <1>2, IsKeeps
  <2>. QED BY <1>2, <2>1 DEF Empties
<1>. QED BY <1>1, <1>2 DEF Settles

\* A new process, and one that has died.
LEMMA OffIsEmpty ==
    /\ IsEmpty(C!Off) /\ IsEmpty([C!Off EXCEPT !.menu = "entrance"])
    /\ \A why : IsEmpty([C!Off EXCEPT !.menu = "dead", !.why = why])
<1> DEFINE off == C!Off
           entrance == [off EXCEPT !.menu = "entrance"]
<1>1. DOMAIN off = ClientFields /\ off.copy = <<>> /\ off.at = 0 /\ off.draft = C!NoDraft
  BY OffIsRecord DEF IsRecord, C!Off
<1>2. \A why : IsEmpty([off EXCEPT !.menu = "dead", !.why = why])
  BY DeadIs DEF IsEmpty, LoggedOut
<1>. HIDE DEF off
<1>3. entrance.copy = off.copy /\ entrance.at = off.at /\ entrance.draft = off.draft
  BY <1>1, Zenon DEF ClientFields
<1>. HIDE DEF entrance
<1>4. IsEmpty(off) /\ IsEmpty(entrance)
  BY <1>1, <1>3 DEF IsEmpty
<1>. QED BY <1>2, <1>4, Zenon DEF off, entrance

\* A client that dies has nothing left.
LEMMA DiesSettles ==
    ASSUME NEW c, NEW why, C!Dies(c, why)
    PROVE  Settles(c)
  BY OffIsEmpty, Zenon DEF C!Dies, Settles

\* Nor has one whose server is gone.
LEMMA HangsSettles ==
    ASSUME NEW c, NEW r, C!Hangs(c, r)
    PROVE  Settles(c)
<1>1. UNCHANGED client \/ C!Dies(c, "pipe")
  BY Zenon DEF C!Hangs, C!ServerEnds
<1>. QED BY <1>1, DiesSettles, Zenon DEF Settles

\* The steps before the login change no more than the menu, the user and who is known.
LEMMA EntranceSettles ==
    ASSUME ClientsInv, Empties, NEW c \in Clients, EntranceStep(c)
    PROVE  Settles(c)
<1> DEFINE me == client[c]
<1>1. DOMAIN me = ClientFields /\ IsEmpty(me)
  BY DEF ClientsInv, IsRecord, Empties
<1>2. ASSUME me.menu \in LoggedOut, NEW rec, C!Is(c, rec),
             rec.copy = me.copy, rec.at = me.at, rec.draft = me.draft
      PROVE  Settles(c)
  <2>1. IsEmpty(rec)
    BY <1>1, <1>2 DEF IsEmpty
  <2>. QED BY <1>2, <2>1, Zenon DEF Settles
<1>3. CASE Launch(c) \/ Gone(c)
  BY <1>3, OffIsEmpty, Zenon DEF Launch, C!Launch, Gone, C!Gone, Settles
<1>4. CASE Cancel(c)
  <2> DEFINE rec == [me EXCEPT !.menu = "entrance", !.user = C!None]
  <2>1. me.menu \in LoggedOut
    BY <1>4 DEF Cancel, C!Cancel, C!In, LoggedOut
  <2>2. C!Is(c, rec)
    BY <1>4, Zenon DEF Cancel, C!Cancel
  <2>. HIDE DEF me
  <2>3. rec.copy = me.copy /\ rec.at = me.at /\ rec.draft = me.draft
    BY <1>1, Zenon DEF ClientFields
  <2>. HIDE DEF rec
  <2>. QED BY <1>2, <2>1, <2>2, <2>3
<1>5. CASE CreateUser(c)
  <2> DEFINE r == C!RqCreateUser(me.user)
             known == IF C!Reply(r).body THEN me.known \cup {me.user} ELSE me.known
             rec == [me EXCEPT !.menu = "entrance", !.user = C!None, !.known = known]
  <2>1. me.menu \in LoggedOut
    BY <1>5 DEF CreateUser, C!CreateUser, C!In, LoggedOut
  <2>2. C!Is(c, rec) \/ C!Dies(c, "answer") \/ C!Hangs(c, r)
    BY <1>5, Zenon DEF CreateUser, C!CreateUser
  <2>. HIDE DEF r, known, me
  <2>3. rec.copy = me.copy /\ rec.at = me.at /\ rec.draft = me.draft
    BY <1>1, Zenon DEF ClientFields
  <2>. HIDE DEF rec
  <2>. QED BY <1>2, <2>1, <2>2, <2>3, DiesSettles, HangsSettles
<1>6. CASE CheckPassword(c)
  <2> DEFINE r == C!RqCheckPassword(me.user)
             rec == [me EXCEPT !.menu = "signin"]
  <2>1. me.menu \in LoggedOut
    BY <1>6 DEF CheckPassword, C!CheckPassword, C!In, LoggedOut
  <2>2. C!Is(c, rec) \/ UNCHANGED client \/ C!Hangs(c, r)
    BY <1>6, Zenon DEF CheckPassword, C!CheckPassword, C!PasswordRight, C!Untouched
  <2>. HIDE DEF r, me
  <2>3. rec.copy = me.copy /\ rec.at = me.at /\ rec.draft = me.draft
    BY <1>1, Zenon DEF ClientFields
  <2>. HIDE DEF rec
  <2>. QED BY <1>2, <2>1, <2>2, <2>3, HangsSettles DEF Settles
<1>7. ASSUME NEW u \in Typed, NewLogin(c, u) \/ CheckLogin(c, u) PROVE Settles(c)
  <2> DEFINE r == C!RqCheckLogin(u)
             new == [me EXCEPT !.menu = "signup", !.user = u]
             old == [me EXCEPT !.menu = "password", !.user = u]
  <2>1. me.menu \in LoggedOut
    BY <1>7 DEF NewLogin, C!NewLogin, CheckLogin, C!CheckLogin, C!In, LoggedOut
  <2>2. C!Is(c, new) \/ C!Is(c, old) \/ UNCHANGED client \/ C!Hangs(c, r)
    BY <1>7, Zenon DEF NewLogin, C!NewLogin, CheckLogin, C!CheckLogin, C!LoginTaken, C!Untouched
  <2>. HIDE DEF r, me
  <2>3. /\ new.copy = me.copy /\ new.at = me.at /\ new.draft = me.draft
        /\ old.copy = me.copy /\ old.at = me.at /\ old.draft = me.draft
    BY <1>1, Zenon DEF ClientFields
  <2>. HIDE DEF new, old
  <2>. QED BY <1>2, <2>1, <2>2, <2>3, HangsSettles DEF Settles
<1>8. CASE SignIn(c)
  <2> DEFINE r == C!RqRegister(me.user)
             rec == C!SignedIn(c, C!Reply(r).body)
             body == C!Reply(r).body
  <2>1. C!Is(c, rec) \/ C!Dies(c, "nobody") \/ C!Hangs(c, r)
    BY <1>8, Zenon DEF SignIn, C!SignIn
  <2>2. rec = [me EXCEPT !.menu = "loading", !.queue = body, !.known = @ \cup {me.user}]
    BY Zenon DEF C!SignedIn
  <2>. HIDE DEF r, rec, me, body
  <2>3. rec.menu = "loading"
    BY <1>1, <2>2, Zenon DEF ClientFields
  <2>4. IsEmpty(rec)
    BY <2>3 DEF IsEmpty, LoggedOut
  <2>5. C!Is(c, rec) => Settles(c)
    BY <2>4, Zenon DEF Settles
  <2>. QED BY <2>1, <2>5, DiesSettles, HangsSettles
<1>. QED BY <1>3, <1>4, <1>5, <1>6, <1>7, <1>8 DEF EntranceStep

\* The steps behind the login stay there, but for the logout.
LEMMA ChatSettles ==
    ASSUME ClientsInv, NEW c \in Clients, ChatStep(c)
    PROVE  Settles(c)
<1> DEFINE me == client[c]
<1>1. DOMAIN me = ClientFields
  BY DEF ClientsInv, IsRecord
<1>2. ASSUME NEW rec, C!Is(c, rec), rec.menu \in LoggedIn \cup {"loading"} PROVE Settles(c)
  <2>1. IsEmpty(rec)
    BY <1>2 DEF LoggedIn, LoggedOut, IsEmpty
  <2>. QED BY <1>2, <2>1, Zenon DEF Settles
<1>3. CASE Logout(c)
  BY <1>3, OffIsEmpty, Zenon DEF Logout, C!Logout, Settles
<1>4. CASE LoadChat(c)
  <2> DEFINE missing == me.queue[me.at + 1].members \ me.known
             more == me.known \cup missing
             r == C!RqGetUsers(missing)
  <2>1. me.menu = "loading"
    BY <1>4 DEF LoadChat, C!LoadChat, C!In
  <2>2. \/ C!Is(c, C!ChatLoaded(c, me.known)) \/ C!Is(c, C!ChatLoaded(c, more))
        \/ C!Hangs(c, r)
    BY <1>4, Zenon DEF LoadChat, C!LoadChat
  <2>3. \A known : C!ChatLoaded(c, known).menu = me.menu
    <3>. SUFFICES ASSUME NEW known PROVE C!ChatLoaded(c, known).menu = me.menu
      OBVIOUS
    <3> DEFINE chat == me.queue[me.at + 1]
               copy == C!CopyChat(chat.id, chat.members \cap known, chat.read, <<>>, <<>>)
               rec == C!ChatLoaded(c, known)
    <3>1. rec = [me EXCEPT !.at = @ + 1, !.known = known, !.copy = Append(@, copy)]
      BY Zenon DEF C!ChatLoaded
    <3>. HIDE DEF me, rec, copy
    <3>2. rec.menu = me.menu
      BY <1>1, <3>1, Zenon DEF ClientFields
    <3>. QED BY <3>2 DEF rec
  <2>. HIDE DEF more, r, me
  <2>. QED BY <1>2, <2>1, <2>2, <2>3, HangsSettles, SMTT(40)
<1>5. CASE LoadMessages(c)
  <2> DEFINE filled == [i \in DOMAIN me.copy |-> C!Filled(me.copy[i], me.queue[i].msgs, me.user)]
             rec == [me EXCEPT !.menu = "main", !.queue = <<>>, !.at = 0, !.copy = filled]
  <2>1. C!Is(c, rec) \/ C!Dies(c, "sender")
    BY <1>5, Zenon DEF LoadMessages, C!LoadMessages
  <2>. HIDE DEF filled, me
  <2>2. rec.menu = "main"
    BY <1>1, Zenon DEF ClientFields
  <2>. HIDE DEF rec
  <2>. QED BY <1>2, <2>1, <2>2, DiesSettles DEF LoggedIn
<1>6. ASSUME NEW text, NEW picked, NEW alone, Choose(c, text, picked, alone) PROVE Settles(c)
  <2> DEFINE r == C!RqFindUserByPart(me.user, text)
             members == picked \cup (IF alone THEN {me.user} ELSE {})
             rec == [me EXCEPT !.menu = "draft", !.known = @ \cup picked,
                               !.draft.alone = alone, !.draft.members = members]
  <2>1. C!Is(c, rec) \/ UNCHANGED client \/ C!Hangs(c, r)
    BY <1>6, Zenon DEF Choose, C!Untouched
  <2>. HIDE DEF r, members, me
  <2>2. rec.menu = "draft"
    BY <1>1, Zenon DEF ClientFields
  <2>. HIDE DEF rec
  <2>. QED BY <1>2, <2>1, <2>2, HangsSettles DEF LoggedIn, Settles
<1>7. CASE SendDraft(c)
  <2> DEFINE r == C!RqCreateChat(me.user, me.draft)
             chat == C!Sent(me.draft, me.user, C!Reply(r).body)
             sent == [me EXCEPT !.menu = "main", !.draft = C!NoDraft, !.copy = Append(@, chat)]
             again == [me EXCEPT !.draft.tries = @ + 1]
  <2>1. me.menu = "draft"
    BY <1>7 DEF SendDraft, C!SendDraft, C!In
  <2>2. C!Is(c, sent) \/ C!Is(c, again) \/ C!Hangs(c, r)
    BY <1>7, Zenon DEF SendDraft, C!SendDraft
  <2>. HIDE DEF r, chat, me
  <2>3. sent.menu = "main" /\ again.menu = me.menu
    BY <1>1, Zenon DEF ClientFields
  <2>. HIDE DEF sent, again
  <2>. QED BY <1>2, <2>1, <2>2, <2>3, HangsSettles DEF LoggedIn
<1>8. CASE GiveUp(c) \/ CloseChat(c)
  <2> DEFINE given == [me EXCEPT !.menu = "main", !.draft = C!NoDraft]
             closed == [me EXCEPT !.menu = "main", !.at = 0]
  <2>1. C!Is(c, given) \/ C!Is(c, closed)
    BY <1>8, Zenon DEF GiveUp, C!GiveUp, CloseChat, C!CloseChat
  <2>. HIDE DEF me
  <2>2. given.menu = "main" /\ closed.menu = "main"
    BY <1>1, Zenon DEF ClientFields
  <2>. HIDE DEF given, closed
  <2>. QED BY <1>2, <2>1, <2>2 DEF LoggedIn
<1>9. ASSUME NEW i, OpenChat(c, i) PROVE Settles(c)
  <2> DEFINE last == C!LastId(me.copy[i])
             r == C!RqSetLastRead(me.user, me.copy[i].id, last)
             rec == C!Opened(me, i)
             copy == [me.copy EXCEPT ![i] = [me.copy[i] EXCEPT !.read = last]]
  <2>1. C!Is(c, rec) \/ C!Dies(c, "list") \/ C!Hangs(c, r)
    BY <1>9, Zenon DEF OpenChat, C!OpenChat, C!Reported
  <2>2. rec = [me EXCEPT !.menu = "chat", !.at = i, !.copy = copy]
    BY DEF C!Opened
  <2>. HIDE DEF r, rec, copy, me
  <2>3. rec.menu = "chat"
    BY <1>1, <2>2, Zenon DEF ClientFields
  <2>. QED BY <1>2, <2>1, <2>3, DiesSettles, HangsSettles DEF LoggedIn
<1>10. CASE Post(c)
  <2> DEFINE r == C!RqCreateMessage(me.user, me.copy[me.at].id)
             rec == [me EXCEPT !.copy[me.at] = C!WithPost(@, C!Reply(r).body, me.user)]
  <2>1. me.menu = "chat"
    BY <1>10 DEF Post, C!Post, C!In
  <2>2. C!Is(c, rec) \/ UNCHANGED client \/ C!Hangs(c, r)
    BY <1>10, Zenon DEF Post, C!Post, C!Untouched
  <2>. HIDE DEF r, me
  <2>3. rec.menu = me.menu
    BY <1>1, Zenon DEF ClientFields
  <2>. HIDE DEF rec
  <2>. QED BY <1>2, <2>1, <2>2, <2>3, HangsSettles DEF LoggedIn, Settles
<1>. QED BY <1>3, <1>4, <1>5, <1>6, <1>7, <1>8, <1>9, <1>10 DEF ChatStep

\* A client for which a statement fails stays on its side of the login, or is let in.
LEMMA FailedSettles ==
    ASSUME ClientsInv, Empties, NEW c \in Clients, FailedStep(c)
    PROVE  Settles(c)
<1> DEFINE me == client[c]
<1>1. DOMAIN me = ClientFields /\ DOMAIN me.draft = DraftFields /\ IsEmpty(me)
  BY DEF ClientsInv, IsRecord, Empties
<1>2. ASSUME NEW rec, C!Is(c, rec), rec.menu \in LoggedIn \cup {"loading"} PROVE Settles(c)
  <2>1. IsEmpty(rec)
    BY <1>2 DEF LoggedIn, LoggedOut, IsEmpty
  <2>. QED BY <1>2, <2>1, Zenon DEF Settles
<1>3. CASE EntranceFails(c)
  <2>1. ASSUME NEW menu, NEW u, me.menu \in LoggedOut,
               C!Is(c, [me EXCEPT !.menu = menu, !.user = u])
        PROVE  Settles(c)
    <3> DEFINE rec == [me EXCEPT !.menu = menu, !.user = u]
    <3>1. C!Is(c, rec)
      BY <2>1
    <3>. HIDE DEF me
    <3>2. rec.copy = me.copy /\ rec.at = me.at /\ rec.draft = me.draft
      BY <1>1, Zenon DEF ClientFields
    <3>. HIDE DEF rec
    <3>3. IsEmpty(rec)
      BY <1>1, <2>1, <3>2 DEF IsEmpty
    <3>. QED BY <3>1, <3>3, Zenon DEF Settles
  <2>2. me.menu \in LoggedOut
    BY <1>3, Zenon DEF EntranceFails, C!In, LoggedOut
  <2>. QED BY <1>3, <2>1, <2>2, Zenon DEF EntranceFails, C!Untouched, Settles
<1>4. CASE SignInPartly(c)
  <2>1. PICK packets : C!Is(c, C!SignedIn(c, packets))
    BY <1>4 DEF SignInPartly
  <2> DEFINE rec == C!SignedIn(c, packets)
  <2>2. rec = [me EXCEPT !.menu = "loading", !.queue = packets, !.known = @ \cup {me.user}]
    BY Zenon DEF C!SignedIn
  <2>. HIDE DEF me, rec
  <2>3. rec.menu = "loading"
    BY <1>1, <2>2, ZenonT(40) DEF ClientFields
  <2>. QED BY <1>2, <2>1, <2>3 DEF rec
<1>5. CASE ChatFails(c)
  <2>1. CASE me.menu = "draft" /\ C!Is(c, [me EXCEPT !.draft.tries = @ + 1])
    <3> DEFINE rec == [me EXCEPT !.draft.tries = @ + 1]
    <3>1. C!Is(c, rec)
      BY <2>1
    <3>. HIDE DEF me
    <3>2. rec.menu = me.menu
      BY <1>1, Zenon DEF ClientFields
    <3>. HIDE DEF rec
    <3>. QED BY <1>2, <2>1, <3>1, <3>2 DEF LoggedIn
  <2>2. ASSUME NEW i, C!Is(c, C!Opened(me, i)) PROVE Settles(c)
    <3> DEFINE rec == C!Opened(me, i)
               copy == [me.copy EXCEPT ![i] = [me.copy[i] EXCEPT !.read = C!LastId(me.copy[i])]]
    <3>1. C!Is(c, rec)
      BY <2>2
    <3>2. rec = [me EXCEPT !.menu = "chat", !.at = i, !.copy = copy]
      BY DEF C!Opened
    <3>. HIDE DEF rec, copy, me
    <3>3. rec.menu = "chat"
      BY <1>1, <3>2, Zenon DEF ClientFields
    <3>. QED BY <1>2, <3>1, <3>3 DEF LoggedIn
  <2>. QED BY <1>5, <2>1, <2>2 DEF ChatFails, C!In, C!Untouched, Settles
<1>. QED BY <1>3, <1>4, <1>5 DEF FailedStep

\* It leaves the other clients alone, and is not one that was served without fail.
LEMMA FailedApart ==
    ASSUME ServerInv, ClientsInv, FreshInv, NEW c \in Clients, FailedStep(c)
    PROVE  Apart(c) /\ c \in stale'
<1>1. OnlyItself(c)
  <2>1. EntranceFails(c) => OnlyItself(c)
    BY Zenon DEF EntranceFails, C!Untouched, OnlyItself
  <2>2. SignInPartly(c) => OnlyItself(c)
    BY Zenon DEF SignInPartly, OnlyItself
  <2>3. ChatFails(c) => OnlyItself(c)
    BY Zenon DEF ChatFails, C!Untouched, OnlyItself
  <2>. QED BY <2>1, <2>2, <2>3 DEF FailedStep
<1>2. CASE SignInPartly(c)
  <2>1. Asks(c, C!RqRegister(client[c].user)) /\ stale' = stale
    BY <1>2 DEF SignInPartly, Asks
  <2>2. c \in stale
    BY <1>2 DEF SignInPartly, C!In, FreshInv, IsFresh, LoggedIn
  <2>. QED BY <1>1, <2>1, <2>2, AskApart
<1>3. CASE EntranceFails(c) \/ ChatFails(c)
  <2>1. PICK r : Fails(c, r)
    BY <1>3, Zenon DEF EntranceFails, ChatFails
  <2>2. Asks(c, r) /\ c \in stale'
    BY <2>1 DEF Asks, Fails
  <2>. QED BY <1>1, <2>2, AskApart
<1>. QED BY <1>2, <1>3 DEF FailedStep

-----------------------------------------------------------------------------

\* Each step keeps FreshInv.
LEMMA EveryStepFresh ==
    ASSUME ServerInv, ClientsInv, FreshInv, [Next]_vars
    PROVE  FreshInv'
<1>1. CASE UNCHANGED vars
  BY <1>1 DEF vars, FreshInv, IsFresh
<1>2. CASE Stop
  BY <1>2 DEF Stop, C!Stop, C!ServerEnds, FreshInv
<1>3. CASE Start
  BY <1>3 DEF Start, C!Start, FreshInv, IsFresh
<1>4. ASSUME NEW c \in Clients, EntranceStep(c) \/ ChatStep(c)
      PROVE  FreshInv'
  <2>0. Empties
    BY DEF FreshInv, Empties
  <2>1. Apart(c)
    BY <1>4, StepApart
  <2>2. c \notin stale' => IsFresh(c)'
    <3>1. CASE c \in stale
      <4>1. c \notin stale' => SignIn(c)
        <5>1. Gone(c) \/ Launch(c) \/ Logout(c) => c \in stale'
          BY <3>1 DEF Gone, C!Gone, Launch, C!Launch, Logout, C!Logout
        <5>. QED BY <1>4, <3>1, <5>1, StepAsks
      <4>. QED BY <2>0, <3>1, <4>1, SignInFresh DEF Empties
    <3>2. CASE c \notin stale
      BY <1>4, <3>2, FreshSteps DEF FreshInv
    <3>. QED BY <3>1, <3>2
  <2>3. \A d \in Clients \ {c} : d \notin stale' => IsFresh(d)'
    BY <2>1 DEF Apart, FreshInv, IsFresh
  <2>4. Empties'
    BY <1>4, <2>0, EntranceSettles, ChatSettles, SettlesIs
  <2>. QED BY <2>2, <2>3, <2>4 DEF FreshInv, Empties
<1>5. ASSUME NEW c \in Clients, FailedStep(c)
      PROVE  FreshInv'
  <2>0. Empties
    BY DEF FreshInv, Empties
  <2>1. Apart(c) /\ c \in stale'
    BY <1>5, FailedApart
  <2>2. \A d \in Clients \ {c} : d \notin stale' => IsFresh(d)'
    BY <2>1 DEF Apart, FreshInv, IsFresh
  <2>3. Empties'
    BY <1>5, <2>0, FailedSettles, SettlesIs
  <2>. QED BY <2>1, <2>2, <2>3 DEF FreshInv, Empties
<1>. QED BY <1>1, <1>2, <1>3, <1>4, <1>5 DEF Next

\* A client that logged in to the server as it runs, and of whose statements none has
\* failed since, shows the user's chats as the database has them, with all messages in
\* their order; and it counts as unread at least what others wrote after the user's read
\* pointer and last message.
THEOREM CopiesStayFaithful == Spec => []CopiesFaithful
<1>1. Init => FreshInv
  <2>1. IsEmpty(C!Off)
    BY OffIsEmpty, Zenon
  <2>. QED BY <2>1 DEF Init, C!Init, FreshInv
<1>2. PgInv /\ FreshInv /\ [Next]_vars => FreshInv'
  BY EveryStepFresh DEF PgInv
<1>3. PgInv /\ FreshInv => CopiesFaithful
  BY FreshIsFaithful DEF PgInv
<1>. QED BY <1>1, <1>2, <1>3, PgInvariant, PTL DEF Spec
=============================================================================
