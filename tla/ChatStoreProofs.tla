--------------------------- MODULE ChatStoreProofs ---------------------------
(***************************************************************************)
(* Inv is an invariant of ChatStore for every set of logins, every seed    *)
(* that is consistent, and any bounds; and requests do to the messages     *)
(* that are stored nothing but mark them as read for who sent the request. *)
(* The work is done statement by statement in Lemmas; here are the ways a  *)
(* request can end.                                                        *)
(***************************************************************************)
EXTENDS ChatStore, Lemmas

(* How a request may end, for any statement that leaves a good database.   *)
Good(s) == s \in Store /\ Consistent(s)

\* Whether or not the process is killed before it has answered.
LEMMA FinishKeepsTypes ==
    ASSUME NEW op \in Operations, NEW u \in Logins, NEW result \in Results,
           Finish(op, u, result)
    PROVE  /\ last' \in [op : Operations, user : Logins, result : Results]
           /\ up' \in BOOLEAN
<1>1. PICK r \in {result, "crash"} : /\ last' = [op |-> op, user |-> u, result |-> r]
                                    /\ up' = (r # "crash")
  BY Zenon DEF Finish
<1>2. r \in Results
  BY DEF Results
<1>3. (r # "crash") \in BOOLEAN
  OBVIOUS
<1>. QED BY <1>1, <1>2, <1>3

LEMMA CarryKeepsInv ==
    ASSUME Inv, NEW op \in Operations, NEW u \in Logins, NEW s, Good(s),
           NEW result \in Results, Carry(op, u, s, result)
    PROVE  Inv'
<1>1. db' = s /\ linked' \in BOOLEAN
  BY DEF Carry, Inv, TypeOK
<1>2. /\ last' \in [op : Operations, user : Logins, result : Results]
      /\ up' \in BOOLEAN
  BY FinishKeepsTypes DEF Carry
<1>. QED BY <1>1, <1>2 DEF Inv, TypeOK, Good

LEMMA FailKeepsInv ==
    ASSUME Inv, NEW op \in Operations, NEW u \in Logins, NEW s, Good(s),
           NEW result \in Results, Fail(op, u, s, result)
    PROVE  Inv'
<1>1. db' \in {db, s} /\ linked' \in BOOLEAN
  BY DEF Fail, Inv, TypeOK
<1>2. /\ last' \in [op : Operations, user : Logins, result : Results]
      /\ up' \in BOOLEAN
  BY FinishKeepsTypes DEF Fail
<1>3. db' \in Store /\ Consistent(db')
  BY <1>1 DEF Inv, TypeOK, Good
<1>. QED BY <1>1, <1>2, <1>3 DEF Inv, TypeOK

LEMMA RequestersAreLogins == Requesters \subseteq Logins /\ Stamps \subseteq Nat
  BY StoreAssumption DEF Stamps

\* The invariant: status rows complete, pointers read, nothing hidden behind
\* them, whatever requests arrive, fail, or stop the server.
THEOREM StoreInvariant == Spec => []Inv
<1>1. Init => Inv
  BY EmptyConsistent, RequestersAreLogins DEF Init, Inv, TypeOK, Operations, Results
<1>2. ASSUME Inv, [Next]_vars PROVE Inv'
  <2>. db \in Store /\ Consistent(db) /\ Good(db)
    BY <1>2 DEF Inv, TypeOK, Good
  <2>. USE RequestersAreLogins DEF Operations, Results
  <2>1. ASSUME NEW u \in Requesters, CreateUser(u) PROVE Inv'
    <3>1. Good(UserAdded(db, u))
      BY UserAddedConsistent DEF Good
    <3>. QED BY <1>2, <2>1, <3>1, CarryKeepsInv, FailKeepsInv DEF CreateUser
  <2>2. ASSUME NEW u \in Requesters, NEW list \in SUBSET Logins, NEW t \in Stamps,
               CreateChat(u, list, t)
        PROVE  Inv'
    <3>1. u \in db.users => Good(ChatAdded(db, u, list, t))
      BY ChatAddedConsistent DEF Good
    <3>2. Good(OrphanChatAdded(db))
      BY OrphanChatConsistent DEF Good
    <3>. QED BY <1>2, <2>2, <3>1, <3>2, CarryKeepsInv, FailKeepsInv DEF CreateChat
  <2>3. ASSUME NEW u \in Requesters, NEW c \in 1 .. MaxChats, NEW t \in Stamps,
               CreateMessage(u, c, t)
        PROVE  Inv'
    <3>1. u \in db.users /\ c \in ChatIds(db) => Good(MessageAdded(db, u, c, t))
      BY MessageAddedConsistent DEF Good
    <3>. QED BY <1>2, <2>3, <3>1, CarryKeepsInv, FailKeepsInv DEF CreateMessage
  <2>4. ASSUME NEW u \in Requesters, NEW c \in 1 .. MaxChats, NEW m \in 0 .. MaxMessages,
               SetLastRead(u, c, m)
        PROVE  Inv'
    <3>1. (TakesPart(db, u, c) => IsMessageOf(db, m, c)) => Good(ReadMarked(db, u, c, m))
      BY ReadMarkedConsistent DEF Good
    <3>. QED BY <1>2, <2>4, <3>1, CarryKeepsInv, FailKeepsInv DEF SetLastRead
  <2>5. ASSUME NEW u \in Requesters, InitDatabase(u) PROVE Inv'
    <3>1. \A s \in {EmptyStore} \cup FirstSeeds \cup FullSeeds : Good(s)
      BY EmptyConsistent, StoreAssumption DEF Good
    <3>. QED BY <1>2, <2>5, <3>1, CarryKeepsInv, FailKeepsInv DEF InitDatabase
  <2>6. CASE Restart
    BY <1>2, <2>6 DEF Restart, Inv, TypeOK
  <2>7. CASE UNCHANGED vars
    BY <1>2, <2>7 DEF vars, Inv, TypeOK
  <2>. QED BY <1>2, <2>1, <2>2, <2>3, <2>4, <2>5, <2>6, <2>7 DEF Next
<1>. QED BY <1>1, <1>2, PTL DEF Spec

\* The variables of the store keep their types.
COROLLARY Typing == Spec => []TypeOK
  BY StoreInvariant, PTL DEF Inv

\* Every message has the status rows of its chat's participants and its sender:
\* CreateMessageSQL and CreateChatWithInitialMessageSQL leave nobody out.
COROLLARY StatusRowsInvariant == Spec => []StatusRows
<1>1. Inv => StatusRows
  BY DEF Inv, Consistent, StatusRows
<1>. QED BY <1>1, StoreInvariant, PTL

\* last_read_message_id is a message of the same chat that its owner has read,
\* whatever ids SetLastReadMessage requests carry.
COROLLARY PointersInvariant == Spec => []Pointers
<1>1. Inv => Pointers
  BY DEF Inv, Consistent, Pointers
<1>. QED BY <1>1, StoreInvariant, PTL

\* Clock skew cannot hide an unread message that was already stored.
COROLLARY NothingHiddenInvariant == Spec => []NothingHidden
<1>1. Inv => NothingHidden
  BY DEF Inv, Consistent, NothingHidden
<1>. QED BY <1>1, StoreInvariant, PTL

-----------------------------------------------------------------------------
\* A failed or unanswered request of a process that goes on, with PostgreSQL
\* still there, has changed nothing.
THEOREM FailureTheorem == Spec => FailureHasNoEffect
<1>1. ASSUME Inv, [Next]_vars,
             last'.result \in {"failed", "silence"}, last'.op # "InitDatabase", linked'
      PROVE  db' = db
  <2>1. ASSUME NEW op, NEW u, NEW s, NEW result, Fail(op, u, s, result)
        PROVE  db' = db
    BY <1>1, <2>1 DEF Fail
  <2>2. ASSUME NEW op, NEW u, NEW s, NEW result, Carry(op, u, s, result),
               result \notin {"failed", "silence"} \/ op = "InitDatabase"
        PROVE  db' = db
    BY <1>1, <2>2 DEF Carry, Finish
  <2>3. ASSUME NEW u \in Requesters, CreateUser(u) PROVE db' = db
    BY <2>1, <2>2, <2>3 DEF CreateUser
  <2>4. ASSUME NEW u \in Requesters, NEW list \in SUBSET Logins, NEW t \in Stamps,
               CreateChat(u, list, t)
        PROVE  db' = db
    BY <2>1, <2>2, <2>4 DEF CreateChat
  <2>5. ASSUME NEW u \in Requesters, NEW c \in 1 .. MaxChats, NEW t \in Stamps,
               CreateMessage(u, c, t)
        PROVE  db' = db
    BY <2>1, <2>2, <2>5 DEF CreateMessage
  <2>6. ASSUME NEW u \in Requesters, NEW c \in 1 .. MaxChats, NEW m \in 0 .. MaxMessages,
               SetLastRead(u, c, m)
        PROVE  db' = db
    BY <2>1, <2>2, <2>6 DEF SetLastRead
  <2>7. ASSUME NEW u \in Requesters, InitDatabase(u) PROVE db' = db
    BY <2>1, <2>2, <2>7 DEF InitDatabase
  <2>. QED BY <1>1, <2>3, <2>4, <2>5, <2>6, <2>7 DEF Next, Restart, vars
<1>. QED BY <1>1, StoreInvariant, PTL DEF Spec, FailureHasNoEffect

-----------------------------------------------------------------------------
(* What a request may do to the messages that are stored already.          *)

\* However a request ends, it has its statement's effect or none.
LEMMA EndGrown ==
    ASSUME Inv, NEW op, NEW u, NEW s, NEW result, Grown(db, s, u),
           Carry(op, u, s, result) \/ Fail(op, u, s, result)
    PROVE  last'.user = u /\ Grown(db, db', u)
<1>1. db' \in {db, s} /\ last'.user = u
  BY DEF Carry, Fail, Finish
<1>2. Grown(db, db, u)
  BY SameMessages DEF Inv, TypeOK
<1>. QED BY <1>1, <1>2

LEMMA StepGrown ==
    ASSUME Inv, [Next]_vars, last'.op # "InitDatabase"
    PROVE  Grown(db, db', last'.user)
<1>. db \in Store /\ \A u : Grown(db, db, u)
  BY SameMessages DEF Inv, TypeOK
<1>. USE RequestersAreLogins
<1>1. ASSUME NEW u \in Requesters, CreateUser(u) PROVE Grown(db, db', last'.user)
  <2>1. Grown(db, UserAdded(db, u), u)
    BY UserAddedGrown
  <2>. QED BY <1>1, <2>1, EndGrown DEF CreateUser
<1>2. ASSUME NEW u \in Requesters, NEW list \in SUBSET Logins, NEW t \in Stamps,
             CreateChat(u, list, t)
      PROVE  Grown(db, db', last'.user)
  <2>1. u \in db.users => Grown(db, ChatAdded(db, u, list, t), u)
    BY ChatAddedGrown
  <2>2. Grown(db, OrphanChatAdded(db), u)
    BY OrphanChatGrown
  <2>. QED BY <1>2, <2>1, <2>2, EndGrown DEF CreateChat
<1>3. ASSUME NEW u \in Requesters, NEW c \in 1 .. MaxChats, NEW t \in Stamps,
             CreateMessage(u, c, t)
      PROVE  Grown(db, db', last'.user)
  <2>1. u \in db.users /\ c \in ChatIds(db) => Grown(db, MessageAdded(db, u, c, t), u)
    BY MessageAddedGrown
  <2>. QED BY <1>3, <2>1, EndGrown DEF CreateMessage
<1>4. ASSUME NEW u \in Requesters, NEW c \in 1 .. MaxChats, NEW m \in 0 .. MaxMessages,
             SetLastRead(u, c, m)
      PROVE  Grown(db, db', last'.user)
  <2>1. Grown(db, ReadMarked(db, u, c, m), u)
    BY ReadMarkedGrown
  <2>. QED BY <1>4, <2>1, EndGrown DEF SetLastRead
<1>5. ASSUME NEW u \in Requesters, InitDatabase(u) PROVE FALSE
  BY <1>5 DEF InitDatabase, Carry, Fail, Finish
<1>6. CASE Restart
  BY <1>6 DEF Restart
<1>7. CASE UNCHANGED vars
  BY <1>7 DEF vars
<1>. QED BY <1>1, <1>2, <1>3, <1>4, <1>5, <1>6, <1>7 DEF Next

\* No request but InitDatabase changes or removes a stored message, or takes back
\* a status READ, through failures, broken connections, crashes and restarts.
THEOREM HistoryTheorem == Spec => MessagesKept
<1>1. ASSUME Inv, [Next]_vars, last'.op # "InitDatabase"
      PROVE  \A m \in MessageIds(db) :
                /\ m \in MessageIds(db')
                /\ db'.messages[m] = [db.messages[m] EXCEPT !.read = db'.messages[m].read]
                /\ db.messages[m].read \subseteq db'.messages[m].read
  BY <1>1, StepGrown DEF Grown
<1>. QED BY <1>1, StoreInvariant, PTL DEF Spec, MessagesKept

\* The statements of one user's requests never mark a message as read for another
\* user, nor where the user has no status row.
THEOREM MarksTheorem == Spec => OnlyOwnMarks
<1>1. ASSUME Inv, [Next]_vars, last'.op # "InitDatabase"
      PROVE  \A m \in MessageIds(db) :
                db'.messages[m].read \ db.messages[m].read
                  \subseteq {last'.user} \cap db.messages[m].rows
  BY <1>1, StepGrown DEF Grown
<1>. QED BY <1>1, StoreInvariant, PTL DEF Spec, OnlyOwnMarks

-----------------------------------------------------------------------------
(* ChatStore implements Mailbox for all logins, seeds and bounds: what the *)
(* statements do to rows, pointers and time stamps is, seen by the users,  *)
(* that groups are opened, messages delivered and messages read.           *)

\* What Mailbox sees of a database.
Groups(s) == [c \in ChatIds(s) |-> Members(s, c)]
Log(s) == [m \in MessageIds(s) |->
              [group |-> s.messages[m].chat, sender |-> s.messages[m].sender]]
News(s) == [u \in Logins |-> {m \in MessageIds(s) : Unread(s, m, u)}]
Entry == [group : Nat, sender : Logins]

LEMMA AppendIs ==
    ASSUME NEW S, NEW q \in Seq(S), NEW e \in S, NEW r \in Seq(S), Len(r) = Len(q) + 1,
           \A i \in 1 .. Len(q) : r[i] = q[i], r[Len(q) + 1] = e
    PROVE  r = Append(q, e)
<1>1. /\ Append(q, e) \in Seq(S) /\ Len(Append(q, e)) = Len(q) + 1
      /\ \A i \in 1 .. Len(q) : Append(q, e)[i] = q[i]
      /\ Append(q, e)[Len(q) + 1] = e
  BY AppendProperties
<1>2. \A i \in 1 .. Len(r) : r[i] = Append(q, e)[i]
  BY <1>1
<1>3. Len(q) \in Nat
  OBVIOUS
<1>. QED BY <1>1, <1>2, SeqEqual

LEMMA SeenTypes ==
    ASSUME NEW s \in Store
    PROVE  /\ Groups(s) \in Seq(SUBSET Logins) /\ DOMAIN Groups(s) = ChatIds(s)
           /\ ChatIds(s) = 1 .. Len(s.chats) /\ Len(Groups(s)) = Len(s.chats)
           /\ Log(s) \in Seq(Entry) /\ DOMAIN Log(s) = MessageIds(s)
           /\ MessageIds(s) = 1 .. Len(s.messages) /\ Len(Log(s)) = Len(s.messages)
           /\ Len(s.chats) \in Nat /\ Len(s.messages) \in Nat
<1>1. s.chats \in Seq(ChatRow) /\ s.messages \in Seq(MessageRow)
  BY DEF Store
<1>2. /\ ChatIds(s) = 1 .. Len(s.chats) /\ Len(s.chats) \in Nat
      /\ MessageIds(s) = 1 .. Len(s.messages) /\ Len(s.messages) \in Nat
  BY <1>1 DEF ChatIds, MessageIds
<1>3. Groups(s) \in [1 .. Len(s.chats) -> SUBSET Logins]
  <2>1. ASSUME NEW c \in ChatIds(s) PROVE Members(s, c) \in SUBSET Logins
    <3>1. s.chats[c] \in ChatRow
      BY <1>1, <2>1 DEF ChatIds
    <3>. QED BY <3>1 DEF ChatRow, Members
  <2>. QED BY <1>2, <2>1 DEF Groups
<1>4. Log(s) \in [1 .. Len(s.messages) -> Entry]
  <2>1. ASSUME NEW m \in MessageIds(s)
        PROVE  [group |-> s.messages[m].chat, sender |-> s.messages[m].sender] \in Entry
    <3>1. s.messages[m] \in MessageRow
      BY <1>1, <2>1 DEF MessageIds
    <3>. QED BY <3>1 DEF MessageRow, Entry
  <2>. QED BY <1>2, <2>1 DEF Log
<1>. QED BY <1>2, <1>3, <1>4

\* Groups is made longer by one chat that is not changed otherwise.
LEMMA GroupsLonger ==
    ASSUME NEW s \in Store, NEW n \in Store, NEW row \in ChatRow,
           n.chats = Append(s.chats, row)
    PROVE  Groups(n) = Append(Groups(s), row.members) /\ Len(Groups(n)) = Len(s.chats) + 1
<1>1. s.chats \in Seq(ChatRow) /\ row.members \in SUBSET Logins
  BY DEF Store, ChatRow
<1>2. /\ ChatIds(n) = 1 .. Len(s.chats) + 1
      /\ \A c \in 1 .. Len(s.chats) : n.chats[c] = s.chats[c]
      /\ n.chats[Len(s.chats) + 1] = row
      /\ Len(n.chats) = Len(s.chats) + 1
      /\ ChatIds(s) = 1 .. Len(s.chats)
      /\ Len(s.chats) \in Nat
  BY <1>1 DEF ChatIds
<1>3. /\ \A c \in 1 .. Len(s.chats) : Groups(n)[c] = Groups(s)[c]
      /\ Groups(n)[Len(s.chats) + 1] = row.members
  BY <1>2 DEF Groups, Members
<1>4. Groups(s) \in Seq(SUBSET Logins) /\ Len(Groups(s)) = Len(s.chats)
      /\ Groups(n) \in Seq(SUBSET Logins) /\ Len(Groups(n)) = Len(n.chats)
  BY SeenTypes
<1>. HIDE DEF Groups
<1>. QED BY <1>1, <1>2, <1>3, <1>4, AppendIs

\* The log is made longer by one message, and marks change nothing in it.
LEMMA LogLonger ==
    ASSUME NEW s \in Store, NEW n \in Store, NEW q \in Seq(MessageRow),
           NEW msg \in MessageRow, Len(q) = Len(s.messages),
           \A m \in MessageIds(s) : /\ q[m].chat = s.messages[m].chat
                                    /\ q[m].sender = s.messages[m].sender,
           n.messages = Append(q, msg)
    PROVE  /\ Log(n) = Append(Log(s), [group |-> msg.chat, sender |-> msg.sender])
           /\ Len(Log(n)) = Len(s.messages) + 1
<1> DEFINE e == [group |-> msg.chat, sender |-> msg.sender]
<1>1. s.messages \in Seq(MessageRow) /\ e \in Entry
  BY DEF Store, MessageRow, Entry
<1>2. /\ MessageIds(n) = 1 .. Len(s.messages) + 1
      /\ \A m \in 1 .. Len(s.messages) : n.messages[m] = q[m]
      /\ n.messages[Len(s.messages) + 1] = msg
      /\ Len(n.messages) = Len(s.messages) + 1
      /\ MessageIds(s) = 1 .. Len(s.messages)
      /\ Len(s.messages) \in Nat
  BY <1>1, AppendProperties DEF MessageIds
<1>3. /\ \A m \in 1 .. Len(s.messages) : Log(n)[m] = Log(s)[m]
      /\ Log(n)[Len(s.messages) + 1] = e
  <2>1. ASSUME NEW m \in 1 .. Len(s.messages) PROVE Log(n)[m] = Log(s)[m]
    <3>1. m \in MessageIds(s) /\ m \in MessageIds(n)
      BY <1>2
    <3>. QED BY <1>2, <3>1 DEF Log
  <2>2. Len(s.messages) + 1 \in MessageIds(n)
    BY <1>2
  <2>. QED BY <1>2, <2>1, <2>2 DEF Log
<1>4. Log(s) \in Seq(Entry) /\ Len(Log(s)) = Len(s.messages)
      /\ Log(n) \in Seq(Entry) /\ Len(Log(n)) = Len(n.messages)
  BY SeenTypes
<1>. HIDE DEF Log, e
<1>5. Log(n) = Append(Log(s), e)
  BY <1>1, <1>2, <1>3, <1>4, AppendIs
<1>. QED BY <1>2, <1>4, <1>5 DEF e

-----------------------------------------------------------------------------
(* What the statements are to those who look at groups, log and news.      *)

\* From s to n, u sends a message to group g.
Delivered(s, n, u, g) ==
    /\ Log(n) = Append(Log(s), [group |-> g, sender |-> u])
    /\ \E seen \in SUBSET {m \in News(s)[u] : Log(s)[m].group = g} :
          News(n) = [w \in Logins |->
                        IF w = u THEN News(s)[u] \ seen
                        ELSE IF w \in Groups(n)[g] THEN News(s)[w] \cup {Len(Log(n))}
                        ELSE News(s)[w]]

\* From s to n, u opens a group that u is in with a message.
Opened(s, n, u) ==
    /\ \E members \in SUBSET Logins :
          u \in members /\ Groups(n) = Append(Groups(s), members)
    /\ Delivered(s, n, u, Len(Groups(n)))

\* From s to n, u reads messages of chat c.
Looked(s, n, u, c) ==
    /\ Groups(n) = Groups(s) /\ Log(n) = Log(s)
    /\ \E seen \in SUBSET {m \in News(s)[u] : Log(s)[m].group = c} :
          News(n) = [News(s) EXCEPT ![u] = @ \ seen]

\* Marking ms for u takes ms, and nothing else, away from what is new to u.
LEMMA MarkedNews ==
    ASSUME NEW s \in Store, NEW u \in Logins, NEW ms,
           \A m \in ms : m \in MessageIds(s) /\ Unread(s, m, u),
           NEW m \in MessageIds(s), NEW w \in Logins
    PROVE  w \in s.messages[m].rows \ MarkRead(s.messages, u, ms)[m].read
              <=> Unread(s, m, w) /\ ~(w = u /\ m \in ms)
<1>1. s.messages \in Seq(MessageRow)
  BY DEF Store
<1>2. /\ m \in ms => MarkRead(s.messages, u, ms)[m].read = s.messages[m].read \cup {u}
      /\ m \notin ms => MarkRead(s.messages, u, ms)[m].read = s.messages[m].read
  BY <1>1, MarkReadKeeps DEF MessageIds
<1>. QED BY <1>2 DEF Unread

\* What the two statements that send have in common: msg comes last, and older
\* messages of its chat are marked as read for its sender.
Posted(s, n, u, g, older, msg) ==
    /\ msg \in MessageRow /\ msg.chat = g /\ msg.sender = u /\ msg.read = {u}
    /\ msg.rows = Groups(n)[g] \cup {u}
    /\ \A m \in older : m \in MessageIds(s) /\ Unread(s, m, u) /\ s.messages[m].chat = g
    /\ n.messages = Append(MarkRead(s.messages, u, older), msg)

LEMMA PostedIsDelivered ==
    ASSUME NEW s \in Store, NEW n \in Store, NEW u \in Logins, NEW g, NEW older, NEW msg,
           Posted(s, n, u, g, older, msg)
    PROVE  Delivered(s, n, u, g)
<1>. USE DEF Posted
<1> DEFINE marked == MarkRead(s.messages, u, older)
           k == Len(s.messages) + 1
<1>1. s.messages \in Seq(MessageRow)
  BY DEF Store
<1>2. /\ marked \in Seq(MessageRow) /\ Len(marked) = Len(s.messages)
      /\ DOMAIN marked = MessageIds(s)
      /\ \A m \in MessageIds(s) : /\ marked[m].chat = s.messages[m].chat
                                  /\ marked[m].sender = s.messages[m].sender
                                  /\ marked[m].rows = s.messages[m].rows
  BY <1>1, MarkReadKeeps DEF MessageIds
<1>3. \A m \in MessageIds(s), w \in Logins :
         w \in marked[m].rows \ marked[m].read <=> Unread(s, m, w) /\ ~(w = u /\ m \in older)
  BY <1>2, MarkedNews, SMTT(40)
<1>. HIDE DEF marked
<1>4. Log(n) = Append(Log(s), [group |-> g, sender |-> u]) /\ Len(Log(n)) = k
  BY <1>2, LogLonger DEF marked
<1>5. /\ MessageIds(n) = MessageIds(s) \cup {k} /\ k \notin MessageIds(s)
      /\ \A m \in MessageIds(s) : n.messages[m] = marked[m]
      /\ n.messages[k] = msg
  <2>1. /\ DOMAIN n.messages = DOMAIN marked \cup {Len(marked) + 1}
        /\ \A m \in DOMAIN marked : n.messages[m] = marked[m] /\ m <= Len(marked) /\ m \in Nat
        /\ n.messages[Len(marked) + 1] = msg /\ Len(marked) \in Nat
    BY <1>2, AppendAt DEF marked
  <2>. QED BY <1>2, <2>1 DEF MessageIds
<1>6. older \in SUBSET {m \in News(s)[u] : Log(s)[m].group = g}
  BY DEF News, Log
<1>7. ASSUME NEW w \in Logins
      PROVE  {m \in MessageIds(n) : Unread(n, m, w)}
                = IF w = u THEN News(s)[u] \ older
                  ELSE IF w \in Groups(n)[g] THEN News(s)[w] \cup {k}
                  ELSE News(s)[w]
  <2>1. \A m \in MessageIds(s) : Unread(n, m, w) <=> Unread(s, m, w) /\ ~(w = u /\ m \in older)
    BY <1>3, <1>5 DEF Unread
  <2>2. Unread(n, k, w) <=> w # u /\ w \in Groups(n)[g]
    BY <1>5 DEF Unread
  <2>3. News(s)[w] = {m \in MessageIds(s) : Unread(s, m, w)}
    BY DEF News
  <2>. QED BY <1>5, <2>1, <2>2, <2>3
<1>8. News(n) = [w \in Logins |->
                    IF w = u THEN News(s)[u] \ older
                    ELSE IF w \in Groups(n)[g] THEN News(s)[w] \cup {Len(Log(n))}
                    ELSE News(s)[w]]
  BY <1>4, <1>7 DEF News
<1>. QED BY <1>4, <1>6, <1>8 DEF Delivered

LEMMA UserAddedSeen ==
    ASSUME NEW s \in Store, NEW u
    PROVE  /\ Groups(UserAdded(s, u)) = Groups(s)
           /\ Log(UserAdded(s, u)) = Log(s)
           /\ News(UserAdded(s, u)) = News(s)
<1>1. UserAdded(s, u).messages = s.messages /\ UserAdded(s, u).chats = s.chats
  BY DEF UserAdded, Store
<1>. QED BY <1>1 DEF Groups, Log, News, ChatIds, MessageIds, Members, Unread

LEMMA OrphanChatSeen ==
    ASSUME NEW s \in Store, Consistent(s)
    PROVE  /\ Groups(OrphanChatAdded(s)) = Append(Groups(s), {})
           /\ Log(OrphanChatAdded(s)) = Log(s)
           /\ News(OrphanChatAdded(s)) = News(s)
<1> DEFINE n == OrphanChatAdded(s)
           row == [members |-> {}, lastRead |-> [w \in Logins |-> 0]]
<1>1. n.chats = Append(s.chats, row) /\ n.messages = s.messages
  BY DEF OrphanChatAdded, Store
<1>2. row \in ChatRow /\ row.members = {} /\ n \in Store
  BY OrphanChatConsistent DEF ChatRow
<1>. HIDE DEF n, row
<1>3. Groups(n) = Append(Groups(s), {})
  BY <1>1, <1>2, GroupsLonger
<1>4. Log(n) = Log(s) /\ News(n) = News(s)
  BY <1>1 DEF Log, News, MessageIds, Unread
<1>. QED BY <1>3, <1>4 DEF n

LEMMA ChatAddedSeen ==
    ASSUME NEW s \in Store, Consistent(s), NEW u \in s.users,
           NEW list \in SUBSET Logins, NEW t \in Nat
    PROVE  Opened(s, ChatAdded(s, u, list, t), u)
<1> DEFINE n == ChatAdded(s, u, list, t)
           g == Len(s.chats) + 1
           all == (list \cap s.users) \cup {u}
           row == [members |-> all,
                   lastRead |-> [w \in Logins |-> IF w = u THEN Len(s.messages) + 1 ELSE 0]]
           msg == [chat |-> g, sender |-> u, ts |-> t, rows |-> all, read |-> {u}]
<1>1. /\ s.chats \in Seq(ChatRow) /\ s.messages \in Seq(MessageRow)
      /\ Len(s.chats) \in Nat /\ Len(s.messages) \in Nat
      /\ u \in Logins /\ all \in SUBSET Logins
  BY DEF Store
<1>2. /\ row \in ChatRow /\ msg \in MessageRow /\ n \in Store
      /\ row.members = all /\ u \in all
  BY <1>1, ChatAddedConsistent DEF ChatRow, MessageRow
<1>3. n.chats = Append(s.chats, row) /\ n.messages = Append(s.messages, msg)
  BY DEF ChatAdded, Store
<1>4. msg.chat = g /\ msg.sender = u /\ msg.rows = all /\ msg.read = {u} /\ all \cup {u} = all
  OBVIOUS
<1>5. MarkRead(s.messages, u, {}) = s.messages
  BY <1>1 DEF MarkRead
<1>6. Groups(s) \in Seq(SUBSET Logins) /\ Len(Groups(s)) = Len(s.chats)
  BY SeenTypes
<1>. HIDE DEF row, msg, all, n
<1>7. Groups(n) = Append(Groups(s), all) /\ Len(Groups(n)) = g
  BY <1>2, <1>3, GroupsLonger
<1>8. Groups(n)[g] = all
  BY <1>1, <1>6, <1>7, AppendProperties
<1>9. msg.rows = Groups(n)[g] \cup {u}
  BY <1>4, <1>8
<1>. HIDE DEF g
<1>10. Delivered(s, n, u, g)
  <2>1. n.messages = Append(MarkRead(s.messages, u, {}), msg)
    BY <1>3, <1>5
  <2>2. \A m \in {} : /\ m \in MessageIds(s) /\ Unread(s, m, u)
                      /\ s.messages[m].chat = g
    OBVIOUS
  <2>3. Posted(s, n, u, g, {}, msg)
    BY <1>2, <1>4, <1>9, <2>1, <2>2 DEF Posted
  <2>. QED BY <1>1, <1>2, <2>3, PostedIsDelivered
<1>. QED BY <1>1, <1>2, <1>7, <1>10 DEF Opened, n

LEMMA MessageAddedSeen ==
    ASSUME NEW s \in Store, Consistent(s), NEW u \in s.users,
           NEW c \in ChatIds(s), NEW t \in Nat, NEW n, n = MessageAdded(s, u, c, t)
    PROVE  Groups(n) = Groups(s) /\ Delivered(s, n, u, c)
<1> DEFINE older == PreviousUnread(s, u, c, t)
           msg == [chat |-> c, sender |-> u, ts |-> t,
                   rows |-> Members(s, c) \cup {u}, read |-> {u}]
           row == [s.chats[c] EXCEPT !.lastRead =
                     [w \in Logins |-> IF w = u /\ u \in Members(s, c)
                                       THEN Len(s.messages) + 1
                                       ELSE s.chats[c].lastRead[w]]]
<1>1. s.chats \in Seq(ChatRow) /\ s.users \subseteq Logins
  BY DEF Store
<1>2. s.chats[c] \in ChatRow /\ c \in Nat /\ n \in Store /\ u \in Logins
  BY <1>1, MessageAddedConsistent DEF ChatIds
<1>3. msg \in MessageRow /\ msg.chat = c /\ msg.sender = u /\ msg.read = {u}
      /\ msg.rows = Members(s, c) \cup {u}
  BY <1>2 DEF MessageRow, ChatRow, Members
<1>4. row.members = s.chats[c].members
  BY <1>2 DEF ChatRow
<1>5. /\ n.messages = Append(MarkRead(s.messages, u, older), msg)
      /\ n.chats = [s.chats EXCEPT ![c] = row]
  BY DEF MessageAdded, Store
<1>6. \A m \in older : m \in MessageIds(s) /\ Unread(s, m, u) /\ s.messages[m].chat = c
  BY DEF PreviousUnread
<1>. HIDE DEF older, msg, row
<1>7. ChatIds(n) = ChatIds(s) /\ \A d \in ChatIds(s) : Members(n, d) = Members(s, d)
  BY <1>4, <1>5 DEF ChatIds, Members
<1>8. Groups(n) = Groups(s) /\ Groups(n)[c] = Members(s, c)
  BY <1>7 DEF Groups
<1>9. msg.rows = Groups(n)[c] \cup {u}
  BY <1>3, <1>8
<1>10. Posted(s, n, u, c, older, msg)
  BY <1>3, <1>5, <1>6, <1>9 DEF Posted
<1>. QED BY <1>2, <1>8, <1>10, PostedIsDelivered

LEMMA ReadMarkedSeen ==
    ASSUME NEW s \in Store, NEW u \in Logins, NEW c, NEW m, NEW n,
           n = ReadMarked(s, u, c, m)
    PROVE  Looked(s, n, u, c)
<1> DEFINE upTo == ReadUpTo(s, u, c, m)
           row == [s.chats[c] EXCEPT !.lastRead = [@ EXCEPT ![u] = m]]
<1>1. s.chats \in Seq(ChatRow) /\ s.messages \in Seq(MessageRow)
  BY DEF Store
<1>2. /\ n.messages = MarkRead(s.messages, u, upTo)
      /\ n.chats = IF TakesPart(s, u, c) THEN [s.chats EXCEPT ![c] = row] ELSE s.chats
  BY DEF ReadMarked, Store
<1>3. \A k \in upTo : k \in MessageIds(s) /\ Unread(s, k, u) /\ s.messages[k].chat = c
  BY DEF ReadUpTo
<1>4. TakesPart(s, u, c) => row.members = s.chats[c].members
  <2>1. TakesPart(s, u, c) => s.chats[c] \in ChatRow
    BY <1>1 DEF TakesPart, ChatIds
  <2>. QED BY <2>1 DEF ChatRow
<1>. HIDE DEF upTo, row
<1>5. ChatIds(n) = ChatIds(s) /\ \A d \in ChatIds(s) : Members(n, d) = Members(s, d)
  BY <1>2, <1>4 DEF ChatIds, Members
<1>6. /\ MessageIds(n) = MessageIds(s)
      /\ \A k \in MessageIds(s) : /\ n.messages[k].chat = s.messages[k].chat
                                  /\ n.messages[k].sender = s.messages[k].sender
                                  /\ n.messages[k].rows = s.messages[k].rows
  BY <1>1, <1>2, MarkReadKeeps DEF MessageIds
<1>7. \A k \in MessageIds(s), w \in Logins :
         Unread(n, k, w) <=> Unread(s, k, w) /\ ~(w = u /\ k \in upTo)
  <2>1. \A k \in MessageIds(s), w \in Logins :
           w \in s.messages[k].rows \ MarkRead(s.messages, u, upTo)[k].read
              <=> Unread(s, k, w) /\ ~(w = u /\ k \in upTo)
    BY <1>3, MarkedNews
  <2>. QED BY <1>2, <1>6, <2>1 DEF Unread
<1>8. Groups(n) = Groups(s) /\ Log(n) = Log(s)
  BY <1>5, <1>6 DEF Groups, Log
<1>9. upTo \in SUBSET {k \in News(s)[u] : Log(s)[k].group = c}
  BY <1>3 DEF News, Log
<1>10. News(n) = [News(s) EXCEPT ![u] = @ \ upTo]
  <2>1. ASSUME NEW w \in Logins
        PROVE  {k \in MessageIds(n) : Unread(n, k, w)}
                  = IF w = u THEN News(s)[u] \ upTo ELSE News(s)[w]
    BY <1>6, <1>7 DEF News
  <2>. QED BY <2>1 DEF News
<1>. QED BY <1>8, <1>9, <1>10 DEF Looked

-----------------------------------------------------------------------------
(* The steps                                                               *)

\* Whatever the outcome, the step is the statement's effect or none.
LEMMA OutcomeIs ==
    ASSUME NEW op, NEW u, NEW s, NEW result,
           Carry(op, u, s, result) \/ Fail(op, u, s, result)
    PROVE  db' \in {db, s} /\ last'.op = op
  BY DEF Carry, Fail, Finish

LEMMA StutterSeen == db' = db => UNCHANGED Box!box
  BY DEF Box!box

\* A consistent database is one that Recreate allows.
LEMMA RecreatedSeen ==
    ASSUME NEW s \in Store, Consistent(s), NEW u \in Logins
    PROVE  News(s)[u] \subseteq
              {m \in DOMAIN Log(s) :
                  u \in Groups(s)[Log(s)[m].group] \ {Log(s)[m].sender}}
<1>1. ASSUME NEW m \in MessageIds(s), Unread(s, m, u)
      PROVE  u \in Groups(s)[Log(s)[m].group] \ {Log(s)[m].sender}
  <2>1. RowsComplete(s, m)
    BY DEF Consistent, StatusRowsComplete
  <2>2. /\ s.messages[m].chat \in ChatIds(s)
        /\ u \in Members(s, s.messages[m].chat) \ {s.messages[m].sender}
    BY <1>1, <2>1 DEF RowsComplete, Unread
  <2>. QED BY <2>2 DEF Groups, Log
<1>. QED BY <1>1 DEF News, Log

LEMMA DeliverStep ==
    ASSUME NEW u, NEW g, Delivered(db, db', u, g)
    PROVE  Box!Deliver(u, g)
  BY Zenon DEF Delivered, Box!Deliver, Groups, Log, News

LEMMA CreateChatStep ==
    ASSUME Inv, NEW u \in Requesters, NEW list \in SUBSET Logins, NEW t \in Stamps,
           CreateChat(u, list, t)
    PROVE  [Box!Next]_(Box!box)
<1>. db \in Store /\ Consistent(db) /\ u \in Logins /\ t \in Nat
  BY RequestersAreLogins DEF Inv, TypeOK
<1>1. /\ db' = db \/ (u \in db.users /\ db' = ChatAdded(db, u, list, t))
         \/ db' = OrphanChatAdded(db)
      /\ last'.op = "CreateChat"
  BY OutcomeIs DEF CreateChat
<1>2. CASE db' = db
  BY <1>2, StutterSeen
<1>3. CASE u \in db.users /\ db' = ChatAdded(db, u, list, t)
  <2>1. Opened(db, db', u)
    BY <1>3, ChatAddedSeen
  <2>2. Box!Deliver(u, Len(Groups(db')))
    <3>. DEFINE g == Len(Groups(db'))
    <3>1. Delivered(db, db', u, g)
      BY <2>1, SMTT(40) DEF Opened
    <3>. HIDE DEF g
    <3>2. Box!Deliver(u, g)
      BY <3>1, Zenon DEF Delivered, Box!Deliver, Groups, Log, News
    <3>. QED BY <3>2 DEF g
  <2>3. PICK members \in SUBSET Logins :
           u \in members /\ Groups(db') = Append(Groups(db), members)
    BY <2>1 DEF Opened
  <2>4. Box!Open(u)
    <3>1. u \in members /\ Groups(db)' = Append(Groups(db), members)
      BY <2>3
    <3>2. Box!Deliver(u, Len(Groups(db)'))
      BY <2>2
    <3>. QED BY <3>1, <3>2 DEF Box!Open, Groups
  <2>. QED BY <1>1, <2>4 DEF Box!Next, Box!Act
<1>4. CASE db' = OrphanChatAdded(db)
  <2>1. Box!Abandon
    BY <1>4, OrphanChatSeen, ZenonT(40) DEF Box!Abandon, Groups, Log, News
  <2>. QED BY <1>1, <2>1 DEF Box!Next
<1>. QED BY <1>1, <1>2, <1>3, <1>4

LEMMA CreateMessageStep ==
    ASSUME Inv, NEW u \in Requesters, NEW c \in 1 .. MaxChats, NEW t \in Stamps,
           CreateMessage(u, c, t)
    PROVE  [Box!Next]_(Box!box)
<1>. db \in Store /\ Consistent(db) /\ u \in Logins /\ t \in Nat
  BY RequestersAreLogins DEF Inv, TypeOK
<1>1. /\ db' = db \/ (/\ u \in db.users /\ c \in ChatIds(db)
                      /\ db' = MessageAdded(db, u, c, t))
      /\ last'.op = "CreateMessage"
  BY OutcomeIs DEF CreateMessage
<1>2. CASE db' = db
  BY <1>2, StutterSeen
<1>3. CASE u \in db.users /\ c \in ChatIds(db) /\ db' = MessageAdded(db, u, c, t)
  <2>1. Groups(db') = Groups(db) /\ Delivered(db, db', u, c)
    BY <1>3, MessageAddedSeen
  <2>2. Box!Send(u, c)
    BY <1>3, <2>1, DeliverStep DEF Box!Send, Groups
  <2>3. c \in DOMAIN Groups(db)
    BY <1>3 DEF Groups
  <2>. QED BY <1>1, <2>2, <2>3 DEF Box!Next, Box!Act, Groups
<1>. QED BY <1>1, <1>2, <1>3

\* The read mark of a chat that does not exist reads nothing.
LEMMA SetLastReadStep ==
    ASSUME Inv, NEW u \in Requesters, NEW c, NEW m, SetLastRead(u, c, m)
    PROVE  [Box!Next]_(Box!box)
<1>. db \in Store /\ Consistent(db) /\ u \in Logins
  BY RequestersAreLogins DEF Inv, TypeOK
<1>1. (db' = db \/ db' = ReadMarked(db, u, c, m)) /\ last'.op = "SetLastRead"
  BY OutcomeIs DEF SetLastRead
<1>2. CASE db' = db
  BY <1>2, StutterSeen
<1>3. CASE db' = ReadMarked(db, u, c, m)
  <2>1. Looked(db, db', u, c)
    BY <1>3, ReadMarkedSeen
  <2>2. CASE c \in ChatIds(db)
    <3>1. c \in DOMAIN Groups(db)
      BY <2>2 DEF Groups
    <3>2. Box!Look(u)
      BY <2>1, <3>1 DEF Looked, Box!Look, Box!ReadSome, Groups, Log, News
    <3>. QED BY <1>1, <3>2 DEF Box!Next, Box!Act
  <2>3. CASE c \notin ChatIds(db)
    <3>1. \A k \in MessageIds(db) : db.messages[k].chat # c
      BY <2>3 DEF Consistent, StatusRowsComplete, RowsComplete
    <3>2. {k \in News(db)[u] : Log(db)[k].group = c} = {}
      BY <3>1 DEF News, Log
    <3>3. News(db') = News(db)
      BY <2>1, <3>2 DEF Looked, News
    <3>. QED BY <2>1, <3>3 DEF Looked, Groups, Log, News, Box!box
  <2>. QED BY <2>2, <2>3
<1>. QED BY <1>1, <1>2, <1>3

LEMMA InitDatabaseStep ==
    ASSUME Inv, Inv', NEW u, InitDatabase(u)
    PROVE  Box!Next
<1>1. last'.op = "InitDatabase"
  BY DEF InitDatabase, Carry, Fail, Finish
<1>2. db' \in Store /\ Consistent(db')
  BY DEF Inv, TypeOK
<1>3. /\ DOMAIN News(db') = Logins
      /\ \A w \in Logins : News(db')[w] \subseteq
            {m \in DOMAIN Log(db') :
                w \in Groups(db')[Log(db')[m].group] \ {Log(db')[m].sender}}
  BY <1>2, RecreatedSeen DEF News
<1>4. Box!Recreate
  BY <1>1, <1>3 DEF Box!Recreate, Groups, Log, News
<1>. QED BY <1>4 DEF Box!Next

\* The database keeps Mailbox's promises: what was sent is in the log for good,
\* and new to everyone in the group but its sender until they read it.
THEOREM RefinementTheorem == Spec => BoxSpec
<1>1. Init => Box!Empty
  <2>1. ChatIds(EmptyStore) = {} /\ MessageIds(EmptyStore) = {}
    BY DEF ChatIds, MessageIds, EmptyStore
  <2>. QED BY <2>1 DEF Init, Box!Empty, EmptyStore, ChatIds, MessageIds
<1>2. ASSUME Inv, Inv', [Next]_vars PROVE [Box!Next]_(Box!box)
  <2>1. ASSUME NEW u \in Requesters, CreateUser(u) PROVE [Box!Next]_(Box!box)
    <3>1. db' \in {db, UserAdded(db, u)}
      BY <2>1, OutcomeIs DEF CreateUser
    <3>2. /\ Groups(db') = Groups(db) /\ Log(db') = Log(db) /\ News(db') = News(db)
      BY <1>2, <3>1, UserAddedSeen DEF Inv, TypeOK
    <3>. QED BY <3>2 DEF Groups, Log, News, Box!box
  <2>2. ASSUME NEW u \in Requesters, InitDatabase(u) PROVE Box!Next
    BY <1>2, <2>2, InitDatabaseStep
  <2>3. Restart \/ UNCHANGED vars => UNCHANGED Box!box
    BY StutterSeen DEF Restart, vars
  <2>. QED BY <1>2, <2>1, <2>2, <2>3, CreateChatStep, CreateMessageStep,
              SetLastReadStep DEF Next
<1>. QED BY <1>1, <1>2, StoreInvariant, PTL DEF Spec, BoxSpec, Box!Spec
==============================================================================
