-------------------------- MODULE ClientChatsProofs --------------------------
(***************************************************************************)
(* What is proved of the user's chats in the Qt client: a copy is followed *)
(* through loading, posting and opening, beside what the statements do to  *)
(* the database, which is the matter of Lemmas.  ChatsInv is inductive;    *)
(* PressInv is, too, and says what one press of "send" comes to.           *)
(***************************************************************************)
EXTENDS ClientChats, Lemmas

-----------------------------------------------------------------------------
(* The database, for one user.                                             *)

IsDb(s) == s \in Store /\ Consistent(s) /\ User \in s.users /\ ChatsHaveMessages(s)

\* Messages were stored in the order of their stamps, and the user's own made those
\* before them read.
StoredInOrder(s) ==
    \A m, n \in MessageIds(s) : n < m =>
        /\ s.messages[n].ts < s.messages[m].ts
        /\ s.messages[n].chat = s.messages[m].chat /\ s.messages[m].sender = User
               => ~Unread(s, n, User)

\* t is later than everything that is stored.
IsLate(s, t) == \A m \in MessageIds(s) : s.messages[m].ts < t

\* The user's pointers.
Pointer(s, c) == s.chats[c].lastRead[User]

\* What the proofs ask of a database and its parts.
LEMMA DbParts ==
    ASSUME NEW s \in Store
    PROVE  /\ s.messages \in Seq(MessageRow) /\ s.chats \in Seq(ChatRow) /\ s.users \subseteq Logins
           /\ MessageIds(s) = 1 .. Len(s.messages) /\ ChatIds(s) = 1 .. Len(s.chats)
           /\ Len(s.messages) \in Nat /\ Len(s.chats) \in Nat
           /\ \A m \in MessageIds(s) : /\ s.messages[m] \in MessageRow
                                       /\ s.messages[m].ts \in Nat
                                       /\ s.messages[m].sender \in Logins
           /\ \A c \in ChatIds(s) : /\ s.chats[c] \in ChatRow /\ Members(s, c) \subseteq Logins
                                    /\ \A u \in Logins : s.chats[c].lastRead[u] \in Nat
<1>1. /\ s.messages \in Seq(MessageRow) /\ s.chats \in Seq(ChatRow) /\ s.users \subseteq Logins
  BY DEF Store
<1>2. /\ MessageIds(s) = 1 .. Len(s.messages) /\ ChatIds(s) = 1 .. Len(s.chats)
      /\ Len(s.messages) \in Nat /\ Len(s.chats) \in Nat
  BY <1>1, LenProperties DEF MessageIds, ChatIds
<1>3. \A m \in MessageIds(s) : s.messages[m] \in MessageRow
  BY <1>1, <1>2
<1>4. \A c \in ChatIds(s) : s.chats[c] \in ChatRow
  BY <1>1, <1>2
<1>. QED BY <1>1, <1>2, <1>3, <1>4 DEF MessageRow, ChatRow, Members

\* Who has read a message has read it for ever.
LEMMA ReadStays ==
    ASSUME NEW s, NEW n, Kept(s, n), NEW m \in MessageIds(s), NEW u, ~Unread(s, m, u)
    PROVE  ~Unread(n, m, u)
BY DEF Kept, Unread

\* If the messages are in order now they have always been.
LEMMA OrderWas ==
    ASSUME NEW s, NEW n, Kept(s, n), InOrder(n) PROVE InOrder(s)
BY DEF Kept, InOrder

\* If they are in order with a new one, that is the latest.
LEMMA NewIsLate ==
    ASSUME NEW s, IsDb(s), NEW n, Kept(s, n), NEW c, NEW u, OneMore(s, n, c, u), InOrder(n)
    PROVE  IsLate(s, n.messages[Len(s.messages) + 1].ts)
<1>1. \A m \in MessageIds(s) : m < Len(s.messages) + 1 /\ m \in MessageIds(n)
  BY DbParts DEF IsDb, Kept
<1>2. Len(s.messages) + 1 \in MessageIds(n)
  BY DEF OneMore
<1>. QED BY <1>1, <1>2 DEF InOrder, IsLate, Kept

\* A database that keeps everything and has one more chat at the most is a database again.
LEMMA KeptIsDb ==
    ASSUME NEW s, IsDb(s), NEW n, n \in Store, Consistent(n), Kept(s, n), NEW new,
           ChatIds(n) \subseteq ChatIds(s) \cup {new},
           new \in ChatIds(s) \/ \E m \in MessageIds(n) : n.messages[m].chat = new
    PROVE  IsDb(n)
<1>1. ASSUME NEW c \in ChatIds(s), Members(n, c) # {}
      PROVE  \E m \in MessageIds(n) : n.messages[m].chat = c
  <2>1. PICK m \in MessageIds(s) : s.messages[m].chat = c
    BY <1>1 DEF IsDb, ChatsHaveMessages, Kept
  <2>. QED BY <2>1 DEF Kept
<1>2. User \in n.users
  BY DEF IsDb, Kept
<1>. QED BY <1>1, <1>2 DEF IsDb, ChatsHaveMessages

\* Messages that are kept stay in order, the new one comes last.
LEMMA KeptInOrder ==
    ASSUME NEW s, IsDb(s), StoredInOrder(s), NEW n, n \in Store, Kept(s, n), NEW c, NEW u,
           OneMore(s, n, c, u), IsLate(s, n.messages[Len(s.messages) + 1].ts),
           u = User => \A m \in MessageIds(s) : s.messages[m].chat = c => ~Unread(n, m, User)
    PROVE  StoredInOrder(n)
<1> DEFINE new == Len(s.messages) + 1
<1>1. /\ MessageIds(n) = MessageIds(s) \cup {new} /\ n.messages[new].chat = c
      /\ n.messages[new].sender = u
  BY DEF OneMore
<1>2. \A m \in MessageIds(s) : m < new /\ m \in Nat
  BY DbParts DEF IsDb
<1>3. new \in Nat
  BY DbParts DEF IsDb
<1>4. ASSUME NEW m \in MessageIds(n), NEW k \in MessageIds(n), k < m
      PROVE  /\ n.messages[k].ts < n.messages[m].ts
             /\ n.messages[k].chat = n.messages[m].chat /\ n.messages[m].sender = User
                    => ~Unread(n, k, User)
  <2>. HIDE DEF new
  <2>1. k \in MessageIds(s)
    BY <1>1, <1>2, <1>3, <1>4
  <2>2. CASE m = new
    <3>1. n.messages[k].ts < n.messages[m].ts
      BY <2>1, <2>2 DEF Kept, IsLate, new
    <3>2. n.messages[k].chat = s.messages[k].chat
      BY <2>1 DEF Kept
    <3>. QED BY <1>1, <2>1, <2>2, <3>1, <3>2
  <2>3. CASE m \in MessageIds(s)
    <3>1. /\ n.messages[k].ts < n.messages[m].ts
          /\ s.messages[k].chat = s.messages[m].chat /\ s.messages[m].sender = User
                 => ~Unread(s, k, User)
      BY <1>4, <2>1, <2>3 DEF Kept, StoredInOrder
    <3>. QED BY <2>1, <2>3, <3>1, ReadStays DEF Kept
  <2>. QED BY <1>1, <2>2, <2>3
<1>. QED BY <1>4 DEF StoredInOrder

\* Without a new message they stay in order as well.
LEMMA SameInOrder ==
    ASSUME NEW s, IsDb(s), StoredInOrder(s), NEW n, Kept(s, n), MessageIds(n) = MessageIds(s)
    PROVE  StoredInOrder(n)
<1>1. ASSUME NEW m \in MessageIds(n), NEW k \in MessageIds(n), k < m
      PROVE  /\ n.messages[k].ts < n.messages[m].ts
             /\ n.messages[k].chat = n.messages[m].chat /\ n.messages[m].sender = User
                    => ~Unread(n, k, User)
  <2>1. /\ n.messages[k].ts < n.messages[m].ts
        /\ s.messages[k].chat = s.messages[m].chat /\ s.messages[m].sender = User
               => ~Unread(s, k, User)
    BY <1>1 DEF Kept, StoredInOrder
  <2>. QED BY <2>1, ReadStays DEF Kept
<1>. QED BY <1>1 DEF StoredInOrder

\* What a message of u does to the database: it comes last, marks what is older in its
\* chat, and moves the sender's pointer there.
LEMMA MessageAddedIs ==
    ASSUME NEW s, IsDb(s), NEW u \in s.users, NEW c \in ChatIds(s), NEW t \in Nat,
           NEW n, n = MessageAdded(s, u, c, t)
    PROVE  /\ IsDb(n) /\ Kept(s, n) /\ ChatIds(n) = ChatIds(s) /\ OneMore(s, n, c, u)
           /\ n.messages[Len(s.messages) + 1].ts = t
           /\ Len(n.messages) = Len(s.messages) + 1
           /\ ~Unread(n, Len(s.messages) + 1, u)
           /\ \A m \in MessageIds(s) :
                 s.messages[m].chat = c /\ s.messages[m].ts < t => ~Unread(n, m, u)
           /\ \A d \in ChatIds(s) :
                 Pointer(n, d) = IF d = c /\ u = User /\ User \in Members(s, c)
                                 THEN Len(s.messages) + 1 ELSE Pointer(s, d)
<1> DEFINE older == PreviousUnread(s, u, c, t)
           marked == MarkRead(s.messages, u, older)
           msg == [chat |-> c, sender |-> u, ts |-> t,
                   rows |-> Members(s, c) \cup {u}, read |-> {u}]
           new == Len(s.messages) + 1
           pointers == [w \in Logins |-> IF w = u /\ u \in Members(s, c)
                                         THEN new ELSE s.chats[c].lastRead[w]]
           row == [s.chats[c] EXCEPT !.lastRead = pointers]
<1>1. s \in Store /\ Consistent(s) /\ User \in Logins /\ User \in s.users
  BY DbParts DEF IsDb
<1>2. /\ n \in Store /\ Consistent(n) /\ Kept(s, n)
      /\ ChatIds(n) = ChatIds(s) /\ OneMore(s, n, c, u)
  BY <1>1, MessageAddedConsistent
<1>3. n = [s EXCEPT !.messages = Append(marked, msg), !.chats = [s.chats EXCEPT ![c] = row]]
  BY DEF MessageAdded
<1>4. /\ marked \in Seq(MessageRow) /\ DOMAIN marked = DOMAIN s.messages
      /\ Len(marked) = Len(s.messages)
      /\ \A k \in DOMAIN s.messages :
            /\ marked[k].rows = s.messages[k].rows
            /\ k \in older => marked[k].read = s.messages[k].read \cup {u}
            /\ k \notin older => marked[k].read = s.messages[k].read
  <2>1. s.messages \in Seq(MessageRow) /\ u \in Logins
    BY <1>1, DbParts
  <2>. QED BY <2>1, MarkReadKeeps
<1>5. msg \in MessageRow /\ msg.read = {u} /\ msg.ts = t
  <2>1. u \in Logins /\ Members(s, c) \subseteq Logins /\ c \in Nat
    BY <1>1, DbParts
  <2>. QED BY <2>1 DEF MessageRow
<1>6. row.lastRead = pointers
  <2>1. s.chats[c] \in ChatRow
    BY <1>1, DbParts
  <2>. HIDE DEF pointers
  <2>. QED BY <2>1 DEF ChatRow
<1>7. pointers[User] = IF u = User /\ User \in Members(s, c) THEN new ELSE Pointer(s, c)
  BY <1>1 DEF Pointer
<1>. HIDE DEF marked, msg, row, pointers
<1>8. n.messages = Append(marked, msg) /\ n.chats = [s.chats EXCEPT ![c] = row]
  BY <1>1, <1>3 DEF Store
<1>9. /\ \A k \in MessageIds(s) : n.messages[k] = marked[k]
      /\ n.messages[new] = msg /\ Len(n.messages) = new
  BY <1>4, <1>5, <1>8, AppendAt DEF MessageIds
<1>10. \A d \in ChatIds(s) : Pointer(n, d) = IF d = c THEN pointers[User] ELSE Pointer(s, d)
  BY <1>6, <1>8 DEF ChatIds, Pointer
<1>11. IsDb(n)
  BY <1>2, KeptIsDb
<1>12. ASSUME NEW m \in MessageIds(s), s.messages[m].chat = c, s.messages[m].ts < t
       PROVE  ~Unread(n, m, u)
  <2>1. CASE m \in older
    BY <1>4, <1>9, <2>1 DEF Unread, MessageIds
  <2>2. CASE m \notin older
    <3>1. ~Unread(s, m, u)
      BY <1>12, <2>2 DEF older, PreviousUnread
    <3>. QED BY <1>2, <3>1, ReadStays
  <2>. QED BY <2>1, <2>2
<1>13. ~Unread(n, new, u)
  BY <1>5, <1>9 DEF Unread
<1>. QED BY <1>2, <1>5, <1>7, <1>9, <1>10, <1>11, <1>12, <1>13

\* A message stamped later than all leaves a database in order.
LEMMA MessageAddedInOrder ==
    ASSUME NEW s, IsDb(s), StoredInOrder(s), NEW u \in s.users, NEW c \in ChatIds(s), NEW t \in Nat,
           IsLate(s, t)
    PROVE  StoredInOrder(MessageAdded(s, u, c, t))
<1> DEFINE n == MessageAdded(s, u, c, t)
<1>1. /\ IsDb(n) /\ Kept(s, n) /\ OneMore(s, n, c, u) /\ n.messages[Len(s.messages) + 1].ts = t
      /\ \A m \in MessageIds(s) :
            s.messages[m].chat = c /\ s.messages[m].ts < t => ~Unread(n, m, u)
  BY MessageAddedIs
<1>. HIDE DEF n
<1>2. n \in Store
  BY <1>1 DEF IsDb
<1>3. u = User => \A m \in MessageIds(s) : s.messages[m].chat = c => ~Unread(n, m, User)
  BY <1>1 DEF IsLate
<1>4. StoredInOrder(n)
  BY <1>1, <1>2, <1>3, KeptInOrder
<1>. QED BY <1>4 DEF n

\* What a new chat of u does to the database.
LEMMA ChatAddedIs ==
    ASSUME NEW s, IsDb(s), NEW u \in s.users, NEW list, NEW t \in Nat,
           NEW n, n = ChatAdded(s, u, list, t)
    PROVE  /\ IsDb(n) /\ Kept(s, n) /\ ChatIds(n) = ChatIds(s) \cup {Len(s.chats) + 1}
           /\ Len(n.chats) = Len(s.chats) + 1 /\ u \in Members(n, Len(s.chats) + 1)
           /\ OneMore(s, n, Len(s.chats) + 1, u)
           /\ n.messages[Len(s.messages) + 1].ts = t
           /\ Len(n.messages) = Len(s.messages) + 1
           /\ ~Unread(n, Len(s.messages) + 1, u)
           /\ \A m \in MessageIds(s) : s.messages[m].chat # Len(s.chats) + 1
           /\ \A d \in ChatIds(s) : Pointer(n, d) = Pointer(s, d)
<1> DEFINE c == Len(s.chats) + 1
           new == Len(s.messages) + 1
           all == (list \cap s.users) \cup {u}
           row == [members |-> all, lastRead |-> [w \in Logins |-> IF w = u THEN new ELSE 0]]
           msg == [chat |-> c, sender |-> u, ts |-> t, rows |-> all, read |-> {u}]
<1>1. /\ s \in Store /\ Consistent(s) /\ s.chats \in Seq(ChatRow) /\ s.messages \in Seq(MessageRow)
      /\ s.users \subseteq Logins /\ c \in Nat /\ new \in Nat
  BY DbParts DEF IsDb
<1>2. /\ n \in Store /\ Consistent(n) /\ Kept(s, n) /\ ChatIds(n) = ChatIds(s) \cup {c}
      /\ Members(n, c) = all /\ OneMore(s, n, c, u)
  BY <1>1, ChatAddedConsistent
<1>3. row \in ChatRow /\ msg \in MessageRow /\ msg.read = {u} /\ msg.ts = t
  BY <1>1 DEF ChatRow, MessageRow
<1>4. n = [s EXCEPT !.messages = Append(s.messages, msg), !.chats = Append(s.chats, row)]
  BY DEF ChatAdded
<1>. HIDE DEF row, msg
<1>5. n.messages = Append(s.messages, msg) /\ n.chats = Append(s.chats, row)
  BY <1>1, <1>4 DEF Store
<1>6. /\ n.messages[new] = msg /\ Len(n.messages) = new
  BY <1>1, <1>3, <1>5, AppendAt
<1>7. Len(n.chats) = c /\ \A d \in ChatIds(s) : n.chats[d] = s.chats[d]
  BY <1>1, <1>3, <1>5, AppendAt DEF ChatIds
<1>8. ~Unread(n, new, u)
  BY <1>3, <1>6 DEF Unread
<1>9. \A m \in MessageIds(s) : s.messages[m].chat # c
  <2>1. c \notin ChatIds(s)
    BY <1>1, DbParts
  <2>. QED BY <1>1, <2>1 DEF Consistent, StatusRowsComplete, RowsComplete
<1>10. u \in Members(n, c)
  BY <1>2
<1>11. IsDb(n)
  <2>1. \E m \in MessageIds(n) : n.messages[m].chat = c
    BY <1>2 DEF OneMore
  <2>. HIDE DEF c
  <2>2. ChatIds(n) \subseteq ChatIds(s) \cup {c}
    BY <1>2
  <2>. QED BY <1>2, <2>1, <2>2, KeptIsDb
<1>12. \A d \in ChatIds(s) : Pointer(n, d) = Pointer(s, d)
  BY <1>7 DEF Pointer
<1>. QED BY <1>2, <1>3, <1>6, <1>7, <1>8, <1>9, <1>10, <1>11, <1>12

\* So does a new chat, whose message is stamped later than all.
LEMMA ChatAddedInOrder ==
    ASSUME NEW s, IsDb(s), StoredInOrder(s), NEW u \in s.users, NEW list, NEW t \in Nat,
           IsLate(s, t)
    PROVE  StoredInOrder(ChatAdded(s, u, list, t))
<1> DEFINE n == ChatAdded(s, u, list, t)
           c == Len(s.chats) + 1
<1>1. /\ IsDb(n) /\ Kept(s, n) /\ OneMore(s, n, c, u)
      /\ \A m \in MessageIds(s) : s.messages[m].chat # c
  BY ChatAddedIs
<1>0. n.messages[Len(s.messages) + 1].ts = t
  BY ChatAddedIs
<1>. HIDE DEF n, c
<1>2. n \in Store
  BY <1>1 DEF IsDb
<1>3. StoredInOrder(n)
  BY <1>0, <1>1, <1>2, KeptInOrder
<1>. QED BY <1>3 DEF n

\* What reporting message m of chat c as read does to the database.
LEMMA ReadMarkedIs ==
    ASSUME NEW s, IsDb(s), NEW c \in ChatIds(s), User \in Members(s, c), NEW m,
           IsMessageOf(s, m, c), NEW n, n = ReadMarked(s, User, c, m)
    PROVE  /\ IsDb(n) /\ Kept(s, n) /\ ChatIds(n) = ChatIds(s) /\ MessageIds(n) = MessageIds(s)
           /\ \A k \in MessageIds(s) :
                 s.messages[k].chat = c /\ s.messages[k].ts <= s.messages[m].ts
                    => ~Unread(n, k, User)
           /\ \A d \in ChatIds(s) : Pointer(n, d) = IF d = c THEN m ELSE Pointer(s, d)
<1> DEFINE seen == ReadUpTo(s, User, c, m)
           marked == MarkRead(s.messages, User, seen)
           pointers == [s.chats[c].lastRead EXCEPT ![User] = m]
           row == [s.chats[c] EXCEPT !.lastRead = pointers]
<1>1. /\ s \in Store /\ Consistent(s) /\ User \in Logins /\ m \in Nat /\ m \in MessageIds(s)
      /\ s.messages \in Seq(MessageRow) /\ s.chats[c] \in ChatRow
  BY DbParts DEF IsDb, IsMessageOf
<1>2. /\ n \in Store /\ Consistent(n) /\ Kept(s, n)
      /\ ChatIds(n) = ChatIds(s) /\ MessageIds(n) = MessageIds(s)
  BY <1>1, ReadMarkedConsistent
<1>3. n = [s EXCEPT !.messages = marked, !.chats = [s.chats EXCEPT ![c] = row]]
  BY DEF ReadMarked, TakesPart
<1>4. /\ DOMAIN marked = DOMAIN s.messages
      /\ \A k \in DOMAIN s.messages : k \in seen => marked[k].read = s.messages[k].read \cup {User}
  BY <1>1, MarkReadKeeps
<1>5. row.lastRead = pointers /\ pointers[User] = m
  <2>1. pointers[User] = m
    BY <1>1 DEF ChatRow
  <2>2. row.lastRead = pointers
    <3>. HIDE DEF pointers
    <3>. QED BY <1>1 DEF ChatRow
  <2>. QED BY <2>1, <2>2
<1>. HIDE DEF marked, row, pointers
<1>6. n.messages = marked /\ n.chats = [s.chats EXCEPT ![c] = row]
  BY <1>1, <1>3 DEF Store
<1>7. ASSUME NEW k \in MessageIds(s), s.messages[k].chat = c, s.messages[k].ts <= s.messages[m].ts
      PROVE  ~Unread(n, k, User)
  <2>1. CASE k \in seen
    BY <1>4, <1>6, <2>1 DEF Unread, MessageIds
  <2>2. CASE k \notin seen
    <3>1. ~Unread(s, k, User)
      BY <1>1, <1>7, <2>2 DEF seen, ReadUpTo
    <3>. QED BY <1>2, <3>1, ReadStays
  <2>. QED BY <2>1, <2>2
<1>8. \A d \in ChatIds(s) : Pointer(n, d) = IF d = c THEN m ELSE Pointer(s, d)
  BY <1>5, <1>6 DEF ChatIds, Pointer
<1>9. IsDb(n)
  BY <1>2, KeptIsDb
<1>. QED BY <1>2, <1>7, <1>8, <1>9

-----------------------------------------------------------------------------
(* The copy of a chat.                                                     *)

LocalFields == {"msgs", "lastRead", "stamps", "shown", "lost"}

\* The fields of a copy.
LEMMA LocalParts ==
    ASSUME NEW ch \in LocalChat
    PROVE  /\ DOMAIN ch = LocalFields
           /\ ch.msgs \in Seq(LocalMessage) /\ Len(ch.msgs) \in Nat
           /\ DOMAIN ch.msgs = 1 .. Len(ch.msgs)
           /\ \A i \in DOMAIN ch.msgs : /\ ch.msgs[i] \in LocalMessage
                                        /\ ch.msgs[i].id \in Nat /\ ch.msgs[i].ts \in Nat
           /\ ch.lastRead \in Nat /\ ch.stamps \in SUBSET (Nat \X Nat)
           /\ ch.shown \in Nat /\ ch.lost \in BOOLEAN
<1>1. /\ DOMAIN ch = LocalFields /\ ch.msgs \in Seq(LocalMessage)
      /\ ch.lastRead \in Nat /\ ch.stamps \in SUBSET (Nat \X Nat)
      /\ ch.shown \in Nat /\ ch.lost \in BOOLEAN
  BY DEF LocalChat, LocalFields
<1>2. Len(ch.msgs) \in Nat /\ DOMAIN ch.msgs = 1 .. Len(ch.msgs)
  BY <1>1, LenProperties
<1>3. \A i \in DOMAIN ch.msgs : ch.msgs[i] \in LocalMessage
  BY <1>1, <1>2
<1>. QED BY <1>1, <1>2, <1>3 DEF LocalMessage

\* The messages r are the messages q with m somewhere among them.
With(q, m, r) ==
    \E k \in 1 .. Len(q) + 1 : /\ r[k] = m
                               /\ \A j \in 1 .. k - 1 : r[j] = q[j]
                               /\ \A j \in k + 1 .. Len(q) + 1 : r[j] = q[j - 1]

\* A message is added to a copy; it comes last if it is the latest.
LEMMA WithMessageIs ==
    ASSUME NEW ch \in LocalChat, NEW m \in LocalMessage, NEW new, new = WithMessage(ch, m)
    PROVE  /\ new \in LocalChat
           /\ Len(new.msgs) = Len(ch.msgs) + 1 /\ new.msgs # <<>>
           /\ new.lost = ch.lost /\ new.shown = ch.shown
           /\ new.lastRead = IF m.sender = User THEN m.id ELSE ch.lastRead
           /\ new.stamps \subseteq ch.stamps \cup {<<m.id, m.ts>>}
           /\ (\A i \in DOMAIN ch.msgs : ch.msgs[i].ts < m.ts) =>
                 /\ \A i \in DOMAIN ch.msgs : new.msgs[i] = ch.msgs[i]
                 /\ new.msgs[Len(ch.msgs) + 1] = m
           /\ With(ch.msgs, m, new.msgs)
<1> DEFINE before == {i \in DOMAIN ch.msgs : ch.msgs[i].ts <= m.ts}
           place == 1 + Cardinality(before)
           known == \E p \in ch.stamps : p[1] = m.id
           stamps == IF known THEN ch.stamps ELSE ch.stamps \cup {<<m.id, m.ts>>}
           read == IF m.sender = User THEN m.id ELSE ch.lastRead
           msgs == InsertAt(ch.msgs, place, m)
           len == Len(ch.msgs)
<1>1. new = [ch EXCEPT !.msgs = msgs, !.stamps = stamps, !.lastRead = read]
  BY Zenon DEF WithMessage
<1>2. /\ m.id \in Nat /\ m.ts \in Nat /\ len \in Nat /\ DOMAIN ch.msgs = 1 .. len
      /\ ch.msgs \in Seq(LocalMessage) /\ \A i \in DOMAIN ch.msgs : ch.msgs[i].ts \in Nat
  BY LocalParts DEF LocalMessage
<1>3. place = 1 + Cardinality(before)
  OBVIOUS
<1>4. IsFiniteSet(1 .. len) /\ Cardinality(1 .. len) = len
  BY <1>2, FS_Interval
<1>5. place \in 1 .. len + 1
  <2>1. before \in SUBSET (1 .. len)
    BY <1>2
  <2>. HIDE DEF before
  <2>2. Cardinality(before) \in Nat /\ Cardinality(before) <= len
    BY <1>4, <2>1, FS_Subset, FS_CardinalityType, ZenonT(40)
  <2>. QED BY <1>2, <1>3, <2>2
<1>6. (\A i \in DOMAIN ch.msgs : ch.msgs[i].ts < m.ts) => place = len + 1
  <2>1. ASSUME \A i \in DOMAIN ch.msgs : ch.msgs[i].ts < m.ts
        PROVE  before = 1 .. len
    BY <1>2, <2>1
  <2>. HIDE DEF before
  <2>. QED BY <1>2, <1>3, <1>4, <2>1
<1>. HIDE DEF place
<1>7. /\ msgs \in Seq(LocalMessage) /\ Len(msgs) = len + 1
      /\ \A j \in 1 .. place - 1 : msgs[j] = ch.msgs[j]
      /\ msgs[place] = m
      /\ With(ch.msgs, m, msgs)
  <2>. HIDE DEF before, known, stamps, read
  <2>1. ch.msgs \in Seq(LocalMessage) /\ place \in 1 .. Len(ch.msgs) + 1
    BY <1>2, <1>5
  <2>. HIDE DEF len
  <2>2. /\ msgs \in Seq(LocalMessage) /\ Len(msgs) = Len(ch.msgs) + 1
        /\ \A j \in 1 .. place - 1 : msgs[j] = ch.msgs[j]
        /\ msgs[place] = m
        /\ \A j \in place + 1 .. Len(ch.msgs) + 1 : msgs[j] = ch.msgs[j - 1]
    BY <2>1, InsertAtIs, SMTT(40)
  <2>3. With(ch.msgs, m, msgs)
    BY <2>1, <2>2 DEF With
  <2>. QED BY <2>2, <2>3 DEF len
<1>. HIDE DEF msgs
<1>8. /\ stamps \in SUBSET (Nat \X Nat) /\ stamps \subseteq ch.stamps \cup {<<m.id, m.ts>>}
      /\ read \in Nat
  BY <1>2, LocalParts
<1>. HIDE DEF stamps, read
<1>9. /\ DOMAIN new = LocalFields /\ new.msgs = msgs /\ new.stamps = stamps /\ new.lastRead = read
      /\ new.lost = ch.lost /\ new.shown = ch.shown
  <2>1. DOMAIN ch = LocalFields
    BY LocalParts
  <2>. QED BY <1>1, <2>1, Zenon DEF LocalFields
<1>10. new \in LocalChat
  BY <1>1, <1>7, <1>8 DEF LocalChat
<1>11. new.msgs # <<>>
  <2>1. Len(new.msgs) # 0
    BY <1>2, <1>7, <1>9
  <2>. QED BY <2>1
<1>12. (\A i \in DOMAIN ch.msgs : ch.msgs[i].ts < m.ts) =>
          /\ \A i \in DOMAIN ch.msgs : new.msgs[i] = ch.msgs[i]
          /\ new.msgs[len + 1] = m
  BY <1>2, <1>6, <1>7, <1>9
<1>13. With(ch.msgs, m, new.msgs)
  BY <1>7, <1>9
<1>. QED BY <1>7, <1>8, <1>9, <1>10, <1>11, <1>12, <1>13 DEF read

-----------------------------------------------------------------------------
(* What is true of a copy.                                                 *)

\* The message of a copy is the one of that id in the database.
Faithful(s, c, m) ==
    /\ IsMessageOf(s, m.id, c)
    /\ s.messages[m.id].ts = m.ts /\ s.messages[m.id].sender = m.sender

InDb(s, c, ch) == \A i \in DOMAIN ch.msgs : Faithful(s, c, ch.msgs[i])

\* The ids of a copy are of messages of its chat, and unless some message has none all
\* are the messages of their ids.
IdsFit(s, c, ch) ==
    /\ \A i \in DOMAIN ch.msgs : ch.msgs[i].id # 0 => IsMessageOf(s, ch.msgs[i].id, c)
    /\ (\E i \in DOMAIN ch.msgs : ch.msgs[i].id = 0) \/ InDb(s, c, ch)

\* The last message has an id.
IsNumbered(s, c, ch) == IdsFit(s, c, ch) /\ Last(ch.msgs).id # 0

Increasing(msgs) == \A i, j \in DOMAIN msgs : i < j => msgs[i].ts < msgs[j].ts

UnreadIn(s, ch) == {i \in DOMAIN ch.msgs : Unread(s, ch.msgs[i].id, User)}

AllRead(s, ch) == \A i \in DOMAIN ch.msgs : ~Unread(s, ch.msgs[i].id, User)

\* The messages of a copy up to time t have been read.
ReadUntil(s, ch, t) ==
    \A i \in DOMAIN ch.msgs : ch.msgs[i].ts <= t => ~Unread(s, ch.msgs[i].id, User)

\* Those up to the pointer of the copy have.
PointerRead(s, ch) ==
    /\ \A p \in ch.stamps : p[1] = ch.lastRead => ReadUntil(s, ch, p[2])
    /\ ch.lastRead = Last(ch.msgs).id => AllRead(s, ch)

IsTrueCopy(s, c, ch) ==
    /\ InDb(s, c, ch) /\ Increasing(ch.msgs)
    /\ ch.lost \/ PointerRead(s, ch)

IsCopy(s, c, ch) ==
    /\ ch \in LocalChat /\ ch.msgs # <<>>
    /\ c \in ChatIds(s) /\ User \in Members(s, c)
    /\ IsNumbered(s, c, ch)
    /\ InOrder(s) => IsTrueCopy(s, c, ch)

\* The row of the list does not say less than what is unread.
Counted(s, ch) == ch.lost \/ ch.shown >= Cardinality(UnreadIn(s, ch))

\* The database, of clocks that may have agreed.
IsChatDb(s) == IsDb(s) /\ (InOrder(s) => StoredInOrder(s))

\* A copy that has been read has nothing that its pointer could hide.
LEMMA ReadCopy ==
    ASSUME NEW s, NEW ch, AllRead(s, ch) PROVE PointerRead(s, ch)
BY DEF AllRead, PointerRead, ReadUntil

\* The last message of a copy.
LEMMA LastIs ==
    ASSUME NEW ch \in LocalChat, ch.msgs # <<>>
    PROVE  /\ Len(ch.msgs) \in DOMAIN ch.msgs
           /\ Last(ch.msgs) = ch.msgs[Len(ch.msgs)]
           /\ Last(ch.msgs).id \in Nat /\ Last(ch.msgs).ts \in Nat
           /\ Increasing(ch.msgs) => \A i \in DOMAIN ch.msgs : ch.msgs[i].ts <= Last(ch.msgs).ts
<1>1. /\ ch.msgs \in Seq(LocalMessage) /\ Len(ch.msgs) \in Nat
      /\ DOMAIN ch.msgs = 1 .. Len(ch.msgs)
      /\ \A i \in DOMAIN ch.msgs : ch.msgs[i].id \in Nat /\ ch.msgs[i].ts \in Nat
  BY LocalParts
<1>2. Len(ch.msgs) # 0
  BY <1>1
<1>3. Len(ch.msgs) \in DOMAIN ch.msgs
  BY <1>1, <1>2
<1>4. ASSUME Increasing(ch.msgs), NEW i \in DOMAIN ch.msgs
      PROVE  ch.msgs[i].ts <= ch.msgs[Len(ch.msgs)].ts
  <2>1. i = Len(ch.msgs) \/ i < Len(ch.msgs)
    BY <1>1
  <2>2. i < Len(ch.msgs) => ch.msgs[i].ts < ch.msgs[Len(ch.msgs)].ts
    BY <1>3, <1>4 DEF Increasing
  <2>. QED BY <1>1, <1>3, <2>1, <2>2
<1>. QED BY <1>1, <1>3, <1>4 DEF Last

-----------------------------------------------------------------------------
(* Loading a chat.                                                         *)

\* What is read up to message m of chat c.
IsReadUpTo(s, c, m) ==
    m # 0 => /\ IsMessageOf(s, m, c)
             /\ \A n \in MessageIds(s) :
                   s.messages[n].chat = c /\ s.messages[n].ts <= s.messages[m].ts
                      => ~Unread(s, n, User)

\* What a copy is when the messages up to k have been loaded.
IsLoaded(s, c, ch, k) ==
    /\ ch \in LocalChat /\ ~ch.lost
    /\ (\E m \in 1 .. k : s.messages[m].chat = c) => ch.msgs # <<>>
    /\ InDb(s, c, ch)
    /\ InOrder(s) =>
          /\ \A i \in DOMAIN ch.msgs : ch.msgs[i].id <= k
          /\ Increasing(ch.msgs)
          /\ \A p \in ch.stamps : IsMessageOf(s, p[1], c) /\ p[2] = s.messages[p[1]].ts
          /\ IsReadUpTo(s, c, ch.lastRead)

\* The user's pointer names a message up to which everything is read.
LEMMA PointerReadUpTo ==
    ASSUME NEW s, IsDb(s), StoredInOrder(s), NEW c \in ChatIds(s)
    PROVE  IsReadUpTo(s, c, Pointer(s, c))
<1> DEFINE p == Pointer(s, c)
<1>. SUFFICES ASSUME p # 0
              PROVE  /\ IsMessageOf(s, p, c)
                     /\ \A n \in MessageIds(s) :
                           s.messages[n].chat = c /\ s.messages[n].ts <= s.messages[p].ts
                              => ~Unread(s, n, User)
  BY DEF IsReadUpTo
<1>1. s \in Store /\ User \in Logins /\ Consistent(s)
  BY DbParts DEF IsDb
<1>2. User \in Members(s, c) /\ IsMessageOf(s, p, c) /\ User \in s.messages[p].read
  BY <1>1 DEF Consistent, PointerIsRead, PointsToRead, Pointer
<1>3. ASSUME NEW n \in MessageIds(s), s.messages[n].chat = c, s.messages[n].ts <= s.messages[p].ts
      PROVE  ~Unread(s, n, User)
  <2>1. p \in MessageIds(s) /\ p \in Nat /\ n \in Nat
    BY <1>1, <1>2, DbParts DEF IsMessageOf
  <2>2. /\ s.messages[n].ts \in Nat /\ s.messages[p].ts \in Nat
    BY <1>1, <2>1, DbParts
  <2>3. CASE n = p
    BY <1>2, <2>3 DEF Unread
  <2>4. CASE n < p
    <3>1. s.messages[n].ts < s.messages[p].ts
      BY <2>1, <2>4 DEF StoredInOrder
    <3>2. NotHidden(s, c, User, n)
      BY <1>1, SMTT(40) DEF Consistent, NothingUnreadBehindPointer
    <3>3. User \in s.messages[n].read
      BY <1>2, <1>3, <2>4, <3>1, <3>2 DEF NotHidden, Pointer
    <3>. QED BY <3>3 DEF Unread
  <2>5. CASE p < n
    <3>1. s.messages[p].ts < s.messages[n].ts
      BY <2>1, <2>5 DEF StoredInOrder
    <3>. QED BY <1>3, <2>2, <3>1
  <2>. QED BY <2>1, <2>3, <2>4, <2>5
<1>. QED BY <1>2, <1>3

\* A copy without messages.
EmptyCopy(p) == [msgs |-> <<>>, lastRead |-> p, stamps |-> {}, shown |-> 0, lost |-> FALSE]

\* It is a copy with nothing in it.
LEMMA EmptyCopyIs ==
    ASSUME NEW p \in Nat
    PROVE  LET ch == EmptyCopy(p)
           IN  /\ ch.msgs = <<>> /\ ch.stamps = {} /\ ch.lost = FALSE
               /\ ch.lastRead = p /\ ch \in LocalChat
<1>1. <<>> \in Seq(LocalMessage)
  BY EmptySeq
<1>. QED BY <1>1 DEF EmptyCopy, LocalChat

\* Before the first message the copy has the pointer of the database.
LEMMA LoadsNothing ==
    ASSUME NEW s, IsChatDb(s), NEW c \in ChatIds(s), NEW ch,
           ch = [EmptyChat EXCEPT !.lastRead = s.chats[c].lastRead[User]]
    PROVE  IsLoaded(s, c, ch, 0)
<1>1. s \in Store /\ User \in Logins /\ s.chats[c].lastRead[User] \in Nat
  BY DbParts DEF IsChatDb, IsDb
<1>2. /\ ch.msgs = <<>> /\ ch.stamps = {} /\ ch.lost = FALSE
      /\ ch.lastRead = Pointer(s, c) /\ ch \in LocalChat
  <2>1. ch = EmptyCopy(Pointer(s, c))
    BY DEF EmptyChat, Pointer, EmptyCopy
  <2>2. Pointer(s, c) \in Nat
    BY <1>1 DEF Pointer
  <2>. QED BY <2>1, <2>2, EmptyCopyIs
<1>3. InOrder(s) => IsReadUpTo(s, c, ch.lastRead)
  BY <1>2, PointerReadUpTo DEF IsChatDb
<1>4. DOMAIN ch.msgs = {}
  BY <1>2
<1>. QED BY <1>2, <1>3, <1>4 DEF IsLoaded, InDb, Increasing

\* The message with the id k is loaded.
RowOf(s, k) == [id |-> k, ts |-> s.messages[k].ts, sender |-> s.messages[k].sender]

\* The message that is loaded is one for a copy.
LEMMA RowIs ==
    ASSUME NEW s, IsDb(s), NEW k \in MessageIds(s)
    PROVE  /\ RowOf(s, k) \in LocalMessage /\ RowOf(s, k).id = k
           /\ RowOf(s, k).ts = s.messages[k].ts /\ RowOf(s, k).sender = s.messages[k].sender
<1>1. s.messages[k].ts \in Nat /\ s.messages[k].sender \in Logins /\ k \in Nat
  BY DbParts DEF IsDb
<1>. QED BY <1>1 DEF RowOf, LocalMessage

\* A message of the chat is loaded: it comes last, and what it makes read is read.
LEMMA LoadsOne ==
    ASSUME NEW s, IsChatDb(s), NEW c, NEW k \in MessageIds(s), s.messages[k].chat = c,
           NEW ch, IsLoaded(s, c, ch, k - 1), NEW new, new = WithMessage(ch, RowOf(s, k))
    PROVE  IsLoaded(s, c, new, k)
<1> DEFINE m == RowOf(s, k)
           len == Len(ch.msgs)
<1>1. /\ IsDb(s) /\ s \in Store /\ k \in Nat
      /\ MessageIds(s) = 1 .. Len(s.messages) /\ Len(s.messages) \in Nat
      /\ \A n \in MessageIds(s) : s.messages[n].ts \in Nat
  BY DbParts DEF IsChatDb, IsDb
<1>2. /\ m \in LocalMessage /\ m.id = k
      /\ m.ts = s.messages[k].ts /\ m.sender = s.messages[k].sender
  BY <1>1, RowIs
<1>3. ch \in LocalChat /\ ~ch.lost
  BY DEF IsLoaded
<1>4. /\ len \in Nat /\ DOMAIN ch.msgs = 1 .. len
      /\ \A i \in DOMAIN ch.msgs : ch.msgs[i].id \in Nat /\ ch.msgs[i].ts \in Nat
  BY <1>3, LocalParts
<1>. HIDE DEF m
<1>5. new = WithMessage(ch, m)
  BY DEF m
<1>6. /\ new \in LocalChat /\ Len(new.msgs) = len + 1 /\ new.msgs # <<>> /\ new.lost = ch.lost
      /\ new.lastRead = IF m.sender = User THEN m.id ELSE ch.lastRead
      /\ new.stamps \subseteq ch.stamps \cup {<<m.id, m.ts>>}
      /\ (\A i \in DOMAIN ch.msgs : ch.msgs[i].ts < m.ts) =>
            /\ \A i \in DOMAIN ch.msgs : new.msgs[i] = ch.msgs[i]
            /\ new.msgs[len + 1] = m
      /\ With(ch.msgs, m, new.msgs)
  BY <1>2, <1>3, <1>5, WithMessageIs
<1>7. DOMAIN new.msgs = 1 .. len + 1
  BY <1>6, LocalParts
<1>8. InDb(s, c, new)
  <2>1. PICK j \in 1 .. len + 1 :
            /\ new.msgs[j] = m
            /\ \A i \in 1 .. j - 1 : new.msgs[i] = ch.msgs[i]
            /\ \A i \in j + 1 .. len + 1 : new.msgs[i] = ch.msgs[i - 1]
    BY <1>6 DEF With
  <2>2. \A i \in DOMAIN ch.msgs : Faithful(s, c, ch.msgs[i])
    BY DEF IsLoaded, InDb
  <2>3. Faithful(s, c, m)
    BY <1>2 DEF Faithful, IsMessageOf
  <2>4. ASSUME NEW i \in DOMAIN new.msgs PROVE Faithful(s, c, new.msgs[i])
    <3>1. \/ i \in 1 .. j - 1 /\ i \in DOMAIN ch.msgs
          \/ i = j
          \/ i \in j + 1 .. len + 1 /\ i - 1 \in DOMAIN ch.msgs
      BY <1>4, <1>7
    <3>. QED BY <2>1, <2>2, <2>3, <3>1
  <2>. QED BY <2>4 DEF InDb
<1>9. ASSUME InOrder(s)
      PROVE  /\ \A i \in DOMAIN new.msgs : new.msgs[i].id <= k
             /\ Increasing(new.msgs)
             /\ \A p \in new.stamps : IsMessageOf(s, p[1], c) /\ p[2] = s.messages[p[1]].ts
             /\ IsReadUpTo(s, c, new.lastRead)
  <2>1. /\ InDb(s, c, ch) /\ \A i \in DOMAIN ch.msgs : ch.msgs[i].id <= k - 1
        /\ Increasing(ch.msgs)
        /\ \A p \in ch.stamps : IsMessageOf(s, p[1], c) /\ p[2] = s.messages[p[1]].ts
        /\ IsReadUpTo(s, c, ch.lastRead)
    BY <1>9 DEF IsLoaded
  <2>2. StoredInOrder(s)
    BY <1>9 DEF IsChatDb
  <2>3. \A i \in DOMAIN ch.msgs : ch.msgs[i].ts < m.ts
    <3>. SUFFICES ASSUME NEW i \in DOMAIN ch.msgs PROVE ch.msgs[i].ts < m.ts
      OBVIOUS
    <3>1. ch.msgs[i].id \in MessageIds(s) /\ ch.msgs[i].ts = s.messages[ch.msgs[i].id].ts
      BY <2>1 DEF InDb, Faithful, IsMessageOf
    <3>2. ch.msgs[i].id < k
      BY <1>1, <1>4, <2>1
    <3>3. s.messages[ch.msgs[i].id].ts < s.messages[k].ts
      BY <2>2, <3>1, <3>2 DEF StoredInOrder
    <3>. QED BY <1>2, <3>1, <3>3
  <2>4. /\ \A i \in DOMAIN ch.msgs : new.msgs[i] = ch.msgs[i]
        /\ new.msgs[len + 1] = m
    BY <1>6, <2>3
  <2>5. IsMessageOf(s, k, c)
    BY DEF IsMessageOf
  <2>6. \A i \in DOMAIN new.msgs : i \in DOMAIN ch.msgs \/ i = len + 1
    BY <1>4, <1>7
  <2>9. \A i \in DOMAIN new.msgs : new.msgs[i].id <= k
    <3>1. \A i \in DOMAIN ch.msgs : ch.msgs[i].id <= k
      BY <1>1, <1>4, <2>1
    <3>2. k <= k
      BY <1>1
    <3>. QED BY <1>2, <2>4, <2>6, <3>1, <3>2
  <2>10. Increasing(new.msgs)
    <3>. SUFFICES ASSUME NEW i \in DOMAIN new.msgs, NEW j \in DOMAIN new.msgs, i < j
                  PROVE  new.msgs[i].ts < new.msgs[j].ts
      BY DEF Increasing
    <3>1. i \in DOMAIN ch.msgs
      BY <1>4, <1>7
    <3>2. CASE j \in DOMAIN ch.msgs
      BY <2>1, <2>4, <3>1, <3>2 DEF Increasing
    <3>3. CASE j = len + 1
      BY <2>3, <2>4, <3>1, <3>3
    <3>. QED BY <2>6, <3>2, <3>3
  <2>11. \A p \in new.stamps : IsMessageOf(s, p[1], c) /\ p[2] = s.messages[p[1]].ts
    <3>. SUFFICES ASSUME NEW p \in new.stamps
                  PROVE  IsMessageOf(s, p[1], c) /\ p[2] = s.messages[p[1]].ts
      OBVIOUS
    <3>1. CASE p \in ch.stamps
      BY <2>1, <3>1
    <3>2. CASE p = <<m.id, m.ts>>
      <4>1. p[1] = k /\ p[2] = s.messages[k].ts
        BY <1>2, <3>2
      <4>. QED BY <2>5, <4>1
    <3>. QED BY <1>6, <3>1, <3>2
  <2>12. IsReadUpTo(s, c, new.lastRead)
    <3>1. CASE m.sender = User
      <4>1. new.lastRead = k
        BY <1>2, <1>6, <3>1
      <4>2. User \in s.messages[k].read
        BY <1>1, <1>2, <3>1 DEF IsDb, Consistent, StatusRowsComplete, RowsComplete
      <4>3. ASSUME NEW n \in MessageIds(s), s.messages[n].chat = c,
                   s.messages[n].ts <= s.messages[k].ts
            PROVE  ~Unread(s, n, User)
        <5>1. n \in Nat /\ s.messages[n].ts \in Nat /\ s.messages[k].ts \in Nat
          BY <1>1
        <5>2. CASE n = k
          BY <4>2, <5>2 DEF Unread
        <5>3. CASE n < k
          BY <1>2, <2>2, <3>1, <4>3, <5>3 DEF StoredInOrder
        <5>4. CASE k < n
          <6>1. s.messages[k].ts < s.messages[n].ts
            BY <2>2, <5>4 DEF StoredInOrder
          <6>. QED BY <4>3, <5>1, <6>1
        <5>. QED BY <1>1, <5>1, <5>2, <5>3, <5>4
      <4>. QED BY <2>5, <4>1, <4>3 DEF IsReadUpTo
    <3>2. CASE m.sender # User
      <4>1. new.lastRead = ch.lastRead
        BY <1>6, <3>2
      <4>. QED BY <2>1, <4>1
    <3>. QED BY <3>1, <3>2
  <2>. QED BY <2>9, <2>10, <2>11, <2>12
<1>. QED BY <1>3, <1>6, <1>8, <1>9 DEF IsLoaded

\* A message of another chat is not loaded.
LEMMA LoadsNone ==
    ASSUME NEW s, IsChatDb(s), NEW c, NEW k \in MessageIds(s), s.messages[k].chat # c,
           NEW ch, IsLoaded(s, c, ch, k - 1)
    PROVE  IsLoaded(s, c, ch, k)
<1>1. k \in Nat
  BY DbParts DEF IsChatDb, IsDb
<1>2. \A m \in 1 .. k : m = k \/ m \in 1 .. k - 1
  BY <1>1
<1>3. (\E m \in 1 .. k : s.messages[m].chat = c) => ch.msgs # <<>>
  BY <1>2 DEF IsLoaded
<1>4. ch \in LocalChat
  BY DEF IsLoaded
<1>5. \A i \in DOMAIN ch.msgs : ch.msgs[i].id \in Nat
  BY <1>4, LocalParts
<1>6. InOrder(s) => \A i \in DOMAIN ch.msgs : ch.msgs[i].id <= k
  BY <1>1, <1>5 DEF IsLoaded
<1>. QED BY <1>3, <1>6 DEF IsLoaded

\* With all of the messages it is a copy.
LEMMA LoadedIsCopy ==
    ASSUME NEW s, IsChatDb(s), NEW c \in ChatIds(s), User \in Members(s, c), NEW ch,
           IsLoaded(s, c, ch, Len(s.messages))
    PROVE  IsCopy(s, c, ch)
<1>1. /\ IsDb(s) /\ s \in Store /\ MessageIds(s) = 1 .. Len(s.messages)
  BY DbParts DEF IsChatDb, IsDb
<1>2. ch.msgs # <<>> /\ ch \in LocalChat /\ ~ch.lost /\ InDb(s, c, ch)
  BY <1>1 DEF IsDb, ChatsHaveMessages, IsLoaded
<1>3. IsNumbered(s, c, ch)
  <2>1. \A i \in DOMAIN ch.msgs : IsMessageOf(s, ch.msgs[i].id, c) /\ ch.msgs[i].id # 0
    BY <1>1, <1>2 DEF InDb, Faithful, IsMessageOf
  <2>2. Len(ch.msgs) \in DOMAIN ch.msgs /\ Last(ch.msgs) = ch.msgs[Len(ch.msgs)]
    BY <1>2, LastIs
  <2>. QED BY <1>2, <2>1, <2>2 DEF IsNumbered, IdsFit
<1>4. ASSUME InOrder(s) PROVE IsTrueCopy(s, c, ch)
  <2>1. /\ InDb(s, c, ch) /\ Increasing(ch.msgs)
        /\ \A p \in ch.stamps : IsMessageOf(s, p[1], c) /\ p[2] = s.messages[p[1]].ts
        /\ IsReadUpTo(s, c, ch.lastRead)
    BY <1>4 DEF IsLoaded
  <2>2. \A i \in DOMAIN ch.msgs :
           /\ ch.msgs[i].id \in MessageIds(s) /\ s.messages[ch.msgs[i].id].chat = c
           /\ s.messages[ch.msgs[i].id].ts = ch.msgs[i].ts
    BY <2>1 DEF InDb, Faithful, IsMessageOf
  <2>3. 0 \notin MessageIds(s)
    BY <1>1
  <2>4. ASSUME NEW p \in ch.stamps, p[1] = ch.lastRead PROVE ReadUntil(s, ch, p[2])
    <3>1. ch.lastRead # 0 /\ p[2] = s.messages[ch.lastRead].ts
      BY <2>1, <2>3, <2>4 DEF IsMessageOf
    <3>. QED BY <2>1, <2>2, <3>1 DEF IsReadUpTo, ReadUntil
  <2>5. ASSUME ch.lastRead = Last(ch.msgs).id PROVE AllRead(s, ch)
    <3>1. /\ Len(ch.msgs) \in DOMAIN ch.msgs /\ Last(ch.msgs) = ch.msgs[Len(ch.msgs)]
          /\ \A i \in DOMAIN ch.msgs : ch.msgs[i].ts <= Last(ch.msgs).ts
      BY <1>2, <2>1, LastIs
    <3>2. ch.lastRead # 0 /\ s.messages[ch.lastRead].ts = Last(ch.msgs).ts
      BY <2>2, <2>3, <2>5, <3>1
    <3>. QED BY <2>1, <2>2, <3>1, <3>2 DEF IsReadUpTo, AllRead
  <2>. QED BY <2>1, <2>4, <2>5 DEF IsTrueCopy, PointerRead
<1>. QED BY <1>2, <1>3, <1>4 DEF IsCopy

\* What a login loads is a copy of the chat, by induction over the messages.
LEMMA LoadedChatIs ==
    ASSUME NEW s, IsChatDb(s), NEW c \in ChatIds(s), User \in Members(s, c)
    PROVE  IsCopy(s, c, LoadedChat(s, c))
<1> DEFINE n == Len(s.messages)
           base == [EmptyChat EXCEPT !.lastRead = s.chats[c].lastRead[User]]
           Next1(ch, k) == IF s.messages[k].chat = c THEN WithMessage(ch, RowOf(s, k)) ELSE ch
           f == CHOOSE g : g = [k \in 0 .. n |-> IF k = 0 THEN base ELSE Next1(g[k - 1], k)]
           step == [k \in 1 .. n |-> [ch \in LocalChat |-> Next1(ch, k)]]
<1>1. LoadedChat(s, c) = f[n]
  BY Zenon DEF LoadedChat, RowOf
<1>2. /\ IsDb(s) /\ n \in Nat /\ MessageIds(s) = 1 .. n
  BY DbParts DEF IsChatDb, IsDb
<1>3. \A k \in 1 .. n : \A ch \in LocalChat : Next1(ch, k) \in LocalChat
  <2>. SUFFICES ASSUME NEW k \in 1 .. n, NEW ch \in LocalChat PROVE Next1(ch, k) \in LocalChat
    OBVIOUS
  <2>1. RowOf(s, k) \in LocalMessage
    BY <1>2, RowIs
  <2>2. WithMessage(ch, RowOf(s, k)) \in LocalChat
    BY <2>1, WithMessageIs
  <2>. QED BY <2>2
<1>4. IsLoaded(s, c, base, 0)
  BY LoadsNothing
<1>5. base \in LocalChat
  BY <1>4 DEF IsLoaded
<1>. HIDE DEF base, Next1
<1>6. /\ step \in [1 .. n -> [LocalChat -> LocalChat]]
      /\ \A k \in 1 .. n, ch \in LocalChat : step[k][ch] = Next1(ch, k)
  BY <1>3
<1>. HIDE DEF step
<1>7. \E g : g = [k \in 0 .. n |-> IF k = 0 THEN base ELSE Next1(g[k - 1], k)]
  <2>1. PICK g : IsRecursive(g, LocalChat, n, base, step)
    BY <1>2, <1>5, <1>6, Recursion, Zenon
  <2>2. \A k \in 0 .. n : k = 0 \/ (k \in 1 .. n /\ k # 0 /\ k - 1 \in 0 .. n)
    BY <1>2
  <2>3. \A k \in 1 .. n : k - 1 \in 0 .. n => g[k - 1] \in LocalChat
    BY <2>1 DEF IsRecursive
  <2>4. \A k \in 0 .. n : g[k] = IF k = 0 THEN base ELSE Next1(g[k - 1], k)
    BY <1>6, <2>1, <2>2, <2>3, Zenon DEF IsRecursive
  <2>5. g = [k \in 0 .. n |-> IF k = 0 THEN base ELSE Next1(g[k - 1], k)]
    BY <2>1, <2>4, Zenon DEF IsRecursive
  <2>. QED BY <2>5, Zenon
<1>8. f = [k \in 0 .. n |-> IF k = 0 THEN base ELSE Next1(f[k - 1], k)]
  BY <1>7, Zenon
<1>. HIDE DEF f
<1>9. \A k \in 0 .. n : (k = 0 => f[k] = base) /\ (k # 0 => f[k] = Next1(f[k - 1], k))
  BY <1>8, Zenon
<1> DEFINE T == {k \in Nat : k <= n => IsLoaded(s, c, f[k], k)}
<1>10. 0 \in T
  <2>1. 0 \in 0 .. n
    BY <1>2
  <2>2. f[0] = base
    BY <1>9, <2>1
  <2>. QED BY <1>4, <2>2
<1>11. ASSUME NEW k \in Nat, k \in T PROVE k + 1 \in T
  <2>. SUFFICES ASSUME k + 1 <= n PROVE IsLoaded(s, c, f[k + 1], k + 1)
    OBVIOUS
  <2>1. k + 1 \in 0 .. n /\ k + 1 # 0 /\ k + 1 - 1 = k /\ k + 1 \in MessageIds(s) /\ k <= n
    BY <1>2
  <2>2. IsLoaded(s, c, f[k], k + 1 - 1)
    BY <1>11, <2>1
  <2>3. f[k + 1] = Next1(f[k], k + 1)
    BY <1>9, <2>1
  <2>4. CASE s.messages[k + 1].chat = c
    <3>1. f[k + 1] = WithMessage(f[k], RowOf(s, k + 1))
      BY <2>3, <2>4 DEF Next1
    <3> DEFINE j == k + 1
    <3>. HIDE DEF j
    <3>2. j \in MessageIds(s) /\ IsLoaded(s, c, f[k], j - 1) /\ s.messages[j].chat = c
          /\ f[j] = WithMessage(f[k], RowOf(s, j))
      BY <2>1, <2>2, <2>4, <3>1 DEF j
    <3>3. IsLoaded(s, c, f[j], j)
      BY <3>2, LoadsOne
    <3>. QED BY <3>3 DEF j
  <2>5. CASE s.messages[k + 1].chat # c
    <3>1. f[k + 1] = f[k]
      BY <2>3, <2>5 DEF Next1
    <3> DEFINE j == k + 1
    <3>. HIDE DEF j
    <3>2. j \in MessageIds(s) /\ IsLoaded(s, c, f[k], j - 1) /\ s.messages[j].chat # c
          /\ f[j] = f[k]
      BY <2>1, <2>2, <2>5, <3>1 DEF j
    <3>3. IsLoaded(s, c, f[k], j)
      BY <3>2, LoadsNone
    <3>. QED BY <3>2, <3>3 DEF j
  <2>. QED BY <2>4, <2>5
<1>. HIDE DEF T
<1>12. n \in T
  BY <1>2, <1>10, <1>11, NatInSet
<1>13. IsLoaded(s, c, f[n], n)
  BY <1>2, <1>12 DEF T
<1>. QED BY <1>1, <1>13, LoadedIsCopy

-----------------------------------------------------------------------------
(* The copies while the database grows and the list is filled.             *)

Copies(s, chs) == \A c \in DOMAIN chs : IsCopy(s, c, chs[c])

Rows(s, chs) == InOrder(s) => \A c \in DOMAIN chs : Counted(s, chs[c])

\* A database keeps what it has.
LEMMA KeptItself == ASSUME NEW s, IsDb(s) PROVE Kept(s, s)
BY DEF Kept, IsDb, Consistent, StatusRowsComplete, RowsComplete

\* What is unread in a copy is finite.
LEMMA UnreadFinite ==
    ASSUME NEW s, NEW ch \in LocalChat, NEW T \in SUBSET DOMAIN ch.msgs
    PROVE  /\ IsFiniteSet(T) /\ Cardinality(T) \in Nat
           /\ UnreadIn(s, ch) \subseteq T => Cardinality(UnreadIn(s, ch)) <= Cardinality(T)
<1>1. IsFiniteSet(DOMAIN ch.msgs)
  <2>1. Len(ch.msgs) \in Nat /\ DOMAIN ch.msgs = 1 .. Len(ch.msgs)
    BY LocalParts
  <2>2. IsFiniteSet(1 .. Len(ch.msgs))
    BY <2>1, FS_Interval
  <2>. QED BY <2>1, <2>2, Zenon
<1>2. IsFiniteSet(T) /\ Cardinality(T) \in Nat
  BY <1>1, FS_Subset, FS_CardinalityType
<1>3. UnreadIn(s, ch) \subseteq T => Cardinality(UnreadIn(s, ch)) <= Cardinality(T)
  BY <1>2, FS_Subset
<1>. QED BY <1>2, <1>3

\* A copy stays one when the database grows, and nothing in it becomes unread.
LEMMA KeptCopy ==
    ASSUME NEW s, NEW n, Kept(s, n), NEW c, NEW ch, IsCopy(s, c, ch)
    PROVE  /\ IsCopy(n, c, ch)
           /\ InOrder(n) => /\ AllRead(s, ch) => AllRead(n, ch)
                            /\ Counted(s, ch) => Counted(n, ch)
<1>1. ch \in LocalChat
  BY DEF IsCopy
<1>2. c \in ChatIds(n) /\ User \in Members(n, c)
  BY DEF IsCopy, Kept
<1>3. ASSUME InOrder(n)
      PROVE  /\ IsTrueCopy(n, c, ch)
             /\ AllRead(s, ch) => AllRead(n, ch)
             /\ Counted(s, ch) => Counted(n, ch)
  <2>1. InDb(s, c, ch) /\ Increasing(ch.msgs) /\ (ch.lost \/ PointerRead(s, ch))
    BY <1>3, OrderWas DEF IsCopy, IsTrueCopy
  <2>2. InDb(n, c, ch)
    BY <2>1 DEF InDb, Faithful, IsMessageOf, Kept
  <2>3. \A i \in DOMAIN ch.msgs : ~Unread(s, ch.msgs[i].id, User) => ~Unread(n, ch.msgs[i].id, User)
    BY <2>1, ReadStays DEF InDb, Faithful, IsMessageOf
  <2>4. PointerRead(s, ch) => PointerRead(n, ch)
    BY <2>3 DEF PointerRead, ReadUntil, AllRead
  <2>5. UnreadIn(n, ch) \in SUBSET UnreadIn(s, ch) /\ UnreadIn(s, ch) \in SUBSET DOMAIN ch.msgs
    BY <2>3 DEF UnreadIn
  <2>6. UnreadIn(n, ch) \in SUBSET DOMAIN ch.msgs
    BY <2>5
  <2>7. /\ Cardinality(UnreadIn(n, ch)) <= Cardinality(UnreadIn(s, ch))
        /\ Cardinality(UnreadIn(n, ch)) \in Nat /\ Cardinality(UnreadIn(s, ch)) \in Nat
    BY <1>1, <2>5, <2>6, UnreadFinite
  <2>8. Counted(s, ch) => Counted(n, ch)
    <3>1. ch.shown \in Nat
      BY <1>1, LocalParts
    <3>. QED BY <2>7, <3>1 DEF Counted
  <2>9. AllRead(s, ch) => AllRead(n, ch)
    BY <2>3, SMTT(40) DEF AllRead
  <2>. QED BY <2>1, <2>2, <2>4, <2>8, <2>9 DEF IsTrueCopy
<1>4. IsNumbered(n, c, ch)
  BY ZenonT(40) DEF IsCopy, IsNumbered, IdsFit, InDb, Faithful, IsMessageOf, Kept
<1>. QED BY <1>2, <1>3, <1>4 DEF IsCopy

\* All copies and all rows stay what they were.
LEMMA KeptCopies ==
    ASSUME NEW s, NEW n, Kept(s, n), NEW chs, Copies(s, chs)
    PROVE  Copies(n, chs) /\ (Rows(s, chs) => Rows(n, chs))
BY KeptCopy, OrderWas DEF Copies, Rows

\* A copy whose messages stay is one as long as it is read up to its pointer.
LEMMA ChangedCopy ==
    ASSUME NEW s, NEW c, NEW ch, IsCopy(s, c, ch), NEW new \in LocalChat,
           new.msgs = ch.msgs, InOrder(s) => new.lost \/ PointerRead(s, new)
    PROVE  IsCopy(s, c, new)
BY DEF IsCopy, IsTrueCopy, InDb, IsNumbered, IdsFit

\* The row is made anew.
Showing(ch, k) == [ch EXCEPT !.shown = k]

\* Nothing but the row changes.
LEMMA ShowingIs ==
    ASSUME NEW ch \in LocalChat, NEW k \in Nat
    PROVE  /\ Showing(ch, k) \in LocalChat /\ Showing(ch, k).msgs = ch.msgs
           /\ Showing(ch, k).lost = ch.lost /\ Showing(ch, k).stamps = ch.stamps
           /\ Showing(ch, k).lastRead = ch.lastRead /\ Showing(ch, k).shown = k
BY DEF Showing, LocalChat

\* The count for the row is no less than what is unread, if the pointer is right.
LEMMA UnreadCountIs ==
    ASSUME NEW s, NEW c, NEW ch, IsCopy(s, c, ch)
    PROVE  /\ UnreadCount(ch) \in Nat
           /\ InOrder(s) => ch.lost \/ UnreadCount(ch) >= Cardinality(UnreadIn(s, ch))
<1> DEFINE known == {p \in ch.stamps : p[1] = ch.lastRead}
           T == {i \in DOMAIN ch.msgs : \A p \in known : ch.msgs[i].ts > p[2]}
<1>1. ch \in LocalChat
  BY DEF IsCopy
<1>2. UnreadCount(ch) = Cardinality(T)
  BY DEF UnreadCount
<1>3. T \in SUBSET DOMAIN ch.msgs
  OBVIOUS
<1>4. ASSUME InOrder(s), ~ch.lost PROVE UnreadIn(s, ch) \subseteq T
  <2>1. \A p \in ch.stamps : p[1] = ch.lastRead => ReadUntil(s, ch, p[2])
    BY <1>4 DEF IsCopy, IsTrueCopy, PointerRead
  <2>2. /\ \A p \in ch.stamps : p[2] \in Nat
        /\ \A i \in DOMAIN ch.msgs : ch.msgs[i].ts \in Nat
    BY <1>1, LocalParts
  <2>. QED BY <2>1, <2>2 DEF UnreadIn, ReadUntil
<1>. HIDE DEF T
<1>5. /\ Cardinality(T) \in Nat
      /\ UnreadIn(s, ch) \subseteq T => Cardinality(UnreadIn(s, ch)) <= Cardinality(T)
  BY <1>1, <1>3, UnreadFinite
<1>6. UnreadIn(s, ch) \in SUBSET DOMAIN ch.msgs
  BY DEF UnreadIn
<1>7. Cardinality(UnreadIn(s, ch)) \in Nat
  BY <1>1, <1>6, UnreadFinite
<1>. QED BY <1>2, <1>4, <1>5, <1>7

\* The list is filled: the copies are what they were, and no row says too little.
LEMMA RecountIs ==
    ASSUME NEW s, NEW chs, Copies(s, chs), NEW new, new = Recount(chs)
    PROVE  /\ DOMAIN new = DOMAIN chs /\ Copies(s, new) /\ Rows(s, new)
           /\ \A c \in DOMAIN chs : new[c].msgs = chs[c].msgs /\ new[c].lost = chs[c].lost
<1>1. new = [c \in DOMAIN chs |-> Showing(chs[c], UnreadCount(chs[c]))]
  BY Zenon DEF Recount, Showing
<1>2. ASSUME NEW c \in DOMAIN chs
      PROVE  /\ IsCopy(s, c, new[c]) /\ (InOrder(s) => Counted(s, new[c]))
             /\ new[c].msgs = chs[c].msgs /\ new[c].lost = chs[c].lost
  <2> DEFINE ch == chs[c]
             k == UnreadCount(ch)
             to == Showing(ch, k)
  <2>1. IsCopy(s, c, ch)
    BY <1>2 DEF Copies
  <2>2. /\ k \in Nat
        /\ InOrder(s) => ch.lost \/ k >= Cardinality(UnreadIn(s, ch))
    BY <2>1, UnreadCountIs
  <2>3. new[c] = to
    BY <1>1
  <2>4. ch \in LocalChat
    BY <2>1 DEF IsCopy
  <2>. HIDE DEF k, ch
  <2>5. /\ to \in LocalChat /\ to.msgs = ch.msgs /\ to.lost = ch.lost /\ to.stamps = ch.stamps
        /\ to.lastRead = ch.lastRead /\ to.shown = k
    BY <2>2, <2>4, ShowingIs
  <2>. HIDE DEF to
  <2>6. InOrder(s) => to.lost \/ PointerRead(s, to)
    BY <2>1, <2>5 DEF IsCopy, IsTrueCopy, PointerRead, ReadUntil, AllRead
  <2>7. IsCopy(s, c, to)
    BY <2>1, <2>5, <2>6, ChangedCopy
  <2>8. UnreadIn(s, to) = UnreadIn(s, ch)
    BY <2>5 DEF UnreadIn
  <2>9. InOrder(s) => Counted(s, to)
    BY <2>2, <2>5, <2>8 DEF Counted
  <2>. QED BY <2>3, <2>5, <2>7, <2>9 DEF ch
<1>. QED BY <1>1, <1>2 DEF Copies, Rows

-----------------------------------------------------------------------------
(* Opening a chat.                                                         *)

\* The copy of a chat that has been opened.
Opening(ch, m, lost) == [ch EXCEPT !.lastRead = m, !.shown = 0, !.lost = lost]

\* The pointer and the row change, and what is known of the report.
LEMMA OpeningIs ==
    ASSUME NEW ch \in LocalChat, NEW m \in Nat, NEW lost \in BOOLEAN
    PROVE  /\ Opening(ch, m, lost) \in LocalChat /\ Opening(ch, m, lost).msgs = ch.msgs
           /\ Opening(ch, m, lost).stamps = ch.stamps /\ Opening(ch, m, lost).lastRead = m
           /\ Opening(ch, m, lost).shown = 0 /\ (Opening(ch, m, lost).lost <=> lost)
BY DEF Opening, LocalChat

\* What opening chat c does: everything in its copy has been read, or its report is
\* known to be lost; the pointer goes to the last message of the copy or stays.
IsOpened(s, chs, c, n, new) ==
    /\ IsChatDb(n) /\ Kept(s, n) /\ ChatIds(n) = ChatIds(s) /\ MessageIds(n) = MessageIds(s)
    /\ DOMAIN new = DOMAIN chs /\ Copies(n, new)
    /\ Rows(s, chs) => Rows(n, new)
    /\ InOrder(n) => new[c].lost \/ AllRead(n, new[c])
    /\ \A d \in DOMAIN chs : new[d].msgs = chs[d].msgs
    /\ \A d \in ChatIds(s) : \/ Pointer(n, d) = Pointer(s, d)
                             \/ d = c /\ Pointer(n, d) = Last(chs[c].msgs).id

\* What the report does to the database.
LEMMA ReportsIs ==
    ASSUME NEW s, IsChatDb(s), NEW c, NEW ch, IsCopy(s, c, ch), NEW n \in Reports(s, ch, c)
    PROVE  /\ IsChatDb(n) /\ Kept(s, n) /\ ChatIds(n) = ChatIds(s) /\ MessageIds(n) = MessageIds(s)
           /\ \A d \in ChatIds(s) : \/ Pointer(n, d) = Pointer(s, d)
                                    \/ d = c /\ Pointer(n, d) = Last(ch.msgs).id
           /\ InOrder(n) => Pointer(n, c) # Last(ch.msgs).id \/ AllRead(n, ch)
<1> DEFINE m == Last(ch.msgs).id
<1>1. /\ ch \in LocalChat /\ ch.msgs # <<>> /\ c \in ChatIds(s) /\ User \in Members(s, c)
      /\ IsDb(s)
  BY DEF IsCopy, IsChatDb
<1>2. /\ Len(ch.msgs) \in DOMAIN ch.msgs /\ Last(ch.msgs) = ch.msgs[Len(ch.msgs)]
      /\ m \in Nat
      /\ Increasing(ch.msgs) => \A i \in DOMAIN ch.msgs : ch.msgs[i].ts <= Last(ch.msgs).ts
  BY <1>1, LastIs
<1>. HIDE DEF m
<1>3. n = s \/ (IsMessageOf(s, m, c) /\ n = ReadMarked(s, User, c, m))
  BY DEF Reports, m
<1>4. CASE n = s
  <2>1. ASSUME InOrder(s), Pointer(s, c) = m PROVE AllRead(s, ch)
    <3>1. InDb(s, c, ch) /\ Increasing(ch.msgs) /\ StoredInOrder(s)
      BY <2>1 DEF IsCopy, IsTrueCopy, IsChatDb
    <3>2. \A i \in DOMAIN ch.msgs :
             /\ ch.msgs[i].id \in MessageIds(s) /\ s.messages[ch.msgs[i].id].chat = c
             /\ s.messages[ch.msgs[i].id].ts = ch.msgs[i].ts
      BY <3>1 DEF InDb, Faithful, IsMessageOf
    <3>3. IsReadUpTo(s, c, m)
      BY <1>1, <2>1, <3>1, PointerReadUpTo
    <3>4. 0 \notin MessageIds(s)
      BY <1>1, DbParts DEF IsDb
    <3>5. m # 0 /\ s.messages[m].ts = Last(ch.msgs).ts
      BY <1>2, <3>2, <3>4 DEF m
    <3>. QED BY <1>2, <3>1, <3>2, <3>3, <3>5 DEF IsReadUpTo, AllRead
  <2>2. Kept(s, s)
    BY <1>1, KeptItself
  <2>. QED BY <1>4, <2>1, <2>2 DEF m
<1>5. CASE IsMessageOf(s, m, c) /\ n = ReadMarked(s, User, c, m)
  <2>1. /\ IsDb(n) /\ Kept(s, n) /\ ChatIds(n) = ChatIds(s) /\ MessageIds(n) = MessageIds(s)
        /\ \A k \in MessageIds(s) :
              s.messages[k].chat = c /\ s.messages[k].ts <= s.messages[m].ts
                 => ~Unread(n, k, User)
        /\ \A d \in ChatIds(s) : Pointer(n, d) = IF d = c THEN m ELSE Pointer(s, d)
    BY <1>1, <1>5, ReadMarkedIs
  <2>2. InOrder(n) => StoredInOrder(n)
    BY <1>1, <2>1, OrderWas, SameInOrder DEF IsChatDb
  <2>3. ASSUME InOrder(n) PROVE AllRead(n, ch)
    <3>1. InDb(s, c, ch) /\ Increasing(ch.msgs)
      BY <2>1, <2>3, OrderWas DEF IsCopy, IsTrueCopy
    <3>2. \A i \in DOMAIN ch.msgs :
             /\ ch.msgs[i].id \in MessageIds(s) /\ s.messages[ch.msgs[i].id].chat = c
             /\ s.messages[ch.msgs[i].id].ts = ch.msgs[i].ts
      BY <3>1 DEF InDb, Faithful, IsMessageOf
    <3>3. s.messages[m].ts = Last(ch.msgs).ts
      BY <1>2, <3>2 DEF m
    <3>. QED BY <1>2, <2>1, <3>1, <3>2, <3>3 DEF AllRead
  <2>. QED BY <2>1, <2>2, <2>3 DEF IsChatDb, m
<1>. QED BY <1>3, <1>4, <1>5

\* The copy that has been opened, when its report has left the database n.
LEMMA OpenedCopy ==
    ASSUME NEW s, NEW n, Kept(s, n), NEW c, NEW ch, IsCopy(s, c, ch),
           InOrder(n) => Pointer(n, c) # Last(ch.msgs).id \/ AllRead(n, ch),
           NEW new, new = Opening(ch, Last(ch.msgs).id, Pointer(n, c) # Last(ch.msgs).id)
    PROVE  /\ IsCopy(n, c, new) /\ new.msgs = ch.msgs
           /\ InOrder(n) => (new.lost \/ AllRead(n, new)) /\ Counted(n, new)
<1> DEFINE m == Last(ch.msgs).id
           lost == Pointer(n, c) # m
<1>1. ch \in LocalChat /\ ch.msgs # <<>>
  BY DEF IsCopy
<1>2. m \in Nat /\ lost \in BOOLEAN
  BY <1>1, LastIs
<1>. HIDE DEF m, lost
<1>3. new = Opening(ch, m, lost)
  BY DEF m, lost
<1>4. /\ new \in LocalChat /\ new.msgs = ch.msgs /\ new.shown = 0 /\ (new.lost <=> lost)
  BY <1>1, <1>2, <1>3, OpeningIs
<1>5. InOrder(n) => new.lost \/ AllRead(n, new)
  BY <1>4 DEF AllRead, lost, m
<1>6. IsCopy(n, c, ch)
  BY KeptCopy
<1>7. IsCopy(n, c, new)
  BY <1>4, <1>5, <1>6, ReadCopy, ChangedCopy
<1>8. AllRead(n, new) => UnreadIn(n, new) = {}
  BY DEF AllRead, UnreadIn
<1>9. AllRead(n, new) => Counted(n, new)
  BY <1>4, <1>8, FS_EmptySet DEF Counted
<1>. QED BY <1>4, <1>5, <1>7, <1>9 DEF Counted

\* Opening chat c does that, with or without a report.
LEMMA OpenedIs ==
    ASSUME NEW s, IsChatDb(s), NEW chs, Copies(s, chs), NEW c \in DOMAIN chs,
           NEW o \in Opened(s, chs, c)
    PROVE  IsOpened(s, chs, c, o.db, o.chats)
<1> DEFINE ch == chs[c]
           m == Last(ch.msgs).id
<1>1. IsCopy(s, c, ch) /\ IsDb(s)
  BY DEF Copies, IsChatDb
<1>2. CASE m = ch.lastRead
  <2>1. o = [db |-> s, chats |-> chs]
    BY <1>2, Zenon DEF Opened
  <2>2. o.db = s /\ o.chats = chs
    BY <2>1
  <2>3. InOrder(s) => ch.lost \/ AllRead(s, ch)
    BY <1>1, <1>2 DEF IsCopy, IsTrueCopy, PointerRead
  <2>4. Kept(s, s)
    BY <1>1, KeptItself
  <2>. QED BY <2>2, <2>3, <2>4 DEF IsOpened
<1>3. CASE m # ch.lastRead
  <2>1. PICK n \in Reports(s, ch, c) :
           o = [db |-> n, chats |-> [chs EXCEPT ![c] = Opening(ch, m, Pointer(n, c) # m)]]
    BY <1>3, Zenon DEF Opened, Opening, Pointer
  <2> DEFINE to == Opening(ch, m, Pointer(n, c) # m)
             new == [chs EXCEPT ![c] = to]
  <2>2. /\ IsChatDb(n) /\ Kept(s, n) /\ ChatIds(n) = ChatIds(s) /\ MessageIds(n) = MessageIds(s)
        /\ \A d \in ChatIds(s) : \/ Pointer(n, d) = Pointer(s, d)
                                 \/ d = c /\ Pointer(n, d) = Last(ch.msgs).id
        /\ InOrder(n) => Pointer(n, c) # Last(ch.msgs).id \/ AllRead(n, ch)
    BY <1>1, ReportsIs
  <2>3. /\ IsCopy(n, c, to) /\ to.msgs = ch.msgs
        /\ InOrder(n) => (to.lost \/ AllRead(n, to)) /\ Counted(n, to)
    BY <1>1, <2>2, OpenedCopy
  <2>4. o.db = n /\ o.chats = new
    BY <2>1
  <2>. HIDE DEF to
  <2>5. /\ DOMAIN new = DOMAIN chs /\ new[c] = to
        /\ \A d \in DOMAIN chs : d # c => new[d] = chs[d]
    OBVIOUS
  <2>. HIDE DEF new
  <2>6. Copies(n, chs) /\ (Rows(s, chs) => Rows(n, chs))
    BY <2>2, KeptCopies
  <2>7. Copies(n, new)
    BY <2>3, <2>5, <2>6 DEF Copies
  <2>8. Rows(s, chs) => Rows(n, new)
    BY <2>3, <2>5, <2>6 DEF Rows
  <2>9. \A d \in DOMAIN chs : new[d].msgs = chs[d].msgs
    BY <2>3, <2>5
  <2>. QED BY <2>2, <2>3, <2>4, <2>5, <2>7, <2>8, <2>9 DEF IsOpened
<1>. QED BY <1>2, <1>3

-----------------------------------------------------------------------------
(* Posting.                                                                *)

\* The last message of a copy is given its id.
Numbered(ch, id) == [ch EXCEPT !.msgs[Len(ch.msgs)].id = id, !.lost = FALSE]

\* Nothing but the id of the last message changes, and no report is missing.
LEMMA NumberedIs ==
    ASSUME NEW ch \in LocalChat, ch.msgs # <<>>, NEW id \in Nat, NEW new, new = Numbered(ch, id)
    PROVE  /\ new \in LocalChat /\ Len(new.msgs) = Len(ch.msgs) /\ new.msgs # <<>>
           /\ DOMAIN new.msgs = DOMAIN ch.msgs
           /\ \A i \in DOMAIN ch.msgs : i # Len(ch.msgs) => new.msgs[i] = ch.msgs[i]
           /\ Last(new.msgs).id = id /\ Last(new.msgs).ts = Last(ch.msgs).ts
           /\ Last(new.msgs).sender = Last(ch.msgs).sender
           /\ ~new.lost
<1> DEFINE len == Len(ch.msgs)
           m == [ch.msgs[len] EXCEPT !.id = id]
           msgs == [ch.msgs EXCEPT ![len] = m]
<1>1. /\ ch.msgs \in Seq(LocalMessage) /\ len \in Nat /\ DOMAIN ch.msgs = 1 .. len
      /\ len \in DOMAIN ch.msgs /\ ch.msgs[len] \in LocalMessage
  BY LocalParts, LastIs
<1>2. /\ m \in LocalMessage /\ m.id = id /\ m.ts = ch.msgs[len].ts
      /\ m.sender = ch.msgs[len].sender
  BY <1>1 DEF LocalMessage
<1>3. new = [ch EXCEPT !.msgs = msgs, !.lost = FALSE]
  BY Zenon DEF Numbered
<1>. HIDE DEF m
<1>4. /\ msgs \in Seq(LocalMessage) /\ Len(msgs) = len /\ DOMAIN msgs = 1 .. len
      /\ msgs[len] = m /\ \A i \in 1 .. len : i # len => msgs[i] = ch.msgs[i]
  BY <1>1, <1>2
<1>. HIDE DEF msgs
<1>5. new \in LocalChat /\ new.msgs = msgs /\ ~new.lost
  BY <1>3, <1>4 DEF LocalChat
<1>6. new.msgs # <<>>
  BY <1>1, <1>4, <1>5
<1>. QED BY <1>1, <1>2, <1>4, <1>5, <1>6 DEF Last

\* The copy a message of the user was posted to shows what the database has now, and all of
\* it has been read.
LEMMA PostedIs ==
    ASSUME NEW s, IsDb(s), NEW n, Kept(s, n), NEW c, OneMore(s, n, c, User),
           c \in ChatIds(n), User \in Members(n, c), NEW t \in Nat,
           n.messages[Len(s.messages) + 1].ts = t, Len(n.messages) = Len(s.messages) + 1,
           ~Unread(n, Len(s.messages) + 1, User),
           \A m \in MessageIds(s) :
              s.messages[m].chat = c /\ s.messages[m].ts < t => ~Unread(n, m, User),
           NEW ch \in LocalChat, IdsFit(s, c, ch),
           InOrder(s) => InDb(s, c, ch) /\ Increasing(ch.msgs),
           NEW new, new = Posted(ch, Len(n.messages), t)
    PROVE  IsCopy(n, c, new) /\ (InOrder(n) => AllRead(n, new))
<1> DEFINE m == [id |-> 0, ts |-> t, sender |-> User]
           with == WithMessage(ch, m)
           id == Len(s.messages) + 1
           len == Len(ch.msgs)
<1>1. User \in Logins /\ id \in Nat
  BY DbParts DEF IsDb
<1>2. m \in LocalMessage /\ m.ts = t /\ m.sender = User
  BY <1>1 DEF LocalMessage
<1>3. new = Numbered(with, id)
  BY Zenon DEF Posted, Numbered
<1>4. /\ len \in Nat /\ DOMAIN ch.msgs = 1 .. len
      /\ \A i \in DOMAIN ch.msgs : ch.msgs[i].ts \in Nat
  BY LocalParts
<1>. HIDE DEF m
<1>5. /\ with \in LocalChat /\ Len(with.msgs) = len + 1 /\ with.msgs # <<>>
      /\ (\A i \in DOMAIN ch.msgs : ch.msgs[i].ts < m.ts) =>
            /\ \A i \in DOMAIN ch.msgs : with.msgs[i] = ch.msgs[i]
            /\ with.msgs[len + 1] = m
      /\ With(ch.msgs, m, with.msgs)
  BY <1>2, WithMessageIs
<1>6. DOMAIN with.msgs = 1 .. len + 1
  BY <1>5, LocalParts
<1>. HIDE DEF with, id
<1>7. /\ new \in LocalChat /\ Len(new.msgs) = Len(with.msgs) /\ new.msgs # <<>>
      /\ DOMAIN new.msgs = DOMAIN with.msgs
      /\ \A i \in DOMAIN with.msgs : i # Len(with.msgs) => new.msgs[i] = with.msgs[i]
      /\ Last(new.msgs).id = id /\ Last(new.msgs).ts = Last(with.msgs).ts
      /\ Last(new.msgs).sender = Last(with.msgs).sender
      /\ ~new.lost
  BY <1>1, <1>3, <1>5, NumberedIs, SMTT(40)
<1>8. ASSUME InOrder(n)
      PROVE  InDb(n, c, new) /\ Increasing(new.msgs) /\ AllRead(n, new)
  <2>0. InOrder(s) /\ IsLate(s, t)
    BY <1>8, OrderWas, NewIsLate
  <2>1. \A i \in DOMAIN ch.msgs :
           /\ ch.msgs[i].id \in MessageIds(s) /\ s.messages[ch.msgs[i].id].chat = c
           /\ s.messages[ch.msgs[i].id].ts = ch.msgs[i].ts
           /\ s.messages[ch.msgs[i].id].sender = ch.msgs[i].sender
    BY <2>0 DEF InDb, Faithful, IsMessageOf
  <2>2. \A i \in DOMAIN ch.msgs : ch.msgs[i].ts < t
    BY <2>0, <2>1 DEF IsLate
  <2>3. /\ \A i \in DOMAIN ch.msgs : with.msgs[i] = ch.msgs[i]
        /\ with.msgs[len + 1] = m
    BY <1>2, <1>5, <2>2
  <2>4. \A i \in DOMAIN ch.msgs : i \in DOMAIN with.msgs /\ i # Len(with.msgs) /\ i < len + 1
    BY <1>4, <1>5, <1>6
  <2>5. \A i \in DOMAIN ch.msgs : new.msgs[i] = ch.msgs[i]
    BY <1>7, <2>3, <2>4
  <2>6. /\ new.msgs[len + 1].id = id /\ new.msgs[len + 1].ts = t
        /\ new.msgs[len + 1].sender = User
    <3>1. Last(new.msgs) = new.msgs[len + 1] /\ Last(with.msgs) = m
      BY <1>5, <1>7, <2>3 DEF Last
    <3>. QED BY <1>2, <1>7, <3>1
  <2>7. \A i \in DOMAIN new.msgs : i \in DOMAIN ch.msgs \/ i = len + 1
    BY <1>4, <1>6, <1>7, SMTT(40)
  <2>8. Faithful(n, c, new.msgs[len + 1])
    BY <2>6 DEF Faithful, IsMessageOf, OneMore, id
  <2>9. \A i \in DOMAIN ch.msgs : Faithful(n, c, ch.msgs[i])
    BY <2>1 DEF Faithful, IsMessageOf, Kept
  <2>10. InDb(n, c, new)
    BY <2>5, <2>7, <2>8, <2>9 DEF InDb
  <2>11. Increasing(new.msgs)
    <3>. SUFFICES ASSUME NEW i \in DOMAIN new.msgs, NEW j \in DOMAIN new.msgs, i < j
                  PROVE  new.msgs[i].ts < new.msgs[j].ts
      BY DEF Increasing
    <3>1. i \in DOMAIN ch.msgs
      BY <1>4, <1>6, <1>7, SMTT(40)
    <3>2. CASE j \in DOMAIN ch.msgs
      BY <2>0, <2>5, <3>1, <3>2 DEF Increasing
    <3>3. CASE j = len + 1
      BY <2>2, <2>5, <2>6, <3>1, <3>3
    <3>. QED BY <2>7, <3>2, <3>3
  <2>12. \A i \in DOMAIN ch.msgs : ~Unread(n, ch.msgs[i].id, User)
    BY <2>1, <2>2
  <2>13. ~Unread(n, new.msgs[len + 1].id, User)
    BY <2>6 DEF id
  <2>14. AllRead(n, new)
    BY <2>5, <2>7, <2>12, <2>13 DEF AllRead
  <2>. QED BY <2>10, <2>11, <2>14
<1>9. id # 0 /\ IsMessageOf(n, id, c)
  BY <1>1, DbParts DEF IsDb, id, OneMore, IsMessageOf
<1>10. IdsFit(n, c, new)
  <2>1. PICK k \in 1 .. len + 1 :
            /\ with.msgs[k] = m
            /\ \A i \in 1 .. k - 1 : with.msgs[i] = ch.msgs[i]
            /\ \A i \in k + 1 .. len + 1 : with.msgs[i] = ch.msgs[i - 1]
    BY <1>5 DEF With
  <2>2. m.id = 0
    BY DEF m
  <2>3. /\ new.msgs[len + 1].id = id /\ new.msgs[len + 1].ts = with.msgs[len + 1].ts
        /\ new.msgs[len + 1].sender = with.msgs[len + 1].sender
    BY <1>5, <1>7 DEF Last
  <2>4. \A i \in 1 .. len : new.msgs[i] = with.msgs[i]
    <3>1. \A i \in 1 .. len : i \in DOMAIN with.msgs /\ i # Len(with.msgs)
      BY <1>4, <1>5, <1>6
    <3>. QED BY <1>7, <3>1
  <2>5. DOMAIN new.msgs = 1 .. len + 1
    BY <1>6, <1>7
  <2>6. ASSUME NEW i \in 1 .. len, new.msgs[i].id # 0
        PROVE  IsMessageOf(n, new.msgs[i].id, c)
    <3>1. \/ i \in 1 .. k - 1 /\ i \in DOMAIN ch.msgs
          \/ i = k
          \/ i \in k + 1 .. len + 1 /\ i - 1 \in DOMAIN ch.msgs
      BY <1>4, SMTT(40)
    <3>2. \E j \in DOMAIN ch.msgs : new.msgs[i] = ch.msgs[j]
      <4>1. i # k
        BY <2>1, <2>2, <2>4, <2>6
      <4>. QED BY <2>1, <2>4, <3>1, <4>1
    <3>. QED BY <2>6, <3>2, ZenonT(40) DEF IdsFit, IsMessageOf, Kept
  <2>7. ASSUME NEW i \in DOMAIN new.msgs, new.msgs[i].id # 0
        PROVE  IsMessageOf(n, new.msgs[i].id, c)
    <3>1. i \in 1 .. len \/ i = len + 1
      BY <1>4, <2>5, SMTT(40)
    <3>. QED BY <1>9, <2>3, <2>6, <2>7, <3>1
  <2>8. CASE k \in 1 .. len
    <3>1. k \in DOMAIN new.msgs /\ new.msgs[k].id = 0
      BY <1>4, <2>1, <2>2, <2>4, <2>5, <2>8
    <3>. QED BY <2>7, <3>1 DEF IdsFit
  <2>9. CASE k = len + 1
    <3>1. \A i \in 1 .. len : new.msgs[i] = ch.msgs[i] /\ i \in DOMAIN new.msgs
      BY <1>4, <2>1, <2>4, <2>5, <2>9
    <3>2. CASE \E i \in DOMAIN ch.msgs : ch.msgs[i].id = 0
      BY <1>4, <2>7, <3>1, <3>2 DEF IdsFit
    <3>3. CASE InDb(s, c, ch)
      <4>1. \A i \in DOMAIN ch.msgs : Faithful(n, c, ch.msgs[i])
        BY <3>3 DEF InDb, Faithful, IsMessageOf, Kept
      <4>2. \A i \in 1 .. len : Faithful(n, c, new.msgs[i])
        BY <1>4, <3>1, <4>1
      <4>3. Faithful(n, c, new.msgs[len + 1])
        BY <1>2, <1>9, <2>1, <2>3, <2>9 DEF Faithful, OneMore, id
      <4>4. \A i \in DOMAIN new.msgs : i \in 1 .. len \/ i = len + 1
        BY <1>4, <2>5, SMTT(40)
      <4>. QED BY <2>7, <4>2, <4>3, <4>4, SMTT(40) DEF InDb, IdsFit
    <3>. QED BY <3>2, <3>3 DEF IdsFit
  <2>. QED BY <1>4, <2>8, <2>9
<1>. QED BY <1>7, <1>8, <1>9, <1>10, ReadCopy DEF IsCopy, IsTrueCopy, IsNumbered

\* A new chat has its first message and no other.
Pointed(ch, m) == [ch EXCEPT !.lastRead = m]

\* Nothing but the pointer changes.
LEMMA PointedIs ==
    ASSUME NEW ch \in LocalChat, NEW m \in Nat
    PROVE  /\ Pointed(ch, m) \in LocalChat /\ Pointed(ch, m).msgs = ch.msgs
BY DEF Pointed, LocalChat

\* The copy of a new chat is one of the chat in the database.
LEMMA NewLocalChatIs ==
    ASSUME NEW s, IsDb(s), NEW n, Kept(s, n), NEW c, OneMore(s, n, c, User),
           c \in ChatIds(n), User \in Members(n, c), NEW t \in Nat,
           n.messages[Len(s.messages) + 1].ts = t, Len(n.messages) = Len(s.messages) + 1,
           ~Unread(n, Len(s.messages) + 1, User),
           \A m \in MessageIds(s) : s.messages[m].chat # c,
           NEW new, new = NewLocalChat(Len(n.messages), t)
    PROVE  IsCopy(n, c, new) /\ (InOrder(n) => AllRead(n, new))
<1> DEFINE ch == Posted(EmptyChat, Len(n.messages), t)
<1>1. EmptyChat \in LocalChat /\ DOMAIN EmptyChat.msgs = {}
  <2>1. EmptyChat = EmptyCopy(0)
    BY DEF EmptyChat, EmptyCopy
  <2>2. EmptyCopy(0) \in LocalChat /\ EmptyCopy(0).msgs = <<>>
    BY EmptyCopyIs
  <2>. HIDE DEF EmptyCopy
  <2>3. DOMAIN EmptyCopy(0).msgs = {}
    BY <2>2
  <2>. QED BY <2>1, <2>2, <2>3, Zenon
<1>2. /\ InDb(s, c, EmptyChat) /\ Increasing(EmptyChat.msgs)
      /\ IdsFit(s, c, EmptyChat)
  BY <1>1 DEF InDb, Increasing, IdsFit
<1>3. IsCopy(n, c, ch) /\ (InOrder(n) => AllRead(n, ch))
  BY <1>1, <1>2, PostedIs
<1>4. Len(n.messages) \in Nat
  BY DbParts DEF IsDb
<1>5. new = Pointed(ch, Len(n.messages))
  BY Zenon DEF NewLocalChat, Pointed
<1>. HIDE DEF ch
<1>6. ch \in LocalChat
  BY <1>3 DEF IsCopy
<1>7. new \in LocalChat /\ new.msgs = ch.msgs
  BY <1>4, <1>5, <1>6, PointedIs, ZenonT(40)
<1>8. InOrder(n) => AllRead(n, new)
  BY <1>3, <1>7 DEF AllRead
<1>. QED BY <1>3, <1>7, <1>8, ReadCopy, ChangedCopy

-----------------------------------------------------------------------------
(* What the user sees, and the steps.                                      *)

\* The time of a new message.
LEMMA NowIs ==
    ASSUME IsChatDb(db), Behind \subseteq Nat, NEW t \in Now
    PROVE  t \in Nat
<1> DEFINE stamps == {db.messages[m].ts : m \in MessageIds(db)}
           T == {0} \cup stamps
<1>1. /\ MessageIds(db) = 1 .. Len(db.messages) /\ Len(db.messages) \in Nat
      /\ \A m \in MessageIds(db) : db.messages[m].ts \in Nat
  BY DbParts DEF IsChatDb, IsDb
<1>2. CASE t \in Behind
  BY <1>2
<1>3. CASE t = 1 + Max(T)
  <2>1. T \in SUBSET Nat /\ T # {}
    BY <1>1
  <2>2. PICK b \in Nat : \A x \in T : x <= b
    <3> DEFINE n == Len(db.messages)
               q == [i \in 1 .. n |-> db.messages[i].ts]
    <3>1. q \in [1 .. n -> Nat] /\ n \in Nat
      BY <1>1
    <3>2. PICK b \in Nat : \A i \in 1 .. n : q[i] <= b
      <4>. HIDE DEF q, n
      <4>. QED BY <3>1, SeqBounded
    <3>3. \A i \in 1 .. n : q[i] = db.messages[i].ts
      OBVIOUS
    <3>. HIDE DEF q
    <3>4. \A m \in MessageIds(db) : db.messages[m].ts <= b
      BY <1>1, <3>2, <3>3
    <3>5. 0 <= b /\ \A x \in T : x = 0 \/ \E m \in MessageIds(db) : x = db.messages[m].ts
      OBVIOUS
    <3>. QED BY <3>4, <3>5
  <2>. HIDE DEF T
  <2>3. PICK m \in T : \A x \in T : x <= m
    BY <2>1, <2>2, GreatestNat
  <2>4. \A x \in T : m >= x
    BY <2>1, <2>3
  <2>5. Max(T) \in T /\ \A x \in T : Max(T) >= x
    BY <2>4, Zenon DEF Max
  <2> DEFINE max == Max(T)
  <2>6. max \in Nat /\ t = 1 + max
    BY <1>3, <2>1, <2>5
  <2>. HIDE DEF max
  <2>. QED BY <2>6
<1>. QED BY <1>2, <1>3, Zenon DEF Now

\* What is kept twice is kept.
LEMMA KeptTwice ==
    ASSUME NEW s, NEW n, NEW k, Kept(s, n), Kept(n, k) PROVE Kept(s, k)
BY DEF Kept

\* The copies chs with the chat cur selected, over the database s.
IsView(s, chs, cur) ==
    /\ IsChatDb(s) /\ Copies(s, chs) /\ Rows(s, chs)
    /\ cur \in DOMAIN chs \cup {0}
    /\ InOrder(s) /\ cur # 0 => chs[cur].lost \/ AllRead(s, chs[cur])

\* From s to n a pointer moves to a new message or to the last one of a copy.
Moved(s, n, chs) ==
    \A d \in DOMAIN chs \cap ChatIds(s) :
        \/ Pointer(n, d) = Pointer(s, d)
        \/ Pointer(n, d) \in MessageIds(n) \ MessageIds(s)
        \/ Pointer(n, d) = Last(chs[d].msgs).id

\* What the user sees stays right when the database grows.
LEMMA KeptView ==
    ASSUME NEW s, NEW chs, NEW cur, IsView(s, chs, cur), NEW n, IsChatDb(n), Kept(s, n)
    PROVE  IsView(n, chs, cur)
<1>1. Copies(n, chs) /\ Rows(n, chs)
  BY KeptCopies DEF IsView
<1>2. ASSUME InOrder(n), cur # 0 PROVE chs[cur].lost \/ AllRead(n, chs[cur])
  <2>1. cur \in DOMAIN chs /\ (chs[cur].lost \/ AllRead(s, chs[cur]))
    BY <1>2, OrderWas DEF IsView
  <2>2. IsCopy(s, cur, chs[cur])
    BY <2>1 DEF IsView, Copies
  <2>. QED BY <1>2, <2>1, <2>2, KeptCopy
<1>. QED BY <1>1, <1>2 DEF IsView

\* The database s came from r: the user's pointers stayed or went to new messages.
Follows(r, s) ==
    /\ IsChatDb(s) /\ Kept(r, s)
    /\ \A d \in ChatIds(r) : \/ Pointer(s, d) = Pointer(r, d)
                             \/ Pointer(s, d) \in MessageIds(s) \ MessageIds(r)

\* A database comes from itself.
LEMMA FollowsItself == ASSUME NEW s, IsChatDb(s) PROVE Follows(s, s)
BY KeptItself DEF Follows, IsChatDb

\* When nothing has been opened the pointers moved as they may.
LEMMA FollowsMoves ==
    ASSUME NEW r, NEW s, Follows(r, s), NEW chs PROVE Moved(r, s, chs)
BY DEF Follows, Moved

\* A chat is opened over the database s, which came from r.
LEMMA OpenOne ==
    ASSUME NEW r, NEW s, Follows(r, s), NEW chs, Copies(s, chs), Rows(s, chs),
           NEW c \in DOMAIN chs, NEW o \in Opened(s, chs, c)
    PROVE  /\ IsView(o.db, o.chats, c) /\ Kept(r, o.db) /\ Moved(r, o.db, o.chats)
           /\ DOMAIN o.chats = DOMAIN chs
<1>1. IsOpened(s, chs, c, o.db, o.chats)
  BY OpenedIs DEF Follows
<1>2. IsView(o.db, o.chats, c)
  BY <1>1 DEF IsOpened, IsView
<1>3. Kept(r, o.db)
  BY <1>1, KeptTwice DEF IsOpened, Follows
<1>4. ASSUME NEW d \in DOMAIN o.chats \cap ChatIds(r)
      PROVE  \/ Pointer(o.db, d) = Pointer(r, d)
             \/ Pointer(o.db, d) \in MessageIds(o.db) \ MessageIds(r)
             \/ Pointer(o.db, d) = Last(o.chats[d].msgs).id
  <2>1. d \in ChatIds(s) /\ d \in ChatIds(r) /\ d \in DOMAIN chs
    BY <1>1, <1>4 DEF IsOpened, Follows, Kept
  <2>2. MessageIds(o.db) = MessageIds(s) /\ o.chats[d].msgs = chs[d].msgs
    BY <1>1, <2>1 DEF IsOpened
  <2>3. \/ Pointer(o.db, d) = Pointer(s, d)
        \/ d = c /\ Pointer(o.db, d) = Last(chs[c].msgs).id
    BY <1>1, <2>1 DEF IsOpened
  <2>4. Pointer(s, d) = Pointer(r, d) \/ Pointer(s, d) \in MessageIds(s) \ MessageIds(r)
    BY <2>1 DEF Follows
  <2>. QED BY <2>2, <2>3, <2>4
<1>5. Moved(r, o.db, o.chats)
  BY <1>4 DEF Moved
<1>. QED BY <1>1, <1>2, <1>3, <1>5 DEF IsOpened

\* The first row of the list, which shows some of the chats, is selected.
LEMMA OpenFirstIs ==
    ASSUME NEW r, NEW s, Follows(r, s), NEW chs, Copies(s, chs), Rows(s, chs),
           NEW scope \in SUBSET DOMAIN chs, OpenFirst(s, chs, scope)
    PROVE  /\ IsView(db', chats', current') /\ Kept(r, db') /\ Moved(r, db', chats')
           /\ DOMAIN chats' = DOMAIN chs
<1>1. CASE scope = {}
  <2>1. db' = s /\ chats' = chs /\ current' = 0
    BY <1>1 DEF OpenFirst
  <2>. QED BY <1>1, <2>1, FollowsMoves DEF IsView, Follows
<1>2. CASE scope # {}
  <2>1. PICK c \in FirstRows(chs, scope) : \E o \in Opened(s, chs, c) :
            db' = o.db /\ chats' = o.chats /\ current' = c
    BY <1>2, Zenon DEF OpenFirst
  <2>2. c \in DOMAIN chs
    BY <2>1 DEF FirstRows
  <2>. QED BY <2>1, <2>2, OpenOne
<1>. QED BY <1>1, <1>2

\* A pointer that moves like that does not go back, as long as it was at a message of the copy.
Forward(s, n, chs) ==
    \A c \in DOMAIN chs :
        LET old == s.chats[c].lastRead[User]
            new == n.chats[c].lastRead[User]
        IN  /\ c \in ChatIds(s) /\ old # 0
            /\ \E i \in DOMAIN chs[c].msgs : chs[c].msgs[i].id = old
            => new # 0 /\ n.messages[new].ts >= s.messages[old].ts

\* By the order of the copy, or because the message is new.
LEMMA MovedForward ==
    ASSUME NEW s, IsChatDb(s), NEW n, IsChatDb(n), Kept(s, n), InOrder(n),
           NEW chs, Copies(n, chs), Moved(s, n, chs)
    PROVE  Forward(s, n, chs)
<1>. SUFFICES ASSUME NEW c \in DOMAIN chs, c \in ChatIds(s), Pointer(s, c) # 0,
                     NEW i \in DOMAIN chs[c].msgs, chs[c].msgs[i].id = Pointer(s, c)
              PROVE  /\ Pointer(n, c) # 0
                     /\ n.messages[Pointer(n, c)].ts >= s.messages[Pointer(s, c)].ts
  BY DEF Forward, Pointer
<1> DEFINE old == Pointer(s, c)
           new == Pointer(n, c)
           ch == chs[c]
<1>1. /\ IsDb(s) /\ IsDb(n) /\ s \in Store /\ n \in Store /\ User \in Logins /\ StoredInOrder(n)
  BY DbParts DEF IsChatDb, IsDb
<1>2. /\ MessageIds(s) = 1 .. Len(s.messages) /\ MessageIds(n) = 1 .. Len(n.messages)
      /\ Len(s.messages) \in Nat /\ Len(n.messages) \in Nat
      /\ \A m \in MessageIds(n) : n.messages[m].ts \in Nat
  BY <1>1, DbParts, SMTT(40)
<1>3. old \in MessageIds(s)
  BY <1>1 DEF IsDb, Consistent, PointerIsRead, PointsToRead, IsMessageOf, Pointer
<1>4. old \in MessageIds(n) /\ n.messages[old].ts = s.messages[old].ts
  BY <1>3 DEF Kept
<1>5. /\ InDb(n, c, ch) /\ Increasing(ch.msgs) /\ ch \in LocalChat /\ ch.msgs # <<>>
  BY DEF Copies, IsCopy, IsTrueCopy
<1>6. CASE new = old
  BY <1>2, <1>4, <1>6
<1>7. CASE new \in MessageIds(n) \ MessageIds(s)
  <2>1. old < new /\ new # 0
    BY <1>2, <1>3, <1>7
  <2>2. n.messages[old].ts < n.messages[new].ts
    BY <1>1, <1>4, <1>7, <2>1 DEF StoredInOrder
  <2>. QED BY <1>2, <1>4, <1>7, <2>1, <2>2
<1>8. CASE new = Last(ch.msgs).id
  <2>1. /\ Len(ch.msgs) \in DOMAIN ch.msgs /\ Last(ch.msgs) = ch.msgs[Len(ch.msgs)]
        /\ \A j \in DOMAIN ch.msgs : ch.msgs[j].ts <= Last(ch.msgs).ts
    BY <1>5, LastIs
  <2>2. \A j \in DOMAIN ch.msgs : /\ ch.msgs[j].id \in MessageIds(n)
                                  /\ n.messages[ch.msgs[j].id].ts = ch.msgs[j].ts
    BY <1>5 DEF InDb, Faithful, IsMessageOf
  <2>3. new \in MessageIds(n) /\ n.messages[new].ts = Last(ch.msgs).ts
    BY <1>8, <2>1, <2>2
  <2>4. n.messages[old].ts <= Last(ch.msgs).ts
    BY <2>1, <2>2
  <2>. QED BY <1>2, <1>4, <2>3, <2>4
<1>. QED BY <1>6, <1>7, <1>8, SMTT(40) DEF Moved

\* The press of the send button over the database s.
Presses(s) == [left : Nat, asked : Nat, chat : Nat, main : BOOLEAN, rows : SUBSET ChatIds(s),
               list : SUBSET Logins, text : BOOLEAN, stored : Seq(Nat)]

\* While slots are to run, the chat they post to and the rows beside it are in the copy.
PressFits(chs, p) ==
    p.left > 0 => /\ p.chat \in DOMAIN chs \cup {0} /\ p.rows \subseteq DOMAIN chs
                  /\ p.main => p.chat # 0

ChatsInv ==
    /\ IsView(db, chats, current)
    /\ screen \in {"login", "chats", "contacts", "crashed"}
    /\ handlers \in 0 .. MaxLogins
    /\ press \in Presses(db) /\ PressFits(chats, press)

\* What a step comes to.
StepOk == ChatsInv' /\ Kept(db, db') /\ Moved(db, db', chats')

\* A press stays one when the database grows.
LEMMA PressesGrow ==
    ASSUME NEW s, NEW n, Kept(s, n), NEW p \in Presses(s) PROVE p \in Presses(n)
BY DEF Presses, Kept

\* Nothing is left of no press.
LEMMA NoPressFits ==
    ASSUME NEW s, NEW chs
    PROVE  NoPress \in Presses(s) /\ PressFits(chs, NoPress)
<1>1. <<>> \in Seq(Nat)
  BY EmptySeq
<1>2. NoPress \in Presses(s)
  BY <1>1 DEF NoPress, Presses
<1>3. NoPress.left = 0
  BY DEF NoPress
<1>. QED BY <1>2, <1>3 DEF PressFits

\* A step that leaves the view alone, or shows the same copies.
LEMMA QuietStep ==
    ASSUME ChatsInv, db' = db, chats' = chats, current' \in {current, 0},
           screen' \in {"login", "chats", "contacts", "crashed"}, handlers' \in 0 .. MaxLogins,
           press' \in Presses(db), PressFits(chats, press')
    PROVE  StepOk
<1>1. IsView(db, chats, current) /\ IsChatDb(db)
  BY DEF ChatsInv, IsView
<1>2. IsView(db, chats, current')
  BY <1>1 DEF IsView
<1>3. Kept(db, db) /\ Moved(db, db, chats)
  BY <1>1, FollowsItself, FollowsMoves DEF Follows
<1>. QED BY <1>2, <1>3 DEF StepOk, ChatsInv

\* A step that shows other copies.
LEMMA ViewStep ==
    ASSUME ChatsInv, IsView(db', chats', current'), Kept(db, db'), Moved(db, db', chats'),
           screen' \in {"login", "chats", "contacts", "crashed"}, handlers' \in 0 .. MaxLogins,
           press' \in Presses(db'), PressFits(chats', press')
    PROVE  StepOk
BY DEF StepOk, ChatsInv

-----------------------------------------------------------------------------
(* The steps of the list.                                                  *)

\* What a login loads are copies.
LEMMA LoadedIs ==
    ASSUME NEW s, IsChatDb(s) PROVE Copies(s, Loaded(s))
<1>1. Loaded(s) = [c \in {d \in ChatIds(s) : User \in Members(s, d)} |-> LoadedChat(s, c)]
  BY DEF Loaded
<1>. QED BY <1>1, LoadedChatIs DEF Copies

\* The chats are loaded, counted, and the first is opened.
LEMMA LoginStep == ASSUME ChatsInv, MaxLogins \in Nat, Login PROVE StepOk
<1>1. /\ OpenFirst(db, Recount(Loaded(db)), DOMAIN Loaded(db))
      /\ screen' = "chats" /\ handlers' = handlers + 1 /\ handlers < MaxLogins /\ press' = NoPress
  BY DEF Login
<1>2. IsChatDb(db)
  BY DEF ChatsInv, IsView
<1> DEFINE chs == Recount(Loaded(db))
<1>3. Copies(db, chs) /\ Rows(db, chs) /\ DOMAIN chs = DOMAIN Loaded(db)
  BY <1>2, LoadedIs, RecountIs
<1>. HIDE DEF chs
<1>4. OpenFirst(db, chs, DOMAIN chs)
  BY <1>1, <1>3 DEF chs
<1>5. Follows(db, db)
  BY <1>2, FollowsItself
<1>6. IsView(db', chats', current') /\ Kept(db, db') /\ Moved(db, db', chats')
  BY <1>3, <1>4, <1>5, OpenFirstIs
<1>7. handlers' \in 0 .. MaxLogins
  BY <1>1 DEF ChatsInv
<1>8. press' \in Presses(db') /\ PressFits(chats', press')
  BY <1>1, NoPressFits
<1>. QED BY <1>1, <1>6, <1>7, <1>8, ViewStep

\* A list of some of the chats is filled and its first row opened; or another contact is
\* picked and none is; or no list is filled, as there is no contact.
LEMMA TabsStep ==
    ASSUME ChatsInv, OpenContacts \/ SelectContact \/ OpenChats PROVE StepOk
<1>1. /\ handlers' = handlers /\ press' = press /\ press.left = 0
      /\ screen' \in {"chats", "contacts"}
  BY DEF OpenContacts, SelectContact, OpenChats
<1>2. IsChatDb(db) /\ Copies(db, chats) /\ Rows(db, chats)
  BY DEF ChatsInv, IsView
<1> DEFINE chs == Recount(chats)
<1>3. Copies(db, chs) /\ Rows(db, chs) /\ DOMAIN chs = DOMAIN chats
  BY <1>2, RecountIs
<1>. HIDE DEF chs
<1>4. \/ \E scope \in SUBSET DOMAIN chats : \/ OpenFirst(db, chs, scope)
                                           \/ OpenFirst(db, chats, scope)
      \/ db' = db /\ chats' = chs /\ current' = 0
  BY DEF OpenContacts, SelectContact, OpenChats, RowsOf, chs
<1>5. Follows(db, db)
  BY <1>2, FollowsItself
<1>6. IsView(db', chats', current') /\ Kept(db, db') /\ Moved(db, db', chats')
  <2>1. CASE \E scope \in SUBSET DOMAIN chats : \/ OpenFirst(db, chs, scope)
                                             \/ OpenFirst(db, chats, scope)
    BY <1>2, <1>3, <1>5, <2>1, OpenFirstIs
  <2>2. CASE db' = db /\ chats' = chs /\ current' = 0
    BY <1>2, <1>3, <1>5, <2>2, FollowsMoves DEF IsView, Follows
  <2>. QED BY <1>4, <2>1, <2>2
<1>7. press' \in Presses(db') /\ PressFits(chats', press')
  BY <1>1, <1>6, PressesGrow DEF ChatsInv, PressFits
<1>. QED BY <1>1, <1>6, <1>7, ViewStep DEF ChatsInv

\* A row is selected.
LEMMA SelectChatStep == ASSUME ChatsInv, NEW c, SelectChat(c) PROVE StepOk
<1>1. PICK o \in Opened(db, chats, c) : db' = o.db /\ chats' = o.chats
  BY DEF SelectChat
<1>2. /\ c \in DOMAIN chats /\ current' = c
      /\ screen' = screen /\ handlers' = handlers /\ press' = press /\ press.left = 0
  BY DEF SelectChat
<1>3. IsChatDb(db) /\ Copies(db, chats) /\ Rows(db, chats)
  BY DEF ChatsInv, IsView
<1>4. Follows(db, db)
  BY <1>3, FollowsItself
<1>5. IsView(o.db, o.chats, c) /\ Kept(db, o.db) /\ Moved(db, o.db, o.chats)
  BY <1>2, <1>3, <1>4, OpenOne
<1>6. IsView(db', chats', current') /\ Kept(db, db') /\ Moved(db, db', chats')
  BY <1>1, <1>2, <1>5
<1>7. press' \in Presses(db') /\ PressFits(chats', press')
  BY <1>2, <1>6, PressesGrow DEF ChatsInv, PressFits
<1>. QED BY <1>2, <1>6, <1>7, ViewStep DEF ChatsInv

\* Nothing is left in the copy.
LEMMA LogoutStep == ASSUME ChatsInv, Logout PROVE StepOk
<1>1. /\ screen' = "login" /\ chats' = <<>> /\ current' = 0 /\ press' = NoPress
      /\ db' = db /\ handlers' = handlers
  BY DEF Logout
<1>2. IsChatDb(db)
  BY DEF ChatsInv, IsView
<1>3. DOMAIN chats' = {}
  BY <1>1
<1>4. IsView(db', chats', current')
  BY <1>1, <1>2, <1>3 DEF IsView, Copies, Rows
<1>5. Kept(db, db') /\ Moved(db, db', chats')
  BY <1>1, <1>2, FollowsItself, FollowsMoves DEF Follows
<1>6. press' \in Presses(db') /\ PressFits(chats', press')
  BY <1>1, NoPressFits
<1>. QED BY <1>1, <1>4, <1>5, <1>6, ViewStep DEF ChatsInv

\* The client ends, or is started again.
LEMMA StartStep ==
    ASSUME ChatsInv, MaxLogins \in Nat, LoginWithoutAnswer \/ Restart PROVE StepOk
<1>1. CASE LoginWithoutAnswer
  BY <1>1, QuietStep DEF LoginWithoutAnswer, ChatsInv
<1>2. CASE Restart
  <2>1. /\ db' = db /\ chats' = chats /\ current' = current /\ screen' = "login"
        /\ handlers' = 0 /\ press' = NoPress
    BY <1>2 DEF Restart
  <2>2. 0 \in 0 .. MaxLogins
    OBVIOUS
  <2>. QED BY <2>1, <2>2, NoPressFits, QuietStep
<1>. QED BY <1>1, <1>2

-----------------------------------------------------------------------------
(* The steps of a press of "send".                                         *)

Pressing(p, h) == [p EXCEPT !.left = h, !.text = TRUE]

\* Nothing changes but how many slots are to run.
LEMMA PressingIs ==
    ASSUME NEW s, NEW p \in Presses(s), NEW h \in Nat
    PROVE  /\ Pressing(p, h) \in Presses(s) /\ Pressing(p, h).chat = p.chat
           /\ Pressing(p, h).rows = p.rows /\ (Pressing(p, h).main <=> p.main)
BY DEF Pressing, Presses

\* "Send" is pressed for p.
LEMMA PressedStep ==
    ASSUME ChatsInv, NEW p \in Presses(db), Pressed(p), current' \in {current, 0},
           p.chat \in DOMAIN chats \cup {0}, p.rows \subseteq DOMAIN chats,
           p.main => p.chat # 0
    PROVE  StepOk
<1>1. /\ press' = Pressing(p, handlers) /\ db' = db /\ screen' = screen /\ chats' = chats
      /\ handlers' = handlers /\ handlers \in Nat
  BY DEF Pressed, Pressing, ChatsInv
<1>2. /\ press' \in Presses(db) /\ press'.chat = p.chat /\ press'.rows = p.rows
      /\ (press'.main <=> p.main)
  BY <1>1, PressingIs
<1>3. PressFits(chats, press')
  BY <1>2, SMTT(40) DEF PressFits
<1>. QED BY <1>1, <1>2, <1>3, QuietStep DEF ChatsInv

\* The presses of the three editors.
ForCurrent(c, rows) == [NoPress EXCEPT !.asked = c, !.chat = c, !.rows = rows]
ForContact(c, rows) == [NoPress EXCEPT !.asked = c, !.chat = c, !.main = FALSE, !.rows = rows]
ForNew(list) == [NoPress EXCEPT !.main = FALSE, !.list = list]

\* Each of them is a press that names what its editor shows.
LEMMA ForIs ==
    ASSUME NEW s
    PROVE  /\ \A c \in Nat, rows \in SUBSET ChatIds(s) :
                 /\ ForCurrent(c, rows) \in Presses(s)
                 /\ ForCurrent(c, rows).chat = c /\ ForCurrent(c, rows).rows = rows
           /\ \A c \in Nat, rows \in SUBSET ChatIds(s) :
                 /\ ForContact(c, rows) \in Presses(s)
                 /\ ForContact(c, rows).chat = c /\ ForContact(c, rows).rows = rows
           /\ \A list \in SUBSET Logins :
                 /\ ForNew(list) \in Presses(s) /\ ForNew(list).chat = 0
                 /\ ForNew(list).rows = {} /\ ~ForNew(list).main
<1>1. <<>> \in Seq(Nat)
  BY EmptySeq
<1>. QED BY <1>1 DEF ForCurrent, ForContact, ForNew, NoPress, Presses

\* "Send" is pressed in any of them.
LEMMA SendStep ==
    ASSUME ChatsInv,
           \/ Send
           \/ \E rows \in SUBSET DOMAIN chats : \E c \in rows : SendToContact(rows, c)
           \/ \E list \in SUBSET db.users : SendToNew(list)
    PROVE  StepOk
<1>1. /\ DOMAIN chats \subseteq ChatIds(db) /\ current \in DOMAIN chats \cup {0}
      /\ \A c \in DOMAIN chats : c \in Nat /\ c # 0
      /\ db.users \subseteq Logins
  <2>1. IsDb(db) /\ DOMAIN chats \subseteq ChatIds(db)
    BY DEF ChatsInv, IsView, Copies, IsCopy, IsChatDb
  <2>2. ChatIds(db) = 1 .. Len(db.chats) /\ Len(db.chats) \in Nat /\ db.users \subseteq Logins
    BY <2>1, DbParts DEF IsDb
  <2>3. current \in DOMAIN chats \cup {0}
    BY DEF ChatsInv, IsView
  <2>. QED BY <2>1, <2>2, <2>3
<1>2. ASSUME NEW p \in Presses(db), p.chat \in DOMAIN chats, p.rows \subseteq DOMAIN chats,
             Pressed(p), current' \in {current, 0}
      PROVE  StepOk
  <2>1. p.chat # 0
    BY <1>1, <1>2
  <2>. QED BY <1>2, <2>1, PressedStep
<1>3. CASE Send
  <2> DEFINE p == ForCurrent(current, DOMAIN chats)
  <2>1. current \in DOMAIN chats /\ current' = current
    BY <1>1, <1>3 DEF Send
  <2>2. Pressed(p)
    BY <1>3, Zenon DEF Send, ForCurrent
  <2>3. p \in Presses(db) /\ p.chat = current /\ p.rows = DOMAIN chats
    BY <1>1, <2>1, ForIs
  <2>. HIDE DEF p
  <2>. QED BY <1>2, <2>1, <2>2, <2>3
<1>4. ASSUME NEW rows \in SUBSET DOMAIN chats, NEW c \in rows, SendToContact(rows, c)
      PROVE  StepOk
  <2> DEFINE p == ForContact(c, rows)
  <2>1. current' = current /\ Pressed(p)
    BY <1>4, Zenon DEF SendToContact, ForContact
  <2>2. p \in Presses(db) /\ p.chat = c /\ p.rows = rows
    <3>1. c \in Nat /\ rows \in SUBSET ChatIds(db)
      BY <1>1
    <3>. QED BY <3>1, ForIs
  <2>. HIDE DEF p
  <2>. QED BY <1>2, <2>1, <2>2
<1>5. ASSUME NEW list \in SUBSET db.users, SendToNew(list)
      PROVE  StepOk
  <2> DEFINE p == ForNew(list)
  <2>1. current' = 0 /\ Pressed(p)
    BY <1>5, Zenon DEF SendToNew, ForNew
  <2>2. p \in Presses(db) /\ p.chat = 0 /\ p.rows = {} /\ ~p.main
    BY <1>1, ForIs
  <2>. HIDE DEF p
  <2>. QED BY <2>1, <2>2, PressedStep
<1>. QED BY <1>3, <1>4, <1>5

\* What becomes of a press when a slot has run: no message, a message, or no answer.
Passed(p, left) == [p EXCEPT !.left = left]
Done(p, left, stored) == [p EXCEPT !.left = left, !.text = FALSE, !.stored = stored]
Missed(p, left, chat, stored) == [p EXCEPT !.left = left, !.chat = chat, !.stored = stored]

\* A press with these values is one, and its row fits what it fitted.
IsAfter(s, p, left, chat, new) ==
    /\ new \in Presses(s) /\ new.left = left /\ new.chat = chat /\ new.rows = p.rows
    /\ new.main <=> p.main

\* A slot that found no text.
LEMMA PassedIs ==
    ASSUME NEW s, NEW p \in Presses(s), NEW left \in Nat
    PROVE  IsAfter(s, p, left, p.chat, Passed(p, left))
BY DEF IsAfter, Passed, Presses

\* A slot that stored its message.
LEMMA DoneIs ==
    ASSUME NEW s, NEW p \in Presses(s), NEW left \in Nat, NEW stored \in Seq(Nat)
    PROVE  IsAfter(s, p, left, p.chat, Done(p, left, stored))
BY DEF IsAfter, Done, Presses

\* A slot that got no answer.
LEMMA MissedIs ==
    ASSUME NEW s, NEW p \in Presses(s), NEW left \in Nat, NEW chat \in Nat, NEW stored \in Seq(Nat)
    PROVE  IsAfter(s, p, left, chat, Missed(p, left, chat, stored))
BY DEF IsAfter, Missed, Presses

\* What is left of the press fits the copies that have the chat it posts to.
LEMMA AfterFits ==
    ASSUME NEW s, NEW p, NEW left, NEW chat, NEW new, IsAfter(s, p, left, chat, new),
           NEW chs, chat \in DOMAIN chs \cup {0}, p.rows \subseteq DOMAIN chs, p.main => chat # 0
    PROVE  new \in Presses(s) /\ PressFits(chs, new)
BY DEF IsAfter, PressFits

\* What is known of the press when a slot runs.
LEMMA PressParts ==
    ASSUME ChatsInv, press.left > 0
    PROVE  /\ press \in Presses(db) /\ press.left - 1 \in Nat /\ press.stored \in Seq(Nat)
           /\ press.chat \in DOMAIN chats \cup {0} /\ press.rows \subseteq DOMAIN chats
           /\ press.main => press.chat # 0
<1>1. press \in Presses(db) /\ PressFits(chats, press)
  BY DEF ChatsInv
<1>2. press.left \in Nat /\ press.stored \in Seq(Nat)
  BY <1>1 DEF Presses
<1>. QED BY <1>1, <1>2 DEF PressFits

\* A slot runs with no text.
LEMMA HandleEmptyStep == ASSUME ChatsInv, HandleEmpty PROVE StepOk
<1>1. /\ press.left > 0 /\ press' = Passed(press, press.left - 1)
      /\ db' = db /\ screen' = screen /\ chats' = chats /\ current' = current
      /\ handlers' = handlers
  BY DEF HandleEmpty, Passed
<1>2. IsAfter(db, press, press.left - 1, press.chat, press')
  BY <1>1, PressParts, PassedIs
<1>3. press' \in Presses(db) /\ PressFits(chats, press')
  BY <1>1, <1>2, PressParts, AfterFits
<1>. QED BY <1>1, <1>3, QuietStep DEF ChatsInv

-----------------------------------------------------------------------------
(* What the server stores.                                                 *)

\* A message that is stored.
LEMMA MessageGrows ==
    ASSUME NEW s, IsChatDb(s), NEW u \in s.users, NEW c \in ChatIds(s), NEW t \in Nat
    PROVE  Follows(s, MessageAdded(s, u, c, t))
<1> DEFINE n == MessageAdded(s, u, c, t)
<1>1. IsDb(s)
  BY DEF IsChatDb
<1>2. /\ IsDb(n) /\ Kept(s, n) /\ OneMore(s, n, c, u)
      /\ n.messages[Len(s.messages) + 1].ts = t
      /\ \A d \in ChatIds(s) :
            Pointer(n, d) = IF d = c /\ u = User /\ User \in Members(s, c)
                            THEN Len(s.messages) + 1 ELSE Pointer(s, d)
  BY <1>1, MessageAddedIs
<1>0. InOrder(s) /\ IsLate(s, t) => StoredInOrder(n)
  BY <1>1, MessageAddedInOrder DEF IsChatDb
<1>. HIDE DEF n
<1>3. InOrder(n) => StoredInOrder(n)
  BY <1>0, <1>1, <1>2, OrderWas, NewIsLate
<1>4. Len(s.messages) + 1 \in MessageIds(n) \ MessageIds(s)
  BY <1>1, <1>2, DbParts DEF IsDb, OneMore
<1>5. Follows(s, n)
  BY <1>2, <1>3, <1>4 DEF Follows, IsChatDb
<1>. QED BY <1>5 DEF n

\* A chat that is stored.
LEMMA ChatGrows ==
    ASSUME NEW s, IsChatDb(s), NEW u \in s.users, NEW list, NEW t \in Nat
    PROVE  Follows(s, ChatAdded(s, u, list, t))
<1> DEFINE n == ChatAdded(s, u, list, t)
<1>1. IsDb(s)
  BY DEF IsChatDb
<1>2. /\ IsDb(n) /\ Kept(s, n) /\ OneMore(s, n, Len(s.chats) + 1, u)
      /\ n.messages[Len(s.messages) + 1].ts = t
      /\ \A d \in ChatIds(s) : Pointer(n, d) = Pointer(s, d)
  BY <1>1, ChatAddedIs
<1>0. InOrder(s) /\ IsLate(s, t) => StoredInOrder(n)
  BY <1>1, ChatAddedInOrder DEF IsChatDb
<1>. HIDE DEF n
<1>3. InOrder(n) => StoredInOrder(n)
  BY <1>0, <1>1, <1>2, OrderWas, NewIsLate
<1>4. Follows(s, n)
  BY <1>2, <1>3 DEF Follows, IsChatDb
<1>. QED BY <1>4 DEF n

\* What the steps start from.
LEMMA ViewIs ==
    ASSUME ChatsInv
    PROVE  /\ IsChatDb(db) /\ IsDb(db) /\ User \in db.users /\ Copies(db, chats) /\ Rows(db, chats)
           /\ \A c \in DOMAIN chats : c \in ChatIds(db) /\ c \in Nat /\ c # 0
<1>1. IsChatDb(db) /\ IsDb(db) /\ User \in db.users /\ Copies(db, chats) /\ Rows(db, chats)
  BY DEF ChatsInv, IsView, IsChatDb, IsDb
<1>2. ChatIds(db) = 1 .. Len(db.chats) /\ Len(db.chats) \in Nat
  BY <1>1, DbParts DEF IsDb
<1>3. \A c \in DOMAIN chats : c \in ChatIds(db)
  BY <1>1 DEF Copies, IsCopy
<1>. QED BY <1>1, <1>2, <1>3

\* Another client writes: nothing of it is seen, and nothing of the copy gets wrong.
LEMMA OthersStep ==
    ASSUME ChatsInv, NEW w, NEW c, NEW t \in Nat,
           OthersPost(w, c, t) \/ OthersChat(w, t)
    PROVE  StepOk
<1>1. /\ screen' = screen /\ chats' = chats /\ current' = current /\ handlers' = handlers
      /\ press' = press
  BY DEF OthersPost, OthersChat
<1>2. IsChatDb(db) /\ IsDb(db) /\ Consistent(db)
  BY ViewIs DEF IsDb
<1>3. t \in Nat
  OBVIOUS
<1>4. Follows(db, db')
  <2>1. CASE OthersPost(w, c, t)
    <3>1. c \in ChatIds(db) /\ w \in Members(db, c) /\ db' = MessageAdded(db, w, c, t)
      BY <2>1 DEF OthersPost
    <3>2. w \in db.users
      BY <1>2, <3>1 DEF Consistent, ReferencesExist
    <3>. QED BY <1>2, <1>3, <3>1, <3>2, MessageGrows
  <2>2. CASE OthersChat(w, t)
    <3>1. w \in db.users /\ db' = ChatAdded(db, w, {User}, t)
      BY <2>2 DEF OthersChat
    <3>. QED BY <1>2, <1>3, <3>1, ChatGrows
  <2>. QED BY <2>1, <2>2
<1>5. IsChatDb(db') /\ Kept(db, db') /\ Moved(db, db', chats)
  BY <1>4, FollowsMoves DEF Follows
<1>6. IsView(db', chats, current)
  BY <1>5, KeptView DEF ChatsInv
<1>7. press \in Presses(db')
  BY <1>5, PressesGrow DEF ChatsInv
<1>. QED BY <1>1, <1>5, <1>6, <1>7, ViewStep DEF ChatsInv

-----------------------------------------------------------------------------
(* The steps of the slots.                                                 *)

\* The message is in the database and in the copy, and the list is filled again.
LEMMA HandleAnsweredStep ==
    ASSUME ChatsInv, NEW t \in Nat, HandleAnswered(t)
    PROVE  StepOk
<1> DEFINE c == press.chat
           s == MessageAdded(db, User, c, t)
           to == Posted(chats[c], Len(s.messages), t)
           with == [chats EXCEPT ![c] = to]
           chs == Recount(with)
<1>1. /\ press.left > 0 /\ c # 0 /\ press' = Handled(c) /\ screen' = screen
      /\ handlers' = handlers
      /\ IF press.main THEN OpenFirst(s, chs, DOMAIN chs)
         ELSE db' = s /\ chats' = chs /\ current' = 0
  BY Zenon DEF HandleAnswered
<1>2. /\ IsChatDb(db) /\ IsDb(db) /\ User \in db.users /\ Copies(db, chats) /\ Rows(db, chats)
      /\ \A d \in DOMAIN chats : d \in ChatIds(db) /\ d \in Nat /\ d # 0
  BY ViewIs
<1>3. t \in Nat
  OBVIOUS
<1>4. c \in DOMAIN chats /\ c \in ChatIds(db)
  BY <1>1, <1>2, PressParts
<1>5. IsCopy(db, c, chats[c])
  BY <1>2, <1>4 DEF Copies
<1>6. Follows(db, s)
  BY <1>2, <1>3, <1>4, MessageGrows
<1>7. /\ Kept(db, s) /\ OneMore(db, s, c, User)
      /\ s.messages[Len(db.messages) + 1].ts = t
      /\ Len(s.messages) = Len(db.messages) + 1
      /\ ~Unread(s, Len(db.messages) + 1, User)
      /\ \A m \in MessageIds(db) :
            db.messages[m].chat = c /\ db.messages[m].ts < t => ~Unread(s, m, User)
  BY <1>2, <1>3, <1>4, MessageAddedIs
<1>. HIDE DEF s
<1>8. IsCopy(s, c, to)
  <2>1. /\ chats[c] \in LocalChat /\ c \in ChatIds(s) /\ User \in Members(s, c)
        /\ IdsFit(db, c, chats[c])
        /\ InOrder(db) => InDb(db, c, chats[c]) /\ Increasing(chats[c].msgs)
    BY <1>4, <1>5, <1>7 DEF IsCopy, IsTrueCopy, IsNumbered, Kept
  <2> DEFINE ch == chats[c]
  <2>. HIDE DEF ch
  <2>2. to = Posted(ch, Len(s.messages), t)
    BY DEF ch
  <2>3. /\ ch \in LocalChat /\ IdsFit(db, c, ch)
        /\ InOrder(db) => InDb(db, c, ch) /\ Increasing(ch.msgs)
    BY <2>1 DEF ch
  <2>. HIDE DEF to, c
  <2>. QED BY <1>2, <1>3, <1>7, <2>1, <2>2, <2>3, PostedIs
<1>. HIDE DEF to
<1>9. /\ DOMAIN with = DOMAIN chats /\ with[c] = to
      /\ \A d \in DOMAIN chats : d # c => with[d] = chats[d]
  BY <1>4
<1>10. Copies(s, chats)
  BY <1>2, <1>7, KeptCopies
<1>11. Copies(s, with)
  BY <1>8, <1>9, <1>10 DEF Copies
<1>. HIDE DEF with
<1>12. DOMAIN chs = DOMAIN chats /\ Copies(s, chs) /\ Rows(s, chs)
  BY <1>9, <1>11, RecountIs
<1>. HIDE DEF chs
<1>13. /\ IsView(db', chats', current') /\ Kept(db, db') /\ Moved(db, db', chats')
       /\ DOMAIN chats' = DOMAIN chats
  <2>1. CASE press.main
    BY <1>1, <1>6, <1>12, <2>1, OpenFirstIs
  <2>2. CASE ~press.main
    <3>1. db' = s /\ chats' = chs /\ current' = 0
      BY <1>1, <2>2
    <3>. QED BY <1>6, <1>12, <3>1, FollowsMoves DEF Follows, IsView
  <2>. QED BY <2>1, <2>2
<1>14. press' \in Presses(db') /\ PressFits(chats', press')
  <2>1. press' = Done(press, press.left - 1, Append(press.stored, c))
    BY <1>1, Zenon DEF Handled, Done
  <2>2. Append(press.stored, c) \in Seq(Nat) /\ press.left - 1 \in Nat /\ press \in Presses(db')
    BY <1>1, <1>2, <1>4, <1>13, PressParts, AppendProperties, PressesGrow
  <2>3. IsAfter(db', press, press.left - 1, c, press')
    BY <2>1, <2>2, DoneIs
  <2>. QED BY <1>1, <1>13, <2>3, PressParts, AfterFits
<1>. QED BY <1>1, <1>13, <1>14, ViewStep DEF ChatsInv

\* The chat is in the database and in the copy, and the list is filled twice.
LEMMA HandleNewAnsweredStep ==
    ASSUME ChatsInv, NEW t \in Nat, HandleNewAnswered(t)
    PROVE  StepOk
<1> DEFINE s == ChatAdded(db, User, press.list, t)
           new == Len(s.chats)
           to == NewLocalChat(Len(s.messages), t)
           with == [c \in DOMAIN chats \cup {new} |-> IF c = new THEN to ELSE chats[c]]
           chs == Recount(with)
<1>1. /\ press.left > 0 /\ press.chat = 0 /\ press' = Handled(new) /\ current' = 0
      /\ screen' = "chats" /\ handlers' = handlers
      /\ \E c \in FirstRows(with, DOMAIN with) : \E o \in Opened(s, chs, c) :
            db' = o.db /\ chats' = Recount(o.chats)
  BY Zenon DEF HandleNewAnswered
<1>2. /\ IsChatDb(db) /\ IsDb(db) /\ User \in db.users /\ Copies(db, chats) /\ Rows(db, chats)
      /\ \A d \in DOMAIN chats : d \in ChatIds(db) /\ d \in Nat /\ d # 0
  BY ViewIs
<1>3. t \in Nat
  OBVIOUS
<1>4. Follows(db, s)
  BY <1>2, <1>3, ChatGrows
<1>5. /\ Kept(db, s) /\ ChatIds(s) = ChatIds(db) \cup {new} /\ new = Len(db.chats) + 1
      /\ User \in Members(s, new) /\ OneMore(db, s, new, User)
      /\ s.messages[Len(db.messages) + 1].ts = t
      /\ Len(s.messages) = Len(db.messages) + 1
      /\ ~Unread(s, Len(db.messages) + 1, User)
      /\ \A m \in MessageIds(db) : db.messages[m].chat # new
  BY <1>2, <1>3, ChatAddedIs
<1>6. Len(db.chats) \in Nat
  BY <1>2, DbParts DEF IsDb
<1>. HIDE DEF s, new
<1>7. new \in ChatIds(s) /\ new \in Nat /\ new # 0
  BY <1>5, <1>6
<1>8. IsCopy(s, new, to)
  BY <1>2, <1>3, <1>5, <1>7, NewLocalChatIs
<1>. HIDE DEF to
<1>9. Copies(s, chats)
  BY <1>2, <1>5, KeptCopies
<1>10. /\ DOMAIN with = DOMAIN chats \cup {new} /\ with[new] = to
       /\ \A d \in DOMAIN chats : d # new => with[d] = chats[d]
  OBVIOUS
<1>11. Copies(s, with)
  BY <1>8, <1>9, <1>10 DEF Copies
<1>. HIDE DEF with
<1>12. DOMAIN chs = DOMAIN with /\ Copies(s, chs) /\ Rows(s, chs)
  BY <1>11, RecountIs
<1>. HIDE DEF chs
<1>13. PICK c \in DOMAIN chs : \E o \in Opened(s, chs, c) :
           db' = o.db /\ chats' = Recount(o.chats)
  BY <1>1, <1>12 DEF FirstRows
<1>14. PICK o \in Opened(s, chs, c) : db' = o.db /\ chats' = Recount(o.chats)
  BY <1>13
<1>15. /\ IsView(o.db, o.chats, c) /\ Kept(db, o.db) /\ Moved(db, o.db, o.chats)
       /\ DOMAIN o.chats = DOMAIN chs
  BY <1>4, <1>12, OpenOne
<1> DEFINE filled == Recount(o.chats)
<1>16. /\ DOMAIN filled = DOMAIN o.chats /\ Copies(o.db, filled) /\ Rows(o.db, filled)
       /\ \A d \in DOMAIN o.chats : filled[d].msgs = o.chats[d].msgs
  <2>1. Copies(o.db, o.chats)
    BY <1>15 DEF IsView
  <2> DEFINE n == o.db
             all == o.chats
  <2>. HIDE DEF n, all
  <2>2. Copies(n, all) /\ filled = Recount(all)
    BY <2>1 DEF n, all
  <2>. HIDE DEF filled
  <2>3. /\ DOMAIN filled = DOMAIN all /\ Copies(n, filled) /\ Rows(n, filled)
        /\ \A d \in DOMAIN all : filled[d].msgs = all[d].msgs
    BY <2>2, RecountIs
  <2>. QED BY <2>3 DEF n, all
<1>17. db' = o.db /\ chats' = filled
  BY <1>14
<1>. HIDE DEF filled
<1>18. Moved(db, o.db, filled)
  BY <1>15, <1>16 DEF Moved
<1>19. IsView(o.db, filled, 0)
  BY <1>15, <1>16 DEF IsView
<1>20. press' \in Presses(db') /\ PressFits(chats', press')
  <2>1. press' = Done(press, press.left - 1, Append(press.stored, new))
    BY <1>1, Zenon DEF Handled, Done
  <2>2. press.stored \in Seq(Nat) /\ press.left - 1 \in Nat /\ press \in Presses(db)
    BY <1>1, PressParts
  <2>3. Append(press.stored, new) \in Seq(Nat) /\ press \in Presses(db')
    BY <1>7, <1>15, <1>17, <2>2, AppendProperties, PressesGrow
  <2>4. IsAfter(db', press, press.left - 1, press.chat, press')
    BY <2>1, <2>2, <2>3, DoneIs
  <2>5. DOMAIN chats \subseteq DOMAIN chats'
    BY <1>10, <1>12, <1>15, <1>16, <1>17
  <2>6. /\ press.chat \in DOMAIN chats' \cup {0} /\ press.rows \subseteq DOMAIN chats'
        /\ press.main => press.chat # 0
    BY <1>1, <2>5, PressParts
  <2>. QED BY <2>4, <2>6, AfterFits
<1>. QED BY <1>1, <1>15, <1>17, <1>18, <1>19, <1>20, ViewStep DEF ChatsInv

\* The message may be in the database; it is in no copy.
LEMMA HandleUnansweredStep ==
    ASSUME ChatsInv, NEW t \in Nat, HandleUnanswered(t)
    PROVE  StepOk
<1> DEFINE s == IF press.chat = 0 THEN ChatAdded(db, User, press.list, t)
                ELSE MessageAdded(db, User, press.chat, t)
           into == IF press.chat = 0 THEN Len(s.chats) ELSE press.chat
           chs == Recount(chats)
<1>1. /\ press.left > 0 /\ screen' = screen /\ handlers' = handlers
      /\ \E done \in {[db |-> s, stored |-> Append(press.stored, into)],
                      [db |-> db, stored |-> press.stored]},
            next \in IF press.chat = 0 THEN {0} ELSE FirstRows(chats, press.rows) :
           /\ IF press.main
              THEN \E o \in Opened(done.db, chs, next) :
                      db' = o.db /\ chats' = o.chats /\ current' = next
              ELSE db' = done.db /\ UNCHANGED <<chats, current>>
           /\ press' = [press EXCEPT !.left = @ - 1, !.chat = next, !.stored = done.stored]
  BY Zenon DEF HandleUnanswered
<1>2. /\ IsChatDb(db) /\ IsDb(db) /\ User \in db.users /\ Copies(db, chats) /\ Rows(db, chats)
      /\ \A d \in DOMAIN chats : d \in ChatIds(db) /\ d \in Nat /\ d # 0
  BY ViewIs
<1>3. t \in Nat
  OBVIOUS
<1>4. /\ press \in Presses(db) /\ press.left - 1 \in Nat /\ press.stored \in Seq(Nat)
      /\ press.chat \in DOMAIN chats \cup {0} /\ press.rows \subseteq DOMAIN chats
      /\ press.main => press.chat # 0
  BY <1>1, PressParts
<1>5. Follows(db, s) /\ into \in Nat
  <2>1. CASE press.chat = 0
    <3> DEFINE n == ChatAdded(db, User, press.list, t)
    <3>1. Follows(db, n)
      BY <1>2, <1>3, ChatGrows
    <3>2. IsDb(n)
      BY <3>1 DEF Follows, IsChatDb
    <3>. HIDE DEF n
    <3>3. Len(n.chats) \in Nat
      BY <3>2, DbParts DEF IsDb
    <3>. QED BY <2>1, <3>1, <3>3 DEF n
  <2>2. CASE press.chat # 0
    <3>1. press.chat \in ChatIds(db) /\ press.chat \in Nat
      BY <1>2, <1>4, <2>2
    <3>2. Follows(db, MessageAdded(db, User, press.chat, t))
      BY <1>2, <1>3, <3>1, MessageGrows
    <3>. QED BY <2>2, <3>1, <3>2
  <2>. QED BY <2>1, <2>2
<1>. HIDE DEF s, into
<1>6. PICK n, stored, next :
         /\ Follows(db, n) /\ stored \in Seq(Nat)
         /\ next \in IF press.chat = 0 THEN {0} ELSE FirstRows(chats, press.rows)
         /\ IF press.main
            THEN \E o \in Opened(n, chs, next) :
                    db' = o.db /\ chats' = o.chats /\ current' = next
            ELSE db' = n /\ UNCHANGED <<chats, current>>
         /\ press' = Missed(press, press.left - 1, next, stored)
  <2> DEFINE with == [db |-> s, stored |-> Append(press.stored, into)]
             without == [db |-> db, stored |-> press.stored]
  <2>1. PICK done \in {with, without},
             next \in IF press.chat = 0 THEN {0} ELSE FirstRows(chats, press.rows) :
           /\ IF press.main
              THEN \E o \in Opened(done.db, chs, next) :
                      db' = o.db /\ chats' = o.chats /\ current' = next
              ELSE db' = done.db /\ UNCHANGED <<chats, current>>
           /\ press' = Missed(press, press.left - 1, next, done.stored)
    BY <1>1, Zenon DEF Missed
  <2>2. Follows(db, db) /\ Append(press.stored, into) \in Seq(Nat)
    BY <1>2, <1>4, <1>5, FollowsItself, AppendProperties
  <2>3. /\ with.db = s /\ with.stored = Append(press.stored, into)
        /\ without.db = db /\ without.stored = press.stored
    OBVIOUS
  <2>. HIDE DEF with, without
  <2>4. Follows(db, done.db) /\ done.stored \in Seq(Nat)
    BY <1>4, <1>5, <2>2, <2>3
  <2>. QED BY <2>1, <2>4, Zenon
<1>7. /\ next \in DOMAIN chats \cup {0} /\ next \in Nat
      /\ press.chat # 0 => next \in DOMAIN chats /\ next # 0
  <2>1. press.chat = 0 => next = 0
    BY <1>6
  <2>2. press.chat # 0 => next \in DOMAIN chats
    BY <1>4, <1>6 DEF FirstRows
  <2>. QED BY <1>2, <2>1, <2>2
<1>8. IsChatDb(n) /\ Kept(db, n)
  BY <1>6 DEF Follows
<1>9. /\ IsView(db', chats', current') /\ Kept(db, db') /\ Moved(db, db', chats')
      /\ DOMAIN chats' = DOMAIN chats
  <2>1. CASE press.main
    <3>1. next \in DOMAIN chats
      BY <1>4, <1>7, <2>1
    <3>2. DOMAIN chs = DOMAIN chats /\ Copies(db, chs) /\ Rows(db, chs)
      BY <1>2, RecountIs
    <3>. HIDE DEF chs
    <3>3. Copies(n, chs) /\ Rows(n, chs)
      BY <1>8, <3>2, KeptCopies
    <3>4. PICK o \in Opened(n, chs, next) : db' = o.db /\ chats' = o.chats /\ current' = next
      BY <1>6, <2>1
    <3>5. /\ IsView(o.db, o.chats, next) /\ Kept(db, o.db) /\ Moved(db, o.db, o.chats)
          /\ DOMAIN o.chats = DOMAIN chs
      BY <1>6, <3>1, <3>2, <3>3, OpenOne
    <3>. QED BY <3>2, <3>4, <3>5
  <2>2. CASE ~press.main
    <3>1. db' = n /\ chats' = chats /\ current' = current
      BY <1>6, <2>2
    <3>2. IsView(n, chats, current)
      BY <1>8, KeptView DEF ChatsInv
    <3>3. Moved(db, n, chats)
      BY <1>6, FollowsMoves
    <3>. QED BY <1>8, <3>1, <3>2, <3>3
  <2>. QED BY <2>1, <2>2
<1>10. press' \in Presses(db') /\ PressFits(chats', press')
  <2>1. press \in Presses(db')
    BY <1>4, <1>9, PressesGrow
  <2>2. IsAfter(db', press, press.left - 1, next, press')
    BY <1>4, <1>6, <1>7, <2>1, MissedIs
  <2>3. /\ next \in DOMAIN chats' \cup {0} /\ press.rows \subseteq DOMAIN chats'
        /\ press.main => next # 0
    BY <1>4, <1>7, <1>9
  <2>. QED BY <2>2, <2>3, AfterFits
<1>. QED BY <1>1, <1>9, <1>10, ViewStep DEF ChatsInv

-----------------------------------------------------------------------------
(* What is true of the client in every state.                              *)

\* One step of the client or of the others.
LEMMA StepIsOk ==
    ASSUME ChatsInv, MaxLogins \in Nat, Behind \subseteq Nat, Next PROVE StepOk
<1>0. ASSUME NEW t \in Now PROVE t \in Nat
  BY ViewIs, NowIs
<1>1. CASE Login
  BY <1>1, LoginStep
<1>2. CASE LoginWithoutAnswer \/ Restart
  BY <1>2, StartStep
<1>3. CASE Logout
  BY <1>3, LogoutStep
<1>4. CASE OpenContacts \/ SelectContact \/ OpenChats
  BY <1>4, TabsStep
<1>5. ASSUME NEW c \in DOMAIN chats, SelectChat(c) PROVE StepOk
  BY <1>5, SelectChatStep
<1>6. CASE Send
  BY <1>6, SendStep
<1>7. ASSUME NEW w \in Logins \ {User}, NEW rows \in {RowsOf(db, chats, w), DOMAIN chats},
             NEW c \in rows, SendToContact(rows, c)
      PROVE  StepOk
  <2>1. rows \in SUBSET DOMAIN chats
    BY <1>7 DEF RowsOf
  <2>. QED BY <1>7, <2>1, SendStep
<1>8. ASSUME NEW list \in SUBSET db.users, SendToNew(list) PROVE StepOk
  BY <1>8, SendStep
<1>9. CASE HandleEmpty
  BY <1>9, HandleEmptyStep
<1>10. ASSUME NEW t \in Now,
              HandleAnswered(t) \/ HandleNewAnswered(t) \/ HandleUnanswered(t)
       PROVE  StepOk
  BY <1>10, <1>0, HandleAnsweredStep, HandleNewAnsweredStep, HandleUnansweredStep
<1>11. ASSUME NEW w, NEW c, NEW t \in Now, OthersPost(w, c, t) \/ OthersChat(w, t)
       PROVE  StepOk
  BY <1>11, <1>0, OthersStep
<1>. QED BY <1>1, <1>2, <1>3, <1>4, <1>5, <1>6, <1>7, <1>8, <1>9, <1>10, <1>11
         DEF Next

\* Each step keeps ChatsInv, and nothing the database has is lost.
LEMMA StepKeepsChats ==
    ASSUME ChatsInv, MaxLogins \in Nat, Behind \subseteq Nat, [Next]_vars PROVE StepOk
<1>1. CASE UNCHANGED vars
  <2>1. /\ db' = db /\ chats' = chats /\ current' = current /\ screen' = screen
        /\ handlers' = handlers /\ press' = press
    BY <1>1 DEF vars
  <2>. QED BY <2>1, QuietStep DEF ChatsInv
<1>. QED BY <1>1, StepIsOk

\* The client starts with no copies.
LEMMA InitChats ==
    ASSUME Init PROVE ChatsInv
<1>1. /\ InitialStore \in Store /\ Consistent(InitialStore) /\ User \in InitialStore.users
      /\ ChatsHaveMessages(InitialStore) /\ (InOrder(InitialStore) => OwnPostsRead(InitialStore))
  BY ClientAssumption
<1>2. IsChatDb(db)
  BY <1>1 DEF IsChatDb, IsDb, Init, InOrder, OwnPostsRead, StoredInOrder
<1>3. IsView(db, chats, current)
  <2>1. chats = <<>> /\ current = 0
    BY DEF Init
  <2>2. DOMAIN chats = {}
    BY <2>1
  <2>. QED BY <1>2, <2>1, <2>2 DEF IsView, Copies, Rows
<1>4. 0 \in 0 .. MaxLogins
  BY ClientAssumption
<1>5. press = NoPress /\ screen = "login" /\ handlers = 0
  BY DEF Init
<1>. QED BY <1>3, <1>4, <1>5, NoPressFits DEF ChatsInv

\* ChatsInv is inductive: it holds in every state.
THEOREM ChatsInvariant == Spec => []ChatsInv
<1>1. Init => ChatsInv
  BY InitChats
<1>2. ChatsInv /\ [Next]_vars => ChatsInv'
  BY StepKeepsChats, ClientAssumption DEF StepOk
<1>. QED BY <1>1, <1>2, PTL DEF Spec

\* The database of the client stays a database, the copies are of chats the user is in, and
\* what is left of a press is what the types say.  No assumption on the clocks is needed.
THEOREM ChatsTyping == Spec => []TypeOK
<1>1. ChatsInv => TypeOK
  <2>. SUFFICES ASSUME ChatsInv PROVE TypeOK
    OBVIOUS
  <2>1. /\ db \in Store /\ Copies(db, chats)
    BY ViewIs DEF IsDb
  <2>2. \A c \in DOMAIN chats : c \in ChatIds(db) /\ chats[c] \in LocalChat
    BY <2>1 DEF Copies, IsCopy
  <2>3. current \in DOMAIN chats \cup {0}
    BY DEF ChatsInv, IsView
  <2>4. /\ press \in Presses(db) /\ screen \in {"login", "chats", "contacts", "crashed"}
        /\ handlers \in 0 .. MaxLogins
    BY DEF ChatsInv
  <2>. QED BY <2>1, <2>2, <2>3, <2>4, Zenon DEF TypeOK, Presses
<1>. QED BY <1>1, ChatsInvariant, PTL

\* Whatever the clocks show, the last message of a copy has an id, the ids are of messages
\* of the chat, and unless a message of the copy was left without one all are the messages
\* of their ids.
THEOREM CopiesFaithful == Spec => []LocalFaithful
<1>1. ChatsInv => LocalFaithful
  <2>1. ASSUME ChatsInv, NEW c \in DOMAIN chats PROVE IsNumbered(db, c, chats[c])
    BY <2>1, ViewIs DEF Copies, IsCopy
  <2>. QED BY <2>1 DEF LocalFaithful, IsNumbered, IdsFit, InDb, Faithful
<1>. QED BY <1>1, ChatsInvariant, PTL

\* No row of the list says that less is unread than the server has as not read, unless the
\* report of the last read message of its chat was lost.
THEOREM UnreadIsShown == Spec => []NothingMissed
<1>1. ChatsInv => NothingMissed
  <2>1. ASSUME ChatsInv, InOrder(db), NEW c \in DOMAIN chats PROVE Counted(db, chats[c])
    BY <2>1, ViewIs DEF Rows
  <2>2. \A c : UnreadAtServer(c) = UnreadIn(db, chats[c])
    BY DEF UnreadAtServer, UnreadIn
  <2>. QED BY <2>1, <2>2 DEF NothingMissed, Counted
<1>. QED BY <1>1, ChatsInvariant, PTL

\* Everything in the copy of the selected chat is read at the server, unless that report was
\* lost.
THEOREM SelectedIsRead == Spec => []OpenedIsRead
<1>1. ChatsInv => OpenedIsRead
  <2>1. ASSUME ChatsInv, InOrder(db), current # 0
        PROVE  chats[current].lost \/ AllRead(db, chats[current])
    BY <2>1 DEF ChatsInv, IsView
  <2>2. \A c : AllRead(db, chats[c]) => UnreadAtServer(c) = {}
    BY DEF UnreadAtServer, AllRead
  <2>. QED BY <2>1, <2>2 DEF OpenedIsRead
<1>. QED BY <1>1, ChatsInvariant, PTL

\* The user's read pointer does not go back from a message of the copy to an older one,
\* whatever is posted, opened, loaded again or reported.
THEOREM PointerGoesForward == Spec => PointerForward
<1>1. ChatsInv /\ [Next]_vars =>
          (InOrder(db') => \A c \in DOMAIN chats' :
             LET old == db.chats[c].lastRead[User]
                 new == db'.chats[c].lastRead[User]
             IN  /\ c \in ChatIds(db) /\ old # 0
                 /\ \E i \in DOMAIN chats'[c].msgs : chats'[c].msgs[i].id = old
                 => new # 0 /\ db'.messages[new].ts >= db.messages[old].ts)
  <2>1. ASSUME ChatsInv, [Next]_vars, InOrder(db') PROVE Forward(db, db', chats')
    <3>1. StepOk
      BY <2>1, StepKeepsChats, ClientAssumption
    <3>2. /\ IsChatDb(db) /\ IsChatDb(db') /\ Copies(db', chats') /\ Kept(db, db')
          /\ Moved(db, db', chats')
      BY <2>1, <3>1 DEF StepOk, ChatsInv, IsView
    <3>. QED BY <2>1, <3>2, MovedForward
  <2>. QED BY <2>1 DEF Forward
<1>. QED BY <1>1, ChatsInvariant, PTL DEF Spec, PointerForward

-----------------------------------------------------------------------------
(* A press of "send" and its one message.                                  *)

\* The fields of a press.
PressFields == {"left", "asked", "chat", "main", "rows", "list", "text", "stored"}

\* With one slot connected a press has one message to store, and that goes where it was meant.
PressInv ==
    /\ handlers \in Nat
    /\ DOMAIN press = PressFields
    /\ handlers <= 1 =>
          \/ /\ press.left = 1 /\ handlers = 1
             /\ press.stored = <<>> /\ press.chat = press.asked
          \/ /\ press.left = 0
             /\ \/ press.stored = <<>>
                \/ \E c : press.stored = <<c>> /\ (press.asked # 0 => c = press.asked)

\* What no press is.
LEMMA NoPressIs ==
    /\ DOMAIN NoPress = PressFields
    /\ NoPress.left = 0 /\ NoPress.stored = <<>>
    /\ NoPress.asked = 0 /\ NoPress.chat = 0
BY DEF NoPress, PressFields

\* The first message of a press is its only one.
LEMMA AppendOne == \A c : Append(<<>>, c) = <<c>>
OBVIOUS

\* The slots are called for the first time.
LEMMA PressedInv ==
    ASSUME PressInv, NEW p, DOMAIN p = PressFields, Pressed(p),
           p.stored = <<>>, p.chat = p.asked
    PROVE  PressInv'
<1>1. press' = [p EXCEPT !.left = handlers, !.text = TRUE] /\ handlers' = handlers
  BY DEF Pressed
<1>2. /\ DOMAIN press' = PressFields /\ press'.left = handlers /\ press'.stored = <<>>
      /\ press'.chat = press'.asked
  BY <1>1, Zenon DEF PressFields
<1>. QED BY <1>1, <1>2 DEF PressInv

\* A slot has run.
LEMMA HandledInv ==
    ASSUME PressInv, press.left > 0, handlers' = handlers,
           NEW new, new = press' , DOMAIN new = PressFields, new.left = press.left - 1,
           new.asked = press.asked,
           NEW c, press.asked # 0 /\ press.chat = press.asked => c = press.asked,
           new.stored = press.stored \/ new.stored = Append(press.stored, c)
    PROVE  PressInv'
<1>1. CASE handlers <= 1
  <2>1. press.left = 1 /\ press.stored = <<>> /\ press.chat = press.asked
    BY <1>1 DEF PressInv
  <2>2. new.left = 0 /\ (new.stored = <<>> \/ new.stored = <<c>>)
    BY <2>1, AppendOne
  <2>. QED BY <1>1, <2>1, <2>2 DEF PressInv
<1>2. CASE ~(handlers <= 1)
  BY <1>2 DEF PressInv
<1>. QED BY <1>1, <1>2

\* A slot has stored its message.
LEMMA StoredInv ==
    ASSUME PressInv, press.left > 0, handlers' = handlers,
           NEW c, press.asked # 0 /\ press.chat = press.asked => c = press.asked,
           press' = Handled(c)
    PROVE  PressInv'
<1> DEFINE new == [press EXCEPT !.left = @ - 1, !.text = FALSE, !.stored = Append(@, c)]
<1>1. press' = new
  BY Zenon DEF Handled
<1>2. /\ DOMAIN new = PressFields /\ new.left = press.left - 1
      /\ new.asked = press.asked /\ new.stored = Append(press.stored, c)
  BY Zenon DEF PressFields, PressInv
<1>. HIDE DEF new
<1>. QED BY <1>1, <1>2, HandledInv

\* Each step keeps PressInv.
LEMMA StepKeepsPress ==
    ASSUME PressInv, [Next]_vars
    PROVE  PressInv'
<1>1. CASE UNCHANGED <<handlers, press>>
  BY <1>1 DEF PressInv
<1>2. ASSUME handlers' \in Nat, press' = NoPress
      PROVE  PressInv'
  BY <1>2, NoPressIs DEF PressInv
<1>3. CASE Login
  BY <1>2, <1>3 DEF Login, PressInv
<1>4. CASE Restart
  BY <1>2, <1>4 DEF Restart
<1>5. CASE Logout
  BY <1>2, <1>5 DEF Logout, PressInv
<1>6. CASE Send
  <2> DEFINE p == [NoPress EXCEPT !.asked = current, !.chat = current, !.rows = DOMAIN chats]
  <2>1. Pressed(p)
    BY <1>6 DEF Send
  <2>2. DOMAIN p = PressFields /\ p.stored = <<>> /\ p.chat = p.asked
    BY NoPressIs, Zenon DEF PressFields
  <2>. HIDE DEF p
  <2>. QED BY <2>1, <2>2, PressedInv
<1>7. ASSUME NEW rows, NEW c, SendToContact(rows, c)
      PROVE  PressInv'
  <2> DEFINE p == [NoPress EXCEPT !.asked = c, !.chat = c, !.main = FALSE, !.rows = rows]
  <2>1. Pressed(p)
    BY <1>7 DEF SendToContact
  <2>2. DOMAIN p = PressFields /\ p.stored = <<>> /\ p.chat = p.asked
    BY NoPressIs, Zenon DEF PressFields
  <2>. HIDE DEF p
  <2>. QED BY <2>1, <2>2, PressedInv
<1>8. ASSUME NEW list, SendToNew(list)
      PROVE  PressInv'
  <2> DEFINE p == [NoPress EXCEPT !.main = FALSE, !.list = list]
  <2>1. Pressed(p)
    BY <1>8 DEF SendToNew
  <2>2. DOMAIN p = PressFields /\ p.stored = <<>> /\ p.chat = 0 /\ p.asked = 0
    BY NoPressIs, Zenon DEF PressFields
  <2>. HIDE DEF p
  <2>. QED BY <2>1, <2>2, PressedInv
<1>9. CASE HandleEmpty
  <2> DEFINE new == [press EXCEPT !.left = @ - 1]
  <2>1. press.left > 0 /\ press' = new /\ handlers' = handlers
    BY <1>9 DEF HandleEmpty
  <2>2. /\ DOMAIN new = PressFields /\ new.left = press.left - 1
        /\ new.asked = press.asked /\ new.stored = press.stored
    BY Zenon DEF PressFields, PressInv
  <2>. HIDE DEF new
  <2>. QED BY <2>1, <2>2, HandledInv
<1>10. ASSUME NEW t, HandleAnswered(t)
       PROVE  PressInv'
  <2>1. press.left > 0 /\ press' = Handled(press.chat) /\ handlers' = handlers
    BY <1>10 DEF HandleAnswered
  <2>. QED BY <2>1, StoredInv
<1>11. ASSUME NEW t, HandleNewAnswered(t)
       PROVE  PressInv'
  <2> DEFINE c == Len(ChatAdded(db, User, press.list, t).chats)
  <2>1. /\ press.left > 0 /\ press.chat = 0 /\ handlers' = handlers
        /\ press' = Handled(c)
    BY <1>11, Zenon DEF HandleNewAnswered
  <2>. HIDE DEF c
  <2>. QED BY <2>1, StoredInv
<1>12. ASSUME NEW t, HandleUnanswered(t)
       PROVE  PressInv'
  <2> DEFINE s == IF press.chat = 0 THEN ChatAdded(db, User, press.list, t)
                  ELSE MessageAdded(db, User, press.chat, t)
             into == IF press.chat = 0 THEN Len(s.chats) ELSE press.chat
             with == [db |-> s, stored |-> Append(press.stored, into)]
             without == [db |-> db, stored |-> press.stored]
  <2>. HIDE DEF s
  <2>1. PICK done \in {with, without},
             next \in IF press.chat = 0 THEN {0} ELSE FirstRows(chats, press.rows) :
             /\ press.left > 0 /\ handlers' = handlers
             /\ press' = [press EXCEPT !.left = @ - 1, !.chat = next, !.stored = done.stored]
    BY <1>12, Zenon DEF HandleUnanswered, s
  <2>2. done.stored = press.stored \/ done.stored = Append(press.stored, into)
    BY <2>1
  <2>3. press.asked # 0 /\ press.chat = press.asked => into = press.asked
    OBVIOUS
  <2> DEFINE new == [press EXCEPT !.left = @ - 1, !.chat = next, !.stored = done.stored]
  <2>. HIDE DEF into, with, without
  <2>4. /\ DOMAIN new = PressFields /\ new.left = press.left - 1
        /\ new.asked = press.asked /\ new.stored = done.stored
    BY Zenon DEF PressFields, PressInv
  <2>5. press' = new
    BY <2>1
  <2>. HIDE DEF new
  <2>. QED BY <2>1, <2>2, <2>3, <2>4, <2>5, HandledInv
<1>13. \/ UNCHANGED <<handlers, press>>
       \/ Login \/ Restart \/ Logout \/ Send \/ HandleEmpty
       \/ \E rows, c : SendToContact(rows, c)
       \/ \E list : SendToNew(list)
       \/ \E t : \/ HandleAnswered(t)
                 \/ HandleNewAnswered(t)
                 \/ HandleUnanswered(t)
  BY Zenon DEF Next, vars, LoginWithoutAnswer, OpenContacts, SelectContact, OpenChats,
     SelectChat, OthersPost, OthersChat
<1>. QED BY <1>1, <1>3, <1>4, <1>5, <1>6, <1>7, <1>8, <1>9, <1>10, <1>11, <1>12, <1>13

\* Between two starts of the client, as long as the user has not logged in again, one
\* press of the send button stores one message at the most, and in the chat that it was
\* pressed for: also when an answer gets lost, other clients write, or the list of chats
\* is sorted anew in between.
THEOREM OnePressOneMessage == Spec => []FirstPressOnce
<1>1. Init => PressInv
  BY NoPressIs DEF Init, PressInv
<1>2. PressInv /\ [Next]_vars => PressInv'
  BY StepKeepsPress
<1>3. PressInv => FirstPressOnce
  <2>1. ASSUME PressInv, handlers <= 1 PROVE PressOnce
    <3>1. CASE press.stored = <<>>
      BY <3>1 DEF PressOnce
    <3>2. ASSUME NEW c, press.stored = <<c>>, press.asked # 0 => c = press.asked
          PROVE  PressOnce
      BY <3>2 DEF PressOnce
    <3>. QED BY <2>1, <3>1, <3>2 DEF PressInv
  <2>. QED BY <2>1 DEF FirstPressOnce
<1>. QED BY <1>1, <1>2, <1>3, PTL DEF Spec
=============================================================================
