----------------------------- MODULE ClientChats -----------------------------
(***************************************************************************)
(* The chats one user sees in the Qt client: what a login loads, what      *)
(* posting, opening a chat and changing tabs do to the copy, to the unread *)
(* counts in the list and to the database.  The server never pushes: what  *)
(* others post is not in the copy before the next login.                   *)
(*                                                                         *)
(* A request is one step, as the GUI thread waits for its answer.  An      *)
(* answer that does not come (the link was lost) is an empty packet list;  *)
(* the server may or may not have done what it was asked.                  *)
(***************************************************************************)
EXTENDS ChatSql, FiniteSets, SequencesExt

CONSTANTS
    User,           \* who uses this client; the other logins use theirs
    InitialStore,   \* the database when the client is started
    Faults,         \* requests whose answer may be lost: "post", "report", "login"
    Behind,         \* bound: what a clock shows that is behind the others, if one is
    MaxMessages,    \* bound: nobody writes when this many messages are stored
    MaxChats,       \* bound: nobody makes a chat when there are this many
    MaxLogins       \* bound on the logins in one run of the client

\* A chat that someone is in was made with a first message.
ChatsHaveMessages(s) ==
    \A c \in ChatIds(s) : Members(s, c) # {} => \E m \in MessageIds(s) : s.messages[m].chat = c

\* The clocks have agreed so far: messages were stored in the order of their stamps.
InOrder(s) ==
    \A m, n \in MessageIds(s) : n < m => s.messages[n].ts < s.messages[m].ts

\* When the user wrote a message those before it in the chat became read.
OwnPostsRead(s) ==
    \A m, n \in MessageIds(s) :
        n < m /\ s.messages[n].chat = s.messages[m].chat /\ s.messages[m].sender = User
            => ~Unread(s, n, User)

ASSUME ClientAssumption ==
    /\ InitialStore \in Store /\ InitialStore.tables /\ Consistent(InitialStore)
    /\ User \in InitialStore.users
    /\ ChatsHaveMessages(InitialStore)
    /\ InOrder(InitialStore) => OwnPostsRead(InitialStore)
    /\ Faults \subseteq {"post", "report", "login"}
    /\ Behind \subseteq Nat
    /\ {MaxMessages, MaxChats, MaxLogins} \subseteq Nat

VARIABLES
    db,         \* the database
    screen,     \* "login", a tab ("chats", "contacts"), "crashed" when the process is gone
    chats,      \* the client's copy, by chat id
    current,    \* the chat selected in the list of all chats, or 0
    handlers,   \* how often the slot for "send" is connected
    press       \* the last press of the send button, and what is left of it

vars == <<db, screen, chats, current, handlers, press>>

\* class Message, without its text; id 0 until the server has given one.
LocalMessage == [id : Nat, ts : Nat, sender : Logins]

\* class Chat: the multimap of messages by time, the user's entry of
\* _lastReadMessageMap, _messageIdToTimeStamp as pairs; the unread count that
\* the row of the list shows; and, for the properties only, whether the report of
\* the last read message was lost.
LocalChat == [msgs : Seq(LocalMessage), lastRead : Nat,
              stamps : SUBSET (Nat \X Nat), shown : Nat, lost : BOOLEAN]

\* A chat before its first message.
EmptyChat == [msgs |-> <<>>, lastRead |-> 0, stamps |-> {}, shown |-> 0, lost |-> FALSE]

\* "left" handlers are still to run; each posts to "chat" (or makes the new
\* chat, when that is 0) unless "text" says that the editor is empty.  "asked"
\* is the chat that was meant, "main" whether its row is in the list of all
\* chats, "rows" the chats listed beside the editor, "list" the participants of
\* a new chat, "stored" the chats that messages of this press have gone into.
NoPress == [left |-> 0, asked |-> 0, chat |-> 0, main |-> TRUE, rows |-> {},
            list |-> {}, text |-> FALSE, stored |-> <<>>]

TypeOK ==
    /\ db \in Store
    /\ screen \in {"login", "chats", "contacts", "crashed"}
    /\ DOMAIN chats \subseteq ChatIds(db) /\ \A c \in DOMAIN chats : chats[c] \in LocalChat
    /\ current \in DOMAIN chats \cup {0}
    /\ handlers \in 0 .. MaxLogins
    /\ press \in [left : Nat, asked : Nat, chat : Nat, main : BOOLEAN,
                  rows : SUBSET ChatIds(db), list : SUBSET Logins, text : BOOLEAN,
                  stored : Seq(Nat)]

Init == /\ db = InitialStore
        /\ screen = "login"
        /\ chats = <<>>
        /\ current = 0
        /\ handlers = 0
        /\ press = NoPress

-----------------------------------------------------------------------------
(* The copy of a chat *)

\* Mutant of WithMessage: the user's last read message is moved whoever sent it.
WithMessageRead(ch, m) ==
    LET place == 1 + Cardinality({i \in DOMAIN ch.msgs : ch.msgs[i].ts <= m.ts})
    IN  [ch EXCEPT !.msgs = InsertAt(@, place, m),
                   !.stamps = @ \cup {<<m.id, m.ts>>},
                   !.lastRead = m.id]

\* addMessageToChat: the multimap keeps equal keys in the order of insertion;
\* insert does not replace the time stamp of an id that is there; and the
\* sender's last read message becomes this one, older or not.
WithMessage(ch, m) ==
    LET place == 1 + Cardinality({i \in DOMAIN ch.msgs : ch.msgs[i].ts <= m.ts})
        known == \E p \in ch.stamps : p[1] = m.id
    IN  [ch EXCEPT !.msgs = InsertAt(@, place, m),
                   !.stamps = IF known THEN @ ELSE @ \cup {<<m.id, m.ts>>},
                   !.lastRead = IF m.sender = User THEN m.id ELSE @]

\* getUnreadMessageCount
UnreadCount(ch) ==
    LET known == {p \in ch.stamps : p[1] = ch.lastRead}
    IN  Cardinality({i \in DOMAIN ch.msgs : \A p \in known : ch.msgs[i].ts > p[2]})

\* fillChatListModelWithData: every row of the list is made anew.
Recount(chs) == [c \in DOMAIN chs |-> [chs[c] EXCEPT !.shown = UnreadCount(chs[c])]]

LatestStamp(ch) == Last(ch.msgs).ts

\* The list is sorted by the latest message; these may be its first row.
FirstRows(chs, scope) ==
    {c \in scope : \A d \in scope : LatestStamp(chs[c]) >= LatestStamp(chs[d])}

\* fillChatListModelWithData for one contact: the chats that contact is in.
RowsOf(s, chs, contact) == {c \in DOMAIN chs : contact \in Members(s, c)}

\* fillUserListModelWithData: the users that came with the chats.
Known(s, chs) == UNION {Members(s, c) : c \in DOMAIN chs} \ {User}

-----------------------------------------------------------------------------
(* Loading *)

\* GetChatMessagesSQL has no ORDER BY: the rows of a table that is only ever
\* appended to come in the order of their ids.  setOneChatDTOFromSrvProcessing,
\* then setOneChatMessageDTOProcessing for each of them.
LoadedChat(s, c) ==
    LET upTo[k \in 0 .. Len(s.messages)] ==
            IF k = 0 THEN [EmptyChat EXCEPT !.lastRead = s.chats[c].lastRead[User]]
            ELSE IF s.messages[k].chat = c
            THEN WithMessage(upTo[k - 1], [id |-> k, ts |-> s.messages[k].ts,
                                           sender |-> s.messages[k].sender])
            ELSE upTo[k - 1]
    IN  upTo[Len(s.messages)]

Loaded(s) == [c \in {c \in ChatIds(s) : User \in Members(s, c)} |-> LoadedChat(s, c)]

-----------------------------------------------------------------------------
(* Opening a chat *)

\* Mutant of Reports: the pointer is taken from the oldest message.
ReportsOldest(s, ch, c) ==
    {IF IsMessageOf(s, Head(ch.msgs).id, c) THEN ReadMarked(s, User, c, Head(ch.msgs).id) ELSE s}

\* The databases after sendLastReadMessageFromClientCl has reported the last
\* message of the copy ch of chat c.  Its result is ignored.
Reports(s, ch, c) ==
    LET m == Last(ch.msgs).id
    IN  (IF IsMessageOf(s, m, c) THEN {ReadMarked(s, User, c, m)} ELSE {s})
            \cup (IF "report" \in Faults THEN {s} ELSE {})

\* resetCountUnreadMessagesCommmand for chat c, on copies chs and database s.
Opened(s, chs, c) ==
    IF Last(chs[c].msgs).id = chs[c].lastRead
    THEN {[db |-> s, chats |-> chs]}
    ELSE LET m == Last(chs[c].msgs).id
             opened(s2) == [chs[c] EXCEPT !.lastRead = m, !.shown = 0,
                                          !.lost = s2.chats[c].lastRead[User] # m]
         IN  {[db |-> s2, chats |-> [chs EXCEPT ![c] = opened(s2)]] : s2 \in Reports(s, chs[c], c)}

\* The list shows the chats of scope, and its first row gets selected on the page
\* of all chats, which opens it; with no row none is selected.
OpenFirst(s, chs, scope) ==
    IF scope = {} THEN db' = s /\ chats' = chs /\ current' = 0
    ELSE \E c \in FirstRows(chs, scope) : \E o \in Opened(s, chs, c) :
            db' = o.db /\ chats' = o.chats /\ current' = c

\* The user selects another row of the list of all chats.
SelectChat(c) ==
    /\ screen = "chats" /\ press.left = 0
    /\ c \in DOMAIN chats \ {current}
    /\ \E o \in Opened(db, chats, c) : db' = o.db /\ chats' = o.chats
    /\ current' = c
    /\ UNCHANGED <<screen, handlers, press>>

\* The user goes to the contacts.  The list, which both tabs share, is filled with
\* the chats of the first contact, if there is one; then its first row is selected
\* on the page that has just been left.
OpenContacts ==
    /\ screen = "chats" /\ press.left = 0
    /\ IF Known(db, chats) = {} THEN OpenFirst(db, chats, DOMAIN chats)
       ELSE \E w \in Known(db, chats) : OpenFirst(db, Recount(chats), RowsOf(db, chats, w))
    /\ screen' = "contacts"
    /\ UNCHANGED <<handlers, press>>

\* Another contact: the list is filled with other chats, which selects none of
\* them on the page of all chats.
SelectContact ==
    /\ screen = "contacts" /\ press.left = 0
    /\ chats' = Recount(chats) /\ current' = 0
    /\ UNCHANGED <<db, screen, handlers, press>>

\* Back: the list is filled with all chats.
OpenChats ==
    /\ screen = "contacts" /\ press.left = 0
    /\ OpenFirst(db, Recount(chats), DOMAIN chats)
    /\ screen' = "chats"
    /\ UNCHANGED <<handlers, press>>

-----------------------------------------------------------------------------
(* Login *)

\* onLoggedIn: the chats are loaded, the list is filled and its first row
\* selected, and the slots are connected, once more each time.
Login ==
    /\ screen = "login" /\ handlers < MaxLogins
    /\ OpenFirst(db, Recount(Loaded(db)), DOMAIN Loaded(db))
    /\ screen' = "chats"
    /\ handlers' = handlers + 1
    /\ press' = NoPress

\* registerClientToSystemCl gets no packets, leaves no active user, and returns
\* true (which is not asked for): createSession follows a null pointer.
LoginWithoutAnswer ==
    /\ screen = "login" /\ "login" \in Faults
    /\ screen' = "crashed"
    /\ UNCHANGED <<db, chats, current, handlers, press>>

\* The user starts the client again.
Restart ==
    /\ screen = "crashed"
    /\ screen' = "login" /\ handlers' = 0 /\ press' = NoPress
    /\ UNCHANGED <<db, chats, current>>

\* slotOnLogOut; a login follows, so there is none after the last login.
Logout ==
    /\ screen \in {"chats", "contacts"} /\ press.left = 0 /\ handlers < MaxLogins
    /\ screen' = "login" /\ chats' = <<>> /\ current' = 0 /\ press' = NoPress
    /\ UNCHANGED <<db, handlers>>

-----------------------------------------------------------------------------
(* Posting *)

\* What the clocks of the clients can show when the next message is written.
\* Only the order of time stamps matters, so a clock that agrees with the others
\* shows the time after the latest message.
Now == {1 + Max({0} \cup {db.messages[m].ts : m \in MessageIds(db)})} \cup Behind

\* Mutant of Posted: the message that is given the id is the first one.
PostedFirst(ch, id, t) ==
    LET with == WithMessage(ch, [id |-> 0, ts |-> t, sender |-> User])
    IN  [with EXCEPT !.msgs[1].id = id, !.lost = FALSE]

\* createMessageProcessing, after the answer: the message is added with id 0,
\* then the last message of the copy is given the id.
Posted(ch, id, t) ==
    LET with == WithMessage(ch, [id |-> 0, ts |-> t, sender |-> User])
    IN  [with EXCEPT !.msgs[Len(with.msgs)].id = id, !.lost = FALSE]

\* createNewChatProcessing and CreateAndSendNewChatCl, after the answer.
NewLocalChat(id, t) ==
    [Posted(EmptyChat, id, t) EXCEPT !.lastRead = id]

\* Mutant of Pressed: a login connects the slot twice.
PressedTwice(p) ==
    /\ press.left = 0 /\ Len(db.messages) < MaxMessages
    /\ press' = [p EXCEPT !.left = 2 * handlers, !.text = TRUE]
    /\ UNCHANGED <<db, screen, chats, handlers>>

\* The slots of one signal run in turn, in the GUI thread: "pressed" starts it.
Pressed(p) ==
    /\ press.left = 0 /\ Len(db.messages) < MaxMessages
    /\ press' = [p EXCEPT !.left = handlers, !.text = TRUE]
    /\ UNCHANGED <<db, screen, chats, handlers>>

\* The user presses "send": in the list of all chats, among the chats of a
\* contact (or all of them, after a message was sent there), or on a new chat.
Send == /\ screen = "chats" /\ current # 0
        /\ Pressed([NoPress EXCEPT !.asked = current, !.chat = current, !.rows = DOMAIN chats])
        /\ UNCHANGED current

SendToContact(rows, c) ==
    /\ screen = "contacts" /\ c \in rows
    /\ Pressed([NoPress EXCEPT !.asked = c, !.chat = c, !.main = FALSE, !.rows = rows])
    /\ UNCHANGED current

\* The picked contacts; there may be none, see Contacts.
SendToNew(list) ==
    /\ screen = "contacts" /\ User \notin list
    /\ Len(db.chats) < MaxChats
    /\ Pressed([NoPress EXCEPT !.main = FALSE, !.list = list])
    /\ current' = 0

\* The message went into chat c: the editor is cleared.
Handled(c) == [press EXCEPT !.left = @ - 1, !.text = FALSE, !.stored = Append(@, c)]

\* A connected slot runs although the editor has been cleared: nothing to do.
HandleEmpty ==
    /\ press.left > 0 /\ ~press.text
    /\ press' = [press EXCEPT !.left = @ - 1]
    /\ UNCHANGED <<db, screen, chats, current, handlers>>

\* The slot's request is answered: the list is filled again, and if it is the
\* list of all chats its first row is selected.
HandleAnswered(t) ==
    /\ press.left > 0 /\ press.text /\ press.chat # 0
    /\ LET s   == MessageAdded(db, User, press.chat, t)
           chs == Recount([chats EXCEPT ![press.chat] = Posted(@, Len(s.messages), t)])
       IN  IF press.main THEN OpenFirst(s, chs, DOMAIN chs)
           ELSE db' = s /\ chats' = chs /\ current' = 0
    /\ press' = Handled(press.chat)
    /\ UNCHANGED <<screen, handlers>>

\* As above for a new chat: the window changes to the list of all chats, opens
\* its first row, and fills the list once more, which leaves none selected.
HandleNewAnswered(t) ==
    /\ press.left > 0 /\ press.text /\ press.chat = 0
    /\ LET s   == ChatAdded(db, User, press.list, t)
           new == Len(s.chats)
           chs == [c \in DOMAIN chats \cup {new} |->
                      IF c = new THEN NewLocalChat(Len(s.messages), t) ELSE chats[c]]
       IN  /\ \E c \in FirstRows(chs, DOMAIN chs) : \E o \in Opened(s, Recount(chs), c) :
                 db' = o.db /\ chats' = Recount(o.chats)
           /\ press' = Handled(new)
    /\ current' = 0 /\ screen' = "chats"
    /\ UNCHANGED handlers

\* The answer is lost, with or without the message: a box is shown, the editor
\* keeps its text, and the first of the rows beside it is selected.
HandleUnanswered(t) ==
    /\ press.left > 0 /\ press.text /\ "post" \in Faults
    /\ LET s == IF press.chat = 0 THEN ChatAdded(db, User, press.list, t)
                ELSE MessageAdded(db, User, press.chat, t)
           into == IF press.chat = 0 THEN Len(s.chats) ELSE press.chat
       IN  \E done \in {[db |-> s, stored |-> Append(press.stored, into)],
                        [db |-> db, stored |-> press.stored]},
              next \in IF press.chat = 0 THEN {0} ELSE FirstRows(chats, press.rows) :
             /\ IF press.main
                THEN \E o \in Opened(done.db, Recount(chats), next) :
                        db' = o.db /\ chats' = o.chats /\ current' = next
                ELSE db' = done.db /\ UNCHANGED <<chats, current>>
             /\ press' = [press EXCEPT !.left = @ - 1, !.chat = next, !.stored = done.stored]
    /\ UNCHANGED <<screen, handlers>>

-----------------------------------------------------------------------------
(* Everyone else, through the server *)

OthersPost(w, c, t) ==
    /\ Len(db.messages) < MaxMessages
    /\ c \in ChatIds(db) /\ w \in Members(db, c) \ {User}
    /\ db' = MessageAdded(db, w, c, t)
    /\ UNCHANGED <<screen, chats, current, handlers, press>>

OthersChat(w, t) ==
    /\ Len(db.messages) < MaxMessages /\ Len(db.chats) < MaxChats
    /\ w \in db.users \ {User}
    /\ db' = ChatAdded(db, w, {User}, t)
    /\ UNCHANGED <<screen, chats, current, handlers, press>>

Next == \/ Login \/ LoginWithoutAnswer \/ Restart \/ Logout
        \/ OpenContacts \/ SelectContact \/ OpenChats
        \/ \E c \in DOMAIN chats : SelectChat(c)
        \/ Send
        \/ \E w \in Logins \ {User} : \E rows \in {RowsOf(db, chats, w), DOMAIN chats} :
              \E c \in rows : SendToContact(rows, c)
        \/ \E list \in SUBSET db.users : SendToNew(list)
        \/ HandleEmpty
        \/ \E t \in Now : \/ HandleAnswered(t)
                          \/ HandleNewAnswered(t)
                          \/ HandleUnanswered(t)
        \/ \E w \in Logins, c \in ChatIds(db), t \in Now : OthersPost(w, c, t)
        \/ \E w \in Logins, t \in Now : OthersChat(w, t)

Spec == Init /\ [][Next]_vars

-----------------------------------------------------------------------------
(* Properties *)

\* The user's messages in the copy of chat c that the server has as not read.
UnreadAtServer(c) ==
    {i \in DOMAIN chats[c].msgs : Unread(db, chats[c].msgs[i].id, User)}

\* Whatever the clocks show, the last message of a copy, the one that is reported
\* as read, has an id, and each id in a copy is of a message of that chat; unless
\* some message has none, all are the messages of their ids in the database: same
\* time stamp and sender.  (createMessageProcessing gives the id it was answered to
\* whatever message is last in the copy.  If the user's clock was behind, that is
\* another one, and the message that was written stays without an id.)
LocalFaithful ==
    \A c \in DOMAIN chats :
        LET msgs == chats[c].msgs
        IN  /\ Last(msgs).id # 0
            /\ \A i \in DOMAIN msgs : msgs[i].id # 0 => IsMessageOf(db, msgs[i].id, c)
            /\ \/ \E i \in DOMAIN msgs : msgs[i].id = 0
               \/ \A i \in DOMAIN msgs : /\ db.messages[msgs[i].id].ts = msgs[i].ts
                                         /\ db.messages[msgs[i].id].sender = msgs[i].sender

\* As long as the clocks have agreed, the list never says that fewer messages of
\* the copy are unread than are: a message the server has as not read for this
\* user is counted in its row, after a login, a post, an opened chat, or a list
\* filled again.  Only a lost report breaks this, for its chat: the result of
\* sendLastReadMessageFromClientCl is ignored, and as the local pointer has moved
\* nothing reports it again.
NothingMissed ==
    InOrder(db) => \A c \in DOMAIN chats :
        chats[c].lost \/ chats[c].shown >= Cardinality(UnreadAtServer(c))

\* When a chat is selected in the list of all chats, the server has everything
\* that is in its copy as read, as long as the clocks have agreed and unless the
\* report of that was lost.
OpenedIsRead ==
    InOrder(db) /\ current # 0 => chats[current].lost \/ UnreadAtServer(current) = {}

\* What the server has as the last read message of this user never goes back
\* from a message that the client knows to an older one: the client reports the
\* last message of its copy, and the server moves the pointer on the user's own
\* posts as well.  (A post whose answer is lost is in no copy, and the clocks must
\* have agreed.)
PointerForward ==
    [][InOrder(db') => \A c \in DOMAIN chats' :
          LET old == db.chats[c].lastRead[User]
              new == db'.chats[c].lastRead[User]
          IN  /\ c \in ChatIds(db) /\ old # 0
              /\ \E i \in DOMAIN chats'[c].msgs : chats'[c].msgs[i].id = old
              => new # 0 /\ db'.messages[new].ts >= db.messages[old].ts]_vars

\* One press of the send button stores one message at the most, and in the chat
\* that it was pressed for, however often the slot is connected.
PressOnce ==
    /\ Len(press.stored) <= 1
    /\ press.asked # 0 => \A i \in DOMAIN press.stored : press.stored[i] = press.asked

\* The same between two starts of the client, as long as the user has not logged
\* in again: then an answer may get lost without the message being sent twice.
FirstPressOnce == handlers <= 1 => PressOnce

\* The list counts as unread no more than the messages that the server has as
\* not read for this user.
ReadNotCounted ==
    \A c \in DOMAIN chats : chats[c].shown <= Cardinality(UnreadAtServer(c))

==============================================================================
