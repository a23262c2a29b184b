------------------------------ MODULE Contacts ------------------------------
(***************************************************************************)
(* The contacts page of the Qt client: the list of contacts, searching,    *)
(* blocking, and choosing the participants of a new chat.  The page keeps  *)
(* what it shows of a contact in four places (the database, the copy made  *)
(* at login, the rows of the list, the form beside it) and the chosen      *)
(* participants in two (the list of names, the model that is sent).        *)
(*                                                                         *)
(* A step is one reaction of the GUI thread, its request included.  Bans   *)
(* are left out: both statements for them name a column that the table     *)
(* users does not have (bun_until), so none ever takes effect.             *)
(***************************************************************************)
EXTENDS Naturals, FiniteSets, SequencesExt

CONSTANTS
    Contacts,       \* the logins of the other users, in the order of their ids
    Copies,         \* the sets of them that the client may have loaded at login: its
                    \* partners in chats, none for a user who is new
    InitialActive,  \* users.is_active when it did
    MaxChats,       \* bound: nobody starts a chat when there are this many
    MaxPicked       \* bound on the picks for one chat

ASSUME ContactsAssumption ==
    /\ Contacts \in Seq(STRING \ {""}) /\ IsInjective(Contacts)
    /\ Copies \subseteq SUBSET ToSet(Contacts)
    /\ InitialActive \in [ToSet(Contacts) -> BOOLEAN]
    /\ {MaxChats, MaxPicked} \subseteq Nat

VARIABLES
    active,     \* database: users.is_active
    chats,      \* database: the participants of the chats made here, but the user
    known,      \* ChatSystem::_users: contacts as they were when they were loaded
    rows,       \* _userListModel
    current,    \* the current index of the list of contacts, from 1; 0 if invalid
    form,       \* what the form beside the list shows
    tab,        \* "chats" or "contacts"
    text,       \* whether the search line holds a text
    addShown,   \* whether the button that adds a contact to a new chat is visible
    mode,       \* _newChatMode
    panel,      \* whether the widget with the participants is enabled
    names,      \* _participantsListModel, the names in that widget
    picked,     \* _newChatUserListModel, what is sent
    made,       \* the participants are settled and the list of contacts disabled
    offered,    \* then: the participants in the chat row, for the last such chat
    doubtful,   \* for the properties: contacts whose flag may have changed in the
                \* database, unknown to this client, since the list was filled
    edited      \* for the properties: a name was removed, or left from before

list   == <<known, rows, current, form, text, doubtful>>
choice == <<mode, panel, names, picked, made, offered, edited>>
vars   == <<active, chats, list, tab, addShown, choice>>

Logins == ToSet(Contacts)
Row    == [login : Logins, active : BOOLEAN]
Form   == [login : Logins \cup {""}, row : Nat, buttons : SUBSET {"block", "unblock"}]

TypeOK ==
    /\ active \in [Logins -> BOOLEAN]
    /\ chats \in Seq(SUBSET Logins) /\ Len(chats) <= MaxChats
    /\ known \in Seq(Row) /\ rows \in Seq(Row) /\ picked \in Seq(Row)
    /\ current \in DOMAIN rows \cup {0}
    /\ form \in Form
    /\ tab \in {"chats", "contacts"}
    /\ {text, addShown, mode, panel, made, edited} \subseteq BOOLEAN
    /\ names \in Seq(Logins) /\ IsInjective(names)
    /\ offered \subseteq Logins /\ doubtful \subseteq Logins

RowOf(login) == [login |-> login, active |-> active[login]]

\* The rows of the contacts in who, as the database has them.  The user who asks is
\* not among Contacts, and no search finds him (the statement excludes his login).
RowsFor(who) ==
    LET upTo[n \in 0 .. Len(Contacts)] ==
            IF n = 0 THEN <<>>
            ELSE IF Contacts[n] \in who THEN Append(upTo[n - 1], RowOf(Contacts[n]))
            ELSE upTo[n - 1]
    IN  upTo[Len(Contacts)]

LoginsOf(rs) == {rs[i].login : i \in DOMAIN rs}

\* After createSession the page of the chats is shown.
Init == /\ active = InitialActive
        /\ chats = <<>>
        /\ \E loaded \in Copies : known = RowsFor(loaded)
        /\ rows = known
        /\ current = 0
        /\ form = [login |-> "", row |-> 0, buttons |-> {}]
        /\ tab = "chats"
        /\ text = FALSE /\ addShown = FALSE
        /\ mode = FALSE /\ panel = FALSE /\ made = FALSE
        /\ names = <<>> /\ picked = <<>> /\ offered = {}
        /\ doubtful = {} /\ edited = FALSE

-----------------------------------------------------------------------------
(* The form *)

\* setUserDataToLabels; an index that is out of range has empty data.
FormFor(rs, i, choosing) ==
    LET shown == i \in DOMAIN rs
        on    == shown /\ rs[i].active
    IN  [login |-> IF shown THEN rs[i].login ELSE "", row |-> i,
         buttons |-> CASE choosing -> {} [] ~choosing /\ on -> {"block"}
                       [] ~choosing /\ ~on -> {"unblock"}]

\* Mutant of Cleared: the form stays as it is.
StillShown == form

\* slotClearUserDataToLabels; the index of the row stays.
Cleared == [login |-> "", row |-> form.row, buttons |-> {}]

\* The list is filled from the copy, on a form f, and its first row selected.
ShowCopy(k, f, choosing) ==
    /\ rows' = k /\ doubtful' = {}
    /\ current' = IF k = <<>> THEN 0 ELSE 1
    /\ form' = IF k = <<>> THEN f ELSE FormFor(k, 1, choosing)

-----------------------------------------------------------------------------
(* The list *)

\* The user opens the page with the contacts.
OpenContacts ==
    /\ tab = "chats"
    /\ tab' = "contacts" /\ text' = FALSE /\ addShown' = FALSE
    /\ ShowCopy(known, Cleared, panel)
    /\ UNCHANGED <<active, chats, known, choice>>

\* ... and goes back, for which the tab is disabled while a chat is being made.
OpenChats ==
    /\ tab = "contacts" /\ ~mode
    /\ tab' = "chats"
    /\ UNCHANGED <<active, chats, list, addShown, choice>>

\* The user selects another row.
SelectRow(i) ==
    /\ tab = "contacts" /\ ~made
    /\ i \in DOMAIN rows \ {current}
    /\ current' = i /\ form' = FormFor(rows, i, panel)
    /\ UNCHANGED <<active, chats, known, rows, text, doubtful, tab, addShown, choice>>

\* slotFindContactsByPart: the server finds the contacts in who, or does not answer.
Search(who) ==
    /\ tab = "contacts" /\ ~made
    /\ text' = TRUE
    /\ rows' = RowsFor(who) /\ current' = 0 /\ form' = Cleared /\ doubtful' = {}
    /\ UNCHANGED <<active, chats, known, tab, addShown, choice>>

\* The same when the text has been deleted.
EndSearch ==
    /\ tab = "contacts" /\ ~made /\ text
    /\ text' = FALSE
    /\ ShowCopy(known, form, panel)
    /\ UNCHANGED <<active, chats, known, tab, addShown, choice>>

-----------------------------------------------------------------------------
(* Blocking *)

\* Mutant of WithFlag: the first row is changed.
WithFlagInFirst(flag) == [i \in DOMAIN rows |-> IF i = 1 THEN [rows[i] EXCEPT !.active = flag] ELSE rows[i]]

\* setIsActiveUserList on the row the form was filled from.
WithFlag(flag) ==
    [i \in DOMAIN rows |-> IF i = form.row THEN [rows[i] EXCEPT !.active = flag] ELSE rows[i]]

\* The user confirms "block" or "unblock".  A request that fails without effect
\* changes nothing; a login that is not there is one that fails.
Press(button) ==
    /\ tab = "contacts" /\ button \in form.buttons /\ form.login \in Logins
    /\ active' = [active EXCEPT ![form.login] = button = "unblock"]
    /\ \/ /\ rows' = WithFlag(button = "unblock")
          /\ form' = FormFor(rows', form.row, panel)
          /\ UNCHANGED doubtful
       \/ \* the answer is lost
          /\ doubtful' = doubtful \cup {form.login}
          /\ UNCHANGED <<rows, form>>
    /\ UNCHANGED <<chats, known, current, text, tab, addShown, choice>>

\* Someone else blocks or unblocks a contact.
OthersPress(login) ==
    /\ active' = [active EXCEPT ![login] = ~@]
    /\ doubtful' = doubtful \cup {login}
    /\ UNCHANGED <<chats, known, rows, current, form, text, tab, addShown, choice>>

-----------------------------------------------------------------------------
(* A new chat *)

\* Mutant of Added: a blocked contact is refused after it has been picked.
AddedUnchecked(p) ==
    IF current = 0 THEN [picked |-> p, names |-> names]
    ELSE IF ~rows[current].active THEN [picked |-> Append(p, rows[current]), names |-> names]
    ELSE IF rows[current].login \in ToSet(names) THEN [picked |-> p, names |-> names]
    ELSE [picked |-> Append(p, rows[current]), names |-> Append(names, rows[current].login)]

\* Mutant of Added: a name may be added again.
AddedAgain(p) ==
    IF current = 0 \/ ~rows[current].active THEN [picked |-> p, names |-> names]
    ELSE [picked |-> Append(p, rows[current]), names |-> Append(names, rows[current].login)]

\* slotAddUserToNewChatList on picks p: a contact that is blocked is refused; one
\* whose name is in the list is picked, and as the name is found removed again.
Added(p) ==
    IF current = 0 \/ ~rows[current].active \/ rows[current].login \in ToSet(names)
    THEN [picked |-> p, names |-> names]
    ELSE [picked |-> Append(p, rows[current]), names |-> Append(names, rows[current].login)]

\* The button that starts a new chat is disabled until the chat is sent or
\* cancelled, as is the tab with the chats.
StartChat ==
    /\ tab = "contacts" /\ ~mode /\ Len(chats) < MaxChats
    /\ mode' = TRUE /\ panel' = TRUE /\ addShown' = TRUE
    /\ picked' = Added(<<>>).picked /\ names' = Added(<<>>).names
    /\ edited' = (names # <<>>)
    /\ form' = [form EXCEPT !.buttons = {}]
    /\ UNCHANGED <<active, chats, known, rows, current, text, doubtful, tab, made, offered>>

\* The button "add" is not hidden when a chat is cancelled; a double click on a
\* row adds only while a chat is being made.
AddContact ==
    /\ tab = "contacts" /\ ~made /\ (addShown \/ mode)
    /\ Len(picked) < MaxPicked
    /\ picked' = Added(picked).picked /\ names' = Added(picked).names
    /\ UNCHANGED <<active, chats, list, tab, addShown, mode, panel, made, offered, edited>>

\* "Remove contact from the list": the picks stay.
RemoveContact(i) ==
    /\ tab = "contacts" /\ panel /\ ~made
    /\ i \in DOMAIN names
    /\ names' = RemoveAt(names, i) /\ edited' = TRUE
    /\ UNCHANGED <<active, chats, list, tab, addShown, mode, panel, picked, made, offered>>

\* slotMakeNewChat: a row for the chat is shown, with the names in the list.
MakeChat ==
    /\ tab = "contacts" /\ panel /\ ~made /\ names # <<>>
    /\ made' = TRUE /\ offered' = ToSet(names) /\ addShown' = FALSE
    /\ UNCHANGED <<active, chats, list, tab, mode, panel, names, picked, edited>>

\* Mutant of Closed: the mode is not left.
ClosedInMode(k) ==
    LET f == IF rows # <<>> /\ current # 1 THEN FormFor(rows, 1, FALSE)
             ELSE [form EXCEPT !.buttons = @ \cup {"block"}]
    IN  /\ panel' = FALSE /\ made' = FALSE /\ names' = <<>> /\ text' = FALSE
        /\ mode' = mode
        /\ IF text THEN ShowCopy(k, f, FALSE)
           ELSE /\ form' = f /\ current' = IF rows = <<>> THEN 0 ELSE 1
                /\ UNCHANGED <<rows, doubtful>>

\* slotCancelNewChat: "block" is enabled whatever the row, which the selection of
\* the first row sets right if another was selected; then the search is ended.  In
\* an empty list there is no row to select, and the form stays, with "block".
Closed(k) ==
    LET f == IF rows # <<>> /\ current # 1 THEN FormFor(rows, 1, FALSE)
             ELSE [form EXCEPT !.buttons = @ \cup {"block"}]
    IN  /\ panel' = FALSE /\ made' = FALSE /\ names' = <<>> /\ text' = FALSE
        /\ mode' = FALSE
        /\ IF text THEN ShowCopy(k, f, FALSE)
           ELSE /\ form' = f /\ current' = IF rows = <<>> THEN 0 ELSE 1
                /\ UNCHANGED <<rows, doubtful>>

CancelChat ==
    /\ tab = "contacts" /\ panel
    /\ Closed(known)
    /\ UNCHANGED <<active, chats, known, tab, addShown, picked, offered, edited>>

\* Picked contacts the client does not know yet are added to the copy.
WithPicked(k) ==
    LET upTo[n \in 0 .. Len(picked)] ==
            IF n = 0 THEN k
            ELSE IF picked[n].login \in LoginsOf(upTo[n - 1]) THEN upTo[n - 1]
            ELSE Append(upTo[n - 1], picked[n])
    IN  upTo[Len(picked)]

\* The first message is sent: all that is picked becomes the chat.
SendChat ==
    /\ tab = "contacts" /\ made /\ Len(chats) < MaxChats
    /\ chats' = Append(chats, LoginsOf(picked))
    /\ known' = WithPicked(known)
    /\ Closed(known')
    /\ tab' = "chats" /\ addShown' = TRUE
    /\ UNCHANGED <<active, picked, offered, edited>>

\* The answer is lost, and with it, maybe, the chat: everything stays as it is.
SendUnanswered ==
    /\ tab = "contacts" /\ made /\ Len(chats) < MaxChats
    /\ chats' = Append(chats, LoginsOf(picked))
    /\ UNCHANGED <<active, list, tab, addShown, choice>>

Next == \/ OpenContacts \/ OpenChats \/ EndSearch
        \/ \E i \in DOMAIN rows : SelectRow(i)
        \/ \E who \in SUBSET Logins : Search(who)
        \/ \E button \in {"block", "unblock"} : Press(button)
        \/ \E login \in Logins : OthersPress(login)
        \/ StartChat \/ AddContact \/ MakeChat \/ CancelChat
        \/ \E i \in DOMAIN names : RemoveContact(i)
        \/ SendChat \/ SendUnanswered

Spec == Init /\ [][Next]_vars

-----------------------------------------------------------------------------
(* Properties *)

\* What "block" and "unblock" change is the contact in the form, and the row they
\* update in the list is the row of that contact, after any searches, selections
\* and cancelled chats: the form keeps a login and an index, which go separate
\* ways when the list is filled anew.  Only an empty list has no row for the form.
FormIsRow ==
    form.buttons # {} /\ rows # <<>> => /\ form.row \in DOMAIN rows
                                       /\ rows[form.row].login = form.login

\* A chat in the making can always be given up: what disables the list, the search
\* and the tab never outlives the panel with the cancel button.
CanCancel == (mode \/ made) => panel /\ tab = "contacts"

\* A contact found by a search is shown as the database has it, with this client's
\* own blocks and unblocks, unless the flag has changed without an answer to it.
FoundIsCurrent ==
    text => \A i \in DOMAIN rows :
                rows[i].login \in doubtful \/ rows[i].active = active[rows[i].login]

\* A chat is made with the participants in the row that the user was shown, if no
\* name was removed and none was left from before the chat was started.
SentAsOffered ==
    [][Len(chats') > Len(chats) /\ ~edited => Last(chats') = offered]_vars

=============================================================================
