-------------------------------- MODULE Forms --------------------------------
(***************************************************************************)
(* The registration, login and profile forms of the Qt client with the     *)
(* accounts of the server.  Each form keeps texts and, apart from them,    *)
(* what the checks of its fields found when they were last left; a press   *)
(* of a button goes by the latter and sends the former, in up to three     *)
(* requests, between which the link may go to another client.              *)
(*                                                                         *)
(* A step is one reaction of the GUI up to its next request.  The server   *)
(* serves one client at a time; a request of another one has no answer.    *)
(* One field stands for e-mail and phone, which are treated alike.  The    *)
(* fields that change the password are left out: the client never sends    *)
(* them (changeUserPasswordCl).  The users of the seed are left out too:   *)
(* their logins are too short for the form.                                *)
(***************************************************************************)
EXTENDS Naturals, FiniteSets

CONSTANTS
    Clients,  \* clients, each with the person at it, who has one password
    Logins,   \* logins that the checks of the form accept
    Names,    \* names that they accept
    Mails,    \* e-mails; no check, but the column has a width
    Refused,  \* a login or a name that they do not accept
    Wide,     \* an e-mail wider than its column
    None,     \* no client
    Prepared, \* bound: the clients whose registration form is filled in when we begin
    MaxEdits  \* bound on the fields edited by all the users together

ASSUME FormsAssumption ==
    /\ "" \notin Logins \cup Names \cup Mails
    /\ Refused \notin Logins \cup Names \cup {""}
    /\ Wide \notin Mails \cup {""}
    /\ None \notin Clients
    /\ Prepared \subseteq Clients /\ MaxEdits \in Nat

VARIABLES
    users,    \* database: the rows of the registered logins
    link,     \* the client the server serves, or None
    page,     \* the page of the main window
    pending,  \* the request that the running reaction sends next, or ""
    form,     \* the texts of the registration form
    checked,  \* isLogin, isName, isPassword, the flags that are set
    who,      \* the login that signs in or has signed in
    copy,     \* the active user's name and e-mail, as they were at the login
    profile,  \* the profile form
    unsure,   \* for the properties: nobody told the client that who was free, or
              \* it may have been taken since
    behind,   \* for the properties: the row may have changed since copy was made
    edits     \* counts the fields edited, up to MaxEdits

data   == <<who, copy, profile>>
ghosts == <<unsure, behind>>
vars   == <<users, link, page, pending, form, checked, data, ghosts, edits>>

Fields    == {"login", "name", "password"}
Columns   == {"name", "mail"}
LoginText == Logins \cup {Refused, ""}
NameText  == Names \cup {Refused, ""}
MailText  == Mails \cup {Wide, ""}
Typed     == {"own", ""}   \* whether a password field holds the person's password

Empty   == [login |-> "", name |-> "", password |-> "", confirm |-> ""]
Blank   == [name |-> "", mail |-> ""]
Unfilled == [text |-> Blank, changed |-> {}, touched |-> {}, canSave |-> FALSE]

Account      == [name : NameText, mail : MailText, password : Typed, by : Clients]
Registration == [login : LoginText, name : NameText, password : Typed, confirm : Typed]
Texts        == [name : NameText, mail : MailText]
Profile      == [text : Texts, changed : SUBSET Columns, touched : SUBSET Columns,
                 canSave : BOOLEAN]

TypeOK ==
    /\ DOMAIN users \subseteq LoginText /\ \A l \in DOMAIN users : users[l] \in Account
    /\ link \in Clients \cup {None}
    /\ page \in [Clients -> {"login", "register", "work", "profile"}]
    /\ pending \in [Clients -> {"", "create", "enter"}]
    /\ form \in [Clients -> Registration]
    /\ checked \in [Clients -> SUBSET Fields]
    /\ who \in [Clients -> LoginText]
    /\ copy \in [Clients -> Texts]
    /\ profile \in [Clients -> Profile]
    /\ unsure \in [Clients -> BOOLEAN] /\ behind \in [Clients -> BOOLEAN]
    /\ edits \in 0 .. MaxEdits

Good == [login : Logins, name : Names, password : {"own"}, confirm : {"own"}]

\* The client is at the login page, or, to need fewer edits, its user has already
\* filled in the registration form.
Init == /\ users = <<>> /\ link = None
        /\ page = [c \in Clients |-> IF c \in Prepared THEN "register" ELSE "login"]
        /\ pending = [c \in Clients |-> ""]
        /\ form \in {f \in [Clients -> Good \cup {Empty}] :
                        \A c \in Clients : f[c] = Empty <=> c \notin Prepared}
        /\ checked = [c \in Clients |-> IF c \in Prepared THEN Fields ELSE {}]
        /\ who = [c \in Clients |-> ""]
        /\ copy = [c \in Clients |-> Blank]
        /\ profile = [c \in Clients |-> Unfilled]
        /\ unsure = [c \in Clients |-> FALSE]
        /\ behind = [c \in Clients |-> FALSE]
        /\ edits = 0

-----------------------------------------------------------------------------
(* The link and the answers of the server *)

\* The server takes a client when it serves none; it serves it until the link breaks.
Connect(c) == /\ link = None
              /\ link' = c
              /\ UNCHANGED <<users, page, pending, form, checked, data, ghosts, edits>>

Disconnect == /\ link # None
              /\ link' = None
              /\ UNCHANGED <<users, page, pending, form, checked, data, ghosts, edits>>

\* A request of c has no answer: there was no link, or it broke.
Unanswered(c) == link' = IF link = c THEN None ELSE link

\* d signs in with the login l, or is at work with it.
UsesLogin(d, l) == who[d] = l /\ (pending[d] # "" \/ page[d] \in {"work", "profile"})

\* Mutant of IsTaken: only a second row with the login would count.
IsTakenTwice(l) == FALSE

\* CheckUserLoginSQL
IsTaken(l) == l \in DOMAIN users

\* CheckUserPasswordSQL with a password that is not empty.
PasswordMatches(c, l) == l \in DOMAIN users /\ users[l].password = "own" /\ users[l].by = c

\* GetUserWithPasshashSQL, as far as the forms show it.
CopyOf(l) == [name |-> users[l].name, mail |-> users[l].mail]

\* Mutant of Row: the columns are swapped.
RowSwapped(c, m) ==
    [name |-> m, mail |-> form[c].name, password |-> form[c].password, by |-> c]

\* The row that c's registration asks for, with an e-mail m.
Row(c, m) ==
    [name |-> form[c].name, mail |-> m, password |-> form[c].password, by |-> c]

\* CreateUserSQL refuses a login that is taken and what is wider than its column.
CanCreate(l, m) == l \notin DOMAIN users /\ m # Wide

\* The account is there now; who else is on the way to this login may be misled.
Created(c, m) ==
    LET l == form[c].login
    IN  /\ users' = [k \in DOMAIN users \cup {l} |-> IF k = l THEN Row(c, m) ELSE users[k]]
        /\ unsure' = [d \in Clients |-> d # c /\ (unsure[d] \/ UsesLogin(d, l))]

\* ChangeUserDataSQL with the texts t for the login l.
Changed(l, t) ==
    IF l \in DOMAIN users /\ t.mail # Wide
    THEN users' = [users EXCEPT ![l] = [@ EXCEPT !.name = t.name, !.mail = t.mail]]
    ELSE UNCHANGED users

\* Who is behind after a step that may have changed the row of l.
Behind(l) == [d \in Clients |-> behind[d] \/ (users' # users /\ UsesLogin(d, l))]

-----------------------------------------------------------------------------
(* The pages *)

Idle(c, p) == page[c] = p /\ pending[c] = ""

\* A field is left after its text was changed.
Edit == edits < MaxEdits /\ edits' = edits + 1

\* For the properties: c leaves its login.
NoLonger(flags, c) == [flags EXCEPT ![c] = FALSE]

\* The program ends, and the user starts it again: nothing of it is left.
Ends(c) == /\ page' = [page EXCEPT ![c] = "login"]
           /\ pending' = [pending EXCEPT ![c] = ""]
           /\ form' = [form EXCEPT ![c] = Empty]
           /\ checked' = [checked EXCEPT ![c] = {}]
           /\ who' = [who EXCEPT ![c] = ""]
           /\ copy' = [copy EXCEPT ![c] = Blank]
           /\ profile' = [profile EXCEPT ![c] = Unfilled]

\* The user leaves the program from the login or the registration page.
Exit(c) == /\ Idle(c, "login") \/ Idle(c, "register")
           /\ Ends(c) /\ Unanswered(c)
           /\ UNCHANGED <<users, ghosts, edits>>

\* The login page offers registration only when the client is online.  The page
\* opens with its texts cleared.
OpenRegister(c) ==
    /\ Idle(c, "login") /\ link = c
    /\ page' = [page EXCEPT ![c] = "register"]
    /\ form' = [form EXCEPT ![c] = Empty]
    /\ UNCHANGED <<users, link, pending, checked, data, ghosts, edits>>

CloseRegister(c) ==
    /\ Idle(c, "register")
    /\ page' = [page EXCEPT ![c] = "login"]
    /\ form' = [form EXCEPT ![c] = Empty]
    /\ UNCHANGED <<users, link, pending, checked, data, ghosts, edits>>

\* Mutant of Recheck: a text that is refused does not take its flag back.
RecheckForgiving(flags, f, t) ==
    IF t \in {"", Refused} THEN flags ELSE flags \cup {f}

\* The flags after the field f (the login or the name) was left with the text t.
Recheck(flags, f, t) ==
    CASE t = ""                 -> flags
      [] t = Refused            -> flags \ {f}
      [] t \notin {"", Refused} -> flags \cup {f}

\* The user changes a field of the registration form and leaves it.
LeaveLogin(c, t) ==
    /\ Idle(c, "register") /\ t # form[c].login
    /\ form' = [form EXCEPT ![c].login = t]
    /\ checked' = [checked EXCEPT ![c] = Recheck(@, "login", t)]
    /\ Edit
    /\ UNCHANGED <<users, link, page, pending, data, ghosts>>

LeaveName(c, t) ==
    /\ Idle(c, "register") /\ t # form[c].name
    /\ form' = [form EXCEPT ![c].name = t]
    /\ checked' = [checked EXCEPT ![c] = Recheck(@, "name", t)]
    /\ Edit
    /\ UNCHANGED <<users, link, page, pending, data, ghosts>>

\* A password that is refused and one that is not both only clear the flag.
LeavePassword(c, t) ==
    /\ Idle(c, "register") /\ t # form[c].password
    /\ form' = [form EXCEPT ![c].password = t]
    /\ checked' = [checked EXCEPT ![c] = IF t = "" THEN @ ELSE @ \ {"password"}]
    /\ Edit
    /\ UNCHANGED <<users, link, page, pending, data, ghosts>>

\* The field may be left with the text that it had.
LeaveConfirm(c, t) ==
    /\ Idle(c, "register")
    /\ form' = [form EXCEPT ![c].confirm = t]
    /\ checked' = [checked EXCEPT ![c] = IF t = form[c].password THEN @ \cup {"password"}
                                         ELSE @ \ {"password"}]
    /\ Edit
    /\ UNCHANGED <<users, link, page, pending, data, ghosts>>

-----------------------------------------------------------------------------
(* Registration and login *)

\* Register, if the login is not taken, or if no answer says so.
Register(c) ==
    /\ Idle(c, "register") /\ checked[c] = Fields
    /\ \/ link = c /\ ~IsTaken(form[c].login)
          /\ unsure' = [unsure EXCEPT ![c] = FALSE] /\ UNCHANGED link
       \/ Unanswered(c) /\ unsure' = [unsure EXCEPT ![c] = TRUE]
    /\ pending' = [pending EXCEPT ![c] = "create"]
    /\ who' = [who EXCEPT ![c] = form[c].login]
    /\ UNCHANGED <<users, page, form, checked, copy, profile, behind, edits>>

\* createUserCl with an e-mail m: the client goes on to the login if the account
\* was made, and also if it was not.
CreateAnswered(c, m) ==
    /\ pending[c] = "create" /\ link = c
    /\ IF CanCreate(form[c].login, m) THEN Created(c, m) ELSE UNCHANGED <<users, unsure>>
    /\ pending' = [pending EXCEPT ![c] = "enter"]
    /\ UNCHANGED <<link, page, form, checked, data, behind, edits>>

\* Without an answer the client reads the first packet of none, and ends; the
\* server may have made the account all the same.
CreateUnanswered(c, m) ==
    /\ pending[c] = "create" /\ Unanswered(c) /\ Ends(c)
    /\ \/ link = c /\ CanCreate(form[c].login, m) /\ Created(c, m)
       \/ unsure' = NoLonger(unsure, c) /\ UNCHANGED users
    /\ UNCHANGED <<behind, edits>>

\* checkSignIn with a login that has the person's password; with any other one,
\* and without an answer, nothing changes.
SignIn(c, l) ==
    /\ Idle(c, "login") /\ link = c
    /\ l # "" /\ PasswordMatches(c, l)
    /\ pending' = [pending EXCEPT ![c] = "enter"]
    /\ who' = [who EXCEPT ![c] = l]
    /\ unsure' = [unsure EXCEPT ![c] = FALSE]
    /\ UNCHANGED <<users, link, page, form, checked, copy, profile, behind, edits>>

\* onLoggedIn; the server says nothing of a login that it does not have.  The texts
\* of the registration form stay, but are cleared before it is shown again.
Enter(c) ==
    /\ pending[c] = "enter" /\ link = c /\ who[c] \in DOMAIN users
    /\ pending' = [pending EXCEPT ![c] = ""]
    /\ page' = [page EXCEPT ![c] = "work"]
    /\ copy' = [copy EXCEPT ![c] = CopyOf(who[c])]
    /\ form' = [form EXCEPT ![c] = Empty]
    /\ behind' = [behind EXCEPT ![c] = FALSE]
    /\ UNCHANGED <<users, link, checked, who, profile, unsure, edits>>

\* Without an answer there is no active user, whose login the work page shows.
EnterUnanswered(c) ==
    /\ pending[c] = "enter" /\ Unanswered(c) /\ Ends(c)
    /\ unsure' = NoLonger(unsure, c)
    /\ UNCHANGED <<users, behind, edits>>

\* The texts of the profile stay, too, until they are filled in again.
Logout(c) == /\ Idle(c, "work")
             /\ page' = [page EXCEPT ![c] = "login"]
             /\ who' = [who EXCEPT ![c] = ""]
             /\ copy' = [copy EXCEPT ![c] = Blank]
             /\ profile' = [profile EXCEPT ![c] = Unfilled]
             /\ unsure' = NoLonger(unsure, c) /\ behind' = NoLonger(behind, c)
             /\ UNCHANGED <<users, link, pending, form, checked, edits>>

\* The button of the login page that creates the database anew, with or without
\* an answer: the accounts are gone.
ReInitialise(c) ==
    /\ Idle(c, "login") /\ link = c
    /\ link' \in {c, None}
    /\ users' = <<>>
    /\ unsure' = [d \in Clients |-> unsure[d] \/ UsesLogin(d, who[d])]
    /\ behind' = [d \in Clients |-> page[d] \in {"work", "profile"}]
    /\ UNCHANGED <<page, pending, form, checked, data, edits>>

-----------------------------------------------------------------------------
(* The profile *)

\* Mutant of Filled: the texts of the last time stay.
FilledOnce(p, loaded) ==
    IF p.text = Blank THEN [p EXCEPT !.text = loaded, !.touched = {}, !.canSave = FALSE]
    ELSE [p EXCEPT !.touched = {}, !.canSave = FALSE]

\* slotFillDataToForm: the form shows the copy made at the login.
Filled(p, loaded) == [p EXCEPT !.text = loaded, !.touched = {}, !.canSave = FALSE]

OpenProfile(c) ==
    /\ Idle(c, "work")
    /\ page' = [page EXCEPT ![c] = "profile"]
    /\ profile' = [profile EXCEPT ![c] = Filled(@, copy[c])]
    /\ UNCHANGED <<users, link, pending, form, checked, who, copy, ghosts, edits>>

\* The button to save is enabled by a change and disabled only by a refused name.
Edited(p, loaded, f, t) ==
    LET change == t # loaded[f]
        good   == f = "mail" \/ t \in Names
    IN  [p EXCEPT !.text[f] = t, !.touched = @ \cup {f},
                  !.changed = IF change /\ good THEN @ \cup {f} ELSE @ \ {f},
                  !.canSave = IF change THEN good ELSE @]

EditProfile(c, f, t) ==
    /\ Idle(c, "profile") /\ t # profile[c].text[f]
    /\ profile' = [profile EXCEPT ![c] = Edited(@, copy[c], f, t)]
    /\ Edit
    /\ UNCHANGED <<users, link, page, pending, form, checked, who, copy, ghosts>>

\* Save sends every text as it stands.
CanSave(c) == Idle(c, "profile") /\ profile[c].canSave /\ profile[c].changed # {}

SaveAnswered(c) ==
    /\ CanSave(c) /\ link = c
    /\ Changed(who[c], profile[c].text) /\ behind' = Behind(who[c])
    /\ profile' = [profile EXCEPT ![c].changed = {}]
    /\ UNCHANGED <<link, page, pending, form, checked, who, copy, unsure, edits>>

\* As with a registration, an answer that does not come ends the client.
SaveUnanswered(c) ==
    /\ CanSave(c) /\ Unanswered(c) /\ Ends(c)
    /\ \/ link = c /\ Changed(who[c], profile[c].text)
       \/ UNCHANGED users
    /\ unsure' = NoLonger(unsure, c) /\ behind' = NoLonger(Behind(who[c]), c)
    /\ UNCHANGED edits

\* Cancel: the flags are cleared, the texts are not.
CloseProfile(c) ==
    /\ Idle(c, "profile")
    /\ page' = [page EXCEPT ![c] = "work"]
    /\ profile' = [profile EXCEPT ![c] = [@ EXCEPT !.changed = {}, !.canSave = FALSE]]
    /\ UNCHANGED <<users, link, pending, form, checked, who, copy, ghosts, edits>>

-----------------------------------------------------------------------------

FormStep(c) ==
    \/ OpenRegister(c) \/ CloseRegister(c) \/ Register(c)
    \/ \E t \in LoginText : LeaveLogin(c, t)
    \/ \E t \in NameText : LeaveName(c, t)
    \/ \E t \in Typed : LeavePassword(c, t) \/ LeaveConfirm(c, t)
    \/ \E m \in Mails \cup {Wide} : CreateAnswered(c, m) \/ CreateUnanswered(c, m)

SessionStep(c) ==
    \/ \E l \in LoginText : SignIn(c, l)
    \/ Enter(c) \/ EnterUnanswered(c) \/ Logout(c) \/ ReInitialise(c)
    \/ OpenProfile(c) \/ SaveAnswered(c) \/ SaveUnanswered(c) \/ CloseProfile(c)
    \/ \E t \in NameText : EditProfile(c, "name", t)
    \/ \E t \in MailText : EditProfile(c, "mail", t)

Next == \/ Disconnect
        \/ \E c \in Clients : \/ Connect(c) \/ Exit(c)
                              \/ FormStep(c) \/ SessionStep(c)

Spec == Init /\ [][Next]_vars

-----------------------------------------------------------------------------
(* Properties *)

\* Nobody is at work in an account that another person made, although the form goes
\* on to the login when the account could not be created: the check before it must
\* have found the login free, and nobody else may have taken it in between.
OnlyOwnAccount ==
    \A c \in Clients :
        page[c] \in {"work", "profile"} /\ who[c] \in DOMAIN users =>
            users[who[c]].by = c \/ unsure[c]

\* What is registered was checked as it is sent: a login or a name that its check
\* refused never gets in, however the fields were edited before.  Only a field that
\* was emptied again does: its flag stays.
RegisteredAsChecked ==
    [][\A l \in DOMAIN users' \ DOMAIN users :
           l # Refused /\ users'[l].name # Refused]_vars

\* A save changes only the columns that the user edited since the form was opened,
\* though it sends them all: what was typed and given up before is not sent.  Only
\* what was saved after the login, by this client too, may be set back.
SavesOnlyEdited ==
    [][\A l \in DOMAIN users \cap DOMAIN users' : \A f \in Columns :
           users'[l][f] # users[l][f] =>
               \E c \in Clients : /\ who[c] = l /\ profile'[c] # profile[c]
                                  /\ f \in profile[c].touched \/ behind[c]]_vars
=============================================================================
