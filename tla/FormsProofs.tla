---------------------------- MODULE FormsProofs ----------------------------
(***************************************************************************)
(* Proofs about Forms, for any persons, texts and bounds: the types, whose *)
(* account a client is at work in, and what a registration can put into    *)
(* the database.  The type invariant has one lemma per action that writes  *)
(* more than the link.                                                     *)
(***************************************************************************)
EXTENDS Forms, TLAPS

-----------------------------------------------------------------------------
(* Types *)

LEMMA NoRows == DOMAIN <<>> = {}
OBVIOUS

LEMMA TypeInit == Init => TypeOK
<1> SUFFICES ASSUME Init PROVE TypeOK
  OBVIOUS
<1>1. Empty \in Registration /\ Good \subseteq Registration
  BY DEF Empty, Good, Registration, LoginText, NameText, Typed
<1>2. form \in [Clients -> Registration]
  BY <1>1 DEF Init
<1>3. Blank \in Texts /\ Unfilled \in Profile
  BY DEF Blank, Unfilled, Texts, Profile, NameText, MailText
<1>4. copy \in [Clients -> Texts] /\ profile \in [Clients -> Profile]
  BY <1>3 DEF Init
<1>5. page \in [Clients -> {"login", "register", "work", "profile"}]
  BY DEF Init
<1>6. checked \in [Clients -> SUBSET Fields] /\ pending \in [Clients -> {"", "create", "enter"}]
  BY DEF Init
<1>7. who \in [Clients -> LoginText]
  BY DEF Init, LoginText
<1>9. edits \in 0 .. MaxEdits
  <2>1. MaxEdits \in Nat
    BY FormsAssumption
  <2>2. edits = 0
    BY DEF Init
  <2> QED BY <2>1, <2>2
<1>8. /\ unsure \in [Clients -> BOOLEAN] /\ behind \in [Clients -> BOOLEAN]
      /\ DOMAIN users = {} /\ link = None
  BY NoRows DEF Init
<1> QED BY <1>2, <1>4, <1>5, <1>6, <1>7, <1>8, <1>9 DEF TypeOK

\* What is left of a program that ends.
LEMMA TypeEnds ==
    ASSUME TypeOK, NEW c \in Clients, Ends(c)
    PROVE  /\ page' \in [Clients -> {"login", "register", "work", "profile"}]
           /\ pending' \in [Clients -> {"", "create", "enter"}]
           /\ form' \in [Clients -> Registration]
           /\ checked' \in [Clients -> SUBSET Fields]
           /\ who' \in [Clients -> LoginText]
           /\ copy' \in [Clients -> Texts]
           /\ profile' \in [Clients -> Profile]
<1>1. page' \in [Clients -> {"login", "register", "work", "profile"}]
  BY DEF TypeOK, Ends
<1>2. pending' \in [Clients -> {"", "create", "enter"}]
  BY DEF TypeOK, Ends
<1>3. form' \in [Clients -> Registration]
  BY DEF TypeOK, Ends, Empty, Registration, LoginText, NameText, Typed
<1>4. checked' \in [Clients -> SUBSET Fields]
  BY DEF TypeOK, Ends
<1>5. who' \in [Clients -> LoginText]
  BY DEF TypeOK, Ends, LoginText
<1>6. copy' \in [Clients -> Texts]
  BY DEF TypeOK, Ends, Blank, Texts, NameText, MailText
<1>7. profile' \in [Clients -> Profile]
  BY DEF TypeOK, Ends, Unfilled, Blank, Profile, Texts, NameText, MailText
<1> QED BY <1>1, <1>2, <1>3, <1>4, <1>5, <1>6, <1>7

LEMMA TypeUnanswered ==
    ASSUME TypeOK, NEW c \in Clients, Unanswered(c)
    PROVE  link' \in Clients \cup {None}
BY DEF TypeOK, Unanswered

\* An account more, or another text in one, keeps the table in its type.
LEMMA TypeCreated ==
    ASSUME TypeOK, NEW c \in Clients, NEW m \in Mails \cup {Wide}, Created(c, m)
    PROVE  /\ DOMAIN users' \subseteq LoginText
           /\ \A l \in DOMAIN users' : users'[l] \in Account
           /\ unsure' \in [Clients -> BOOLEAN]
<1>1. form[c] \in Registration
  BY DEF TypeOK
<1>2. Row(c, m) \in Account /\ form[c].login \in LoginText
  BY <1>1 DEF Row, Account, Registration, MailText
<1>3. DOMAIN users \subseteq LoginText /\ \A l \in DOMAIN users : users[l] \in Account
  BY DEF TypeOK
<1>4. users' = [k \in DOMAIN users \cup {form[c].login} |->
                   IF k = form[c].login THEN Row(c, m) ELSE users[k]]
  BY DEF Created
<1>5. DOMAIN users' = DOMAIN users \cup {form[c].login}
  BY <1>4
<1>6. ASSUME NEW l \in DOMAIN users' PROVE users'[l] \in Account
  BY <1>2, <1>3, <1>4, <1>5
<1>7. unsure' \in [Clients -> BOOLEAN]
  BY DEF Created
<1> QED BY <1>2, <1>3, <1>5, <1>6, <1>7

LEMMA TypeChanged ==
    ASSUME TypeOK, NEW l \in LoginText, NEW t \in Texts, Changed(l, t)
    PROVE  /\ DOMAIN users' \subseteq LoginText
           /\ \A k \in DOMAIN users' : users'[k] \in Account
<1>1. DOMAIN users \subseteq LoginText /\ \A k \in DOMAIN users : users[k] \in Account
  BY DEF TypeOK
<1>2. CASE l \in DOMAIN users /\ t.mail # Wide
  <2>1. users' = [users EXCEPT ![l] = [@ EXCEPT !.name = t.name, !.mail = t.mail]]
    BY <1>2 DEF Changed
  <2>2. [users[l] EXCEPT !.name = t.name, !.mail = t.mail] \in Account
    BY <1>1, <1>2 DEF Account, Texts
  <2> QED BY <1>1, <1>2, <2>1, <2>2
<1>3. CASE ~(l \in DOMAIN users /\ t.mail # Wide)
  BY <1>1, <1>3 DEF Changed
<1> QED BY <1>2, <1>3
-----------------------------------------------------------------------------
(* One lemma per action *)

LEMMA EditsTyped ==
    ASSUME TypeOK, Edit
    PROVE  edits' \in 0 .. MaxEdits
<1>1. edits \in 0 .. MaxEdits
  BY DEF TypeOK
<1>2. MaxEdits \in Nat
  BY FormsAssumption
<1> QED BY <1>1, <1>2 DEF Edit

LEMMA TypeOpenRegister ==
    ASSUME TypeOK, NEW c \in Clients, OpenRegister(c)
    PROVE  TypeOK'
<1>1. page' \in [Clients -> {"login", "register", "work", "profile"}]
  BY DEF TypeOK, OpenRegister
<1>2. form' \in [Clients -> Registration]
  BY DEF TypeOK, OpenRegister, Empty, Registration, LoginText, NameText, Typed
<1>3. UNCHANGED <<users, link, pending, checked, who, copy, profile, unsure, behind, edits>>
  BY DEF OpenRegister, data, ghosts
<1> QED BY <1>1, <1>2, <1>3 DEF TypeOK

LEMMA TypeCloseRegister ==
    ASSUME TypeOK, NEW c \in Clients, CloseRegister(c)
    PROVE  TypeOK'
<1>1. page' \in [Clients -> {"login", "register", "work", "profile"}]
  BY DEF TypeOK, CloseRegister
<1>2. form' \in [Clients -> Registration]
  BY DEF TypeOK, CloseRegister, Empty, Registration, LoginText, NameText, Typed
<1>3. UNCHANGED <<users, link, pending, checked, who, copy, profile, unsure, behind, edits>>
  BY DEF CloseRegister, data, ghosts
<1> QED BY <1>1, <1>2, <1>3 DEF TypeOK

LEMMA TypeLeaveLogin ==
    ASSUME TypeOK, NEW c \in Clients, NEW t \in LoginText, LeaveLogin(c, t)
    PROVE  TypeOK'
<1>1. form' \in [Clients -> Registration]
  BY ZenonT(40) DEF TypeOK, LeaveLogin, Registration
<1>2. checked' \in [Clients -> SUBSET Fields]
  BY DEF TypeOK, LeaveLogin, Recheck, Fields
<1>3. edits' \in 0 .. MaxEdits
  BY EditsTyped DEF LeaveLogin
<1>4. UNCHANGED <<users, link, page, pending, who, copy, profile, unsure, behind>>
  BY DEF LeaveLogin, data, ghosts
<1> QED BY <1>1, <1>2, <1>3, <1>4 DEF TypeOK

LEMMA TypeLeaveName ==
    ASSUME TypeOK, NEW c \in Clients, NEW t \in NameText, LeaveName(c, t)
    PROVE  TypeOK'
<1>1. form' \in [Clients -> Registration]
  BY ZenonT(40) DEF TypeOK, LeaveName, Registration
<1>2. checked' \in [Clients -> SUBSET Fields]
  BY DEF TypeOK, LeaveName, Recheck, Fields
<1>3. edits' \in 0 .. MaxEdits
  BY EditsTyped DEF LeaveName
<1>4. UNCHANGED <<users, link, page, pending, who, copy, profile, unsure, behind>>
  BY DEF LeaveName, data, ghosts
<1> QED BY <1>1, <1>2, <1>3, <1>4 DEF TypeOK

LEMMA TypeLeavePassword ==
    ASSUME TypeOK, NEW c \in Clients, NEW t \in Typed, LeavePassword(c, t)
    PROVE  TypeOK'
<1>1. form' \in [Clients -> Registration]
  BY ZenonT(40) DEF TypeOK, LeavePassword, Registration
<1>2. checked' \in [Clients -> SUBSET Fields]
  BY DEF TypeOK, LeavePassword, Fields
<1>3. edits' \in 0 .. MaxEdits
  BY EditsTyped DEF LeavePassword
<1>4. UNCHANGED <<users, link, page, pending, who, copy, profile, unsure, behind>>
  BY DEF LeavePassword, data, ghosts
<1> QED BY <1>1, <1>2, <1>3, <1>4 DEF TypeOK

LEMMA TypeLeaveConfirm ==
    ASSUME TypeOK, NEW c \in Clients, NEW t \in Typed, LeaveConfirm(c, t)
    PROVE  TypeOK'
<1>1. form' \in [Clients -> Registration]
  BY ZenonT(40) DEF TypeOK, LeaveConfirm, Registration
<1>2. checked' \in [Clients -> SUBSET Fields]
  BY DEF TypeOK, LeaveConfirm, Fields
<1>3. edits' \in 0 .. MaxEdits
  BY EditsTyped DEF LeaveConfirm
<1>4. UNCHANGED <<users, link, page, pending, who, copy, profile, unsure, behind>>
  BY DEF LeaveConfirm, data, ghosts
<1> QED BY <1>1, <1>2, <1>3, <1>4 DEF TypeOK

LEMMA TypeRegister ==
    ASSUME TypeOK, NEW c \in Clients, Register(c)
    PROVE  TypeOK'
<1>1. link' \in Clients \cup {None}
  BY TypeUnanswered DEF TypeOK, Register
<1>2. pending' \in [Clients -> {"", "create", "enter"}]
  BY DEF TypeOK, Register
<1>3. who' \in [Clients -> LoginText]
  BY DEF TypeOK, Register, Registration
<1>4. unsure' \in [Clients -> BOOLEAN]
  BY DEF TypeOK, Register
<1>5. UNCHANGED <<users, page, form, checked, copy, profile, behind, edits>>
  BY DEF Register, data, ghosts
<1> QED BY <1>1, <1>2, <1>3, <1>4, <1>5 DEF TypeOK

LEMMA TypeSignIn ==
    ASSUME TypeOK, NEW c \in Clients, NEW l \in LoginText, SignIn(c, l)
    PROVE  TypeOK'
<1>1. pending' \in [Clients -> {"", "create", "enter"}]
  BY DEF TypeOK, SignIn
<1>2. who' \in [Clients -> LoginText]
  BY DEF TypeOK, SignIn
<1>3. unsure' \in [Clients -> BOOLEAN]
  BY DEF TypeOK, SignIn
<1>4. UNCHANGED <<users, link, page, form, checked, copy, profile, behind, edits>>
  BY DEF SignIn, data, ghosts
<1> QED BY <1>1, <1>2, <1>3, <1>4 DEF TypeOK

LEMMA TypeEnter ==
    ASSUME TypeOK, NEW c \in Clients, Enter(c)
    PROVE  TypeOK'
<1>1. pending' \in [Clients -> {"", "create", "enter"}]
  BY DEF TypeOK, Enter
<1>2. page' \in [Clients -> {"login", "register", "work", "profile"}]
  BY DEF TypeOK, Enter
<1>3. copy' \in [Clients -> Texts]
  BY DEF TypeOK, Enter, CopyOf, Account, Texts
<1>4. form' \in [Clients -> Registration]
  BY DEF TypeOK, Enter, Empty, Registration, LoginText, NameText, Typed
<1>5. behind' \in [Clients -> BOOLEAN]
  BY DEF TypeOK, Enter
<1>6. UNCHANGED <<users, link, checked, who, profile, unsure, edits>>
  BY DEF Enter, data, ghosts
<1> QED BY <1>1, <1>2, <1>3, <1>4, <1>5, <1>6 DEF TypeOK

LEMMA TypeLogout ==
    ASSUME TypeOK, NEW c \in Clients, Logout(c)
    PROVE  TypeOK'
<1>1. page' \in [Clients -> {"login", "register", "work", "profile"}]
  BY DEF TypeOK, Logout
<1>2. who' \in [Clients -> LoginText]
  BY DEF TypeOK, Logout, LoginText
<1>3. copy' \in [Clients -> Texts]
  BY DEF TypeOK, Logout, Texts, Blank, NameText, MailText
<1>4. profile' \in [Clients -> Profile]
  BY DEF TypeOK, Logout, Profile, Unfilled, Texts, Blank, NameText, MailText
<1>5. unsure' \in [Clients -> BOOLEAN]
  BY DEF TypeOK, Logout, NoLonger
<1>6. behind' \in [Clients -> BOOLEAN]
  BY DEF TypeOK, Logout, NoLonger
<1>7. UNCHANGED <<users, link, pending, form, checked, edits>>
  BY DEF Logout, data, ghosts
<1> QED BY <1>1, <1>2, <1>3, <1>4, <1>5, <1>6, <1>7 DEF TypeOK

LEMMA TypeOpenProfile ==
    ASSUME TypeOK, NEW c \in Clients, OpenProfile(c)
    PROVE  TypeOK'
<1>1. page' \in [Clients -> {"login", "register", "work", "profile"}]
  BY DEF TypeOK, OpenProfile
<1>2. profile' \in [Clients -> Profile]
  BY ZenonT(40) DEF TypeOK, OpenProfile, Filled, Profile
<1>3. UNCHANGED <<users, link, pending, form, checked, who, copy, unsure, behind, edits>>
  BY DEF OpenProfile, data, ghosts
<1> QED BY <1>1, <1>2, <1>3 DEF TypeOK

LEMMA TypeCloseProfile ==
    ASSUME TypeOK, NEW c \in Clients, CloseProfile(c)
    PROVE  TypeOK'
<1>1. page' \in [Clients -> {"login", "register", "work", "profile"}]
  BY DEF TypeOK, CloseProfile
<1>2. profile' \in [Clients -> Profile]
  <2>1. profile \in [Clients -> Profile]
    BY DEF TypeOK
  <2>2. [profile[c] EXCEPT !.changed = {}, !.canSave = FALSE] \in Profile
    BY <2>1 DEF Profile
  <2> QED BY <2>1, <2>2 DEF CloseProfile
<1>3. UNCHANGED <<users, link, pending, form, checked, who, copy, unsure, behind, edits>>
  BY DEF CloseProfile, data, ghosts
<1> QED BY <1>1, <1>2, <1>3 DEF TypeOK

LEMMA TypeEdited ==
    ASSUME NEW p \in Profile, NEW loaded \in Texts,
           NEW f \in Columns, NEW t \in NameText \cup MailText,
           f = "name" => t \in NameText, f = "mail" => t \in MailText
    PROVE  Edited(p, loaded, f, t) \in Profile
<1> DEFINE change == t # loaded[f]
           good   == f = "mail" \/ t \in Names
           text   == [p.text EXCEPT ![f] = t]
           list   == IF change /\ good THEN p.changed \cup {f} ELSE p.changed \ {f}
           save   == IF change THEN good ELSE p.canSave
<1>1. text \in Texts
  BY DEF Profile, Texts, Columns
<1>2. list \in SUBSET Columns /\ p.touched \cup {f} \in SUBSET Columns
  BY DEF Profile
<1>3. save \in BOOLEAN
  BY DEF Profile
<1>4. Edited(p, loaded, f, t) =
          [p EXCEPT !.text = text, !.touched = p.touched \cup {f},
                    !.changed = list, !.canSave = save]
  BY DEF Edited, Profile
<1> HIDE DEF text, list, save
<1> QED BY <1>1, <1>2, <1>3, <1>4 DEF Profile

LEMMA TypeEditProfile ==
    ASSUME TypeOK, NEW c \in Clients, NEW f \in Columns, NEW t \in NameText \cup MailText,
           f = "name" => t \in NameText, f = "mail" => t \in MailText,
           EditProfile(c, f, t)
    PROVE  TypeOK'
<1>1. profile' \in [Clients -> Profile]
  <2>1. profile \in [Clients -> Profile] /\ copy \in [Clients -> Texts]
    BY DEF TypeOK
  <2>2. Edited(profile[c], copy[c], f, t) \in Profile
    BY <2>1, TypeEdited
  <2> QED BY <2>1, <2>2 DEF EditProfile
<1>2. edits' \in 0 .. MaxEdits
  BY EditsTyped DEF EditProfile
<1>3. UNCHANGED <<users, link, page, pending, form, checked, who, copy, unsure, behind>>
  BY DEF EditProfile, data, ghosts
<1> QED BY <1>1, <1>2, <1>3 DEF TypeOK

LEMMA TypeCreateAnswered ==
    ASSUME TypeOK, NEW c \in Clients, NEW m \in Mails \cup {Wide}, CreateAnswered(c, m)
    PROVE  TypeOK'
<1>1. /\ DOMAIN users' \subseteq LoginText
      /\ \A l \in DOMAIN users' : users'[l] \in Account
      /\ unsure' \in [Clients -> BOOLEAN]
  <2>1. CASE Created(c, m)
    BY <2>1, TypeCreated
  <2>2. CASE UNCHANGED <<users, unsure>>
    BY <2>2 DEF TypeOK
  <2> QED BY <2>1, <2>2 DEF CreateAnswered
<1>2. pending' \in [Clients -> {"", "create", "enter"}]
  BY DEF TypeOK, CreateAnswered
<1>3. UNCHANGED <<link, page, form, checked, who, copy, profile, behind, edits>>
  BY DEF CreateAnswered, data
<1> QED BY <1>1, <1>2, <1>3 DEF TypeOK

LEMMA TypeCreateUnanswered ==
    ASSUME TypeOK, NEW c \in Clients, NEW m \in Mails \cup {Wide}, CreateUnanswered(c, m)
    PROVE  TypeOK'
<1>1. /\ DOMAIN users' \subseteq LoginText
      /\ \A l \in DOMAIN users' : users'[l] \in Account
      /\ unsure' \in [Clients -> BOOLEAN]
  <2>1. CASE Created(c, m)
    BY <2>1, TypeCreated
  <2>2. CASE unsure' = NoLonger(unsure, c) /\ UNCHANGED users
    BY <2>2 DEF TypeOK, NoLonger
  <2> QED BY <2>1, <2>2 DEF CreateUnanswered
<1>2. link' \in Clients \cup {None}
  BY TypeUnanswered DEF CreateUnanswered
<1>3. Ends(c) /\ UNCHANGED <<behind, edits>>
  BY DEF CreateUnanswered
<1> QED BY <1>1, <1>2, <1>3, TypeEnds DEF TypeOK

LEMMA TypeEnterUnanswered ==
    ASSUME TypeOK, NEW c \in Clients, EnterUnanswered(c)
    PROVE  TypeOK'
<1>1. unsure' \in [Clients -> BOOLEAN]
  BY DEF TypeOK, EnterUnanswered, NoLonger
<1>2. link' \in Clients \cup {None}
  BY TypeUnanswered DEF EnterUnanswered
<1>3. Ends(c) /\ UNCHANGED <<users, behind, edits>>
  BY DEF EnterUnanswered
<1> QED BY <1>1, <1>2, <1>3, TypeEnds DEF TypeOK

LEMMA TypeExit ==
    ASSUME TypeOK, NEW c \in Clients, Exit(c)
    PROVE  TypeOK'
<1>1. link' \in Clients \cup {None}
  BY TypeUnanswered DEF Exit
<1>2. Ends(c) /\ UNCHANGED <<users, unsure, behind, edits>>
  BY DEF Exit, ghosts
<1> QED BY <1>1, <1>2, TypeEnds DEF TypeOK

LEMMA TypeReInitialise ==
    ASSUME TypeOK, NEW c \in Clients, ReInitialise(c)
    PROVE  TypeOK'
<1>1. DOMAIN users' = {}
  BY NoRows DEF ReInitialise
<1>2. link' \in Clients \cup {None}
  BY DEF ReInitialise
<1>3. unsure' \in [Clients -> BOOLEAN]
  <2>1. unsure \in [Clients -> BOOLEAN]
    BY DEF TypeOK
  <2>2. \A d \in Clients : UsesLogin(d, who[d]) \in BOOLEAN
    BY DEF UsesLogin
  <2> QED BY <2>1, <2>2 DEF ReInitialise
<1>4. behind' \in [Clients -> BOOLEAN]
  BY DEF ReInitialise
<1>5. UNCHANGED <<page, pending, form, checked, who, copy, profile, edits>>
  BY DEF ReInitialise, data
<1> QED BY <1>1, <1>2, <1>3, <1>4, <1>5 DEF TypeOK

\* A save writes texts that the form may hold, for a login that may be there.
LEMMA TypeSaved ==
    ASSUME TypeOK, NEW c \in Clients
    PROVE  who[c] \in LoginText /\ profile[c].text \in Texts
BY DEF TypeOK, Profile

LEMMA TypeBehind ==
    ASSUME TypeOK, NEW l
    PROVE  Behind(l) \in [Clients -> BOOLEAN]
<1>1. behind \in [Clients -> BOOLEAN]
  BY DEF TypeOK
<1>2. \A d \in Clients : UsesLogin(d, l) \in BOOLEAN
  BY DEF UsesLogin
<1> QED BY <1>1, <1>2 DEF Behind

LEMMA TypeSaveAnswered ==
    ASSUME TypeOK, NEW c \in Clients, SaveAnswered(c)
    PROVE  TypeOK'
<1>1. /\ DOMAIN users' \subseteq LoginText
      /\ \A l \in DOMAIN users' : users'[l] \in Account
  BY TypeSaved, TypeChanged DEF SaveAnswered
<1>2. behind' \in [Clients -> BOOLEAN]
  BY TypeBehind DEF SaveAnswered
<1>3. profile' \in [Clients -> Profile]
  BY ZenonT(40) DEF TypeOK, SaveAnswered, Profile
<1>4. UNCHANGED <<link, page, pending, form, checked, who, copy, unsure, edits>>
  BY DEF SaveAnswered
<1> QED BY <1>1, <1>2, <1>3, <1>4 DEF TypeOK

LEMMA TypeSaveUnanswered ==
    ASSUME TypeOK, NEW c \in Clients, SaveUnanswered(c)
    PROVE  TypeOK'
<1>1. /\ DOMAIN users' \subseteq LoginText
      /\ \A l \in DOMAIN users' : users'[l] \in Account
  <2>1. CASE Changed(who[c], profile[c].text)
    BY <2>1, TypeSaved, TypeChanged
  <2>2. CASE UNCHANGED users
    BY <2>2 DEF TypeOK
  <2> QED BY <2>1, <2>2 DEF SaveUnanswered
<1>2. behind' \in [Clients -> BOOLEAN]
  BY TypeBehind DEF SaveUnanswered, NoLonger
<1>3. unsure' \in [Clients -> BOOLEAN]
  BY DEF TypeOK, SaveUnanswered, NoLonger
<1>4. link' \in Clients \cup {None}
  BY TypeUnanswered DEF SaveUnanswered
<1>5. Ends(c) /\ UNCHANGED edits
  BY DEF SaveUnanswered
<1> QED BY <1>1, <1>2, <1>3, <1>4, <1>5, TypeEnds DEF TypeOK

LEMMA TypeLink ==
    ASSUME TypeOK, Disconnect \/ \E c \in Clients : Connect(c)
    PROVE  TypeOK'
<1>1. link' \in Clients \cup {None}
  BY DEF Disconnect, Connect
<1>2. UNCHANGED <<users, page, pending, form, checked, who, copy, profile,
                  unsure, behind, edits>>
  BY DEF Disconnect, Connect, data, ghosts
<1> QED BY <1>1, <1>2 DEF TypeOK

LEMMA TypeStep == TypeOK /\ [Next]_vars => TypeOK'
<1> SUFFICES ASSUME TypeOK, [Next]_vars PROVE TypeOK'
  OBVIOUS
<1>1. CASE UNCHANGED vars
  BY <1>1 DEF TypeOK, vars, data, ghosts
<1>2. CASE Disconnect \/ \E c \in Clients : Connect(c)
  BY <1>2, TypeLink
<1>3. ASSUME NEW c \in Clients, FormStep(c) PROVE TypeOK'
  BY <1>3, TypeOpenRegister, TypeCloseRegister, TypeRegister, TypeLeaveLogin, TypeLeaveName,
     TypeLeavePassword, TypeLeaveConfirm, TypeCreateAnswered, TypeCreateUnanswered
  DEF FormStep
<1>4. ASSUME NEW c \in Clients, SessionStep(c) PROVE TypeOK'
  <2>1. ASSUME NEW t \in NameText, EditProfile(c, "name", t) PROVE TypeOK'
    <3>1. "name" \in Columns /\ "name" # "mail" /\ t \in NameText \cup MailText
      BY DEF Columns
    <3> QED BY <2>1, <3>1, TypeEditProfile
  <2>2. ASSUME NEW t \in MailText, EditProfile(c, "mail", t) PROVE TypeOK'
    <3>1. "mail" \in Columns /\ "name" # "mail" /\ t \in NameText \cup MailText
      BY DEF Columns
    <3> QED BY <2>2, <3>1, TypeEditProfile
  <2> QED
    BY <1>4, <2>1, <2>2, TypeSignIn, TypeEnter, TypeEnterUnanswered, TypeLogout,
       TypeReInitialise, TypeOpenProfile, TypeSaveAnswered, TypeSaveUnanswered, TypeCloseProfile
    DEF SessionStep
<1>5. ASSUME NEW c \in Clients, Exit(c) PROVE TypeOK'
  BY <1>5, TypeExit
<1> QED BY <1>1, <1>2, <1>3, <1>4, <1>5 DEF Next

\* Every reachable state of the forms is well typed, whoever does what.
THEOREM FormsTypes == Spec => []TypeOK
<1> QED BY TypeInit, TypeStep, PTL DEF Spec

-----------------------------------------------------------------------------
(* The inductive invariant: what joins the form, the login on its way and the *)
(* row, and what the profile form still owes to the row                        *)

\* The account that c is in, or on the way to, is its own, or nobody told it so.
Own(c) ==
    UsesLogin(c, who[c]) /\ who[c] \in DOMAIN users => users[who[c]].by = c \/ unsure[c]

\* The login that signs in next is the one in the form, and all flags are still set.
Aligned(c) == pending[c] = "create" => who[c] = form[c].login /\ checked[c] = Fields

\* A flag is set only while the text is not one that the check refuses.
Sound(c) ==
    /\ "login" \in checked[c] => form[c].login # Refused
    /\ "name" \in checked[c] => form[c].name # Refused

\* What was not edited is shown as it was loaded.
Shown(c) ==
    page[c] = "profile" =>
        \A f \in Columns \ profile[c].touched : profile[c].text[f] = copy[c][f]

\* Unless it may have changed since, the row is still as it was loaded.
Fresh(c) ==
    page[c] \in {"work", "profile"} /\ ~behind[c] =>
        who[c] \in DOMAIN users /\ CopyOf(who[c]) = copy[c]

FormsInv ==
    /\ TypeOK
    /\ \A c \in Clients : Own(c) /\ Aligned(c) /\ Sound(c) /\ Shown(c) /\ Fresh(c)

LEMMA InvInit == Init => FormsInv
<1> SUFFICES ASSUME Init PROVE FormsInv
  OBVIOUS
<1>1. TypeOK
  BY TypeInit
<1> SUFFICES ASSUME NEW c \in Clients
             PROVE  Own(c) /\ Aligned(c) /\ Sound(c) /\ Shown(c) /\ Fresh(c)
  BY <1>1 DEF FormsInv
<1>2. page[c] \in {"login", "register"} /\ pending[c] = ""
  BY DEF Init
<1>3. Own(c) /\ Aligned(c) /\ Shown(c) /\ Fresh(c)
  BY <1>2 DEF Own, Aligned, Shown, Fresh, UsesLogin
<1>4. form[c] \in Good \cup {Empty}
  BY DEF Init
<1>5. form[c].login \in Logins \cup {""} /\ form[c].name \in Names \cup {""}
  <2>1. CASE form[c] \in Good
    BY <2>1 DEF Good
  <2>2. CASE form[c] = Empty
    <3>1. Empty.login = "" /\ Empty.name = ""
      BY DEF Empty
    <3> QED BY <2>2, <3>1
  <2> QED BY <1>4, <2>1, <2>2
<1>6. Sound(c)
  BY <1>5, FormsAssumption DEF Sound
<1> QED BY <1>3, <1>6

\* What a client that ends, or another one, keeps of these.
LEMMA EndsFacts ==
    ASSUME TypeOK, NEW c \in Clients, Ends(c), NEW d \in Clients
    PROVE  /\ page'[d] = IF d = c THEN "login" ELSE page[d]
           /\ pending'[d] = IF d = c THEN "" ELSE pending[d]
           /\ form'[d] = IF d = c THEN Empty ELSE form[d]
           /\ checked'[d] = IF d = c THEN {} ELSE checked[d]
           /\ who'[d] = IF d = c THEN "" ELSE who[d]
           /\ copy'[d] = IF d = c THEN Blank ELSE copy[d]
           /\ profile'[d] = IF d = c THEN Unfilled ELSE profile[d]
<1>1. page'[d] = IF d = c THEN "login" ELSE page[d]
  BY DEF TypeOK, Ends
<1>2. pending'[d] = IF d = c THEN "" ELSE pending[d]
  BY DEF TypeOK, Ends
<1>3. form'[d] = IF d = c THEN Empty ELSE form[d]
  BY DEF TypeOK, Ends
<1>4. checked'[d] = IF d = c THEN {} ELSE checked[d]
  BY DEF TypeOK, Ends
<1>5. who'[d] = IF d = c THEN "" ELSE who[d]
  BY DEF TypeOK, Ends
<1>6. copy'[d] = IF d = c THEN Blank ELSE copy[d]
  BY DEF TypeOK, Ends
<1>7. profile'[d] = IF d = c THEN Unfilled ELSE profile[d]
  BY DEF TypeOK, Ends
<1> QED BY <1>1, <1>2, <1>3, <1>4, <1>5, <1>6, <1>7

\* A save changes no row's maker, and only e-mail and name of one row.
LEMMA ChangedFacts ==
    ASSUME TypeOK, NEW l \in LoginText, NEW t \in Texts, Changed(l, t)
    PROVE  /\ DOMAIN users' = DOMAIN users
           /\ \A k \in DOMAIN users : users'[k].by = users[k].by
           /\ \A k \in DOMAIN users : k # l => users'[k] = users[k]
           /\ users' = users \/ (l \in DOMAIN users /\ users'[l].name = t.name
                                                /\ users'[l].mail = t.mail)
<1>1. \A k \in DOMAIN users : users[k] \in Account
  BY DEF TypeOK
<1>2. CASE l \in DOMAIN users /\ t.mail # Wide
  <2>1. users' = [users EXCEPT ![l] = [@ EXCEPT !.name = t.name, !.mail = t.mail]]
    BY <1>2 DEF Changed
  <2>2. /\ [users[l] EXCEPT !.name = t.name, !.mail = t.mail].by = users[l].by
        /\ [users[l] EXCEPT !.name = t.name, !.mail = t.mail].name = t.name
        /\ [users[l] EXCEPT !.name = t.name, !.mail = t.mail].mail = t.mail
    BY <1>1, <1>2 DEF Account
  <2> QED BY <1>2, <2>1, <2>2
<1>3. CASE ~(l \in DOMAIN users /\ t.mail # Wide)
  BY <1>3 DEF Changed
<1> QED BY <1>2, <1>3

\* A registration adds one row, its maker's.
LEMMA CreatedFacts ==
    ASSUME TypeOK, NEW c \in Clients, NEW m \in Mails \cup {Wide},
           CanCreate(form[c].login, m), Created(c, m)
    PROVE  /\ DOMAIN users' = DOMAIN users \cup {form[c].login}
           /\ form[c].login \notin DOMAIN users
           /\ users'[form[c].login] = Row(c, m)
           /\ \A k \in DOMAIN users : users'[k] = users[k]
           /\ \A d \in Clients :
                 unsure'[d] = (d # c /\ (unsure[d] \/ UsesLogin(d, form[c].login)))
<1>1. form[c].login \notin DOMAIN users
  BY DEF CanCreate
<1>2. users' = [k \in DOMAIN users \cup {form[c].login} |->
                   IF k = form[c].login THEN Row(c, m) ELSE users[k]]
  BY DEF Created
<1>3. \A d \in Clients :
          unsure'[d] = (d # c /\ (unsure[d] \/ UsesLogin(d, form[c].login)))
  BY DEF Created
<1> QED BY <1>1, <1>2, <1>3

-----------------------------------------------------------------------------
(* Whose account a client is in *)

\* A step after which d is on the way to an account only if it was before, and that
\* leaves its login, the rows' makers and its doubts alone.
LEMMA OwnKept ==
    ASSUME NEW d \in Clients, Own(d),
           UsesLogin(d, who[d])' => UsesLogin(d, who[d]),
           who'[d] = who[d], unsure'[d] = unsure[d],
           \A l \in DOMAIN users' : l \in DOMAIN users /\ users'[l].by = users[l].by
    PROVE  Own(d)'
BY DEF Own

LEMMA OwnForm ==
    ASSUME FormsInv, NEW c \in Clients, NEW d \in Clients,
           \/ OpenRegister(c) \/ CloseRegister(c)
           \/ \E t \in LoginText : LeaveLogin(c, t)
           \/ \E t \in NameText : LeaveName(c, t)
           \/ \E t \in Typed : LeavePassword(c, t) \/ LeaveConfirm(c, t)
    PROVE  Own(d)'
<1>1. UNCHANGED <<users, pending, who, unsure>>
  BY DEF OpenRegister, CloseRegister, LeaveLogin, LeaveName, LeavePassword, LeaveConfirm,
     data, ghosts
<1>2. page'[d] = page[d] \/ page'[d] \in {"login", "register"}
  BY DEF FormsInv, TypeOK, OpenRegister, CloseRegister, LeaveLogin, LeaveName, LeavePassword,
     LeaveConfirm
<1>3. UsesLogin(d, who[d])' => UsesLogin(d, who[d])
  BY <1>1, <1>2 DEF UsesLogin
<1> QED BY <1>1, <1>3, OwnKept DEF FormsInv

LEMMA OwnRegister ==
    ASSUME FormsInv, NEW c \in Clients, NEW d \in Clients, Register(c)
    PROVE  Own(d)'
<1>1. /\ UNCHANGED <<users, page>>
      /\ pending'[d] = IF d = c THEN "create" ELSE pending[d]
      /\ who'[d] = IF d = c THEN form[c].login ELSE who[d]
  BY DEF FormsInv, TypeOK, Register
<1>2. CASE d # c
  <2>1. unsure'[d] = unsure[d]
    BY <1>2 DEF FormsInv, TypeOK, Register
  <2> QED BY <1>1, <1>2, <2>1 DEF FormsInv, Own, UsesLogin
<1>3. CASE d = c
  <2>1. unsure'[c] \/ form[c].login \notin DOMAIN users
    BY DEF FormsInv, TypeOK, Register, IsTaken
  <2> QED BY <1>1, <1>3, <2>1 DEF Own
<1> QED BY <1>2, <1>3

LEMMA OwnSignIn ==
    ASSUME FormsInv, NEW c \in Clients, NEW d \in Clients, NEW l \in LoginText, SignIn(c, l)
    PROVE  Own(d)'
<1>1. /\ UNCHANGED <<users, page>>
      /\ who'[d] = IF d = c THEN l ELSE who[d]
      /\ pending'[d] = IF d = c THEN "enter" ELSE pending[d]
      /\ unsure'[d] = IF d = c THEN FALSE ELSE unsure[d]
  BY DEF FormsInv, TypeOK, SignIn
<1>2. users[l].by = c
  BY DEF SignIn, PasswordMatches
<1>3. CASE d # c
  BY <1>1, <1>3 DEF FormsInv, Own, UsesLogin
<1>4. CASE d = c
  BY <1>1, <1>2, <1>4 DEF Own
<1> QED BY <1>3, <1>4

\* The row that c's registration made is its own; who else was on the way to that
\* login has become unsure.
LEMMA OwnCreated ==
    ASSUME FormsInv, NEW c \in Clients, NEW m \in Mails \cup {Wide}, NEW d \in Clients,
           CanCreate(form[c].login, m), Created(c, m),
           who'[d] = who[d], UsesLogin(d, who[d])' => UsesLogin(d, who[d]),
           d = c => who[c] = form[c].login
    PROVE  Own(d)'
<1>1. /\ DOMAIN users' = DOMAIN users \cup {form[c].login}
      /\ users'[form[c].login] = Row(c, m)
      /\ \A k \in DOMAIN users : users'[k] = users[k]
      /\ unsure'[d] = (d # c /\ (unsure[d] \/ UsesLogin(d, form[c].login)))
      /\ form[c].login \notin DOMAIN users
  BY CreatedFacts DEF FormsInv
<1>2. users'[form[c].login].by = c
  BY <1>1 DEF Row
<1>3. CASE d = c
  BY <1>2, <1>3 DEF Own
<1>4. CASE d # c /\ who[d] = form[c].login
  BY <1>1, <1>4 DEF Own
<1>5. CASE d # c /\ who[d] # form[c].login
  <2>1. Own(d)
    BY DEF FormsInv
  <2>2. unsure[d] => unsure'[d]
    BY <1>1, <1>5
  <2> QED BY <1>1, <1>5, <2>1, <2>2 DEF Own
<1> QED BY <1>3, <1>4, <1>5

LEMMA OwnCreateAnswered ==
    ASSUME FormsInv, NEW c \in Clients, NEW m \in Mails \cup {Wide}, NEW d \in Clients,
           CreateAnswered(c, m)
    PROVE  Own(d)'
<1>1. who' = who /\ page' = page
  BY DEF CreateAnswered, data
<1>2. pending[c] = "create" /\ pending'[d] = IF d = c THEN "enter" ELSE pending[d]
  BY DEF FormsInv, TypeOK, CreateAnswered
<1>3. UsesLogin(d, who[d])' => UsesLogin(d, who[d])
  BY <1>1, <1>2 DEF UsesLogin
<1>4. who[c] = form[c].login
  BY <1>2 DEF FormsInv, Aligned
<1>5. CASE CanCreate(form[c].login, m) /\ Created(c, m)
  BY <1>1, <1>3, <1>4, <1>5, OwnCreated
<1>6. CASE UNCHANGED <<users, unsure>>
  BY <1>1, <1>3, <1>6, OwnKept DEF FormsInv
<1> QED BY <1>5, <1>6 DEF CreateAnswered

\* Nothing of the login is left in a client that ended.
LEMMA OwnEnded ==
    ASSUME NEW c \in Clients, TypeOK, Ends(c)
    PROVE  Own(c)'
<1>1. page'[c] = "login" /\ pending'[c] = ""
  BY EndsFacts
<1> QED BY <1>1 DEF Own, UsesLogin

LEMMA OwnCreateUnanswered ==
    ASSUME FormsInv, NEW c \in Clients, NEW m \in Mails \cup {Wide}, NEW d \in Clients,
           CreateUnanswered(c, m)
    PROVE  Own(d)'
<1>1. TypeOK /\ Ends(c)
  BY DEF FormsInv, CreateUnanswered
<1>2. CASE d = c
  BY <1>1, <1>2, OwnEnded
<1>3. CASE d # c
  <2>1. who'[d] = who[d] /\ page'[d] = page[d] /\ pending'[d] = pending[d]
    BY <1>1, <1>3, EndsFacts
  <2>2. UsesLogin(d, who[d])' => UsesLogin(d, who[d])
    BY <2>1 DEF UsesLogin
  <2>3. CASE CanCreate(form[c].login, m) /\ Created(c, m)
    BY <1>3, <2>1, <2>2, <2>3, OwnCreated
  <2>4. CASE unsure' = NoLonger(unsure, c) /\ UNCHANGED users
    <3>1. unsure'[d] = unsure[d]
      BY <1>1, <1>3, <2>4 DEF TypeOK, NoLonger
    <3> QED BY <2>1, <2>2, <2>4, <3>1, OwnKept DEF FormsInv
  <2> QED BY <2>3, <2>4 DEF CreateUnanswered
<1> QED BY <1>2, <1>3

\* A client that goes on, goes out, ends, or loses its link.
LEMMA OwnSession ==
    ASSUME FormsInv, NEW c \in Clients, NEW d \in Clients,
           Enter(c) \/ OpenProfile(c) \/ CloseProfile(c)
    PROVE  Own(d)'
<1>1. UNCHANGED <<users, who, unsure>>
  BY DEF Enter, OpenProfile, CloseProfile, ghosts
<1>2. UsesLogin(d, who[d])' => UsesLogin(d, who[d])
  <2>1. CASE d = c
    <3>1. UsesLogin(c, who[c])
      BY DEF Enter, OpenProfile, CloseProfile, Idle, UsesLogin
    <3> QED BY <2>1, <3>1
  <2>2. CASE d # c
    BY <1>1, <2>2 DEF FormsInv, TypeOK, Enter, OpenProfile, CloseProfile, UsesLogin
  <2> QED BY <2>1, <2>2
<1> QED BY <1>1, <1>2, OwnKept DEF FormsInv

LEMMA OwnEdit ==
    ASSUME FormsInv, NEW c \in Clients, NEW d \in Clients, NEW f, NEW t, EditProfile(c, f, t)
    PROVE  Own(d)'
<1>1. UNCHANGED <<users, who, unsure, page, pending>>
  BY DEF EditProfile, ghosts
<1>2. UsesLogin(d, who[d])' => UsesLogin(d, who[d])
  BY <1>1 DEF UsesLogin
<1> QED BY <1>1, <1>2, OwnKept DEF FormsInv

LEMMA OwnLeaves ==
    ASSUME FormsInv, NEW c \in Clients, NEW d \in Clients,
           Exit(c) \/ EnterUnanswered(c) \/ Logout(c)
    PROVE  Own(d)'
<1>1. TypeOK /\ UNCHANGED users /\ unsure \in [Clients -> BOOLEAN]
  BY DEF FormsInv, TypeOK, Exit, EnterUnanswered, Logout
<1>2. page'[c] = "login" /\ pending'[c] = ""
  <2>1. CASE Ends(c)
    BY <1>1, <2>1, EndsFacts
  <2>2. CASE Logout(c)
    BY <1>1, <2>2 DEF TypeOK, Logout, Idle
  <2> QED BY <2>1, <2>2 DEF Exit, EnterUnanswered
<1>3. CASE d = c
  BY <1>2, <1>3 DEF Own, UsesLogin
<1>4. CASE d # c
  <2>1. who'[d] = who[d] /\ page'[d] = page[d] /\ pending'[d] = pending[d]
    <3>1. CASE Ends(c)
      BY <1>1, <1>4, <3>1, EndsFacts
    <3>2. CASE Logout(c)
      BY <1>1, <1>4, <3>2 DEF TypeOK, Logout
    <3> QED BY <3>1, <3>2 DEF Exit, EnterUnanswered
  <2>2. unsure'[d] = unsure[d]
    BY <1>1, <1>4 DEF Exit, EnterUnanswered, Logout, NoLonger, ghosts
  <2>3. UsesLogin(d, who[d])' => UsesLogin(d, who[d])
    BY <2>1 DEF UsesLogin
  <2> QED BY <1>1, <2>1, <2>2, <2>3, OwnKept DEF FormsInv
<1> QED BY <1>3, <1>4

\* A save leaves the makers of the rows alone.
LEMMA OwnSave ==
    ASSUME FormsInv, NEW c \in Clients, NEW d \in Clients, SaveAnswered(c) \/ SaveUnanswered(c)
    PROVE  Own(d)'
<1>1. TypeOK /\ who[c] \in LoginText /\ profile[c].text \in Texts
  BY TypeSaved DEF FormsInv
<1>2. \A l \in DOMAIN users' : l \in DOMAIN users /\ users'[l].by = users[l].by
  <2>1. CASE Changed(who[c], profile[c].text)
    BY <1>1, <2>1, ChangedFacts
  <2>2. CASE UNCHANGED users
    BY <2>2
  <2> QED BY <2>1, <2>2 DEF SaveAnswered, SaveUnanswered
<1>3. CASE SaveAnswered(c)
  <2>1. UNCHANGED <<page, pending, who, unsure>>
    BY <1>3 DEF SaveAnswered
  <2>2. UsesLogin(d, who[d])' => UsesLogin(d, who[d])
    BY <2>1 DEF UsesLogin
  <2> QED BY <1>2, <2>1, <2>2, OwnKept DEF FormsInv
<1>4. CASE SaveUnanswered(c) /\ d = c
  BY <1>1, <1>4, OwnEnded DEF SaveUnanswered
<1>5. CASE SaveUnanswered(c) /\ d # c
  <2>1. who'[d] = who[d] /\ page'[d] = page[d] /\ pending'[d] = pending[d]
    BY <1>1, <1>5, EndsFacts DEF SaveUnanswered
  <2>2. unsure'[d] = unsure[d]
    BY <1>1, <1>5 DEF TypeOK, SaveUnanswered, NoLonger
  <2>3. UsesLogin(d, who[d])' => UsesLogin(d, who[d])
    BY <2>1 DEF UsesLogin
  <2> QED BY <1>2, <2>1, <2>2, <2>3, OwnKept DEF FormsInv
<1> QED BY <1>3, <1>4, <1>5

LEMMA OwnStep ==
    ASSUME FormsInv, [Next]_vars, NEW d \in Clients
    PROVE  Own(d)'
<1>1. CASE UNCHANGED <<users, page, pending, who, unsure>>
  BY <1>1, OwnKept DEF FormsInv, UsesLogin
<1>2. CASE UNCHANGED vars \/ Disconnect \/ \E c \in Clients : Connect(c)
  BY <1>1, <1>2 DEF vars, data, ghosts, Disconnect, Connect
<1>3. ASSUME NEW c \in Clients, FormStep(c) PROVE Own(d)'
  BY <1>3, OwnForm, OwnRegister, OwnCreateAnswered, OwnCreateUnanswered DEF FormStep
<1>4. ASSUME NEW c \in Clients, ReInitialise(c) PROVE Own(d)'
  <2>1. DOMAIN users' = {}
    BY <1>4, NoRows DEF ReInitialise
  <2> QED BY <2>1 DEF Own
<1>5. ASSUME NEW c \in Clients, SessionStep(c) PROVE Own(d)'
  BY <1>4, <1>5, OwnSignIn, OwnSession, OwnEdit, OwnLeaves, OwnSave DEF SessionStep
<1>6. ASSUME NEW c \in Clients, Exit(c) PROVE Own(d)'
  BY <1>6, OwnLeaves
<1> QED BY <1>2, <1>3, <1>5, <1>6 DEF Next

-----------------------------------------------------------------------------
(* The flags of the registration form *)

\* While a request of a reaction is awaited, nothing is edited.
LEMMA AlignedStep ==
    ASSUME FormsInv, [Next]_vars, NEW d \in Clients
    PROVE  Aligned(d)'
<1> USE DEF Aligned
<1>0. TypeOK /\ Aligned(d)
  BY DEF FormsInv
<1>1. CASE UNCHANGED <<pending, who, form, checked>>
  BY <1>0, <1>1
<1>2. CASE UNCHANGED vars \/ Disconnect \/ \E c \in Clients : Connect(c)
  BY <1>1, <1>2 DEF vars, data, Disconnect, Connect
<1>3. ASSUME NEW c \in Clients, Ends(c) PROVE Aligned(d)'
  BY <1>0, <1>3, EndsFacts
<1>4. ASSUME NEW c \in Clients, FormStep(c) PROVE Aligned(d)'
  <2>1. CASE Register(c)
    BY <1>0, <2>1 DEF TypeOK, Register
  <2>2. CASE \/ OpenRegister(c) \/ CloseRegister(c)
             \/ \E t \in LoginText : LeaveLogin(c, t)
             \/ \E t \in NameText : LeaveName(c, t)
             \/ \E t \in Typed : LeavePassword(c, t) \/ LeaveConfirm(c, t)
    <3>1. pending[c] = "" /\ UNCHANGED <<pending, who>>
      BY <2>2 DEF OpenRegister, CloseRegister, LeaveLogin, LeaveName, LeavePassword,
         LeaveConfirm, Idle, data
    <3>2. d # c => form'[d] = form[d] /\ checked'[d] = checked[d]
      BY <1>0, <2>2 DEF TypeOK, OpenRegister, CloseRegister, LeaveLogin, LeaveName,
         LeavePassword, LeaveConfirm
    <3> QED BY <1>0, <3>1, <3>2
  <2>3. ASSUME NEW m \in Mails \cup {Wide}, CreateAnswered(c, m) PROVE Aligned(d)'
    BY <1>0, <2>3 DEF TypeOK, CreateAnswered, data
  <2>4. ASSUME NEW m \in Mails \cup {Wide}, CreateUnanswered(c, m) PROVE Aligned(d)'
    BY <1>3, <2>4 DEF CreateUnanswered
  <2> QED BY <1>4, <2>1, <2>2, <2>3, <2>4 DEF FormStep
<1>5. ASSUME NEW c \in Clients, SessionStep(c) PROVE Aligned(d)'
  <2>1. CASE \E l \in LoginText : SignIn(c, l)
    BY <1>0, <2>1 DEF TypeOK, SignIn
  <2>2. CASE Enter(c)
    BY <1>0, <2>2 DEF TypeOK, Enter
  <2>3. CASE Logout(c)
    BY <1>0, <2>3 DEF TypeOK, Logout, Idle
  <2>4. CASE EnterUnanswered(c) \/ SaveUnanswered(c)
    BY <1>3, <2>4 DEF EnterUnanswered, SaveUnanswered
  <2>5. CASE \/ ReInitialise(c) \/ OpenProfile(c) \/ SaveAnswered(c) \/ CloseProfile(c)
             \/ \E t \in NameText : EditProfile(c, "name", t)
             \/ \E t \in MailText : EditProfile(c, "mail", t)
    BY <1>1, <2>5 DEF ReInitialise, OpenProfile, SaveAnswered, CloseProfile, EditProfile, data
  <2> QED BY <1>5, <2>1, <2>2, <2>3, <2>4, <2>5 DEF SessionStep
<1>6. ASSUME NEW c \in Clients, Exit(c) PROVE Aligned(d)'
  BY <1>3, <1>6 DEF Exit
<1> QED BY <1>2, <1>4, <1>5, <1>6 DEF Next

LEMMA SoundEmpty ==
    ASSUME NEW d \in Clients, form'[d] = Empty
    PROVE  Sound(d)'
<1>1. Empty.login = "" /\ Empty.name = ""
  BY DEF Empty
<1>2. Refused # ""
  BY FormsAssumption
<1> QED BY <1>1, <1>2 DEF Sound

\* The check of a field that was left takes the flag back from a text it refuses.
LEMMA SoundLeft ==
    ASSUME FormsInv, NEW c \in Clients, NEW d \in Clients,
           (\E t \in LoginText : LeaveLogin(c, t)) \/ (\E t \in NameText : LeaveName(c, t))
    PROVE  Sound(d)'
<1>0. /\ form \in [Clients -> Registration] /\ checked \in [Clients -> SUBSET Fields]
      /\ Sound(d) /\ Refused # ""
  BY FormsAssumption DEF FormsInv, TypeOK
<1>1. CASE d # c
  <2>1. form'[d] = form[d] /\ checked'[d] = checked[d]
    BY <1>0, <1>1 DEF LeaveLogin, LeaveName
  <2> QED BY <1>0, <2>1 DEF Sound
<1>2. ASSUME d = c, NEW t \in LoginText, LeaveLogin(c, t) PROVE Sound(d)'
  <2>1. form'[c].login = t /\ form'[c].name = form[c].name
    BY <1>0, <1>2 DEF LeaveLogin, Registration
  <2>2. checked'[c] = Recheck(checked[c], "login", t)
    BY <1>0, <1>2 DEF LeaveLogin
  <2>3. /\ "login" \in Recheck(checked[c], "login", t) => t # Refused
        /\ "name" \in Recheck(checked[c], "login", t) => "name" \in checked[c]
    BY <1>0 DEF Recheck
  <2> QED BY <1>0, <1>2, <2>1, <2>2, <2>3 DEF Sound
<1>3. ASSUME d = c, NEW t \in NameText, LeaveName(c, t) PROVE Sound(d)'
  <2>1. form'[c].name = t /\ form'[c].login = form[c].login
    <3>1. form'[c] = [form[c] EXCEPT !.name = t] /\ form[c] \in Registration
      BY <1>0, <1>3 DEF LeaveName
    <3> QED BY <3>1 DEF Registration
  <2>2. checked'[c] = Recheck(checked[c], "name", t)
    BY <1>0, <1>3 DEF LeaveName
  <2>3. /\ "name" \in Recheck(checked[c], "name", t) => t # Refused
        /\ "login" \in Recheck(checked[c], "name", t) => "login" \in checked[c]
    BY <1>0 DEF Recheck
  <2> QED BY <1>0, <1>3, <2>1, <2>2, <2>3 DEF Sound
<1> QED BY <1>1, <1>2, <1>3

LEMMA SoundStep ==
    ASSUME FormsInv, [Next]_vars, NEW d \in Clients
    PROVE  Sound(d)'
<1>0. TypeOK /\ Sound(d)
  BY DEF FormsInv
<1>1. CASE form'[d] = form[d] /\ checked'[d] = checked[d]
  BY <1>0, <1>1 DEF Sound
<1>2. CASE UNCHANGED vars \/ Disconnect \/ \E c \in Clients : Connect(c)
  BY <1>1, <1>2 DEF vars, Disconnect, Connect
<1>3. ASSUME NEW c \in Clients, Ends(c) PROVE Sound(d)'
  BY <1>0, <1>1, <1>3, EndsFacts, SoundEmpty
<1>4. ASSUME NEW c \in Clients, OpenRegister(c) \/ CloseRegister(c) \/ Enter(c) PROVE Sound(d)'
  <2>1. d # c => form'[d] = form[d] /\ checked'[d] = checked[d]
    BY <1>0, <1>4 DEF TypeOK, OpenRegister, CloseRegister, Enter
  <2>2. form'[c] = Empty
    BY <1>0, <1>4 DEF TypeOK, OpenRegister, CloseRegister, Enter
  <2> QED BY <1>1, <2>1, <2>2, SoundEmpty
<1>5. ASSUME NEW c \in Clients, NEW t \in Typed, LeavePassword(c, t) \/ LeaveConfirm(c, t)
      PROVE  Sound(d)'
  <2>0. form \in [Clients -> Registration] /\ checked \in [Clients -> SUBSET Fields]
    BY <1>0 DEF TypeOK
  <2>1. form'[d].login = form[d].login /\ form'[d].name = form[d].name
    <3>1. \/ form'[d] = form[d]
          \/ form'[d] = [form[d] EXCEPT !.password = t]
          \/ form'[d] = [form[d] EXCEPT !.confirm = t]
      BY <1>5, <2>0 DEF LeavePassword, LeaveConfirm
    <3> QED BY <2>0, <3>1 DEF Registration
  <2>2. \A f \in {"login", "name"} : f \in checked'[d] => f \in checked[d]
    <3>1. \/ checked'[d] = checked[d]
          \/ checked'[d] = checked[d] \ {"password"}
          \/ checked'[d] = checked[d] \cup {"password"}
      BY <1>5, <2>0 DEF LeavePassword, LeaveConfirm
    <3> QED BY <3>1
  <2> QED BY <1>0, <2>1, <2>2 DEF Sound
<1>6. ASSUME NEW c \in Clients, FormStep(c) PROVE Sound(d)'
  <2>1. CASE \/ Register(c)
             \/ \E m \in Mails \cup {Wide} : CreateAnswered(c, m)
    BY <1>1, <2>1 DEF Register, CreateAnswered
  <2>2. CASE \E m \in Mails \cup {Wide} : CreateUnanswered(c, m)
    BY <1>3, <2>2 DEF CreateUnanswered
  <2> QED BY <1>4, <1>5, <1>6, <2>1, <2>2, SoundLeft DEF FormStep
<1>7. ASSUME NEW c \in Clients, SessionStep(c) PROVE Sound(d)'
  <2>1. CASE EnterUnanswered(c) \/ SaveUnanswered(c)
    BY <1>3, <2>1 DEF EnterUnanswered, SaveUnanswered
  <2>2. CASE \/ \E l \in LoginText : SignIn(c, l)
             \/ Logout(c) \/ ReInitialise(c) \/ OpenProfile(c)
             \/ SaveAnswered(c) \/ CloseProfile(c)
             \/ \E t \in NameText : EditProfile(c, "name", t)
             \/ \E t \in MailText : EditProfile(c, "mail", t)
    BY <1>1, <2>2 DEF SignIn, Logout, ReInitialise, OpenProfile, SaveAnswered, CloseProfile,
       EditProfile
  <2> QED BY <1>4, <1>7, <2>1, <2>2 DEF SessionStep
<1>8. ASSUME NEW c \in Clients, Exit(c) PROVE Sound(d)'
  BY <1>3, <1>8 DEF Exit
<1> QED BY <1>2, <1>6, <1>7, <1>8 DEF Next

-----------------------------------------------------------------------------
(* The profile form *)

LEMMA ShownEdit ==
    ASSUME FormsInv, NEW c \in Clients, NEW f \in Columns, NEW t, EditProfile(c, f, t)
    PROVE  Shown(c)'
<1>0. profile[c] \in Profile /\ profile \in [Clients -> Profile]
  BY DEF FormsInv, TypeOK
<1>1. page[c] = "profile" /\ copy' = copy
  BY DEF EditProfile, Idle
<1>2. /\ profile'[c].text = [profile[c].text EXCEPT ![f] = t]
      /\ profile'[c].touched = profile[c].touched \cup {f}
  <2>1. profile'[c] = Edited(profile[c], copy[c], f, t)
    BY <1>0 DEF EditProfile
  <2>2. /\ Edited(profile[c], copy[c], f, t).text = [profile[c].text EXCEPT ![f] = t]
        /\ Edited(profile[c], copy[c], f, t).touched = profile[c].touched \cup {f}
    BY <1>0 DEF Edited, Profile
  <2> QED BY <2>1, <2>2
<1>3. \A g \in Columns \ profile[c].touched : profile[c].text[g] = copy[c][g]
  BY <1>1 DEF FormsInv, Shown
<1>4. profile[c].text \in Texts
  BY <1>0 DEF Profile
<1>5. \A g \in Columns : g # f => [profile[c].text EXCEPT ![f] = t][g] = profile[c].text[g]
  BY <1>4 DEF Texts, Columns
<1> QED BY <1>1, <1>2, <1>3, <1>5 DEF Shown

LEMMA ShownOpen ==
    ASSUME FormsInv, NEW c \in Clients, OpenProfile(c)
    PROVE  Shown(c)'
<1>1. profile[c] \in Profile /\ profile'[c] = Filled(profile[c], copy[c]) /\ copy' = copy
  BY DEF FormsInv, TypeOK, OpenProfile
<1>2. Filled(profile[c], copy[c]).text = copy[c]
  BY <1>1 DEF Filled, Profile
<1> QED BY <1>1, <1>2 DEF Shown

LEMMA ShownStep ==
    ASSUME FormsInv, [Next]_vars, NEW d \in Clients
    PROVE  Shown(d)'
<1>0. TypeOK /\ Shown(d)
  BY DEF FormsInv
<1>1. CASE /\ page'[d] = page[d] \/ page'[d] # "profile"
           /\ profile'[d] = profile[d] /\ copy'[d] = copy[d]
  BY <1>0, <1>1 DEF Shown
<1>2. CASE UNCHANGED vars \/ Disconnect \/ \E c \in Clients : Connect(c)
  BY <1>1, <1>2 DEF vars, data, Disconnect, Connect
<1>3. ASSUME NEW c \in Clients, Ends(c) PROVE Shown(d)'
  <2>1. d = c => page'[d] # "profile"
    BY <1>0, <1>3, EndsFacts
  <2>2. d # c => page'[d] = page[d] /\ profile'[d] = profile[d] /\ copy'[d] = copy[d]
    BY <1>0, <1>3, EndsFacts
  <2> QED BY <1>1, <2>1, <2>2 DEF Shown
<1>4. ASSUME NEW c \in Clients, FormStep(c) PROVE Shown(d)'
  <2>1. CASE \E m \in Mails \cup {Wide} : CreateUnanswered(c, m)
    BY <1>3, <2>1 DEF CreateUnanswered
  <2>2. CASE ~\E m \in Mails \cup {Wide} : CreateUnanswered(c, m)
    <3>1. UNCHANGED <<profile, copy>>
      BY <1>4, <2>2 DEF FormStep, OpenRegister, CloseRegister, LeaveLogin, LeaveName,
         LeavePassword, LeaveConfirm, Register, CreateAnswered, data
    <3>2. page'[d] = page[d] \/ page'[d] # "profile"
      BY <1>0, <1>4, <2>2 DEF TypeOK, FormStep, OpenRegister, CloseRegister, LeaveLogin,
         LeaveName, LeavePassword, LeaveConfirm, Register, CreateAnswered
    <3> QED BY <1>1, <3>1, <3>2
  <2> QED BY <2>1, <2>2
<1>5. ASSUME NEW c \in Clients, SessionStep(c) PROVE Shown(d)'
  <2>1. CASE EnterUnanswered(c) \/ SaveUnanswered(c)
    BY <1>3, <2>1 DEF EnterUnanswered, SaveUnanswered
  <2>2. CASE (\E l \in LoginText : SignIn(c, l)) \/ ReInitialise(c)
    BY <1>1, <2>2 DEF SignIn, ReInitialise, data
  <2>3. CASE Enter(c) \/ Logout(c) \/ CloseProfile(c)
    <3>1. page'[c] # "profile"
      BY <1>0, <2>3 DEF TypeOK, Enter, Logout, CloseProfile
    <3>2. d # c => page'[d] = page[d] /\ profile'[d] = profile[d] /\ copy'[d] = copy[d]
      BY <1>0, <2>3 DEF TypeOK, Enter, Logout, CloseProfile
    <3> QED BY <1>1, <3>1, <3>2 DEF Shown
  <2>4. CASE SaveAnswered(c)
    <3>1. UNCHANGED <<page, copy>> /\ profile \in [Clients -> Profile]
      BY <1>0, <2>4 DEF TypeOK, SaveAnswered
    <3>2. profile'[d] = IF d = c THEN [profile[c] EXCEPT !.changed = {}] ELSE profile[d]
      BY <2>4, <3>1 DEF SaveAnswered
    <3>3. profile'[d].text = profile[d].text /\ profile'[d].touched = profile[d].touched
      BY <3>1, <3>2 DEF Profile
    <3> QED BY <1>0, <3>1, <3>3 DEF Shown
  <2>5. CASE OpenProfile(c)
    <3>1. d # c => page'[d] = page[d] /\ profile'[d] = profile[d] /\ copy'[d] = copy[d]
      BY <1>0, <2>5 DEF TypeOK, OpenProfile
    <3> QED BY <1>1, <2>5, <3>1, ShownOpen
  <2>6. ASSUME NEW f \in Columns, NEW t, EditProfile(c, f, t) PROVE Shown(d)'
    <3>1. d # c => page'[d] = page[d] /\ profile'[d] = profile[d] /\ copy'[d] = copy[d]
      BY <1>0, <2>6 DEF TypeOK, EditProfile
    <3> QED BY <1>1, <2>6, <3>1, ShownEdit
  <2>7. "name" \in Columns /\ "mail" \in Columns
    BY DEF Columns
  <2> QED BY <1>5, <2>1, <2>2, <2>3, <2>4, <2>5, <2>6, <2>7 DEF SessionStep
<1>6. ASSUME NEW c \in Clients, Exit(c) PROVE Shown(d)'
  BY <1>3, <1>6 DEF Exit
<1> QED BY <1>2, <1>4, <1>5, <1>6 DEF Next

\* A step that leaves the row of d's login, what d knows, and that it is behind, alone.
LEMMA FreshKept ==
    ASSUME NEW d \in Clients, Fresh(d),
           page'[d] \in {"work", "profile"} => page[d] \in {"work", "profile"},
           who'[d] = who[d], copy'[d] = copy[d], behind[d] => behind'[d],
           who[d] \in DOMAIN users /\ ~behind'[d] =>
               who[d] \in DOMAIN users' /\ users'[who[d]] = users[who[d]]
    PROVE  Fresh(d)'
BY DEF Fresh, CopyOf

LEMMA FreshCreate ==
    ASSUME FormsInv, NEW c \in Clients, NEW m \in Mails \cup {Wide}, NEW d \in Clients,
           CreateAnswered(c, m) \/ CreateUnanswered(c, m)
    PROVE  Fresh(d)'
<1>0. TypeOK /\ Fresh(d)
  BY DEF FormsInv
<1>1. \A k \in DOMAIN users : k \in DOMAIN users' /\ users'[k] = users[k]
  <2>1. CASE CanCreate(form[c].login, m) /\ Created(c, m)
    BY <1>0, <2>1, CreatedFacts
  <2>2. CASE UNCHANGED users
    BY <2>2
  <2> QED BY <2>1, <2>2 DEF CreateAnswered, CreateUnanswered
<1>2. behind' = behind
  BY DEF CreateAnswered, CreateUnanswered
<1>3. CASE CreateAnswered(c, m)
  BY <1>0, <1>1, <1>2, <1>3, FreshKept DEF CreateAnswered, data
<1>4. CASE CreateUnanswered(c, m) /\ d # c
  BY <1>0, <1>1, <1>2, <1>4, FreshKept, EndsFacts DEF CreateUnanswered
<1>5. CASE CreateUnanswered(c, m) /\ d = c
  BY <1>0, <1>5, EndsFacts DEF CreateUnanswered, Fresh
<1> QED BY <1>3, <1>4, <1>5

\* Who is at work in the row that a save changed is behind from then on.
LEMMA FreshSave ==
    ASSUME FormsInv, NEW c \in Clients, NEW d \in Clients, SaveAnswered(c) \/ SaveUnanswered(c)
    PROVE  Fresh(d)'
<1>0. TypeOK /\ Fresh(d) /\ who[c] \in LoginText /\ profile[c].text \in Texts
  BY TypeSaved DEF FormsInv
<1>1. /\ DOMAIN users' = DOMAIN users
      /\ \A k \in DOMAIN users : k # who[c] => users'[k] = users[k]
  <2>1. CASE Changed(who[c], profile[c].text)
    BY <1>0, <2>1, ChangedFacts
  <2>2. CASE UNCHANGED users
    BY <2>2
  <2> QED BY <2>1, <2>2 DEF SaveAnswered, SaveUnanswered
<1>2. Behind(who[c])[d] = (behind[d] \/ (users' # users /\ UsesLogin(d, who[c])))
  BY DEF Behind
<1>3. CASE SaveAnswered(c) \/ (SaveUnanswered(c) /\ d # c)
  <2>1. who'[d] = who[d] /\ page'[d] = page[d] /\ copy'[d] = copy[d]
    BY <1>0, <1>3, EndsFacts DEF SaveAnswered, SaveUnanswered
  <2>2. behind'[d] = Behind(who[c])[d]
    <3>1. Behind(who[c]) \in [Clients -> BOOLEAN]
      BY <1>0, TypeBehind
    <3> QED BY <1>3, <3>1 DEF SaveAnswered, SaveUnanswered, NoLonger
  <2>3. CASE page[d] \in {"work", "profile"} /\ who[d] = who[c]
    <3>1. users' # users => behind'[d]
      BY <1>2, <2>2, <2>3 DEF UsesLogin
    <3> QED BY <1>0, <1>1, <1>2, <2>1, <2>2, <3>1, FreshKept
  <2>4. CASE page[d] \notin {"work", "profile"}
    BY <2>1, <2>4 DEF Fresh
  <2>5. CASE who[d] # who[c]
    BY <1>0, <1>1, <1>2, <2>1, <2>2, <2>5, FreshKept
  <2> QED BY <2>3, <2>4, <2>5
<1>4. CASE SaveUnanswered(c) /\ d = c
  BY <1>0, <1>4, EndsFacts DEF SaveUnanswered, Fresh
<1> QED BY <1>3, <1>4

LEMMA FreshStep ==
    ASSUME FormsInv, [Next]_vars, NEW d \in Clients
    PROVE  Fresh(d)'
<1>0. TypeOK /\ Fresh(d)
  BY DEF FormsInv
<1>1. CASE /\ users' = users /\ behind'[d] = behind[d]
           /\ page'[d] \in {"work", "profile"} => page[d] \in {"work", "profile"}
           /\ who'[d] = who[d] /\ copy'[d] = copy[d]
  BY <1>0, <1>1, FreshKept
<1>2. CASE page'[d] \notin {"work", "profile"}
  BY <1>2 DEF Fresh
<1>3. CASE UNCHANGED vars \/ Disconnect \/ \E c \in Clients : Connect(c)
  BY <1>1, <1>3 DEF vars, data, ghosts, Disconnect, Connect
<1>4. ASSUME NEW c \in Clients, Exit(c) \/ EnterUnanswered(c) PROVE Fresh(d)'
  <2>1. UNCHANGED <<users, behind>>
    BY <1>4 DEF Exit, EnterUnanswered, ghosts
  <2>2. CASE d = c
    BY <1>0, <1>2, <1>4, <2>2, EndsFacts DEF Exit, EnterUnanswered
  <2>3. CASE d # c
    BY <1>0, <1>1, <1>4, <2>1, <2>3, EndsFacts DEF Exit, EnterUnanswered
  <2> QED BY <2>2, <2>3
<1>5. ASSUME NEW c \in Clients, FormStep(c) PROVE Fresh(d)'
  <2>1. CASE \E m \in Mails \cup {Wide} : CreateAnswered(c, m) \/ CreateUnanswered(c, m)
    BY <2>1, FreshCreate
  <2>2. CASE Register(c)
    <3>1. UNCHANGED <<users, page, copy, behind>>
      BY <2>2 DEF Register
    <3>2. page[c] \notin {"work", "profile"} /\ (d # c => who'[d] = who[d])
      BY <1>0, <2>2 DEF TypeOK, Register, Idle
    <3> QED BY <1>1, <1>2, <3>1, <3>2
  <2>3. CASE \/ OpenRegister(c) \/ CloseRegister(c)
             \/ \E t \in LoginText : LeaveLogin(c, t)
             \/ \E t \in NameText : LeaveName(c, t)
             \/ \E t \in Typed : LeavePassword(c, t) \/ LeaveConfirm(c, t)
    <3>1. UNCHANGED <<users, who, copy, behind>>
      BY <2>3 DEF OpenRegister, CloseRegister, LeaveLogin, LeaveName, LeavePassword,
         LeaveConfirm, data, ghosts
    <3>2. page'[d] = page[d] \/ page'[d] \in {"login", "register"}
      BY <1>0, <2>3 DEF TypeOK, OpenRegister, CloseRegister, LeaveLogin, LeaveName,
         LeavePassword, LeaveConfirm
    <3> QED BY <1>1, <1>2, <3>1, <3>2
  <2> QED BY <1>5, <2>1, <2>2, <2>3 DEF FormStep
<1>6. ASSUME NEW c \in Clients, SessionStep(c) PROVE Fresh(d)'
  <2>1. CASE \E l \in LoginText : SignIn(c, l)
    <3>1. UNCHANGED <<users, page, copy, behind>>
      BY <2>1 DEF SignIn
    <3>2. page[c] \notin {"work", "profile"} /\ (d # c => who'[d] = who[d])
      BY <1>0, <2>1 DEF TypeOK, SignIn, Idle
    <3> QED BY <1>1, <1>2, <3>1, <3>2
  <2>2. CASE Enter(c)
    <3>1. UNCHANGED <<users, who>> /\ who[c] \in DOMAIN users
      BY <2>2 DEF Enter
    <3>2. copy'[c] = CopyOf(who[c])
      BY <1>0, <2>2 DEF TypeOK, Enter
    <3>3. d # c => page'[d] = page[d] /\ copy'[d] = copy[d] /\ behind'[d] = behind[d]
      BY <1>0, <2>2 DEF TypeOK, Enter
    <3>4. Fresh(c)'
      BY <3>1, <3>2 DEF Fresh, CopyOf
    <3> QED BY <1>1, <3>1, <3>3, <3>4
  <2>3. CASE Logout(c)
    <3>1. users' = users /\ page'[c] = "login"
      BY <1>0, <2>3 DEF TypeOK, Logout
    <3>2. d # c => /\ page'[d] = page[d] /\ copy'[d] = copy[d] /\ who'[d] = who[d]
                   /\ behind'[d] = behind[d]
      BY <1>0, <2>3 DEF TypeOK, Logout, NoLonger
    <3> QED BY <1>1, <1>2, <3>1, <3>2
  <2>4. CASE ReInitialise(c)
    BY <2>4 DEF ReInitialise, Fresh
  <2>5. CASE SaveAnswered(c) \/ SaveUnanswered(c)
    BY <2>5, FreshSave
  <2>6. CASE \/ OpenProfile(c) \/ CloseProfile(c)
             \/ \E t \in NameText : EditProfile(c, "name", t)
             \/ \E t \in MailText : EditProfile(c, "mail", t)
    <3>1. UNCHANGED <<users, who, copy, behind>>
      BY <2>6 DEF OpenProfile, CloseProfile, EditProfile, ghosts
    <3>2. page'[d] \in {"work", "profile"} => page[d] \in {"work", "profile"}
      BY <1>0, <2>6 DEF TypeOK, OpenProfile, CloseProfile, EditProfile, Idle
    <3> QED BY <1>1, <3>1, <3>2
  <2> QED BY <1>4, <1>6, <2>1, <2>2, <2>3, <2>4, <2>5, <2>6 DEF SessionStep
<1>7. ASSUME NEW c \in Clients, Exit(c) PROVE Fresh(d)'
  BY <1>4, <1>7
<1> QED BY <1>3, <1>5, <1>6, <1>7 DEF Next

-----------------------------------------------------------------------------
(* Theorems *)

LEMMA InvStep == FormsInv /\ [Next]_vars => FormsInv'
<1> SUFFICES ASSUME FormsInv, [Next]_vars PROVE FormsInv'
  OBVIOUS
<1>1. TypeOK'
  BY TypeStep DEF FormsInv
<1> QED BY <1>1, OwnStep, AlignedStep, SoundStep, ShownStep, FreshStep DEF FormsInv

LEMMA FormsInvariant == Spec => []FormsInv
<1> QED BY InvInit, InvStep, PTL DEF Spec

\* Nobody is at work in an account that another person made, unless no answer told the
\* client that the login was free or the login may have been taken since; for any
\* number of clients, although the form goes on to the login after a failed createUser.
THEOREM FormsOwnAccount == Spec => []OnlyOwnAccount
<1>1. FormsInv => OnlyOwnAccount
  BY DEF FormsInv, Own, UsesLogin, OnlyOwnAccount
<1> QED BY <1>1, FormsInvariant, PTL

LEMMA NewRowStep ==
    ASSUME FormsInv, [Next]_vars
    PROVE  \A l \in DOMAIN users' \ DOMAIN users :
               l # Refused /\ users'[l].name # Refused
<1> SUFFICES ASSUME NEW l \in DOMAIN users' \ DOMAIN users
             PROVE  l # Refused /\ users'[l].name # Refused
  OBVIOUS
<1>0. TypeOK
  BY DEF FormsInv
<1>1. ASSUME NEW c \in Clients, NEW m \in Mails \cup {Wide},
             CreateAnswered(c, m) \/ CreateUnanswered(c, m)
      PROVE  l # Refused /\ users'[l].name # Refused
  <2>1. CanCreate(form[c].login, m) /\ Created(c, m)
    BY <1>1 DEF CreateAnswered, CreateUnanswered
  <2>2. l = form[c].login /\ users'[l] = Row(c, m)
    BY <1>0, <2>1, CreatedFacts
  <2>3. checked[c] = Fields
    BY <1>1 DEF FormsInv, Aligned, CreateAnswered, CreateUnanswered
  <2>4. form[c].login # Refused /\ form[c].name # Refused
    BY <2>3 DEF FormsInv, Sound, Fields
  <2> QED BY <2>2, <2>4 DEF Row
<1>2. ASSUME NEW c \in Clients, SaveAnswered(c) \/ SaveUnanswered(c) PROVE FALSE
  <2>1. who[c] \in LoginText /\ profile[c].text \in Texts
    BY <1>0, TypeSaved
  <2>2. CASE Changed(who[c], profile[c].text)
    BY <1>0, <2>1, <2>2, ChangedFacts
  <2>3. CASE UNCHANGED users
    BY <2>3
  <2> QED BY <1>2, <2>2, <2>3 DEF SaveAnswered, SaveUnanswered
<1>3. ASSUME NEW c \in Clients, ReInitialise(c) PROVE FALSE
  BY <1>3, NoRows DEF ReInitialise
<1>4. users' # users
  OBVIOUS
<1>5. PICK c \in Clients : Exit(c) \/ FormStep(c) \/ SessionStep(c)
  BY <1>4 DEF Next, vars, Disconnect, Connect
<1>6. FormStep(c)
  <2>1. CASE SessionStep(c)
    BY <1>2, <1>3, <1>4, <2>1 DEF SessionStep, SignIn, Enter, EnterUnanswered, Logout,
       OpenProfile, CloseProfile, EditProfile
  <2>2. CASE Exit(c)
    BY <1>4, <2>2 DEF Exit
  <2> QED BY <1>5, <2>1, <2>2
<1>7. PICK m \in Mails \cup {Wide} : CreateAnswered(c, m) \/ CreateUnanswered(c, m)
  BY <1>4, <1>6 DEF FormStep, OpenRegister, CloseRegister, LeaveLogin, LeaveName,
     LeavePassword, LeaveConfirm, Register
<1> QED BY <1>1, <1>7

\* A login or a name that its check refused never gets into the database.
THEOREM FormsRegisteredAsChecked == Spec => RegisteredAsChecked
<1>1. FormsInv /\ [Next]_vars =>
          [\A l \in DOMAIN users' \ DOMAIN users :
               l # Refused /\ users'[l].name # Refused]_vars
  BY NewRowStep
<1> QED BY <1>1, FormsInvariant, PTL DEF Spec, RegisteredAsChecked

\* A row that was there is changed by nothing but a save.
LEMMA OldRowStep ==
    ASSUME FormsInv, [Next]_vars, NEW l \in DOMAIN users \cap DOMAIN users',
           users'[l] # users[l]
    PROVE  \E c \in Clients :
               /\ SaveAnswered(c) \/ SaveUnanswered(c)
               /\ Changed(who[c], profile[c].text)
<1>0. TypeOK
  BY DEF FormsInv
<1>1. users' # users
  OBVIOUS
<1>2. PICK c \in Clients : Exit(c) \/ FormStep(c) \/ SessionStep(c)
  BY <1>1 DEF Next, vars, Disconnect, Connect
<1>3. ASSUME NEW m \in Mails \cup {Wide}, CreateAnswered(c, m) \/ CreateUnanswered(c, m)
      PROVE  FALSE
  <2>1. CanCreate(form[c].login, m) /\ Created(c, m)
    BY <1>1, <1>3 DEF CreateAnswered, CreateUnanswered
  <2> QED BY <1>0, <2>1, CreatedFacts
<1>4. ~ReInitialise(c)
  BY NoRows DEF ReInitialise
<1>5. ~Exit(c)
  BY <1>1 DEF Exit
<1>6. ~FormStep(c)
  BY <1>1, <1>3 DEF FormStep, OpenRegister, CloseRegister, LeaveLogin, LeaveName,
     LeavePassword, LeaveConfirm, Register
<1>7. SaveAnswered(c) \/ SaveUnanswered(c)
  BY <1>1, <1>2, <1>4, <1>5, <1>6 DEF SessionStep, SignIn, Enter, EnterUnanswered, Logout,
     OpenProfile, CloseProfile, EditProfile
<1> QED BY <1>1, <1>7 DEF SaveAnswered, SaveUnanswered

LEMMA SavedRowStep ==
    ASSUME FormsInv, [Next]_vars, NEW l \in DOMAIN users \cap DOMAIN users', NEW f \in Columns,
           users'[l][f] # users[l][f]
    PROVE  \E c \in Clients : /\ who[c] = l /\ profile'[c] # profile[c]
                              /\ f \in profile[c].touched \/ behind[c]
<1>0. TypeOK
  BY DEF FormsInv
<1>1. PICK c \in Clients : /\ SaveAnswered(c) \/ SaveUnanswered(c)
                           /\ Changed(who[c], profile[c].text)
  BY OldRowStep
<1>2. who[c] \in LoginText /\ profile[c].text \in Texts
  BY <1>0, TypeSaved
<1>3. /\ \A k \in DOMAIN users : k # who[c] => users'[k] = users[k]
      /\ users' = users \/ (users'[who[c]].name = profile[c].text.name
                            /\ users'[who[c]].mail = profile[c].text.mail)
  BY <1>0, <1>1, <1>2, ChangedFacts
<1>4. who[c] = l
  BY <1>3
<1>5. users'[l][f] = profile[c].text[f]
  BY <1>3, <1>4 DEF Columns
<1>6. profile'[c] # profile[c]
  <2>1. profile \in [Clients -> Profile] /\ profile[c].changed # {}
    BY <1>0, <1>1 DEF TypeOK, SaveAnswered, SaveUnanswered, CanSave
  <2>2. profile'[c].changed = {}
    <3>1. CASE SaveAnswered(c)
      BY <2>1, <3>1 DEF SaveAnswered, Profile
    <3>2. CASE SaveUnanswered(c)
      <4>1. profile'[c] = Unfilled
        BY <1>0, <3>2, EndsFacts DEF SaveUnanswered
      <4>2. Unfilled.changed = {}
        BY DEF Unfilled
      <4> QED BY <4>1, <4>2
    <3> QED BY <1>1, <3>1, <3>2
  <2> QED BY <2>1, <2>2
<1>7. ASSUME f \notin profile[c].touched, ~behind[c] PROVE FALSE
  <2>1. page[c] = "profile"
    BY <1>1 DEF SaveAnswered, SaveUnanswered, CanSave, Idle
  <2>2. profile[c].text[f] = copy[c][f]
    BY <1>7, <2>1 DEF FormsInv, Shown
  <2>3. CopyOf(l) = copy[c]
    BY <1>4, <1>7, <2>1 DEF FormsInv, Fresh
  <2>4. CopyOf(l)[f] = users[l][f]
    BY DEF CopyOf, Columns
  <2> QED BY <1>5, <2>2, <2>3, <2>4
<1> QED BY <1>4, <1>6, <1>7

\* A save, which sends every column, changes only what the user edited since the form
\* was opened, unless the row was saved after the login.
THEOREM FormsSavesOnlyEdited == Spec => SavesOnlyEdited
<1>1. FormsInv /\ [Next]_vars =>
          [\A l \in DOMAIN users \cap DOMAIN users' : \A f \in Columns :
               users'[l][f] # users[l][f] =>
                   \E c \in Clients : /\ who[c] = l /\ profile'[c] # profile[c]
                                      /\ f \in profile[c].touched \/ behind[c]]_vars
  BY SavedRowStep
<1> QED BY <1>1, FormsInvariant, PTL DEF Spec, SavesOnlyEdited
=============================================================================
