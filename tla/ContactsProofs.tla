--------------------------- MODULE ContactsProofs ---------------------------
(***************************************************************************)
(* Proofs about the contacts page: what TLC checks for two contacts        *)
(* holds for any contacts, any copy of them and any number of chats.       *)
(***************************************************************************)
EXTENDS Contacts, SequenceTheorems, TLAPS

\* Induction over lists.  (The part of Lemmas about the database is not used.)
Data == INSTANCE Lemmas

\* No contact has two rows.
OneRowEach(rs) == \A i, j \in DOMAIN rs : rs[i].login = rs[j].login => i = j

\* Every row has the flag the database has.
AsInDatabase(rs) == \A i \in DOMAIN rs : rs[i].active = active[rs[i].login]

\* The rows q are those of the contacts in who among the first n.
RowsOfFirst(q, n, who) ==
    /\ AsInDatabase(q) /\ OneRowEach(q)
    /\ \A i \in DOMAIN q : \E j \in 1 .. n : q[i].login = Contacts[j]
    /\ \A j \in 1 .. n : Contacts[j] \in who => \E i \in DOMAIN q : q[i].login = Contacts[j]

\* The step of RowsFor: the rows q and that of contact k, if it is asked for.
AndRow(who, q, k) == IF Contacts[k] \in who THEN Append(q, RowOf(Contacts[k])) ELSE q

\* A row made from the database is a row, of the contact it was asked for, and no
\* contact is in the order of the ids twice.
LEMMA RowIsRow ==
    ASSUME active \in [Logins -> BOOLEAN]
    PROVE  /\ Contacts \in Seq(Logins)
           /\ DOMAIN Contacts = 1 .. Len(Contacts) /\ Len(Contacts) \in Nat
           /\ \A i, j \in 1 .. Len(Contacts) : Contacts[i] = Contacts[j] => i = j
           /\ \A i \in 1 .. Len(Contacts) : /\ RowOf(Contacts[i]) \in Row
                                            /\ RowOf(Contacts[i]).login = Contacts[i]
                                            /\ RowOf(Contacts[i]).active = active[Contacts[i]]
<1>1. Contacts \in Seq(STRING \ {""}) /\ IsInjective(Contacts)
  BY ContactsAssumption
<1>2. /\ Contacts \in [1 .. Len(Contacts) -> STRING \ {""}]
      /\ Len(Contacts) \in Nat /\ DOMAIN Contacts = 1 .. Len(Contacts)
  BY <1>1, LenProperties
<1>3. \A i \in 1 .. Len(Contacts) : Contacts[i] \in Logins
  BY <1>2 DEF Logins, ToSet
<1>4. Contacts \in [1 .. Len(Contacts) -> Logins]
  BY <1>2, <1>3
<1>5. Contacts \in Seq(Logins)
  BY <1>2, <1>4, Data!FunctionIsSeq
<1>6. \A i, j \in 1 .. Len(Contacts) : Contacts[i] = Contacts[j] => i = j
  BY <1>1, <1>2 DEF IsInjective
<1>7. \A i \in 1 .. Len(Contacts) : /\ RowOf(Contacts[i]) \in Row
                                    /\ RowOf(Contacts[i]).login = Contacts[i]
                                    /\ RowOf(Contacts[i]).active = active[Contacts[i]]
  BY <1>3 DEF RowOf, Row
<1>. QED BY <1>2, <1>5, <1>6, <1>7

\* What the server answers, findUsersByPart or the data of a login, is one row for each
\* contact that was asked for, as the database has it.
LEMMA RowsForRows ==
    ASSUME active \in [Logins -> BOOLEAN], NEW who \in SUBSET Logins
    PROVE  /\ RowsFor(who) \in Seq(Row)
           /\ AsInDatabase(RowsFor(who)) /\ OneRowEach(RowsFor(who))
<1> DEFINE n == Len(Contacts)
           f == CHOOSE g : g = [k \in 0 .. n |->
                   IF k = 0 THEN <<>>
                   ELSE IF Contacts[k] \in who THEN Append(g[k - 1], RowOf(Contacts[k]))
                   ELSE g[k - 1]]
           step == [k \in 1 .. n |-> [q \in Seq(Row) |-> AndRow(who, q, k)]]
<1>1. RowsFor(who) = f[n]
  BY Zenon DEF RowsFor
<1>2. n \in Nat /\ \A k \in 1 .. n : RowOf(Contacts[k]) \in Row
  BY RowIsRow
<1>3. step \in [1 .. n -> [Seq(Row) -> Seq(Row)]]
  BY <1>2, AppendProperties DEF AndRow
<1>4. \A q \in Seq(Row), k \in 1 .. n : step[k][q] = AndRow(who, q, k)
  OBVIOUS
<1>. HIDE DEF step, n
<1>5. \E g : g = [k \in 0 .. n |->
                   IF k = 0 THEN <<>>
                   ELSE IF Contacts[k] \in who THEN Append(g[k - 1], RowOf(Contacts[k]))
                   ELSE g[k - 1]]
  <2>1. PICK g : Data!IsRecursive(g, Seq(Row), n, <<>>, step)
    <3>1. <<>> \in Seq(Row)
      BY EmptySeq
    <3>. QED BY <1>2, <1>3, <3>1, Data!Recursion, Zenon
  <2>2. \A k \in 1 .. n : k - 1 \in 0 .. n
    BY <1>2
  <2>3. \A k \in 1 .. n : g[k] = AndRow(who, g[k - 1], k)
    BY <1>4, <2>1, <2>2 DEF Data!IsRecursive
  <2>5. \A k \in 0 .. n : g[k] = IF k = 0 THEN <<>> ELSE AndRow(who, g[k - 1], k)
    <3>1. \A k \in 0 .. n : k = 0 \/ (k \in 1 .. n /\ k # 0)
      BY <1>2
    <3>. QED BY <2>1, <2>3, <3>1, Zenon DEF Data!IsRecursive
  <2>4. g = [k \in 0 .. n |-> IF k = 0 THEN <<>> ELSE AndRow(who, g[k - 1], k)]
    BY <2>1, <2>5, Zenon DEF Data!IsRecursive
  <2>. QED BY <2>4, Zenon DEF AndRow
<1>6. f = [k \in 0 .. n |-> IF k = 0 THEN <<>> ELSE AndRow(who, f[k - 1], k)]
  BY <1>5, Zenon DEF AndRow
<1>. HIDE DEF f
<1>7. f[0] = <<>> /\ \A k \in 0 .. n : k + 1 \in 0 .. n => f[k + 1] = AndRow(who, f[k], k + 1)
  <2>1. 0 \in 0 .. n /\ \A k \in 0 .. n : k + 1 # 0 /\ k + 1 - 1 = k
    BY <1>2
  <2>2. \A k \in 0 .. n : /\ k = 0 => f[k] = <<>>
                          /\ k # 0 => f[k] = AndRow(who, f[k - 1], k)
    BY <1>6, Zenon
  <2>3. f[0] = <<>>
    BY <2>1, <2>2, Zenon
  <2>4. ASSUME NEW k \in 0 .. n, k + 1 \in 0 .. n PROVE f[k + 1] = AndRow(who, f[k], k + 1)
    <3> DEFINE j == k + 1
    <3>1. j \in 0 .. n /\ j # 0 /\ j - 1 = k
      BY <2>1, <2>4
    <3>. HIDE DEF j
    <3>2. f[j] = AndRow(who, f[j - 1], j)
      BY <2>2, <3>1, Zenon
    <3>3. f[j] = AndRow(who, f[k], j)
      BY <3>1, <3>2, Zenon
    <3>. QED BY <3>3 DEF j
  <2>. QED BY <2>3, <2>4
<1> DEFINE T == {k \in Nat : k <= n => f[k] \in Seq(Row) /\ RowsOfFirst(f[k], k, who)}
<1>8. 0 \in T
  <2>1. <<>> \in Seq(Row) /\ DOMAIN <<>> = {}
    BY EmptySeq
  <2>2. RowsOfFirst(<<>>, 0, who)
    BY <2>1 DEF RowsOfFirst, AsInDatabase, OneRowEach
  <2>. QED BY <1>7, <2>1, <2>2
<1>9. ASSUME NEW k \in Nat, k \in T PROVE k + 1 \in T
  <2>. SUFFICES ASSUME k + 1 <= n
                PROVE  f[k + 1] \in Seq(Row) /\ RowsOfFirst(f[k + 1], k + 1, who)
    OBVIOUS
  <2>1. k \in 0 .. n /\ k + 1 \in 1 .. n /\ k + 1 \in 0 .. n
    BY <1>2
  <2>2. f[k] \in Seq(Row) /\ RowsOfFirst(f[k], k, who) /\ f[k + 1] = AndRow(who, f[k], k + 1)
    BY <1>7, <1>9, <2>1
  <2> DEFINE q == f[k]
             r == f[k + 1]
             row == RowOf(Contacts[k + 1])
  <2>3. CASE Contacts[k + 1] \notin who
    <3>1. r = q
      BY <2>2, <2>3 DEF AndRow
    <3>. QED BY <2>1, <2>2, <2>3, <3>1 DEF RowsOfFirst
  <2>4. CASE Contacts[k + 1] \in who
    <3>1. r = Append(q, row) /\ row \in Row /\ q \in Seq(Row)
      BY <1>2, <2>1, <2>2, <2>4 DEF AndRow
    <3>2. /\ r \in Seq(Row) /\ Len(q) \in Nat
          /\ DOMAIN q = 1 .. Len(q) /\ DOMAIN r = 1 .. Len(q) + 1
          /\ \A i \in DOMAIN q : r[i] = q[i]
          /\ r[Len(q) + 1] = row
      BY <3>1, AppendProperties
    <3>3. row.login = Contacts[k + 1] /\ row.active = active[Contacts[k + 1]]
      BY <2>1, RowIsRow DEF n
    <3>4. \A i \in DOMAIN q : r[i].login # row.login
      <4>1. ASSUME NEW i \in DOMAIN q PROVE r[i].login # row.login
        <5>1. PICK j \in 1 .. k : q[i].login = Contacts[j]
          BY <2>2 DEF RowsOfFirst
        <5>2. Contacts[j] # Contacts[k + 1]
          BY <2>1, RowIsRow DEF n
        <5>. QED BY <3>2, <3>3, <5>1, <5>2
      <4>. QED BY <4>1
    <3>5. \A i \in DOMAIN r : i \in DOMAIN q \/ i = Len(q) + 1
      BY <3>2
    <3>. HIDE DEF q, r, row
    <3>6. AsInDatabase(r)
      BY <2>2, <3>2, <3>3, <3>5, SMTT(40) DEF RowsOfFirst, AsInDatabase, q
    <3>7. OneRowEach(r)
      <4>1. OneRowEach(q)
        BY <2>2 DEF RowsOfFirst, q
      <4>. QED BY <3>2, <3>4, <3>5, <4>1 DEF OneRowEach
    <3>8. \A i \in DOMAIN r : \E j \in 1 .. k + 1 : r[i].login = Contacts[j]
      <4>1. \A i \in DOMAIN q : \E j \in 1 .. k : q[i].login = Contacts[j]
        BY <2>2 DEF RowsOfFirst, q
      <4>. QED BY <3>2, <3>3, <3>5, <4>1
    <3>9. \A j \in 1 .. k + 1 : Contacts[j] \in who => \E i \in DOMAIN r : r[i].login = Contacts[j]
      <4>1. \A j \in 1 .. k : Contacts[j] \in who => \E i \in DOMAIN q : q[i].login = Contacts[j]
        BY <2>2 DEF RowsOfFirst, q
      <4>2. DOMAIN q \subseteq DOMAIN r /\ Len(q) + 1 \in DOMAIN r
        BY <3>2
      <4>3. \A j \in 1 .. k + 1 : j \in 1 .. k \/ j = k + 1
        OBVIOUS
      <4>. QED BY <3>2, <3>3, <4>1, <4>2, <4>3
    <3>. QED BY <3>2, <3>6, <3>7, <3>8, <3>9 DEF RowsOfFirst, r
  <2>. QED BY <2>3, <2>4
<1>. HIDE DEF T
<1>10. n \in T
  BY <1>2, <1>8, <1>9, Data!NatInSet
<1>11. f[n] \in Seq(Row) /\ RowsOfFirst(f[n], n, who)
  BY <1>2, <1>10 DEF T
<1>. QED BY <1>1, <1>11 DEF RowsOfFirst

-----------------------------------------------------------------------------
(* What is added to the properties to make them inductive.                 *)

\* What a search has found is shown once.
FoundOnce == text => OneRowEach(rows)

\* While a row is selected the form is that of the row; else it has no buttons, unless
\* there is no row to select.
FormFollows == /\ current # 0 => form.row = current /\ form.login = rows[current].login
               /\ current = 0 /\ rows # <<>> => form.buttons = {}

\* While participants are being chosen nobody can be blocked: the buttons are
\* disabled once when the choice starts, and every selection must keep them so.
NoBlockingMeanwhile == panel => form.buttons = {}

\* The panel is there as long as the mode, and the mode as long as "made".
PanelIsMode == panel = mode /\ (made => mode) /\ (mode => tab = "contacts")

\* Names and picks are added together.
NamesArePicks == /\ mode /\ ~edited => ToSet(names) = LoginsOf(picked)
                 /\ made => offered = ToSet(names)

\* The inductive invariant.
ContactsInv == /\ TypeOK
               /\ FoundOnce
               /\ FormFollows
               /\ NoBlockingMeanwhile
               /\ PanelIsMode
               /\ NamesArePicks
               /\ FoundIsCurrent

-----------------------------------------------------------------------------
(* The form, the list and the picks                                        *)

\* The rows of a list, one by one.
LEMMA RowsAreRows ==
    ASSUME NEW rs \in Seq(Row)
    PROVE  /\ DOMAIN rs = 1 .. Len(rs) /\ Len(rs) \in Nat
           /\ \A i \in DOMAIN rs : rs[i] \in Row /\ rs[i].login \in Logins /\ rs[i].active \in BOOLEAN
<1>1. /\ DOMAIN rs = 1 .. Len(rs) /\ Len(rs) \in Nat
      /\ \A i \in DOMAIN rs : rs[i] \in Row
  BY LenProperties, ElementOfSeq
<1>. QED BY <1>1 DEF Row

\* setUserDataToLabels shows the contact of the row, and no button while participants
\* are being chosen.
LEMMA FormForRow ==
    ASSUME NEW rs \in Seq(Row), NEW i \in Nat, NEW choosing \in BOOLEAN
    PROVE  /\ FormFor(rs, i, choosing) \in Form
           /\ FormFor(rs, i, choosing).row = i
           /\ i \in DOMAIN rs => FormFor(rs, i, choosing).login = rs[i].login
           /\ choosing => FormFor(rs, i, choosing).buttons = {}
<1>1. i \in DOMAIN rs => rs[i].login \in Logins /\ rs[i].active \in BOOLEAN
  BY RowsAreRows
<1> DEFINE login == IF i \in DOMAIN rs THEN rs[i].login ELSE ""
           on == i \in DOMAIN rs /\ rs[i].active
           buttons == CASE choosing -> {} [] ~choosing /\ on -> {"block"}
                        [] ~choosing /\ ~on -> {"unblock"}
<1>2. FormFor(rs, i, choosing) = [login |-> login, row |-> i, buttons |-> buttons]
  BY DEF FormFor
<1>3. login \in Logins \cup {""}
  BY <1>1
<1>4. buttons \in SUBSET {"block", "unblock"} /\ (choosing => buttons = {})
  <2>1. CASE choosing
    BY <2>1
  <2>2. CASE ~choosing /\ on
    BY <2>2
  <2>3. CASE ~choosing /\ ~on
    BY <2>3
  <2>. QED BY <2>1, <2>2, <2>3
<1>5. i \in DOMAIN rs => login = rs[i].login
  OBVIOUS
<1> DEFINE shown == FormFor(rs, i, choosing)
<1>. HIDE DEF buttons, login
<1>6. shown.login = login /\ shown.row = i /\ shown.buttons = buttons
  BY <1>2
<1>7. shown \in Form
  <2>1. [login |-> login, row |-> i, buttons |-> buttons] \in Form
    BY <1>3, <1>4 DEF Form
  <2>. QED BY <1>2, <2>1, Zenon
<1>. HIDE DEF shown
<1>8. shown \in Form /\ shown.row = i /\ (i \in DOMAIN rs => shown.login = rs[i].login)
  BY <1>5, <1>6, <1>7
<1>9. choosing => shown.buttons = {}
  BY <1>4, <1>6
<1>. QED BY <1>8, <1>9 DEF shown

\* A list that is filled anew from a copy k, and the form of its first row, or the form f
\* as it was if there is no row.
LEMMA CopyShown ==
    ASSUME NEW k \in Seq(Row), NEW f \in Form, NEW choosing \in BOOLEAN,
           choosing => f.buttons = {}, ShowCopy(k, f, choosing)
    PROVE  /\ rows' = k /\ doubtful' = {}
           /\ current' \in DOMAIN k \cup {0} /\ (current' = 0 => k = <<>>)
           /\ form' \in Form
           /\ current' # 0 => form'.row = current' /\ form'.login = k[current'].login
           /\ choosing => form'.buttons = {}
<1>1. CASE k = <<>>
  BY <1>1 DEF ShowCopy
<1>2. CASE k # <<>>
  <2>1. 1 \in DOMAIN k
    BY <1>2, EmptySeq, LenProperties
  <2>2. rows' = k /\ doubtful' = {} /\ current' = 1 /\ form' = FormFor(k, 1, choosing)
    BY <1>2 DEF ShowCopy
  <2>3. 1 \in Nat
    OBVIOUS
  <2>. QED BY <2>1, <2>2, <2>3, FormForRow
<1>. QED BY <1>1, <1>2

\* slotCancelNewChat, also after the chat was sent, leaves the mode and the panel, and
\* shows the first row if there is one, of the copy k if a search was under way.
LEMMA ClosedShown ==
    ASSUME ContactsInv, NEW k \in Seq(Row), Closed(k)
    PROVE  /\ ~panel' /\ ~made' /\ ~mode' /\ ~text'
           /\ {panel', made', mode', text'} \subseteq BOOLEAN /\ names' = <<>>
           /\ rows' \in Seq(Row)
           /\ current' \in DOMAIN rows' \cup {0} /\ (current' = 0 => rows' = <<>>)
           /\ form' \in Form
           /\ current' # 0 => form'.row = current' /\ form'.login = rows'[current'].login
           /\ doubtful' \subseteq Logins
<1> DEFINE f == IF rows # <<>> /\ current # 1 THEN FormFor(rows, 1, FALSE)
                ELSE [form EXCEPT !.buttons = @ \cup {"block"}]
           no == FALSE
<1>1. /\ ~panel' /\ ~made' /\ ~mode' /\ ~text'
      /\ {panel', made', mode', text'} \subseteq BOOLEAN /\ names' = <<>>
  BY DEF Closed
<1>2. /\ rows \in Seq(Row) /\ doubtful \subseteq Logins /\ form \in Form
      /\ text \in BOOLEAN /\ no \in BOOLEAN
  BY DEF ContactsInv, TypeOK
<1>3. rows # <<>> => 1 \in DOMAIN rows
  BY <1>2, EmptySeq, LenProperties
<1>4. f \in Form /\ (rows # <<>> => f.row = 1 /\ f.login = rows[1].login)
  <2>1. CASE rows # <<>> /\ current # 1
    <3>1. f = FormFor(rows, 1, no) /\ 1 \in Nat
      BY <2>1
    <3>. HIDE DEF f, no
    <3>. QED BY <1>2, <1>3, <2>1, <3>1, FormForRow
  <2>2. CASE ~(rows # <<>> /\ current # 1)
    <3>1. f = [form EXCEPT !.buttons = @ \cup {"block"}]
      BY <2>2
    <3>2. f \in Form /\ f.row = form.row /\ f.login = form.login
      BY <1>2, <3>1, ZenonT(40) DEF Form
    <3>3. rows # <<>> => current = 1
      BY <2>2
    <3>4. current = 1 => form.row = 1 /\ form.login = rows[1].login
      BY DEF ContactsInv, FormFollows
    <3>. HIDE DEF f
    <3>. QED BY <3>2, <3>3, <3>4
  <2>. QED BY <2>1, <2>2
<1>5. CASE text
  <2>1. ShowCopy(k, f, no)
    BY <1>5 DEF Closed
  <2>. HIDE DEF f
  <2>2. no => f.buttons = {}
    OBVIOUS
  <2>. HIDE DEF no
  <2>. QED BY <1>1, <1>2, <1>4, <2>1, <2>2, CopyShown
<1>6. CASE ~text
  <2>1. form' = f /\ rows' = rows /\ doubtful' = doubtful
        /\ current' = IF rows = <<>> THEN 0 ELSE 1
    BY <1>6 DEF Closed
  <2>. HIDE DEF f
  <2>. QED BY <1>1, <1>2, <1>3, <1>4, <2>1
<1>. QED BY <1>2, <1>5, <1>6

\* The step of WithPicked: q, and pick n if q has no row of that contact.
AndPick(q, n) == IF picked[n].login \in LoginsOf(q) THEN q ELSE Append(q, picked[n])

\* The copy with the picks is a copy.
LEMMA WithPickedRows ==
    ASSUME picked \in Seq(Row), NEW c \in Seq(Row)
    PROVE  WithPicked(c) \in Seq(Row)
<1> DEFINE n == Len(picked)
           S == Seq(Row)
           f == CHOOSE g : g = [k \in 0 .. n |->
                   IF k = 0 THEN c
                   ELSE IF picked[k].login \in LoginsOf(g[k - 1]) THEN g[k - 1]
                   ELSE Append(g[k - 1], picked[k])]
           step == [k \in 1 .. n |-> [q \in S |-> AndPick(q, k)]]
<1>1. WithPicked(c) = f[n]
  BY Zenon DEF WithPicked
<1>2. n \in Nat /\ \A k \in 1 .. n : picked[k] \in Row
  BY LenProperties, ElementOfSeq
<1>3. \A k \in 1 .. n : \A q \in S : AndPick(q, k) \in S
  BY <1>2, AppendProperties DEF AndPick
<1>4. step \in [1 .. n -> [S -> S]] /\ \A k \in 1 .. n, q \in S : step[k][q] = AndPick(q, k)
  BY <1>3
<1>5. c \in S
  OBVIOUS
<1>. HIDE DEF step, n, S
<1>6. \E g : g = [k \in 0 .. n |->
                   IF k = 0 THEN c
                   ELSE IF picked[k].login \in LoginsOf(g[k - 1]) THEN g[k - 1]
                   ELSE Append(g[k - 1], picked[k])]
  <2>1. PICK g : Data!IsRecursive(g, S, n, c, step)
    BY <1>2, <1>4, <1>5, Data!Recursion, Zenon
  <2>2. \A k \in 0 .. n : k = 0 \/ (k \in 1 .. n /\ k # 0 /\ k - 1 \in 0 .. n)
    BY <1>2
  <2>3. \A k \in 1 .. n : k - 1 \in 0 .. n => g[k - 1] \in S
    BY <2>1 DEF Data!IsRecursive
  <2>4. \A k \in 0 .. n : g[k] = IF k = 0 THEN c ELSE AndPick(g[k - 1], k)
    BY <1>4, <2>1, <2>2, <2>3, Zenon DEF Data!IsRecursive
  <2>5. g = [k \in 0 .. n |-> IF k = 0 THEN c ELSE AndPick(g[k - 1], k)]
    BY <2>1, <2>4, Zenon DEF Data!IsRecursive
  <2>. QED BY <2>5, Zenon DEF AndPick
<1>7. f = [k \in 0 .. n |-> IF k = 0 THEN c ELSE AndPick(f[k - 1], k)]
  BY <1>6, Zenon DEF AndPick
<1>. HIDE DEF f
<1>8. \A k \in 0 .. n : /\ k = 0 => f[k] = c
                        /\ k # 0 => f[k] = AndPick(f[k - 1], k)
  BY <1>7, Zenon
<1> DEFINE T == {k \in Nat : k <= n => f[k] \in S}
<1>9. 0 \in T
  BY <1>2, <1>5, <1>8
<1>10. ASSUME NEW k \in Nat, k \in T PROVE k + 1 \in T
  <2>. SUFFICES ASSUME k + 1 <= n PROVE f[k + 1] \in S
    OBVIOUS
  <2> DEFINE j == k + 1
  <2>1. j \in 0 .. n /\ j \in 1 .. n /\ j # 0 /\ j - 1 = k /\ f[k] \in S
    BY <1>2, <1>10
  <2>. HIDE DEF j
  <2>2. f[j] = AndPick(f[j - 1], j)
    BY <1>8, <2>1, Zenon
  <2>3. f[j] \in S
    BY <1>3, <2>1, <2>2, Zenon
  <2>. QED BY <2>3 DEF j
<1>. HIDE DEF T
<1>11. n \in T
  BY <1>2, <1>9, <1>10, Data!NatInSet
<1>. QED BY <1>1, <1>2, <1>11 DEF T, S

\* A name is added together with its pick, and once.
LEMMA AddedTogether ==
    ASSUME TypeOK, NEW p \in Seq(Row)
    PROVE  /\ Added(p).picked \in Seq(Row)
           /\ Added(p).names \in Seq(Logins) /\ IsInjective(Added(p).names)
           /\ ToSet(names) = LoginsOf(p) => ToSet(Added(p).names) = LoginsOf(Added(p).picked)
<1>1. names \in Seq(Logins) /\ IsInjective(names) /\ rows \in Seq(Row)
  BY DEF TypeOK
<1>2. CASE current = 0 \/ ~rows[current].active \/ rows[current].login \in ToSet(names)
  <2>1. Added(p) = [picked |-> p, names |-> names]
    BY <1>2 DEF Added
  <2>2. Added(p).picked = p /\ Added(p).names = names
    BY <2>1
  <2>. QED BY <1>1, <2>2, Zenon
<1>3. CASE ~(current = 0 \/ ~rows[current].active \/ rows[current].login \in ToSet(names))
  <2> DEFINE row == rows[current]
             more == Append(p, row)
             named == Append(names, row.login)
  <2>1. Added(p) = [picked |-> more, names |-> named]
    BY <1>3 DEF Added
  <2>2. row \in Row /\ row.login \in Logins /\ row.login \notin ToSet(names)
    <3>1. row \in Row
      BY <1>1, <1>3, LenProperties, ElementOfSeq DEF TypeOK
    <3>. QED BY <1>3, <3>1 DEF Row
  <2>. HIDE DEF row
  <2>3. /\ more \in Seq(Row) /\ Len(p) \in Nat /\ DOMAIN p = 1 .. Len(p)
        /\ DOMAIN more = 1 .. Len(p) + 1
        /\ \A i \in DOMAIN p : more[i] = p[i]
        /\ more[Len(p) + 1] = row
    BY <2>2, AppendProperties, LenProperties
  <2>4. /\ named \in Seq(Logins) /\ Len(names) \in Nat /\ DOMAIN names = 1 .. Len(names)
        /\ DOMAIN named = 1 .. Len(names) + 1
        /\ \A i \in DOMAIN names : named[i] = names[i]
        /\ named[Len(names) + 1] = row.login
    BY <1>1, <2>2, AppendProperties, LenProperties
  <2>. HIDE DEF more, named
  <2>5. /\ \A i \in DOMAIN names : i \in DOMAIN named /\ named[i] # row.login
        /\ \A i \in DOMAIN named : i \in DOMAIN names \/ i = Len(names) + 1
    BY <2>2, <2>4 DEF ToSet
  <2>6. IsInjective(named)
    BY <1>1, <2>4, <2>5 DEF IsInjective
  <2>7. ToSet(named) = ToSet(names) \cup {row.login}
    BY <2>4, <2>5 DEF ToSet
  <2>8. LoginsOf(more) = LoginsOf(p) \cup {row.login}
    <3>1. /\ \A i \in DOMAIN p : i \in DOMAIN more
          /\ \A i \in DOMAIN more : i \in DOMAIN p \/ i = Len(p) + 1
      BY <2>3
    <3>. QED BY <2>3, <3>1 DEF LoginsOf
  <2>9. Added(p).picked = more /\ Added(p).names = named
    BY <2>1
  <2>10. more \in Seq(Row) /\ named \in Seq(Logins)
    BY <2>3, <2>4
  <2>11. ToSet(names) = LoginsOf(p) => ToSet(named) = LoginsOf(more)
    BY <2>7, <2>8
  <2>. QED BY <2>6, <2>9, <2>10, <2>11, Zenon
<1>. QED BY <1>2, <1>3

-----------------------------------------------------------------------------
(* Every step keeps the invariant.                                         *)

\* Opening the page of the contacts.
LEMMA OpenContactsKeeps ==
    ASSUME ContactsInv, OpenContacts
    PROVE  ContactsInv'
<1>. USE DEF choice
<1>1. /\ rows' = known /\ known \in Seq(Row) /\ doubtful' = {}
      /\ current' \in DOMAIN known \cup {0} /\ (current' = 0 => known = <<>>)
      /\ form' \in Form
      /\ current' # 0 => form'.row = current' /\ form'.login = known[current'].login
      /\ panel => form'.buttons = {}
  <2> DEFINE f == Cleared
  <2>1. known \in Seq(Row) /\ panel \in BOOLEAN /\ f \in Form /\ f.buttons = {}
    BY DEF ContactsInv, TypeOK, Cleared, Form
  <2>2. ShowCopy(known, f, panel)
    BY DEF OpenContacts
  <2>. HIDE DEF f
  <2>. QED BY <2>1, <2>2, CopyShown
<1>2. TypeOK'
  BY <1>1 DEF OpenContacts, ContactsInv, TypeOK
<1>3. FoundOnce' /\ FormFollows' /\ FoundIsCurrent'
  BY <1>1 DEF OpenContacts, ContactsInv, FoundOnce, FormFollows, FoundIsCurrent
<1>4. NoBlockingMeanwhile' /\ PanelIsMode' /\ NamesArePicks'
  BY <1>1 DEF OpenContacts, ContactsInv, NoBlockingMeanwhile, PanelIsMode,
         NamesArePicks, LoginsOf, ToSet
<1>. QED BY <1>2, <1>3, <1>4 DEF ContactsInv

\* Going back to the chats.
LEMMA OpenChatsKeeps ==
    ASSUME ContactsInv, OpenChats
    PROVE  ContactsInv'
<1>. USE DEF choice, list
<1>1. TypeOK'
  BY DEF OpenChats, ContactsInv, TypeOK
<1>2. FoundOnce' /\ FormFollows' /\ FoundIsCurrent'
  BY DEF OpenChats, ContactsInv, FoundOnce, FormFollows, FoundIsCurrent, OneRowEach
<1>3. NoBlockingMeanwhile' /\ PanelIsMode' /\ NamesArePicks'
  BY DEF OpenChats, ContactsInv, TypeOK, NoBlockingMeanwhile, PanelIsMode,
         NamesArePicks, LoginsOf, ToSet
<1>. QED BY <1>1, <1>2, <1>3 DEF ContactsInv

\* Selecting a row, which fills the form from it.
LEMMA SelectRowKeeps ==
    ASSUME ContactsInv, NEW i \in DOMAIN rows, SelectRow(i)
    PROVE  ContactsInv'
<1>. USE DEF choice
<1>1. /\ current' = i /\ i \in DOMAIN rows /\ i # 0
      /\ form' \in Form /\ form'.row = i /\ form'.login = rows[i].login
      /\ panel => form'.buttons = {}
  <2>1. rows \in Seq(Row) /\ panel \in BOOLEAN
    BY DEF ContactsInv, TypeOK
  <2>2. i \in Nat /\ i # 0
    BY <2>1, LenProperties
  <2>. QED BY <2>1, <2>2, FormForRow DEF SelectRow
<1>2. TypeOK'
  BY <1>1 DEF SelectRow, ContactsInv, TypeOK
<1>3. FoundOnce' /\ FormFollows' /\ FoundIsCurrent'
  BY <1>1 DEF SelectRow, ContactsInv, FoundOnce, FormFollows, FoundIsCurrent, OneRowEach
<1>4. NoBlockingMeanwhile' /\ PanelIsMode' /\ NamesArePicks'
  BY <1>1 DEF SelectRow, ContactsInv, NoBlockingMeanwhile, PanelIsMode,
         NamesArePicks, LoginsOf, ToSet
<1>. QED BY <1>2, <1>3, <1>4 DEF ContactsInv

\* Searching, which leaves no row selected and no button enabled.
LEMMA SearchKeeps ==
    ASSUME ContactsInv, NEW who \in SUBSET Logins, Search(who)
    PROVE  ContactsInv'
<1>. USE DEF choice
<1>1. rows' \in Seq(Row) /\ AsInDatabase(rows') /\ OneRowEach(rows')
  BY RowsForRows DEF Search, ContactsInv, TypeOK
<1>2. current' = 0 /\ form' \in Form /\ form'.buttons = {} /\ doubtful' = {} /\ text' = TRUE
  BY DEF Search, Cleared, ContactsInv, TypeOK, Form
<1>3. TypeOK'
  BY <1>1, <1>2 DEF Search, ContactsInv, TypeOK
<1>4. FoundOnce'
  BY <1>1, <1>2 DEF Search, ContactsInv, FoundOnce, OneRowEach
<1>5. FormFollows'
  BY <1>2 DEF FormFollows
<1>6. FoundIsCurrent'
  BY <1>1 DEF Search, FoundIsCurrent, AsInDatabase
<1>7. NoBlockingMeanwhile' /\ PanelIsMode' /\ NamesArePicks'
  BY <1>2 DEF Search, ContactsInv, NoBlockingMeanwhile, PanelIsMode,
         NamesArePicks, LoginsOf, ToSet
<1>. QED BY <1>3, <1>4, <1>5, <1>6, <1>7 DEF ContactsInv

\* Deleting the text of the search, which shows the copy again.
LEMMA EndSearchKeeps ==
    ASSUME ContactsInv, EndSearch
    PROVE  ContactsInv'
<1>. USE DEF choice
<1>1. /\ rows' = known /\ known \in Seq(Row) /\ doubtful' = {}
      /\ current' \in DOMAIN known \cup {0} /\ (current' = 0 => known = <<>>)
      /\ form' \in Form
      /\ current' # 0 => form'.row = current' /\ form'.login = known[current'].login
      /\ panel => form'.buttons = {}
  <2>1. /\ known \in Seq(Row) /\ panel \in BOOLEAN /\ form \in Form
        /\ panel => form.buttons = {}
    BY DEF ContactsInv, TypeOK, NoBlockingMeanwhile
  <2>2. ShowCopy(known, form, panel)
    BY DEF EndSearch
  <2>. QED BY <2>1, <2>2, CopyShown
<1>2. TypeOK'
  BY <1>1 DEF EndSearch, ContactsInv, TypeOK
<1>3. FoundOnce' /\ FormFollows' /\ FoundIsCurrent'
  BY <1>1 DEF EndSearch, ContactsInv, FoundOnce, FormFollows, FoundIsCurrent
<1>4. NoBlockingMeanwhile' /\ PanelIsMode' /\ NamesArePicks'
  BY <1>1, ZenonT(40) DEF EndSearch, ContactsInv, NoBlockingMeanwhile, PanelIsMode,
         NamesArePicks, LoginsOf, ToSet
<1>. QED BY <1>2, <1>3, <1>4 DEF ContactsInv

\* Blocking and unblocking: the row of the form and the flag in the database agree,
\* which takes that nobody is found twice, or the answer is lost.
LEMMA PressKeeps ==
    ASSUME ContactsInv, NEW button \in {"block", "unblock"}, Press(button)
    PROVE  ContactsInv'
<1>. USE DEF choice
<1> DEFINE flag == button = "unblock"
           login == form.login
<1>1. /\ flag \in BOOLEAN /\ login \in Logins /\ active' = [active EXCEPT ![login] = flag]
      /\ active' \in [Logins -> BOOLEAN] /\ active'[login] = flag
      /\ \A other \in Logins \ {login} : active'[other] = active[other]
  BY DEF Press, ContactsInv, TypeOK
<1>2. /\ rows \in Seq(Row) /\ current \in DOMAIN rows \cup {0} /\ current \in Nat
      /\ form.row \in Nat /\ ~panel /\ ~mode /\ ~made
      /\ DOMAIN rows = 1 .. Len(rows) /\ Len(rows) \in Nat
      /\ current = 0 => rows = <<>>
      /\ current # 0 => form.row = current /\ rows[current].login = login
  <2>1. form.buttons # {}
    BY DEF Press
  <2>2. rows \in Seq(Row) /\ current \in DOMAIN rows \cup {0} /\ form.row \in Nat
    BY DEF ContactsInv, TypeOK, Form
  <2>3. /\ ~panel /\ ~mode /\ ~made
        /\ current = 0 => rows = <<>>
        /\ current # 0 => form.row = current /\ form.login = rows[current].login
    BY <2>1 DEF ContactsInv, FormFollows, NoBlockingMeanwhile, PanelIsMode
  <2>. QED BY <2>2, <2>3, LenProperties
<1>3. \A i \in DOMAIN rows : rows[i] \in Row /\ rows[i].login \in Logins
  BY <1>2, RowsAreRows
<1>. HIDE DEF flag, login
<1>4. CASE rows' = WithFlag(flag) /\ form' = FormFor(rows', form.row, panel) /\ UNCHANGED doubtful
  <2>1. /\ DOMAIN rows' = DOMAIN rows
        /\ \A i \in DOMAIN rows : rows'[i].login = rows[i].login
        /\ \A i \in DOMAIN rows : rows'[i].active = IF i = current THEN flag ELSE rows[i].active
        /\ \A i \in DOMAIN rows : rows'[i] \in Row
    <3>1. \A i \in DOMAIN rows : i = form.row <=> i = current
      BY <1>2, EmptySeq
    <3>. QED BY <1>1, <1>2, <1>3, <1>4, <3>1 DEF WithFlag, Row
  <2>2. rows' \in Seq(Row)
    <3>1. rows' = [i \in 1 .. Len(rows) |-> rows'[i]]
      BY <1>2, <1>4, <2>1 DEF WithFlag
    <3>2. rows' \in [1 .. Len(rows) -> Row]
      BY <1>2, <2>1, <3>1
    <3>. QED BY <1>2, <3>2, Data!FunctionIsSeq
  <2>3. form' \in Form /\ (current # 0 => form'.row = current /\ form'.login = login)
    <3>1. panel \in BOOLEAN
      BY DEF ContactsInv, TypeOK
    <3>. QED BY <1>2, <1>4, <2>1, <2>2, <3>1, FormForRow, SMTT(40)
  <2>4. TypeOK'
    BY <1>1, <1>2, <1>4, <2>1, <2>2, <2>3 DEF Press, ContactsInv, TypeOK
  <2>5. FoundOnce'
    <3>1. OneRowEach(rows) => OneRowEach(rows')
      BY <2>1 DEF OneRowEach
    <3>. QED BY <3>1 DEF Press, ContactsInv, FoundOnce, OneRowEach
  <2>6. FormFollows'
    <3>1. current = 0 => rows' = <<>>
      BY <1>2, <2>1, <2>2, EmptySeq
    <3>. QED BY <1>2, <2>1, <2>3, <3>1 DEF Press, FormFollows
  <2>7. FoundIsCurrent'
    <3>. SUFFICES ASSUME text, NEW i \in DOMAIN rows, rows[i].login \notin doubtful
                  PROVE  rows'[i].active = active'[rows'[i].login]
      BY <1>4, <2>1 DEF Press, FoundIsCurrent
    <3>1. OneRowEach(rows) /\ rows[i].active = active[rows[i].login]
      BY DEF ContactsInv, FoundOnce, FoundIsCurrent
    <3>2. CASE i = current
      BY <1>1, <1>2, <2>1, <3>2
    <3>3. CASE i # current
      <4>1. rows[i].login \in Logins \ {login}
        BY <1>2, <1>3, <3>1, <3>3 DEF OneRowEach
      <4>. QED BY <1>1, <2>1, <3>1, <3>3, <4>1
    <3>. QED BY <3>2, <3>3
  <2>8. NoBlockingMeanwhile' /\ PanelIsMode' /\ NamesArePicks'
    BY <1>2 DEF Press, ContactsInv, NoBlockingMeanwhile, PanelIsMode, NamesArePicks
  <2>. QED BY <2>4, <2>5, <2>6, <2>7, <2>8 DEF ContactsInv
<1>5. CASE doubtful' = doubtful \cup {login} /\ UNCHANGED <<rows, form>>
  <2>1. TypeOK'
    BY <1>1, <1>2, <1>5 DEF Press, ContactsInv, TypeOK
  <2>2. FoundOnce' /\ FormFollows'
    BY <1>5 DEF Press, ContactsInv, FoundOnce, FormFollows, OneRowEach
  <2>3. FoundIsCurrent'
    BY <1>1, <1>3, <1>5 DEF Press, ContactsInv, FoundIsCurrent
  <2>4. NoBlockingMeanwhile' /\ PanelIsMode' /\ NamesArePicks'
    BY <1>2 DEF Press, ContactsInv, NoBlockingMeanwhile, PanelIsMode, NamesArePicks
  <2>. QED BY <2>1, <2>2, <2>3, <2>4 DEF ContactsInv
<1>. QED BY <1>4, <1>5 DEF Press, flag, login

\* A block or unblock by someone else.
LEMMA OthersPressKeeps ==
    ASSUME ContactsInv, NEW login \in Logins, OthersPress(login)
    PROVE  ContactsInv'
<1>. USE DEF choice
<1>1. /\ active' \in [Logins -> BOOLEAN] /\ doubtful' = doubtful \cup {login}
      /\ \A other \in Logins \ {login} : active'[other] = active[other]
  BY DEF OthersPress, ContactsInv, TypeOK
<1>2. \A i \in DOMAIN rows : rows[i].login \in Logins
  BY RowsAreRows DEF ContactsInv, TypeOK
<1>3. TypeOK'
  BY <1>1 DEF OthersPress, ContactsInv, TypeOK
<1>4. FoundOnce' /\ FormFollows'
  BY DEF OthersPress, ContactsInv, FoundOnce, FormFollows, OneRowEach
<1>5. FoundIsCurrent'
  BY <1>1, <1>2 DEF OthersPress, ContactsInv, FoundIsCurrent
<1>6. NoBlockingMeanwhile' /\ PanelIsMode' /\ NamesArePicks'
  BY DEF OthersPress, ContactsInv, NoBlockingMeanwhile, PanelIsMode,
         NamesArePicks, LoginsOf, ToSet
<1>. QED BY <1>3, <1>4, <1>5, <1>6 DEF ContactsInv

\* Starting a new chat, with the selected contact as its first participant.
LEMMA StartChatKeeps ==
    ASSUME ContactsInv, StartChat
    PROVE  ContactsInv'
<1>1. <<>> \in Seq(Row) /\ LoginsOf(<<>>) = {}
  BY EmptySeq DEF LoginsOf
<1>2. /\ picked' \in Seq(Row) /\ names' \in Seq(Logins) /\ IsInjective(names')
      /\ ToSet(names) = {} => ToSet(names') = LoginsOf(picked')
  BY <1>1, AddedTogether DEF StartChat, ContactsInv
<1>3. /\ form' \in Form /\ form'.row = form.row /\ form'.login = form.login /\ form'.buttons = {}
  BY DEF StartChat, ContactsInv, TypeOK, Form
<1>4. /\ mode' = TRUE /\ panel' = TRUE /\ addShown' = TRUE /\ made' = made /\ tab' = "contacts"
      /\ edited' \in BOOLEAN /\ (~edited' => ToSet(names) = {}) /\ ~made
  <2>1. ASSUME ~edited' PROVE ToSet(names) = {}
    <3>1. names = <<>>
      BY <2>1 DEF StartChat
    <3>. QED BY <3>1 DEF ToSet
  <2>. QED BY <2>1 DEF StartChat, ContactsInv, PanelIsMode
<1>5. TypeOK'
  BY <1>2, <1>3, <1>4 DEF StartChat, ContactsInv, TypeOK
<1>6. FoundOnce' /\ FormFollows' /\ FoundIsCurrent'
  BY <1>3 DEF StartChat, ContactsInv, FoundOnce, FormFollows, FoundIsCurrent, OneRowEach
<1>7. NoBlockingMeanwhile' /\ PanelIsMode' /\ NamesArePicks'
  BY <1>2, <1>3, <1>4 DEF NoBlockingMeanwhile, PanelIsMode, NamesArePicks
<1>. QED BY <1>5, <1>6, <1>7 DEF ContactsInv

\* Adding a participant.
LEMMA AddContactKeeps ==
    ASSUME ContactsInv, AddContact
    PROVE  ContactsInv'
<1>. USE DEF list
<1>1. /\ picked' \in Seq(Row) /\ names' \in Seq(Logins) /\ IsInjective(names')
      /\ ToSet(names) = LoginsOf(picked) => ToSet(names') = LoginsOf(picked')
  <2>1. TypeOK /\ picked \in Seq(Row)
    BY DEF ContactsInv, TypeOK
  <2>. QED BY <2>1, AddedTogether DEF AddContact
<1>2. TypeOK'
  BY <1>1 DEF AddContact, ContactsInv, TypeOK
<1>3. FoundOnce' /\ FormFollows' /\ FoundIsCurrent'
  BY DEF AddContact, ContactsInv, FoundOnce, FormFollows, FoundIsCurrent, OneRowEach
<1>4. NoBlockingMeanwhile' /\ PanelIsMode' /\ NamesArePicks'
  BY <1>1 DEF AddContact, ContactsInv, NoBlockingMeanwhile, PanelIsMode, NamesArePicks
<1>. QED BY <1>2, <1>3, <1>4 DEF ContactsInv

\* A list without one of its elements.
LEMMA RemoveAtSubset ==
    ASSUME NEW S, NEW s \in Seq(S), NEW i \in DOMAIN s, IsInjective(s)
    PROVE  RemoveAt(s, i) \in Seq(S) /\ IsInjective(RemoveAt(s, i))
<1> DEFINE before == SubSeq(s, 1, i - 1)
           after  == SubSeq(s, i + 1, Len(s))
           left   == before \o after
<1>1. RemoveAt(s, i) = left
  BY Zenon DEF RemoveAt
<1>2. Len(s) \in Nat /\ DOMAIN s = 1 .. Len(s) /\ i \in 1 .. Len(s) /\ i \in Nat
  BY LenProperties
<1>3. /\ before \in Seq(S) /\ Len(before) = i - 1
      /\ \A j \in 1 .. i - 1 : before[j] = s[j]
  BY <1>2, SubSeqProperties
<1>4. /\ after \in Seq(S) /\ Len(after) = Len(s) - i
      /\ \A j \in 1 .. Len(s) - i : after[j] = s[i + j]
  BY <1>2, SubSeqProperties, SMTT(40)
<1>. HIDE DEF before, after
<1>5. left \in Seq(S) /\ Len(left) = Len(s) - 1 /\ DOMAIN left = 1 .. Len(s) - 1
  <2>1. left \in Seq(S) /\ Len(left) = Len(before) + Len(after)
    BY <1>3, <1>4, ConcatProperties
  <2>2. DOMAIN left = 1 .. Len(left)
    BY <2>1, LenProperties
  <2>. QED BY <1>2, <1>3, <1>4, <2>1, <2>2, SMTT(40)
<1>6. \A j \in 1 .. Len(s) - 1 : left[j] = IF j <= i - 1 THEN before[j] ELSE after[j - (i - 1)]
  <2>1. Len(before) + Len(after) = Len(s) - 1
    BY <1>2, <1>3, <1>4
  <2>2. \A j \in 1 .. Len(before) + Len(after) :
           left[j] = IF j <= Len(before) THEN before[j] ELSE after[j - Len(before)]
    BY <1>3, <1>4, ConcatProperties
  <2>. QED BY <1>3, <2>1, <2>2
<1>. HIDE DEF left
<1>7. ASSUME NEW j \in 1 .. Len(s) - 1
      PROVE  left[j] = s[IF j < i THEN j ELSE j + 1]
  <2>1. CASE j < i
    BY <1>2, <1>3, <1>6, <2>1
  <2>2. CASE ~(j < i)
    <3>1. j - (i - 1) \in 1 .. Len(s) - i /\ i + (j - (i - 1)) = j + 1
      BY <1>2, <2>2
    <3>2. left[j] = after[j - (i - 1)]
      BY <1>2, <1>6, <2>2
    <3>. QED BY <1>4, <2>2, <3>1, <3>2
  <2>. QED BY <2>1, <2>2
<1>8. IsInjective(left)
  <2> DEFINE from(j) == IF j < i THEN j ELSE j + 1
  <2>1. \A j \in 1 .. Len(s) - 1 : from(j) \in DOMAIN s /\ left[j] = s[from(j)]
    BY <1>2, <1>7
  <2>2. \A j, k \in 1 .. Len(s) - 1 : from(j) = from(k) => j = k
    BY <1>2
  <2>. HIDE DEF from
  <2>3. \A j, k \in 1 .. Len(s) - 1 : left[j] = left[k] => j = k
    BY <2>1, <2>2 DEF IsInjective
  <2>. QED BY <1>5, <2>3 DEF IsInjective
<1>. QED BY <1>1, <1>5, <1>8

\* Removing the name of a participant, after which names and picks may differ.
LEMMA RemoveContactKeeps ==
    ASSUME ContactsInv, NEW i \in DOMAIN names, RemoveContact(i)
    PROVE  ContactsInv'
<1>. USE DEF list
<1>1. names' \in Seq(Logins) /\ IsInjective(names')
  <2>1. names \in Seq(Logins) /\ IsInjective(names) /\ names' = RemoveAt(names, i)
    BY DEF RemoveContact, ContactsInv, TypeOK
  <2>2. RemoveAt(names, i) \in Seq(Logins) /\ IsInjective(RemoveAt(names, i))
    BY <2>1, RemoveAtSubset
  <2>. QED BY <2>1, <2>2
<1>2. TypeOK'
  BY <1>1 DEF RemoveContact, ContactsInv, TypeOK
<1>3. FoundOnce' /\ FormFollows' /\ FoundIsCurrent'
  BY DEF RemoveContact, ContactsInv, FoundOnce, FormFollows, FoundIsCurrent, OneRowEach
<1>4. NoBlockingMeanwhile' /\ PanelIsMode' /\ NamesArePicks'
  BY DEF RemoveContact, ContactsInv, NoBlockingMeanwhile, PanelIsMode, NamesArePicks
<1>. QED BY <1>2, <1>3, <1>4 DEF ContactsInv

\* Settling the participants, which shows the chat with the names in the list.
LEMMA MakeChatKeeps ==
    ASSUME ContactsInv, MakeChat
    PROVE  ContactsInv'
<1>. USE DEF list
<1>1. ToSet(names) \subseteq Logins
  <2>1. \A i \in DOMAIN names : names[i] \in Logins
    BY LenProperties, ElementOfSeq DEF ContactsInv, TypeOK
  <2>. QED BY <2>1 DEF ToSet
<1>2. TypeOK'
  BY <1>1 DEF MakeChat, ContactsInv, TypeOK
<1>3. FoundOnce' /\ FormFollows' /\ FoundIsCurrent'
  BY DEF MakeChat, ContactsInv, FoundOnce, FormFollows, FoundIsCurrent, OneRowEach
<1>4. NoBlockingMeanwhile' /\ PanelIsMode' /\ NamesArePicks'
  BY ZenonT(40) DEF MakeChat, ContactsInv, NoBlockingMeanwhile, PanelIsMode,
         NamesArePicks, LoginsOf, ToSet
<1>. QED BY <1>2, <1>3, <1>4 DEF ContactsInv

\* What is left after a chat is given up or sent, with a copy c of the contacts.
LEMMA ClosedKeeps ==
    ASSUME ContactsInv, Closed(known'), known' \in Seq(Row),
           active' = active, picked' = picked, offered' = offered, edited' = edited,
           chats' \in Seq(SUBSET Logins), Len(chats') <= MaxChats,
           tab' \in {"chats", "contacts"}, addShown' \in BOOLEAN
    PROVE  ContactsInv'
<1>1. /\ ~panel' /\ ~made' /\ ~mode' /\ ~text'
      /\ {panel', made', mode', text'} \subseteq BOOLEAN /\ names' = <<>>
      /\ rows' \in Seq(Row)
      /\ current' \in DOMAIN rows' \cup {0} /\ (current' = 0 => rows' = <<>>)
      /\ form' \in Form
      /\ current' # 0 => form'.row = current' /\ form'.login = rows'[current'].login
      /\ doubtful' \subseteq Logins
  BY ClosedShown
<1>2. <<>> \in Seq(Logins) /\ IsInjective(<<>>)
  BY EmptySeq DEF IsInjective
<1>3. TypeOK'
  BY <1>1, <1>2 DEF ContactsInv, TypeOK
<1>4. FoundOnce' /\ FormFollows' /\ FoundIsCurrent' /\ NoBlockingMeanwhile' /\ NamesArePicks'
  BY <1>1 DEF FoundOnce, FormFollows, FoundIsCurrent, NoBlockingMeanwhile, NamesArePicks
<1>5. PanelIsMode'
  BY <1>1 DEF PanelIsMode
<1>. QED BY <1>3, <1>4, <1>5 DEF ContactsInv

\* Giving up a new chat.
LEMMA CancelChatKeeps ==
    ASSUME ContactsInv, CancelChat
    PROVE  ContactsInv'
<1>1. known' = known /\ Closed(known')
  BY DEF CancelChat
<1>2. /\ known' \in Seq(Row)
      /\ active' = active /\ picked' = picked /\ offered' = offered /\ edited' = edited
      /\ chats' \in Seq(SUBSET Logins) /\ Len(chats') <= MaxChats
      /\ tab' \in {"chats", "contacts"} /\ addShown' \in BOOLEAN
  BY DEF CancelChat, ContactsInv, TypeOK, FoundOnce
<1>. QED BY <1>1, <1>2, ClosedKeeps

\* The participants of a chat that is sent are contacts.
LEMMA PicksAreLogins ==
    ASSUME TypeOK, Len(chats) < MaxChats
    PROVE  LET longer == Append(chats, LoginsOf(picked))
           IN  longer \in Seq(SUBSET Logins) /\ Len(longer) <= MaxChats
<1>1. LoginsOf(picked) \in SUBSET Logins
  BY RowsAreRows DEF TypeOK, LoginsOf
<1>2. MaxChats \in Nat
  BY ContactsAssumption
<1>. QED BY <1>1, <1>2, AppendProperties, LenProperties DEF TypeOK

\* Sending the first message of the chat, whose picks join the copy.
LEMMA SendChatKeeps ==
    ASSUME ContactsInv, SendChat
    PROVE  ContactsInv'
<1>1. known' \in Seq(Row)
  BY WithPickedRows DEF SendChat, ContactsInv, TypeOK, FoundOnce
<1>2. chats' \in Seq(SUBSET Logins) /\ Len(chats') <= MaxChats
  BY PicksAreLogins DEF SendChat, ContactsInv
<1>3. /\ Closed(known') /\ active' = active /\ picked' = picked /\ offered' = offered
      /\ edited' = edited /\ tab' \in {"chats", "contacts"} /\ addShown' \in BOOLEAN
  BY DEF SendChat
<1>. QED BY <1>1, <1>2, <1>3, ClosedKeeps

\* Sending it without an answer.
LEMMA SendUnansweredKeeps ==
    ASSUME ContactsInv, SendUnanswered
    PROVE  ContactsInv'
<1>. USE DEF list, choice
<1>1. chats' \in Seq(SUBSET Logins) /\ Len(chats') <= MaxChats
  BY PicksAreLogins DEF SendUnanswered, ContactsInv
<1>2. TypeOK'
  BY <1>1 DEF SendUnanswered, ContactsInv, TypeOK
<1>3. FoundOnce' /\ FormFollows' /\ FoundIsCurrent'
  BY DEF SendUnanswered, ContactsInv, FoundOnce, FormFollows, FoundIsCurrent, OneRowEach
<1>4. NoBlockingMeanwhile' /\ PanelIsMode' /\ NamesArePicks'
  BY ZenonT(40) DEF SendUnanswered, ContactsInv, TypeOK, NoBlockingMeanwhile, PanelIsMode,
         NamesArePicks, LoginsOf, ToSet
<1>. QED BY <1>2, <1>3, <1>4 DEF ContactsInv

-----------------------------------------------------------------------------

\* The page after login.
LEMMA ContactsInit == Init => ContactsInv
<1>. SUFFICES ASSUME Init PROVE ContactsInv
  OBVIOUS
<1>1. active \in [Logins -> BOOLEAN] /\ Copies \subseteq SUBSET Logins /\ MaxChats \in Nat
  BY ContactsAssumption DEF Init, Logins
<1>2. known \in Seq(Row) /\ rows = known
  <2>1. PICK loaded \in Copies : known = RowsFor(loaded)
    BY DEF Init
  <2>2. loaded \in SUBSET Logins
    BY <1>1
  <2>. QED BY <1>1, <2>1, <2>2, RowsForRows DEF Init
<1>3. /\ <<>> \in Seq(Row) /\ <<>> \in Seq(Logins) /\ <<>> \in Seq(SUBSET Logins)
      /\ Len(<<>>) = 0 /\ IsInjective(<<>>)
  BY EmptySeq DEF IsInjective
<1>4. form \in Form /\ form.buttons = {}
  BY DEF Init, Form
<1>5. TypeOK
  <2>1. /\ active \in [Logins -> BOOLEAN]
        /\ chats \in Seq(SUBSET Logins) /\ Len(chats) <= MaxChats
    <3>1. chats = <<>>
      BY DEF Init
    <3>2. chats \in Seq(SUBSET Logins) /\ Len(chats) = 0
      BY <1>3, <3>1, Zenon
    <3>. QED BY <1>1, <3>2
  <2>2. /\ known \in Seq(Row) /\ rows \in Seq(Row) /\ picked \in Seq(Row)
        /\ names \in Seq(Logins) /\ IsInjective(names)
    BY <1>2, <1>3 DEF Init
  <2>3. current \in DOMAIN rows \cup {0} /\ form \in Form
    BY <1>4 DEF Init
  <2>4. /\ tab \in {"chats", "contacts"}
        /\ {text, addShown, mode, panel, made, edited} \subseteq BOOLEAN
        /\ offered \subseteq Logins /\ doubtful \subseteq Logins
    BY DEF Init
  <2>. QED BY <2>1, <2>2, <2>3, <2>4 DEF TypeOK
<1>6. FoundOnce /\ FormFollows /\ FoundIsCurrent
  BY <1>2, <1>4 DEF Init, FoundOnce, FormFollows, FoundIsCurrent
<1>7. NoBlockingMeanwhile /\ PanelIsMode /\ NamesArePicks
  BY <1>4 DEF Init, NoBlockingMeanwhile, PanelIsMode, NamesArePicks
<1>. QED BY <1>5, <1>6, <1>7 DEF ContactsInv

\* Every step of the page, or none.
LEMMA ContactsStep == ContactsInv /\ [Next]_vars => ContactsInv'
<1>. SUFFICES ASSUME ContactsInv, [Next]_vars PROVE ContactsInv'
  OBVIOUS
<1>1. CASE UNCHANGED vars
  <2>. USE <1>1 DEF vars, list, choice
  <2>1. TypeOK'
    BY DEF ContactsInv, TypeOK
  <2>2. FoundOnce' /\ FormFollows' /\ FoundIsCurrent'
    BY DEF ContactsInv, FoundOnce, FormFollows, FoundIsCurrent, OneRowEach
  <2>3. NoBlockingMeanwhile' /\ PanelIsMode' /\ NamesArePicks'
    BY ZenonT(40) DEF ContactsInv, TypeOK, NoBlockingMeanwhile, PanelIsMode,
         NamesArePicks, LoginsOf, ToSet
  <2>. QED BY <2>1, <2>2, <2>3 DEF ContactsInv
<1>2. CASE Next
  BY <1>2, Zenon, OpenContactsKeeps, OpenChatsKeeps, SelectRowKeeps, SearchKeeps, EndSearchKeeps,
     PressKeeps, OthersPressKeeps, StartChatKeeps, AddContactKeeps, RemoveContactKeeps,
     MakeChatKeeps, CancelChatKeeps, SendChatKeeps, SendUnansweredKeeps DEF Next
<1>. QED BY <1>1, <1>2

\* The inductive invariant: the form follows the selected row, the panel the mode, and
\* the names the picks, also for a user who has no contacts.
THEOREM ContactsInvariant == Spec => []ContactsInv
BY ContactsInit, ContactsStep, PTL DEF Spec

\* Every variable keeps its type, for any contacts and any copy made of them.
THEOREM ContactsTyping == Spec => []TypeOK
<1>1. ContactsInv => TypeOK
  BY DEF ContactsInv
<1>. QED BY <1>1, ContactsInvariant, PTL

\* The contact that "block" and "unblock" change is the contact of the row that
\* setIsActiveUserList updates, after any searches, selections and cancelled chats, and
\* whether the copy made at login holds contacts or none.
THEOREM FormShowsItsRow == Spec => []FormIsRow
<1>1. ContactsInv => FormIsRow
  BY DEF ContactsInv, TypeOK, FormFollows, FormIsRow
<1>. QED BY <1>1, ContactsInvariant, PTL

\* The buttons stay disabled as long as participants are being chosen.
THEOREM NobodyBlockedMeanwhile == Spec => []NoBlockingMeanwhile
<1>1. ContactsInv => NoBlockingMeanwhile
  BY DEF ContactsInv
<1>. QED BY <1>1, ContactsInvariant, PTL

\* The page never keeps the list, the search or the tab disabled without the panel
\* whose button ends it.
THEOREM CanAlwaysCancel == Spec => []CanCancel
<1>1. ContactsInv => CanCancel
  BY DEF ContactsInv, PanelIsMode, CanCancel
<1>. QED BY <1>1, ContactsInvariant, PTL

\* What a search has found is shown as the database has it, with the user's own
\* blocks and unblocks in the rows.
THEOREM FoundStaysCurrent == Spec => []FoundIsCurrent
<1>1. ContactsInv => FoundIsCurrent
  BY DEF ContactsInv
<1>. QED BY <1>1, ContactsInvariant, PTL

\* A chat is sent with the participants the user was shown: the names and the picks
\* that are sent are two lists, which only RemoveContact and a cancelled chat part.
THEOREM SendsWhatWasOffered == Spec => SentAsOffered
<1> DEFINE Sent == Len(chats') > Len(chats) /\ ~edited => Last(chats') = offered
<1>1. ContactsInv /\ [Next]_vars => [Sent]_vars
  <2>. SUFFICES ASSUME ContactsInv, Next PROVE Sent
    OBVIOUS
  <2>1. chats \in Seq(SUBSET Logins) /\ Len(chats) \in Nat
    BY LenProperties DEF ContactsInv, TypeOK
  <2>2. chats' = chats \/ (made /\ chats' = Append(chats, LoginsOf(picked)))
    BY Zenon DEF Next, OpenContacts, OpenChats, EndSearch, SelectRow, Search, Press, OthersPress,
         StartChat, AddContact, MakeChat, CancelChat, RemoveContact, SendChat, SendUnanswered
  <2>3. CASE chats' = chats
    BY <2>1, <2>3
  <2>4. CASE made /\ chats' = Append(chats, LoginsOf(picked))
    <3>1. ~edited => LoginsOf(picked) = offered
      BY <2>4 DEF ContactsInv, PanelIsMode, NamesArePicks
    <3>2. LoginsOf(picked) \in SUBSET Logins
      BY RowsAreRows DEF ContactsInv, TypeOK, LoginsOf
    <3>3. Len(chats') = Len(chats) + 1 /\ chats'[Len(chats) + 1] = LoginsOf(picked)
      BY <2>1, <2>4, <3>2, AppendProperties
    <3>4. Last(chats') = LoginsOf(picked)
      BY <3>3 DEF Last
    <3>. QED BY <3>1, <3>4
  <2>. QED BY <2>2, <2>3, <2>4
<1>. HIDE DEF Sent
<1>2. Spec => [][Sent]_vars
  BY <1>1, ContactsInvariant, PTL DEF Spec
<1>. QED BY <1>2 DEF SentAsOffered, Sent
=============================================================================
