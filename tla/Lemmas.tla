------------------------------- MODULE Lemmas -------------------------------
(***************************************************************************)
(* What the operators do that several models share.                        *)
(*                                                                         *)
(* First data: induction over the natural numbers and what follows from it *)
(* for functions defined by recursion on a position, for the greatest of   *)
(* finitely many numbers and for the lists of Ordered.  A property is      *)
(* given by the set of the numbers that have it, so that the lemmas have   *)
(* no operators as parameters.                                             *)
(*                                                                         *)
(* Then the SQL statements of ChatSql, one lemma per statement and         *)
(* question: it takes a consistent database to a consistent one, and it    *)
(* leaves the messages that are stored already as they are, but for the    *)
(* READ marks of the login it runs for.  The servers that run the          *)
(* statements are the matter of other modules.                             *)
(***************************************************************************)
EXTENDS Integers, ChatSql, Ordered, WellFoundedInduction, FiniteSetTheorems,
        SequenceTheorems, TLAPS


\* Numbers have a least one among them.
LEMMA LeastNat ==
    ASSUME NEW T \in SUBSET Nat, T # {}
    PROVE  \E m \in T : \A n \in T : m <= n
<1>1. PICK m \in T : \A y \in T : ~(<<y, m>> \in OpToRel(<, Nat))
  BY WFMin, NatLessThanWellFounded
<1>2. \A n \in T : ~(n < m)
  BY <1>1 DEF OpToRel
<1>3. \A n \in T : n \in Nat /\ m \in Nat
  OBVIOUS
<1>4. \A n \in T : m <= n
  BY <1>2, <1>3
<1>. QED BY <1>4

\* Induction, for the numbers in T.
LEMMA NatInSet ==
    ASSUME NEW T, 0 \in T, \A n \in Nat : n \in T => n + 1 \in T
    PROVE  Nat \subseteq T
<1>. SUFFICES ASSUME Nat \ T # {} PROVE FALSE
  OBVIOUS
<1>1. PICK m \in Nat \ T : \A n \in Nat \ T : m <= n
  BY LeastNat
<1>2. m # 0 /\ m - 1 \in Nat /\ m - 1 + 1 = m /\ ~(m <= m - 1)
  BY <1>1
<1>3. m - 1 \in T
  BY <1>1, <1>2
<1>. QED BY <1>1, <1>2, <1>3

\* f is defined on 0 .. n by its value at 0 and a step from each value to the next.
IsRecursive(f, S, n, base, step) ==
    /\ f \in [0 .. n -> S]
    /\ f[0] = base
    /\ \A k \in 1 .. n : f[k] = step[k][f[k - 1]]

\* There is such a function.
LEMMA Recursion ==
    ASSUME NEW S, NEW base \in S, NEW n \in Nat, NEW step \in [1 .. n -> [S -> S]]
    PROVE  \E f : IsRecursive(f, S, n, base, step)
<1> DEFINE T == {m \in Nat : m <= n => \E f : IsRecursive(f, S, m, base, step)}
<1>1. 0 \in T
  <2>1. IsRecursive([k \in 0 .. 0 |-> base], S, 0, base, step)
    BY DEF IsRecursive
  <2>. QED BY <2>1
<1>2. ASSUME NEW m \in Nat, m \in T PROVE m + 1 \in T
  <2>. SUFFICES ASSUME m + 1 <= n PROVE \E f : IsRecursive(f, S, m + 1, base, step)
    OBVIOUS
  <2>1. PICK f : IsRecursive(f, S, m, base, step)
    BY <1>2
  <2> DEFINE v == step[m + 1][f[m]]
             g == [k \in 0 .. m + 1 |-> IF k = m + 1 THEN v ELSE f[k]]
  <2>2. f \in [0 .. m -> S] /\ f[m] \in S /\ m + 1 \in 1 .. n
    BY <2>1 DEF IsRecursive
  <2>3. v \in S
    BY <2>2
  <2>4. g \in [0 .. m + 1 -> S] /\ g[0] = base
    <3>. HIDE DEF v
    <3>. QED BY <2>1, <2>2, <2>3 DEF IsRecursive
  <2>5. \A k \in 1 .. m + 1 : g[k] = step[k][g[k - 1]]
    <3>1. ASSUME NEW k \in 1 .. m PROVE g[k] = step[k][g[k - 1]]
      <4>1. g[k] = f[k] /\ g[k - 1] = f[k - 1]
        OBVIOUS
      <4>. QED BY <2>1, <4>1 DEF IsRecursive
    <3>2. g[m + 1] = step[m + 1][g[m]]
      <4>1. g[m + 1] = v /\ g[m] = f[m]
        OBVIOUS
      <4>. QED BY <4>1
    <3>3. m + 1 - 1 = m /\ \A k \in 1 .. m + 1 : k = m + 1 \/ k \in 1 .. m
      OBVIOUS
    <3>. HIDE DEF g, v
    <3>. QED BY <3>1, <3>2, <3>3
  <2>. HIDE DEF g
  <2>6. IsRecursive(g, S, m + 1, base, step)
    BY <2>4, <2>5 DEF IsRecursive
  <2>. QED BY <2>6
<1>. HIDE DEF T
<1>3. n \in T
  BY <1>1, <1>2, NatInSet
<1>. QED BY <1>3 DEF T

\* A function on 1 .. n is a sequence.
LEMMA FunctionIsSeq ==
    ASSUME NEW S, NEW n \in Nat, NEW q \in [1 .. n -> S]
    PROVE  q \in Seq(S) /\ Len(q) = n /\ DOMAIN q = 1 .. n
  OBVIOUS

\* Finitely many numbers have a greatest one among them.
LEMMA GreatestNat ==
    ASSUME NEW T \in SUBSET Nat, T # {}, NEW b \in Nat, \A n \in T : n <= b
    PROVE  \E m \in T : \A n \in T : n <= m
<1> DEFINE Bounds == {k \in Nat : \A n \in T : n <= k}
<1>1. PICK k \in Bounds : \A j \in Bounds : k <= j
  <2>1. b \in Bounds
    OBVIOUS
  <2>. QED BY <2>1, LeastNat
<1>2. k \in T
  <2>. SUFFICES ASSUME k \notin T PROVE FALSE
    OBVIOUS
  <2>1. \A n \in T : n \in Nat /\ n <= k /\ n # k
    BY <1>1
  <2>2. PICK x \in T : TRUE
    OBVIOUS
  <2>3. k - 1 \in Nat /\ \A n \in T : n <= k - 1
    BY <1>1, <2>1, <2>2
  <2>4. k <= k - 1
    BY <1>1, <2>3
  <2>. QED BY <1>1, <2>4
<1>. QED BY <1>1, <1>2

\* The numbers of a sequence have a bound.
LEMMA SeqBounded ==
    ASSUME NEW n \in Nat, NEW q \in [1 .. n -> Nat]
    PROVE  \E b \in Nat : \A i \in 1 .. n : q[i] <= b
<1> DEFINE T == {m \in Nat : m <= n => \E b \in Nat : \A i \in 1 .. m : q[i] <= b}
<1>1. 0 \in T
  <2>1. \A i \in 1 .. 0 : q[i] <= 0
    OBVIOUS
  <2>. QED BY <2>1
<1>2. ASSUME NEW m \in Nat, m \in T PROVE m + 1 \in T
  <2>. SUFFICES ASSUME m + 1 <= n PROVE \E b \in Nat : \A i \in 1 .. m + 1 : q[i] <= b
    OBVIOUS
  <2>1. PICK b \in Nat : \A i \in 1 .. m : q[i] <= b
    BY <1>2
  <2>2. PICK d \in Nat : b <= d /\ q[m + 1] <= d
    <3>1. q[m + 1] \in Nat /\ (b <= q[m + 1] \/ q[m + 1] <= b)
      OBVIOUS
    <3>. QED BY <3>1
  <2>3. \A i \in 1 .. m + 1 : q[i] <= d
    BY <2>1, <2>2, SMTT(40)
  <2>. QED BY <2>3
<1>. HIDE DEF T
<1>3. n \in T
  BY <1>1, <1>2, NatInSet
<1>. QED BY <1>3 DEF T

-----------------------------------------------------------------------------
(* Ordered                                                                 *)

\* InsertAt adds an element at its place.
LEMMA InsertAtIs ==
    ASSUME NEW S, NEW q \in Seq(S), NEW e \in S, NEW i \in 1 .. Len(q) + 1
    PROVE  /\ InsertAt(q, i, e) \in Seq(S)
           /\ Len(InsertAt(q, i, e)) = Len(q) + 1
           /\ \A j \in 1 .. i - 1 : InsertAt(q, i, e)[j] = q[j]
           /\ InsertAt(q, i, e)[i] = e
           /\ \A j \in i + 1 .. Len(q) + 1 : InsertAt(q, i, e)[j] = q[j - 1]
<1> DEFINE before == SubSeq(q, 1, i - 1)
           after  == SubSeq(q, i, Len(q))
           front  == before \o <<e>>
           all    == front \o after
<1>1. InsertAt(q, i, e) = all
  BY Zenon DEF InsertAt
<1>2. Len(q) \in Nat /\ DOMAIN q = 1 .. Len(q) /\ i \in Nat /\ i >= 1
  BY LenProperties
<1>3. /\ before \in Seq(S) /\ Len(before) = i - 1
      /\ \A j \in 1 .. i - 1 : before[j] = q[j]
  BY <1>2, SubSeqProperties
<1>4. /\ after \in Seq(S) /\ Len(after) = Len(q) - i + 1
      /\ \A j \in 1 .. Len(q) - i + 1 : after[j] = q[i + j - 1]
  BY <1>2, SubSeqProperties
<1>5. <<e>> \in Seq(S) /\ Len(<<e>>) = 1 /\ <<e>>[1] = e
  OBVIOUS
<1>. HIDE DEF before, after
<1>6. /\ front \in Seq(S) /\ Len(front) = i
      /\ \A j \in 1 .. i - 1 : front[j] = before[j]
      /\ front[i] = e
  <2> DEFINE one == <<e>>
  <2>1. one \in Seq(S) /\ Len(one) = 1 /\ one[1] = e
    BY <1>5
  <2>. HIDE DEF one
  <2>2. /\ before \o one \in Seq(S) /\ Len(before \o one) = Len(before) + Len(one)
        /\ \A j \in 1 .. Len(before) + Len(one) :
              (before \o one)[j] = IF j <= Len(before) THEN before[j] ELSE one[j - Len(before)]
    BY <1>3, <2>1, ConcatProperties
  <2>3. /\ before \o one \in Seq(S) /\ Len(before \o one) = i
        /\ \A j \in 1 .. i : (before \o one)[j] = IF j <= i - 1 THEN before[j] ELSE one[j - (i - 1)]
    BY <1>2, <1>3, <2>1, <2>2
  <2>4. (before \o one)[i] = e
    <3>1. ~(i <= i - 1) /\ i - (i - 1) = 1 /\ i \in 1 .. i
      BY <1>2
    <3>2. (before \o one)[i] = one[i - (i - 1)]
      BY <2>3, <3>1, Zenon
    <3>. QED BY <2>1, <3>1, <3>2
  <2>. QED BY <1>2, <2>3, <2>4 DEF one
<1>. HIDE DEF front
<1>7. /\ all \in Seq(S) /\ Len(all) = Len(q) + 1
      /\ \A j \in 1 .. Len(q) + 1 : all[j] = IF j <= i THEN front[j] ELSE after[j - i]
  <2>1. /\ all \in Seq(S) /\ Len(all) = Len(front) + Len(after)
        /\ \A j \in 1 .. Len(front) + Len(after) :
              all[j] = IF j <= Len(front) THEN front[j] ELSE after[j - Len(front)]
    BY <1>4, <1>6, ConcatProperties
  <2>2. Len(front) + Len(after) = Len(q) + 1
    BY <1>2, <1>4, <1>6
  <2>. QED BY <1>6, <2>1, <2>2
<1>. HIDE DEF all
<1>8. \A j \in 1 .. i - 1 : all[j] = q[j]
  BY <1>2, <1>3, <1>6, <1>7
<1>9. all[i] = e
  BY <1>2, <1>6, <1>7
<1>10. ASSUME NEW j \in i + 1 .. Len(q) + 1 PROVE all[j] = q[j - 1]
  <2>1. j - i \in 1 .. Len(q) - i + 1 /\ i + (j - i) - 1 = j - 1 /\ ~(j <= i) /\ j \in 1 .. Len(q) + 1
    BY <1>2
  <2>2. all[j] = after[j - i]
    BY <1>7, <2>1
  <2>. QED BY <1>4, <2>1, <2>2
<1>. QED BY <1>1, <1>7, <1>8, <1>9, <1>10

\* x is in the list.
Lists(q, x) == \E i \in DOMAIN q : q[i] = x

\* Inserting adds one number, and keeps the others in their order.
LEMMA InsertedIs ==
    ASSUME NEW S, NEW q \in Seq(S), NEW k \in S, NEW key
    PROVE  /\ Inserted(q, k, key) \in Seq(S)
           /\ Len(Inserted(q, k, key)) = Len(q) + 1
           /\ \A x : Lists(Inserted(q, k, key), x) <=> (x = k \/ Lists(q, x))
           /\ IsInjective(q) /\ ~Lists(q, k) => IsInjective(Inserted(q, k, key))
<1> DEFINE before == {i \in DOMAIN q : key[q[i]] <= key[k]}
           place == 1 + Cardinality(before)
           r == InsertAt(q, place, k)
<1>1. Inserted(q, k, key) = r
  BY Zenon DEF Inserted
<1>2. Len(q) \in Nat /\ DOMAIN q = 1 .. Len(q)
  BY LenProperties
<1>3. place \in 1 .. Len(q) + 1
  <2>1. IsFiniteSet(1 .. Len(q)) /\ Cardinality(1 .. Len(q)) = Len(q)
    BY <1>2, FS_Interval, SMTT(40)
  <2>2. before \in SUBSET (1 .. Len(q))
    BY <1>2
  <2>. HIDE DEF before
  <2>3. Cardinality(before) \in Nat /\ Cardinality(before) <= Len(q)
    BY <2>1, <2>2, FS_Subset, FS_CardinalityType
  <2>. QED BY <1>2, <2>3
<1>. HIDE DEF place
<1>4. /\ r \in Seq(S) /\ Len(r) = Len(q) + 1
      /\ \A j \in 1 .. place - 1 : r[j] = q[j]
      /\ r[place] = k
      /\ \A j \in place + 1 .. Len(q) + 1 : r[j] = q[j - 1]
  BY <1>3, InsertAtIs
<1>. HIDE DEF r
<1>5. DOMAIN r = 1 .. Len(q) + 1
  BY <1>4, LenProperties
<1>6. ASSUME NEW i \in DOMAIN r PROVE r[i] = k \/ \E j \in DOMAIN q : q[j] = r[i]
  <2>1. CASE i < place
    BY <1>2, <1>3, <1>4, <1>5, <2>1
  <2>2. CASE i > place
    <3>1. i - 1 \in DOMAIN q /\ r[i] = q[i - 1]
      BY <1>2, <1>3, <1>4, <1>5, <2>2
    <3>. QED BY <3>1
  <2>3. CASE i = place
    BY <1>4, <2>3
  <2>. QED BY <1>2, <1>3, <1>5, <2>1, <2>2, <2>3
<1>7. ASSUME NEW j \in DOMAIN q PROVE \E i \in DOMAIN r : r[i] = q[j]
  <2>1. CASE j < place
    BY <1>2, <1>3, <1>4, <1>5, <2>1
  <2>2. CASE ~(j < place)
    <3>1. j + 1 \in DOMAIN r /\ r[j + 1] = q[j]
      BY <1>2, <1>3, <1>4, <1>5, <2>2
    <3>. QED BY <3>1
  <2>. QED BY <2>1, <2>2
<1>8. place \in DOMAIN r /\ r[place] = k
  BY <1>2, <1>3, <1>4, <1>5
<1>9. \A x : Lists(r, x) <=> (x = k \/ Lists(q, x))
  BY <1>6, <1>7, <1>8 DEF Lists
<1>10. ASSUME IsInjective(q), ~Lists(q, k), NEW i \in DOMAIN r, NEW j \in DOMAIN r, r[i] = r[j]
       PROVE  i = j
  <2> DEFINE from(h) == IF h < place THEN h ELSE h - 1
  <2>1. \A h \in DOMAIN r : h # place => from(h) \in DOMAIN q /\ r[h] = q[from(h)]
    <3>. SUFFICES ASSUME NEW h \in DOMAIN r, h # place
                  PROVE  from(h) \in DOMAIN q /\ r[h] = q[from(h)]
      OBVIOUS
    <3>1. CASE h < place
      BY <1>2, <1>3, <1>4, <1>5, <3>1
    <3>2. CASE ~(h < place)
      BY <1>2, <1>3, <1>4, <1>5, <3>2
    <3>. QED BY <3>1, <3>2
  <2>2. \A h \in DOMAIN r : h # place => r[h] # k
    BY <1>10, <2>1 DEF Lists
  <2>3. CASE i = place \/ j = place
    BY <1>4, <1>10, <2>2, <2>3
  <2>4. CASE i # place /\ j # place
    <3>1. from(i) = from(j)
      BY <1>10, <2>1, <2>4 DEF IsInjective
    <3>. QED BY <1>2, <1>3, <1>5, <2>4, <3>1
  <2>. QED BY <2>3, <2>4
<1>11. IsInjective(q) /\ ~Lists(q, k) => IsInjective(r)
  BY <1>10 DEF IsInjective
<1>. QED BY <1>1, <1>4, <1>9, <1>11

\* The step of InKeyOrder: the list q, and number k if it is in T.
AndNumber(T, q, k, key) == IF k \in T THEN Inserted(q, k, key) ELSE q

\* g[k] is the list of the numbers up to k, for every k up to n.
IsUpTo(g, T, n, key) ==
    /\ g[0] = <<>>
    /\ \A k \in 1 .. n : g[k] = AndNumber(T, g[k - 1], k, key)

\* There is such a g, and its last list is the one InKeyOrder returns.
LEMMA UpToExists ==
    ASSUME NEW n \in Nat, NEW T \in SUBSET (1 .. n), NEW key
    PROVE  \E g : IsUpTo(g, T, n, key) /\ g[n] = InKeyOrder(T, n, key)
<1> DEFINE f == CHOOSE g : g = [k \in 0 .. n |->
                   IF k = 0 THEN <<>>
                   ELSE IF k \in T THEN Inserted(g[k - 1], k, key)
                   ELSE g[k - 1]]
           step == [k \in 1 .. n |-> [q \in Seq(T) |-> AndNumber(T, q, k, key)]]
<1>1. InKeyOrder(T, n, key) = f[n]
  BY Zenon DEF InKeyOrder
<1>2. \A k \in 1 .. n : \A q \in Seq(T) : AndNumber(T, q, k, key) \in Seq(T)
  <2>. SUFFICES ASSUME NEW k \in 1 .. n, NEW q \in Seq(T) PROVE AndNumber(T, q, k, key) \in Seq(T)
    OBVIOUS
  <2>1. k \in T => Inserted(q, k, key) \in Seq(T)
    BY InsertedIs
  <2>. QED BY <2>1 DEF AndNumber
<1>3. /\ step \in [1 .. n -> [Seq(T) -> Seq(T)]]
      /\ \A k \in 1 .. n, q \in Seq(T) : step[k][q] = AndNumber(T, q, k, key)
  BY <1>2
<1>4. <<>> \in Seq(T)
  BY EmptySeq
<1>. HIDE DEF step
<1>5. \E g : g = [k \in 0 .. n |->
                   IF k = 0 THEN <<>>
                   ELSE IF k \in T THEN Inserted(g[k - 1], k, key)
                   ELSE g[k - 1]]
  <2>1. PICK g : IsRecursive(g, Seq(T), n, <<>>, step)
    BY <1>3, <1>4, Recursion, Zenon
  <2>2. \A k \in 0 .. n : k = 0 \/ (k \in 1 .. n /\ k # 0 /\ k - 1 \in 0 .. n)
    OBVIOUS
  <2>3. \A k \in 1 .. n : k - 1 \in 0 .. n => g[k - 1] \in Seq(T)
    BY <2>1 DEF IsRecursive
  <2>4. \A k \in 0 .. n : g[k] = IF k = 0 THEN <<>> ELSE AndNumber(T, g[k - 1], k, key)
    BY <1>3, <2>1, <2>2, <2>3, Zenon DEF IsRecursive
  <2>5. g = [k \in 0 .. n |-> IF k = 0 THEN <<>> ELSE AndNumber(T, g[k - 1], k, key)]
    BY <2>1, <2>4, Zenon DEF IsRecursive
  <2>. QED BY <2>5, Zenon DEF AndNumber
<1>6. f = [k \in 0 .. n |-> IF k = 0 THEN <<>> ELSE AndNumber(T, f[k - 1], k, key)]
  BY <1>5, Zenon DEF AndNumber
<1>. HIDE DEF f
<1>7. \A k \in 0 .. n : /\ k = 0 => f[k] = <<>>
                        /\ k # 0 => f[k] = AndNumber(T, f[k - 1], k, key)
  BY <1>6, Zenon
<1>8. 0 \in 0 .. n /\ \A k \in 1 .. n : k \in 0 .. n /\ k # 0
  OBVIOUS
<1>9. IsUpTo(f, T, n, key)
  BY <1>7, <1>8, Zenon DEF IsUpTo
<1>. QED BY <1>1, <1>9

\* The lists are of numbers up to their position.
LEMMA UpToLists ==
    ASSUME NEW n \in Nat, NEW T \in SUBSET (1 .. n), NEW key, NEW g, IsUpTo(g, T, n, key)
    PROVE  \A k \in 0 .. n : g[k] \in Seq(T)
<1> DEFINE U == {k \in Nat : k <= n => g[k] \in Seq(T)}
<1>1. 0 \in U
  <2>1. <<>> \in Seq(T)
    BY EmptySeq
  <2>. QED BY <2>1 DEF IsUpTo
<1>2. ASSUME NEW k \in Nat, k \in U PROVE k + 1 \in U
  <2>. SUFFICES ASSUME k + 1 <= n PROVE g[k + 1] \in Seq(T)
    OBVIOUS
  <2> DEFINE j == k + 1
  <2>1. j \in 1 .. n /\ j - 1 = k /\ g[k] \in Seq(T)
    BY <1>2
  <2>. HIDE DEF j
  <2>2. g[j] = AndNumber(T, g[k], j, key)
    BY <2>1, Zenon DEF IsUpTo
  <2>3. j \in T => Inserted(g[k], j, key) \in Seq(T)
    BY <2>1, InsertedIs
  <2>4. g[j] \in Seq(T)
    BY <2>1, <2>2, <2>3 DEF AndNumber
  <2>. QED BY <2>4 DEF j
<1>. HIDE DEF U
<1>3. \A k \in Nat : k \in U
  BY <1>1, <1>2, NatInSet
<1>. QED BY <1>3 DEF U

\* The list has exactly the numbers of T, each of them once.
LEMMA InKeyOrderIs ==
    ASSUME NEW n \in Nat, NEW T \in SUBSET (1 .. n), NEW key
    PROVE  /\ InKeyOrder(T, n, key) \in Seq(T)
           /\ \A k \in T : Lists(InKeyOrder(T, n, key), k)
           /\ IsInjective(InKeyOrder(T, n, key))
<1>1. PICK f : IsUpTo(f, T, n, key) /\ f[n] = InKeyOrder(T, n, key)
  BY UpToExists
<1>2. \A k \in 0 .. n : f[k] \in Seq(T)
  BY <1>1, UpToLists
<1> DEFINE U == {k \in Nat : k <= n => /\ f[k] \in Seq(T)
                                       /\ \A m \in T : m <= k => Lists(f[k], m)
                                       /\ IsInjective(f[k])
                                       /\ \A m : Lists(f[k], m) => m \in T /\ m <= k}
<1>3. 0 \in U
  <2>1. 0 \in 0 .. n /\ \A m \in T : ~(m <= 0)
    OBVIOUS
  <2>2. f[0] = <<>>
    BY <1>1 DEF IsUpTo
  <2>3. f[0] \in Seq(T)
    BY <1>2, <2>1
  <2>4. IsInjective(f[0]) /\ \A m : ~Lists(f[0], m)
    BY <2>2 DEF IsInjective, Lists
  <2>. QED BY <2>1, <2>3, <2>4
<1>4. ASSUME NEW k \in Nat, k \in U PROVE k + 1 \in U
  <2>. SUFFICES ASSUME k + 1 <= n
                PROVE  /\ f[k + 1] \in Seq(T) /\ \A m \in T : m <= k + 1 => Lists(f[k + 1], m)
                       /\ IsInjective(f[k + 1])
                       /\ \A m : Lists(f[k + 1], m) => m \in T /\ m <= k + 1
    OBVIOUS
  <2> DEFINE j == k + 1
  <2>1. j \in 0 .. n /\ j \in 1 .. n /\ j # 0 /\ j - 1 = k
    OBVIOUS
  <2>2. /\ f[k] \in Seq(T) /\ \A m \in T : m <= k => Lists(f[k], m)
        /\ IsInjective(f[k]) /\ \A m : Lists(f[k], m) => m \in T /\ m <= k
    BY <1>4
  <2>3. /\ \A m \in T : (m <= j => m <= k \/ m = j) /\ (m <= k => m <= j)
        /\ ~(j <= k) /\ j <= j
    OBVIOUS
  <2>4. ~Lists(f[k], j)
    BY <2>2, <2>3
  <2>. HIDE DEF j
  <2>5. f[j] = AndNumber(T, f[k], j, key)
    BY <1>1, <2>1, Zenon DEF IsUpTo
  <2>6. f[j] \in Seq(T)
    BY <1>2, <2>1
  <2>7. CASE j \notin T
    <3>1. f[j] = f[k]
      BY <2>5, <2>7 DEF AndNumber
    <3>. QED BY <2>2, <2>3, <2>7, <3>1, Zenon DEF j
  <2>8. CASE j \in T
    <3>1. f[j] = Inserted(f[k], j, key)
      BY <2>5, <2>8 DEF AndNumber
    <3>2. \A x : Lists(f[j], x) <=> (x = j \/ Lists(f[k], x))
      BY <2>2, <2>8, <3>1, InsertedIs
    <3>3. IsInjective(f[j])
      BY <2>2, <2>8, <2>4, <3>1, InsertedIs
    <3>. QED BY <2>2, <2>3, <2>6, <2>8, <3>2, <3>3, Zenon DEF j
  <2>. QED BY <2>6, <2>7, <2>8 DEF j
<1>. HIDE DEF U
<1>5. n \in U
  BY <1>3, <1>4, NatInSet
<1>6. f[n] \in Seq(T) /\ (\A k \in T : Lists(f[n], k)) /\ IsInjective(f[n])
  BY <1>5 DEF U
<1>. QED BY <1>1, <1>6

\* Inserting asks only for the keys of what is in the list, and of the number.
LEMMA InsertedSame ==
    ASSUME NEW S, NEW q \in Seq(S), NEW k, NEW key, NEW key2,
           \A x \in S : key2[x] = key[x], key2[k] = key[k]
    PROVE  Inserted(q, k, key2) = Inserted(q, k, key)
<1>1. \A i \in DOMAIN q : q[i] \in S
  BY LenProperties
<1>2. {i \in DOMAIN q : key2[q[i]] <= key2[k]} = {i \in DOMAIN q : key[q[i]] <= key[k]}
  BY <1>1
<1>. QED BY <1>2, Zenon DEF Inserted

\* What comes last by its key is appended.
LEMMA InsertedLast ==
    ASSUME NEW S, NEW q \in Seq(S), NEW k \in S, NEW key, \A x \in S : key[x] <= key[k]
    PROVE  Inserted(q, k, key) = Append(q, k)
<1> DEFINE before == {i \in DOMAIN q : key[q[i]] <= key[k]}
           place == 1 + Cardinality(before)
           r == InsertAt(q, place, k)
           p == Append(q, k)
<1>1. Len(q) \in Nat /\ DOMAIN q = 1 .. Len(q) /\ \A i \in DOMAIN q : q[i] \in S
  BY LenProperties
<1>2. before = 1 .. Len(q)
  BY <1>1
<1>3. place = Len(q) + 1
  <2> DEFINE l == Len(q)
  <2>1. l \in Nat /\ before = 1 .. l
    BY <1>1, <1>2
  <2>. HIDE DEF l, before
  <2>2. Cardinality(before) = IF 1 > l THEN 0 ELSE l - 1 + 1
    <3>1. 1 \in Int /\ l \in Int
      BY <2>1
    <3>. QED BY <2>1, <3>1, FS_Interval, Zenon
  <2>3. Cardinality(before) = l
    BY <2>1, <2>2
  <2>. QED BY <2>1, <2>3 DEF l
<1>4. Inserted(q, k, key) = r
  BY Zenon DEF Inserted
<1>. HIDE DEF place
<1>5. place \in 1 .. Len(q) + 1
  BY <1>1, <1>3
<1>6. /\ r \in Seq(S) /\ Len(r) = Len(q) + 1
      /\ \A j \in 1 .. place - 1 : r[j] = q[j]
      /\ r[place] = k
  BY <1>5, InsertAtIs
<1>. HIDE DEF r
<1>7. /\ p \in Seq(S) /\ Len(p) = Len(q) + 1
      /\ \A j \in 1 .. Len(q) : p[j] = q[j]
      /\ p[Len(q) + 1] = k
  BY <1>1, AppendProperties
<1>. HIDE DEF p
<1>8. \A j \in 1 .. Len(r) : r[j] = p[j]
  BY <1>1, <1>3, <1>6, <1>7
<1>9. r = p
  BY <1>6, <1>7, <1>8, SeqEqual
<1>. QED BY <1>4, <1>9 DEF p

\* Two sets that have the same numbers up to n, with the same keys, have the same
\* list there.
LEMMA AgreeUpTo ==
    ASSUME NEW n \in Nat, NEW T \in SUBSET (1 .. n), NEW key, NEW key2,
           \A x \in T : key2[x] = key[x],
           NEW l \in Nat, n <= l, NEW V, V \cap (1 .. n) = T,
           NEW g, IsUpTo(g, T, n, key), NEW h, IsUpTo(h, V, l, key2)
    PROVE  h[n] = g[n]
<1> DEFINE U == {k \in Nat : k <= n => h[k] = g[k]}
<1>1. 0 \in U
  BY DEF IsUpTo
<1>2. ASSUME NEW k \in Nat, k \in U PROVE k + 1 \in U
  <2>. SUFFICES ASSUME k + 1 <= n PROVE h[k + 1] = g[k + 1]
    OBVIOUS
  <2> DEFINE j == k + 1
  <2>1. j \in 1 .. n /\ j \in 1 .. l /\ j - 1 = k /\ h[k] = g[k] /\ k \in 0 .. n
    BY <1>2
  <2>2. g[k] \in Seq(T)
    BY <2>1, UpToLists
  <2>. HIDE DEF j
  <2>3. g[j] = AndNumber(T, g[k], j, key)
    BY <2>1, Zenon DEF IsUpTo
  <2>4. h[j] = AndNumber(V, g[k], j, key2)
    BY <2>1, Zenon DEF IsUpTo
  <2>5. j \in V <=> j \in T
    BY <2>1
  <2>6. j \in T => Inserted(g[k], j, key2) = Inserted(g[k], j, key)
    <3> DEFINE q == g[k]
    <3>. SUFFICES ASSUME j \in T PROVE Inserted(q, j, key2) = Inserted(q, j, key)
      OBVIOUS
    <3>1. q \in Seq(T) /\ key2[j] = key[j]
      BY <2>2
    <3>. HIDE DEF q
    <3>. QED BY <3>1, InsertedSame
  <2>7. h[j] = g[j]
    BY <2>3, <2>4, <2>5, <2>6, Zenon DEF AndNumber
  <2>. QED BY <2>7 DEF j
<1>. HIDE DEF U
<1>3. n \in U
  BY <1>1, <1>2, NatInSet
<1>. QED BY <1>3 DEF U

\* The list depends on the keys of its numbers alone.
LEMMA SameOrder ==
    ASSUME NEW n \in Nat, NEW T \in SUBSET (1 .. n), NEW key, NEW key2,
           \A x \in T : key2[x] = key[x]
    PROVE  InKeyOrder(T, n, key2) = InKeyOrder(T, n, key)
<1>1. PICK g : IsUpTo(g, T, n, key) /\ g[n] = InKeyOrder(T, n, key)
  BY UpToExists
<1>2. PICK h : IsUpTo(h, T, n, key2) /\ h[n] = InKeyOrder(T, n, key2)
  BY UpToExists
<1>3. T \cap (1 .. n) = T /\ n <= n
  <2>1. T \cap (1 .. n) = T
    BY Zenon
  <2>. QED BY <2>1
<1>4. h[n] = g[n]
  <2> DEFINE l == n
  <2>1. l \in Nat /\ n <= l /\ IsUpTo(h, T, l, key2)
    BY <1>2, <1>3
  <2>. HIDE DEF l
  <2>. QED BY <1>1, <1>3, <2>1, AgreeUpTo
<1>. QED BY <1>1, <1>2, <1>4

\* A number that is not in the set makes no difference.
LEMMA NoNumber ==
    ASSUME NEW n \in Nat, NEW T \in SUBSET (1 .. n), NEW key, NEW key2,
           \A x \in T : key2[x] = key[x]
    PROVE  InKeyOrder(T, n + 1, key2) = InKeyOrder(T, n, key)
<1> DEFINE l == n + 1
<1>1. /\ l \in Nat /\ n <= l /\ T \in SUBSET (1 .. l) /\ T \cap (1 .. n) = T
      /\ l \in 1 .. l /\ l - 1 = n /\ l \notin T
  <2>1. l \in Nat /\ n <= l /\ l \in 1 .. l /\ l - 1 = n /\ l \notin 1 .. n
    OBVIOUS
  <2>2. \A x \in 1 .. n : x \in 1 .. l
    OBVIOUS
  <2>. HIDE DEF l
  <2>. QED BY <2>1, <2>2, Zenon
<1>. HIDE DEF l
<1>2. PICK g : IsUpTo(g, T, n, key) /\ g[n] = InKeyOrder(T, n, key)
  BY UpToExists
<1>3. PICK h : IsUpTo(h, T, l, key2) /\ h[l] = InKeyOrder(T, l, key2)
  BY <1>1, UpToExists
<1>4. h[n] = g[n]
  BY <1>1, <1>2, <1>3, AgreeUpTo
<1>5. h[l] = AndNumber(T, h[n], l, key2)
  BY <1>1, <1>3, Zenon DEF IsUpTo
<1>6. h[l] = h[n]
  BY <1>1, <1>5 DEF AndNumber
<1>. QED BY <1>2, <1>3, <1>4, <1>6 DEF l

\* The next number, with the greatest key of all, is the last of the list.
LEMMA LastNumber ==
    ASSUME NEW n \in Nat, NEW T \in SUBSET (1 .. n), NEW key, NEW key2,
           \A x \in T : key2[x] = key[x],
           \A x \in T \cup {n + 1} : key2[x] <= key2[n + 1]
    PROVE  InKeyOrder(T \cup {n + 1}, n + 1, key2) = Append(InKeyOrder(T, n, key), n + 1)
<1> DEFINE l == n + 1
           V == T \cup {l}
<1>1. /\ l \in Nat /\ n <= l /\ V \in SUBSET (1 .. l) /\ V \cap (1 .. n) = T
      /\ l \in 1 .. l /\ l - 1 = n /\ l \in V /\ T \subseteq V
      /\ \A x \in V : key2[x] <= key2[l]
  <2>1. l \in Nat /\ n <= l /\ l \in 1 .. l /\ l - 1 = n /\ l \notin 1 .. n
    OBVIOUS
  <2>2. \A x \in 1 .. n : x \in 1 .. l
    OBVIOUS
  <2>3. \A x \in V : key2[x] <= key2[l]
    OBVIOUS
  <2>. HIDE DEF l
  <2>. QED BY <2>1, <2>2, <2>3, Zenon
<1>. HIDE DEF l, V
<1>2. PICK g : IsUpTo(g, T, n, key) /\ g[n] = InKeyOrder(T, n, key)
  BY UpToExists
<1>3. PICK h : IsUpTo(h, V, l, key2) /\ h[l] = InKeyOrder(V, l, key2)
  BY <1>1, UpToExists
<1>4. h[n] = g[n]
  BY <1>1, <1>2, <1>3, AgreeUpTo
<1>5. h[l] = AndNumber(V, h[n], l, key2)
  BY <1>1, <1>3, Zenon DEF IsUpTo
<1>6. g[n] \in Seq(V)
  <2>1. n \in 0 .. n
    OBVIOUS
  <2>2. g[n] \in Seq(T)
    BY <1>2, <2>1, UpToLists
  <2>. QED BY <1>1, <2>2
<1>7. Inserted(g[n], l, key2) = Append(g[n], l)
  BY <1>1, <1>6, InsertedLast, ZenonT(40)
<1>8. h[l] = Append(g[n], l)
  BY <1>1, <1>4, <1>5, <1>7 DEF AndNumber
<1>. QED BY <1>2, <1>3, <1>8 DEF l, V

-----------------------------------------------------------------------------
(* Sequences whose elements have no type.                                  *)

\* A sequence, of whatever.
IsSeq(q) == Len(q) \in Nat /\ q = [i \in 1 .. Len(q) |-> q[i]]

\* Functions on 1 .. n are sequences, of whatever.
LEMMA FunctionSeq ==
    ASSUME NEW n \in Nat, NEW q, q = [i \in 1 .. n |-> q[i]]
    PROVE  IsSeq(q) /\ Len(q) = n /\ DOMAIN q = 1 .. n
<1> DEFINE S == {q[i] : i \in 1 .. n}
<1>1. q \in [1 .. n -> S]
  OBVIOUS
<1>2. Len(q) = n /\ DOMAIN q = 1 .. n
  <2>. HIDE DEF S
  <2>. QED BY <1>1, FunctionIsSeq
<1>. QED BY <1>2 DEF IsSeq

\* What a list has after one more element.
LEMMA AppendSeq ==
    ASSUME NEW q, IsSeq(q), NEW e
    PROVE  /\ IsSeq(Append(q, e)) /\ Len(Append(q, e)) = Len(q) + 1
           /\ DOMAIN q = 1 .. Len(q) /\ DOMAIN Append(q, e) = 1 .. Len(q) + 1
           /\ \A i \in 1 .. Len(q) : Append(q, e)[i] = q[i]
           /\ Append(q, e)[Len(q) + 1] = e
<1> DEFINE n == Len(q)
           S == {q[i] : i \in 1 .. n} \cup {e}
           p == Append(q, e)
<1>1. n \in Nat /\ q = [i \in 1 .. n |-> q[i]]
  BY DEF IsSeq
<1>2. q \in [1 .. n -> S] /\ e \in S
  <2>. HIDE DEF n
  <2>. QED BY <1>1
<1>. HIDE DEF S
<1>3. q \in Seq(S) /\ DOMAIN q = 1 .. n
  BY <1>1, <1>2, FunctionIsSeq
<1>4. /\ p \in Seq(S) /\ DOMAIN p = DOMAIN q \cup {n + 1}
      /\ \A i \in DOMAIN q : p[i] = q[i]
      /\ p[n + 1] = e
  BY <1>1, <1>2, <1>3, AppendProperties
<1>5. Len(p) = n + 1 /\ DOMAIN p = 1 .. n + 1
  BY <1>1, <1>2, <1>3, AppendProperties, LenProperties
<1>6. p = [i \in 1 .. n + 1 |-> p[i]]
  <2>1. p \in [1 .. n + 1 -> S]
    BY <1>4, <1>5, LenProperties
  <2>. HIDE DEF p
  <2>. QED BY <2>1
<1>. HIDE DEF n, p
<1>7. n + 1 \in Nat
  BY <1>1
<1>8. IsSeq(p)
  BY <1>5, <1>6, <1>7 DEF IsSeq
<1>. QED BY <1>3, <1>4, <1>5, <1>8 DEF n, p

\* One element replaced.
LEMMA ReplacedSeq ==
    ASSUME NEW q, IsSeq(q), NEW i \in DOMAIN q, NEW p, DOMAIN p = DOMAIN q,
           \A j \in DOMAIN q : j # i => p[j] = q[j], p = [j \in DOMAIN q |-> p[j]]
    PROVE  IsSeq(p) /\ Len(p) = Len(q)
<1>1. Len(q) \in Nat /\ DOMAIN q = 1 .. Len(q)
  BY DEF IsSeq
<1>2. p = [j \in 1 .. Len(q) |-> p[j]]
  BY <1>1
<1>. QED BY <1>1, <1>2, FunctionSeq

-----------------------------------------------------------------------------
(* The statements of ChatSql.                                              *)


\* What Append does to a row's index, as the statements use it.
LEMMA AppendAt ==
    ASSUME NEW S, NEW q \in Seq(S), NEW e \in S
    PROVE  /\ Append(q, e) \in Seq(S)
           /\ DOMAIN Append(q, e) = DOMAIN q \cup {Len(q) + 1}
           /\ \A i \in DOMAIN q : /\ Append(q, e)[i] = q[i]
                                  /\ i \in Nat /\ 1 <= i /\ i <= Len(q)
           /\ Append(q, e)[Len(q) + 1] = e
           /\ Len(q) \in Nat
           /\ DOMAIN q = 1 .. Len(q)
  OBVIOUS

\* MarkRead leaves every message as it is but for its READ rows, and adds no
\* row to any but those it is told to mark.
LEMMA MarkReadKeeps ==
    ASSUME NEW q \in Seq(MessageRow), NEW u \in Logins, NEW ms
    PROVE  /\ MarkRead(q, u, ms) \in Seq(MessageRow)
           /\ DOMAIN MarkRead(q, u, ms) = DOMAIN q
           /\ Len(MarkRead(q, u, ms)) = Len(q)
           /\ \A m \in DOMAIN q :
                 /\ MarkRead(q, u, ms)[m].chat = q[m].chat
                 /\ MarkRead(q, u, ms)[m].sender = q[m].sender
                 /\ MarkRead(q, u, ms)[m].ts = q[m].ts
                 /\ MarkRead(q, u, ms)[m].rows = q[m].rows
                 /\ m \in ms => MarkRead(q, u, ms)[m].read = q[m].read \cup {u}
                 /\ m \notin ms => MarkRead(q, u, ms)[m].read = q[m].read
<1> DEFINE r == MarkRead(q, u, ms)
<1>1. q \in [1 .. Len(q) -> MessageRow] /\ Len(q) \in Nat /\ DOMAIN q = 1 .. Len(q)
  OBVIOUS
<1>2. \A m \in DOMAIN q : /\ q[m] \in MessageRow
                          /\ r[m] = IF m \in ms THEN [q[m] EXCEPT !.read = @ \cup {u}]
                                    ELSE q[m]
  BY <1>1 DEF MarkRead
<1>4. DOMAIN r = 1 .. Len(q) /\ r = [m \in 1 .. Len(q) |-> r[m]]
  BY <1>1 DEF MarkRead
<1>. HIDE DEF r
<1>3. \A m \in DOMAIN q : /\ r[m] \in MessageRow
                          /\ r[m].chat = q[m].chat
                          /\ r[m].sender = q[m].sender
                          /\ r[m].ts = q[m].ts
                          /\ r[m].rows = q[m].rows
                          /\ m \in ms => r[m].read = q[m].read \cup {u}
                          /\ m \notin ms => r[m].read = q[m].read
  <2>. SUFFICES ASSUME NEW m \in DOMAIN q
                PROVE  /\ r[m] \in MessageRow
                       /\ r[m].chat = q[m].chat
                       /\ r[m].sender = q[m].sender
                       /\ r[m].ts = q[m].ts
                       /\ r[m].rows = q[m].rows
                       /\ m \in ms => r[m].read = q[m].read \cup {u}
                       /\ m \notin ms => r[m].read = q[m].read
    OBVIOUS
  <2>1. CASE m \in ms
    <3>1. r[m] = [q[m] EXCEPT !.read = q[m].read \cup {u}] /\ q[m] \in MessageRow
      BY <1>2, <2>1
    <3>2. q[m].read \cup {u} \in SUBSET Logins
      BY <3>1 DEF MessageRow
    <3>. QED BY <2>1, <3>1, <3>2 DEF MessageRow
  <2>2. CASE m \notin ms
    BY <1>2, <2>2 DEF MessageRow
  <2>. QED BY <2>1, <2>2
<1>5. r \in [1 .. Len(q) -> MessageRow]
  BY <1>1, <1>3, <1>4
<1>6. r \in Seq(MessageRow) /\ Len(r) = Len(q)
  BY <1>1, <1>4, <1>5
<1>. QED BY <1>1, <1>3, <1>4, <1>6 DEF r

-----------------------------------------------------------------------------
(* What no statement does: take away users, change who is in a chat, or    *)
(* touch a message but for its READ rows.                                  *)
Kept(s, n) ==
    /\ s.users \subseteq n.users
    /\ ChatIds(s) \subseteq ChatIds(n)
    /\ \A c \in ChatIds(s) : Members(n, c) = Members(s, c)
    /\ MessageIds(s) \subseteq MessageIds(n)
    /\ \A m \in MessageIds(s) :
          /\ n.messages[m].chat = s.messages[m].chat
          /\ n.messages[m].sender = s.messages[m].sender
          /\ n.messages[m].ts = s.messages[m].ts
          /\ n.messages[m].rows = s.messages[m].rows
          /\ s.messages[m].read \subseteq n.messages[m].read
          /\ n.messages[m].read \subseteq n.messages[m].rows

\* One more message, of u in chat c.
OneMore(s, n, c, u) ==
    LET m == Len(s.messages) + 1
    IN  /\ MessageIds(n) = MessageIds(s) \cup {m}
        /\ n.messages[m].chat = c /\ n.messages[m].sender = u

\* What a database that keeps everything of a consistent one has already: its
\* old rows are in order, and its old pointers where they have not moved.
LEMMA KeptRows ==
    ASSUME NEW s \in Store, NEW n \in Store, Consistent(s), Kept(s, n)
    PROVE  /\ \A c \in ChatIds(s) : Members(n, c) \subseteq n.users
           /\ \A m \in MessageIds(s) : /\ n.messages[m].sender \in n.users
                                       /\ RowsComplete(n, m)
           /\ \A c \in ChatIds(s), u \in Logins :
                 n.chats[c].lastRead[u] = s.chats[c].lastRead[u]
                    => /\ PointsToRead(n, c, u)
                       /\ \A m \in MessageIds(n) : NotHidden(n, c, u, m)
<1>1. ASSUME NEW c \in ChatIds(s)
      PROVE  Members(n, c) \subseteq n.users
  BY DEF Consistent, ReferencesExist, Kept
<1>2. ASSUME NEW m \in MessageIds(s)
      PROVE  n.messages[m].sender \in n.users /\ RowsComplete(n, m)
  BY DEF Consistent, ReferencesExist, StatusRowsComplete, RowsComplete, Kept
<1>3. ASSUME NEW c \in ChatIds(s), NEW u \in Logins,
             n.chats[c].lastRead[u] = s.chats[c].lastRead[u]
      PROVE  PointsToRead(n, c, u)
  <2>1. PointsToRead(s, c, u)
    BY DEF Consistent, PointerIsRead
  <2>. QED BY <1>3, <2>1 DEF PointsToRead, IsMessageOf, Kept
<1>4. ASSUME NEW c \in ChatIds(s), NEW u \in Logins,
             n.chats[c].lastRead[u] = s.chats[c].lastRead[u],
             NEW m \in MessageIds(n)
      PROVE  NotHidden(n, c, u, m)
  <2> DEFINE p == s.chats[c].lastRead[u]
  <2>1. PointsToRead(s, c, u)
    BY DEF Consistent, PointerIsRead
  <2>2. SUFFICES ASSUME u \in Members(n, c), p # 0, m < p,
                        n.messages[m].chat = c, n.messages[m].ts < n.messages[p].ts
                 PROVE  u \in n.messages[m].read
    BY <1>4 DEF NotHidden
  <2>3. p \in MessageIds(s)
    BY <2>1, <2>2 DEF PointsToRead, IsMessageOf
  <2>4. m \in MessageIds(s)
    <3>1. s.messages \in Seq(MessageRow) /\ n.messages \in Seq(MessageRow)
      BY DEF Store
    <3>. QED BY <2>2, <2>3, <3>1 DEF MessageIds
  <2>5. NotHidden(s, c, u, m)
    BY <2>4 DEF Consistent, NothingUnreadBehindPointer
  <2>. QED BY <2>2, <2>3, <2>4, <2>5 DEF NotHidden, Kept
<1>. QED BY <1>1, <1>2, <1>3, <1>4

\* insert into users keeps the database consistent.
LEMMA UserAddedConsistent ==
    ASSUME NEW s \in Store, Consistent(s), NEW u \in Logins
    PROVE  /\ UserAdded(s, u) \in Store /\ Consistent(UserAdded(s, u))
           /\ Kept(s, UserAdded(s, u))
           /\ ChatIds(UserAdded(s, u)) = ChatIds(s) /\ MessageIds(UserAdded(s, u)) = MessageIds(s)
<1> DEFINE n == UserAdded(s, u)
<1>1. /\ n \in Store
      /\ n.chats = s.chats /\ n.messages = s.messages
      /\ n.users = s.users \cup {u}
  BY DEF UserAdded, Store
<1>. HIDE DEF n
<1>2. ChatIds(n) = ChatIds(s) /\ MessageIds(n) = MessageIds(s)
  BY <1>1 DEF ChatIds, MessageIds
<1>3. Kept(s, n)
  BY <1>1, <1>2 DEF Kept, Members, Consistent, StatusRowsComplete, RowsComplete
<1>4. Consistent(n)
  BY <1>1, <1>2, <1>3, KeptRows
     DEF Consistent, ReferencesExist, StatusRowsComplete, PointerIsRead,
         NothingUnreadBehindPointer
<1>. QED BY <1>1, <1>2, <1>3, <1>4 DEF n

\* A chat row that nobody takes part in changes nothing for anyone.
LEMMA OrphanChatConsistent ==
    ASSUME NEW s \in Store, Consistent(s)
    PROVE  OrphanChatAdded(s) \in Store /\ Consistent(OrphanChatAdded(s))
<1> DEFINE n == OrphanChatAdded(s)
           c == Len(s.chats) + 1
           row == [members |-> {}, lastRead |-> [w \in Logins |-> 0]]
<1>1. s.chats \in Seq(ChatRow) /\ row \in ChatRow
  BY DEF Store, ChatRow
<1>2. /\ n.chats = Append(s.chats, row)
      /\ n.messages = s.messages /\ n.users = s.users /\ n.tables = s.tables
  BY DEF OrphanChatAdded, Store
<1>3. /\ n.chats \in Seq(ChatRow)
      /\ ChatIds(n) = ChatIds(s) \cup {c}
      /\ \A d \in ChatIds(s) : n.chats[d] = s.chats[d]
      /\ n.chats[c] = row
  BY <1>1, <1>2, AppendAt DEF ChatIds
<1>4. n \in Store
  BY <1>2, <1>3 DEF OrphanChatAdded, Store
<1>5. MessageIds(n) = MessageIds(s)
  BY <1>2 DEF MessageIds
<1>6. Members(n, c) = {} /\ \A u \in Logins : n.chats[c].lastRead[u] = 0
  BY <1>3 DEF Members
<1>. HIDE DEF n, row, c
<1>7. Kept(s, n)
  BY <1>2, <1>3, <1>5 DEF Kept, Members, Consistent, StatusRowsComplete, RowsComplete
<1>8. \A u \in Logins : PointsToRead(n, c, u) /\ \A m \in MessageIds(n) : NotHidden(n, c, u, m)
  BY <1>6 DEF PointsToRead, NotHidden
<1>9. Consistent(n)
  BY <1>2, <1>3, <1>4, <1>5, <1>6, <1>7, <1>8, KeptRows
     DEF Consistent, ReferencesExist, StatusRowsComplete, PointerIsRead,
         NothingUnreadBehindPointer
<1>. QED BY <1>4, <1>9 DEF n

\* A new chat: one new row of each kind, nothing else moves.
LEMMA ChatAddedConsistent ==
    ASSUME NEW s \in Store, Consistent(s), NEW u \in s.users,
           NEW list, NEW t \in Nat
    PROVE  LET n == ChatAdded(s, u, list, t)
               c == Len(s.chats) + 1
           IN  /\ n \in Store /\ Consistent(n) /\ Kept(s, n)
               /\ ChatIds(n) = ChatIds(s) \cup {c}
               /\ Members(n, c) = (list \cap s.users) \cup {u}
               /\ OneMore(s, n, c, u)
<1> DEFINE n == ChatAdded(s, u, list, t)
           c == Len(s.chats) + 1
           m == Len(s.messages) + 1
           all == (list \cap s.users) \cup {u}
           row == [members |-> all, lastRead |-> [w \in Logins |-> IF w = u THEN m ELSE 0]]
           msg == [chat |-> c, sender |-> u, ts |-> t, rows |-> all, read |-> {u}]
<1>1. /\ s.chats \in Seq(ChatRow) /\ s.messages \in Seq(MessageRow)
      /\ s.users \subseteq Logins
      /\ c \in Nat /\ m \in Nat /\ c # 0 /\ m # 0
  BY DEF Store
<1>2. row \in ChatRow /\ msg \in MessageRow
  BY <1>1 DEF ChatRow, MessageRow
<1>0. n = [s EXCEPT !.messages = Append(s.messages, msg), !.chats = Append(s.chats, row)]
  BY DEF ChatAdded
<1>4. /\ row.members = all
      /\ \A w \in Logins : row.lastRead[w] = IF w = u THEN m ELSE 0
      /\ msg.chat = c /\ msg.sender = u /\ msg.rows = all /\ msg.read = {u}
  OBVIOUS
<1>. HIDE DEF n, row, msg
<1>3. /\ n.chats = Append(s.chats, row) /\ n.messages = Append(s.messages, msg)
      /\ n.users = s.users /\ n.tables = s.tables
      /\ n = [tables |-> n.tables, users |-> n.users, chats |-> n.chats,
              messages |-> n.messages]
  BY <1>0 DEF Store
<1>5. /\ n.chats \in Seq(ChatRow)
      /\ ChatIds(n) = ChatIds(s) \cup {c}
      /\ \A d \in ChatIds(s) : n.chats[d] = s.chats[d] /\ d # c
      /\ n.chats[c] = row
  BY <1>1, <1>2, <1>3, AppendAt DEF ChatIds
<1>6. /\ n.messages \in Seq(MessageRow)
      /\ MessageIds(n) = MessageIds(s) \cup {m}
      /\ \A k \in MessageIds(s) : n.messages[k] = s.messages[k] /\ k < m /\ k \in Nat
      /\ n.messages[m] = msg
  BY <1>1, <1>2, <1>3, AppendAt DEF MessageIds
<1>7. n \in Store
  BY <1>3, <1>5, <1>6 DEF Store
<1>. HIDE DEF c, m, all
<1>8. Kept(s, n)
  BY <1>3, <1>5, <1>6 DEF Kept, Members, Consistent, StatusRowsComplete, RowsComplete
<1>9. Members(n, c) = all /\ all \subseteq n.users /\ u \in all
  BY <1>3, <1>4, <1>5 DEF Members, all
<1>10. n.messages[m].sender \in n.users /\ RowsComplete(n, m)
  BY <1>3, <1>4, <1>5, <1>6, <1>9 DEF RowsComplete
<1>11. \A w \in Logins : PointsToRead(n, c, w)
  BY <1>1, <1>4, <1>5, <1>6, <1>9 DEF PointsToRead, IsMessageOf
<1>12. \A w \in Logins, k \in MessageIds(n) : NotHidden(n, c, w, k)
  <2>. SUFFICES ASSUME NEW w \in Logins, NEW k \in MessageIds(n), n.messages[k].chat = c,
                       n.chats[c].lastRead[w] # 0, k < n.chats[c].lastRead[w]
                PROVE  FALSE
    BY DEF NotHidden
  <2>1. n.chats[c].lastRead[w] = m
    BY <1>4, <1>5
  <2>2. k \in MessageIds(s)
    BY <1>1, <1>6, <2>1
  <2>3. s.messages[k].chat \in ChatIds(s)
    BY <2>2 DEF Consistent, StatusRowsComplete, RowsComplete
  <2>. QED BY <1>5, <1>6, <2>2, <2>3
<1>13. \A d \in ChatIds(s), w \in Logins :
          PointsToRead(n, d, w) /\ \A k \in MessageIds(n) : NotHidden(n, d, w, k)
  BY <1>5, <1>7, <1>8, KeptRows
<1>14. ReferencesExist(n) /\ StatusRowsComplete(n)
  BY <1>5, <1>6, <1>7, <1>8, <1>9, <1>10, KeptRows DEF ReferencesExist, StatusRowsComplete
<1>15. PointerIsRead(n) /\ NothingUnreadBehindPointer(n)
  BY <1>5, <1>11, <1>12, <1>13 DEF PointerIsRead, NothingUnreadBehindPointer
<1>16. OneMore(s, n, c, u)
  BY <1>4, <1>6 DEF OneMore, m
<1>. QED BY <1>5, <1>7, <1>8, <1>9, <1>14, <1>15, <1>16 DEF n, c, all, Consistent

\* A new message: the sender has read what is older, and points at it.
LEMMA MessageAddedConsistent ==
    ASSUME NEW s \in Store, Consistent(s), NEW u \in s.users,
           NEW c \in ChatIds(s), NEW t \in Nat
    PROVE  LET n == MessageAdded(s, u, c, t)
           IN  /\ n \in Store /\ Consistent(n) /\ Kept(s, n)
               /\ ChatIds(n) = ChatIds(s)
               /\ OneMore(s, n, c, u)
<1> DEFINE n == MessageAdded(s, u, c, t)
           m == Len(s.messages) + 1
           older == PreviousUnread(s, u, c, t)
           marked == MarkRead(s.messages, u, older)
           msg == [chat |-> c, sender |-> u, ts |-> t,
                   rows |-> Members(s, c) \cup {u}, read |-> {u}]
           pointers == [w \in Logins |-> IF w = u /\ u \in Members(s, c)
                                         THEN m ELSE s.chats[c].lastRead[w]]
           row == [s.chats[c] EXCEPT !.lastRead = pointers]
<1>1. /\ s.chats \in Seq(ChatRow) /\ s.messages \in Seq(MessageRow)
      /\ s.users \subseteq Logins /\ u \in Logins
      /\ m \in Nat /\ m # 0
  BY DEF Store
<1>2. s.chats[c] \in ChatRow /\ c \in Nat
  BY <1>1 DEF ChatIds
<1>3. row \in ChatRow
  <2>1. pointers \in [Logins -> Nat]
    BY <1>1, <1>2 DEF ChatRow
  <2>. HIDE DEF pointers
  <2>. QED BY <1>2, <2>1 DEF ChatRow
<1>4. msg \in MessageRow
  BY <1>1, <1>2 DEF MessageRow, ChatRow, Members
<1>0. n = [s EXCEPT !.messages = Append(marked, msg), !.chats = [s.chats EXCEPT ![c] = row]]
  BY DEF MessageAdded
<1>6. /\ row.members = Members(s, c)
      /\ \A w \in Logins : row.lastRead[w] = IF w = u /\ u \in Members(s, c)
                                             THEN m ELSE s.chats[c].lastRead[w]
      /\ msg.chat = c /\ msg.sender = u /\ msg.ts = t
      /\ msg.rows = Members(s, c) \cup {u} /\ msg.read = {u}
  BY <1>2 DEF ChatRow, Members
<1>7. /\ marked \in Seq(MessageRow) /\ DOMAIN marked = DOMAIN s.messages
      /\ Len(marked) = Len(s.messages)
      /\ \A k \in DOMAIN s.messages :
            /\ marked[k].chat = s.messages[k].chat
            /\ marked[k].sender = s.messages[k].sender
            /\ marked[k].ts = s.messages[k].ts
            /\ marked[k].rows = s.messages[k].rows
            /\ k \in older => marked[k].read = s.messages[k].read \cup {u}
            /\ k \notin older => marked[k].read = s.messages[k].read
  BY <1>1, MarkReadKeeps
<1>. HIDE DEF n, row, msg, marked, pointers
<1>5. /\ n.chats = [s.chats EXCEPT ![c] = row] /\ n.messages = Append(marked, msg)
      /\ n.users = s.users /\ n.tables = s.tables
      /\ n = [tables |-> n.tables, users |-> n.users, chats |-> n.chats,
              messages |-> n.messages]
  BY <1>0 DEF Store
<1>8. /\ n.chats \in Seq(ChatRow)
      /\ ChatIds(n) = ChatIds(s)
      /\ \A d \in ChatIds(s) : d # c => n.chats[d] = s.chats[d]
      /\ n.chats[c] = row
  BY <1>1, <1>3, <1>5 DEF ChatIds
<1>9. /\ n.messages \in Seq(MessageRow)
      /\ MessageIds(n) = MessageIds(s) \cup {m}
      /\ \A k \in MessageIds(s) : n.messages[k] = marked[k] /\ k < m /\ k \in Nat
      /\ n.messages[m] = msg
  BY <1>4, <1>5, <1>7, AppendAt DEF MessageIds
<1>10. n \in Store
  BY <1>5, <1>8, <1>9 DEF Store
<1>. HIDE DEF m, older
<1>11. Kept(s, n)
  <2>1. \A d \in ChatIds(s) : Members(n, d) = Members(s, d)
    BY <1>6, <1>8 DEF Members
  <2>2. \A k \in older : u \in s.messages[k].rows
    BY DEF older, PreviousUnread, Unread
  <2>3. \A k \in MessageIds(s) : s.messages[k].read \subseteq s.messages[k].rows
    BY DEF Consistent, StatusRowsComplete, RowsComplete
  <2>. QED BY <1>5, <1>7, <1>8, <1>9, <2>1, <2>2, <2>3, SMTT(40) DEF Kept, MessageIds
<1>12. n.messages[m].sender \in n.users /\ RowsComplete(n, m)
  BY <1>5, <1>6, <1>8, <1>9 DEF RowsComplete, Members
<1>13. ASSUME NEW w \in Logins, w # u \/ u \notin Members(s, c)
       PROVE  n.chats[c].lastRead[w] = s.chats[c].lastRead[w]
  BY <1>6, <1>8, <1>13
<1>14. ASSUME u \in Members(s, c)
       PROVE  PointsToRead(n, c, u) /\ \A k \in MessageIds(n) : NotHidden(n, c, u, k)
  <2>1. n.chats[c].lastRead[u] = m
    BY <1>1, <1>6, <1>8, <1>14
  <2>2. PointsToRead(n, c, u)
    BY <1>6, <1>8, <1>9, <1>14, <2>1 DEF PointsToRead, IsMessageOf, Members
  <2>3. ASSUME NEW k \in MessageIds(n)
        PROVE  NotHidden(n, c, u, k)
    <3>. SUFFICES ASSUME k < m, n.messages[k].chat = c, n.messages[k].ts < t
                  PROVE  u \in n.messages[k].read
      BY <1>6, <1>9, <2>1 DEF NotHidden
    <3>1. k \in MessageIds(s)
      BY <1>1, <1>9
    <3>2. s.messages[k].chat = c /\ s.messages[k].ts < t
      BY <1>7, <1>9, <3>1 DEF MessageIds
    <3>3. u \in s.messages[k].rows
      BY <1>14, <3>1, <3>2 DEF Consistent, StatusRowsComplete, RowsComplete
    <3>4. u \in s.messages[k].read \/ k \in older
      BY <3>1, <3>2, <3>3 DEF older, PreviousUnread, Unread
    <3>. QED BY <1>7, <1>9, <3>1, <3>4 DEF MessageIds
  <2>. QED BY <2>2, <2>3
<1>15. \A w \in Logins : PointsToRead(n, c, w) /\ \A k \in MessageIds(n) : NotHidden(n, c, w, k)
  BY <1>10, <1>11, <1>13, <1>14, KeptRows
<1>16. Consistent(n)
  BY <1>8, <1>9, <1>10, <1>11, <1>12, <1>15, KeptRows, SMTT(40)
     DEF Consistent, ReferencesExist, StatusRowsComplete, PointerIsRead,
         NothingUnreadBehindPointer
<1>17. OneMore(s, n, c, u)
  BY <1>6, <1>9 DEF OneMore, m
<1>. QED BY <1>8, <1>10, <1>11, <1>16, <1>17 DEF n

\* Reading up to message m: the pointer moves to it, forward or back.
LEMMA ReadMarkedConsistent ==
    ASSUME NEW s \in Store, Consistent(s), NEW u \in Logins, NEW c, NEW m \in Nat,
           TakesPart(s, u, c) => IsMessageOf(s, m, c)
    PROVE  LET n == ReadMarked(s, u, c, m)
           IN  /\ n \in Store /\ Consistent(n) /\ Kept(s, n)
               /\ ChatIds(n) = ChatIds(s) /\ MessageIds(n) = MessageIds(s)
<1> DEFINE n == ReadMarked(s, u, c, m)
           seen == ReadUpTo(s, u, c, m)
           marked == MarkRead(s.messages, u, seen)
           row == [s.chats[c] EXCEPT !.lastRead = [@ EXCEPT ![u] = m]]
           rows == IF TakesPart(s, u, c) THEN [s.chats EXCEPT ![c] = row] ELSE s.chats
<1>1. s.chats \in Seq(ChatRow) /\ s.messages \in Seq(MessageRow)
  BY DEF Store
<1>2. ASSUME TakesPart(s, u, c)
      PROVE  /\ row \in ChatRow /\ row.members = Members(s, c)
             /\ \A w \in Logins : row.lastRead[w] = IF w = u THEN m
                                                   ELSE s.chats[c].lastRead[w]
  <2>1. s.chats[c] \in ChatRow
    BY <1>1, <1>2 DEF TakesPart, ChatIds
  <2>. QED BY <2>1 DEF ChatRow, Members
<1>3. n = [s EXCEPT !.messages = marked, !.chats = rows]
  BY DEF ReadMarked
<1>4. /\ marked \in Seq(MessageRow) /\ DOMAIN marked = DOMAIN s.messages
      /\ \A k \in DOMAIN s.messages :
            /\ marked[k].chat = s.messages[k].chat
            /\ marked[k].sender = s.messages[k].sender
            /\ marked[k].ts = s.messages[k].ts
            /\ marked[k].rows = s.messages[k].rows
            /\ k \in seen => marked[k].read = s.messages[k].read \cup {u}
            /\ k \notin seen => marked[k].read = s.messages[k].read
  BY <1>1, MarkReadKeeps
<1>. HIDE DEF n, marked, row
<1>5. /\ rows \in Seq(ChatRow) /\ DOMAIN rows = ChatIds(s)
      /\ \A d \in ChatIds(s) : ~(TakesPart(s, u, c) /\ d = c) => rows[d] = s.chats[d]
      /\ TakesPart(s, u, c) => rows[c] = row
  <2>1. CASE TakesPart(s, u, c)
    BY <1>1, <1>2, <2>1 DEF ChatIds, TakesPart
  <2>2. CASE ~TakesPart(s, u, c)
    BY <1>1, <2>2 DEF ChatIds
  <2>. QED BY <2>1, <2>2
<1>. HIDE DEF rows
<1>6. /\ n.chats = rows /\ n.messages = marked /\ n.users = s.users
      /\ n \in Store
      /\ ChatIds(n) = ChatIds(s) /\ MessageIds(n) = MessageIds(s)
  BY <1>3, <1>4, <1>5 DEF Store, ChatIds, MessageIds
<1>. HIDE DEF seen
<1>7. Kept(s, n)
  <2>1. \A d \in ChatIds(s) : Members(n, d) = Members(s, d)
    BY <1>2, <1>5, <1>6 DEF Members
  <2>2. \A k \in seen : u \in s.messages[k].rows
    BY DEF seen, ReadUpTo, Unread
  <2>3. \A k \in MessageIds(s) : s.messages[k].read \subseteq s.messages[k].rows
    BY DEF Consistent, StatusRowsComplete, RowsComplete
  <2>. QED BY <1>4, <1>6, <2>1, <2>2, <2>3 DEF Kept, MessageIds
<1>8. ASSUME NEW d \in ChatIds(n), NEW w \in Logins, ~(TakesPart(s, u, c) /\ d = c /\ w = u)
      PROVE  n.chats[d].lastRead[w] = s.chats[d].lastRead[w]
  <2>1. CASE TakesPart(s, u, c) /\ d = c
    BY <1>2, <1>5, <1>6, <1>8, <2>1
  <2>2. CASE ~(TakesPart(s, u, c) /\ d = c)
    BY <1>5, <1>6, <2>2
  <2>. QED BY <2>1, <2>2
<1>9. ASSUME TakesPart(s, u, c)
      PROVE  PointsToRead(n, c, u) /\ \A k \in MessageIds(n) : NotHidden(n, c, u, k)
  <2>1. n.chats[c].lastRead[u] = m
    BY <1>2, <1>5, <1>6, <1>9
  <2>2. IsMessageOf(s, m, c) /\ u \in Members(s, c)
    BY <1>9 DEF TakesPart
  <2>3. ASSUME NEW k \in MessageIds(s), s.messages[k].chat = c,
               s.messages[k].ts <= s.messages[m].ts
        PROVE  u \in n.messages[k].read
    <3>1. u \in s.messages[k].rows
      BY <2>2, <2>3 DEF Consistent, StatusRowsComplete, RowsComplete
    <3>2. u \in s.messages[k].read \/ k \in seen
      BY <2>2, <2>3, <3>1 DEF seen, ReadUpTo, Unread, IsMessageOf
    <3>. QED BY <1>4, <1>6, <3>2 DEF MessageIds
  <2>4. \A k \in MessageIds(s) : s.messages[k].ts \in Nat
    <3>1. \A k \in MessageIds(s) : s.messages[k] \in MessageRow
      BY <1>1 DEF MessageIds
    <3>. QED BY <3>1 DEF MessageRow
  <2>5. u \in n.messages[m].read
    BY <2>2, <2>3, <2>4 DEF IsMessageOf
  <2>6. PointsToRead(n, c, u)
    BY <1>7, <1>9, <2>1, <2>2, <2>5 DEF PointsToRead, IsMessageOf, Kept, TakesPart
  <2>7. ASSUME NEW k \in MessageIds(n)
        PROVE  NotHidden(n, c, u, k)
    <3>. SUFFICES ASSUME n.messages[k].chat = c, n.messages[k].ts < n.messages[m].ts
                  PROVE  u \in n.messages[k].read
      BY <2>1 DEF NotHidden
    <3>1. s.messages[k].chat = c /\ s.messages[k].ts <= s.messages[m].ts
      BY <1>6, <1>7, <2>2, <2>4 DEF Kept, IsMessageOf
    <3>. QED BY <1>6, <2>3, <3>1
  <2>. QED BY <2>6, <2>7
<1>10. \A d \in ChatIds(n), w \in Logins :
          PointsToRead(n, d, w) /\ \A k \in MessageIds(n) : NotHidden(n, d, w, k)
  BY <1>6, <1>7, <1>8, <1>9, KeptRows
<1>11. ReferencesExist(n) /\ StatusRowsComplete(n)
  BY <1>6, <1>7, KeptRows DEF ReferencesExist, StatusRowsComplete
<1>12. PointerIsRead(n) /\ NothingUnreadBehindPointer(n)
  BY <1>10 DEF PointerIsRead, NothingUnreadBehindPointer
<1>. QED BY <1>6, <1>7, <1>11, <1>12 DEF n, Consistent

\* A database without rows has nothing to be wrong.
LEMMA EmptyConsistent == EmptyStore \in Store /\ Consistent(EmptyStore)
<1>1. EmptyStore \in Store
  BY DEF EmptyStore, Store
<1>2. ChatIds(EmptyStore) = {} /\ MessageIds(EmptyStore) = {}
  BY DEF EmptyStore, ChatIds, MessageIds
<1>. QED BY <1>1, <1>2 DEF Consistent, ReferencesExist, StatusRowsComplete,
                          PointerIsRead, NothingUnreadBehindPointer

-----------------------------------------------------------------------------
(* The messages that are stored already.                                   *)

\* Database n has the messages of s, with no more than marks of u added to them.
Grown(s, n, u) ==
    \A m \in MessageIds(s) :
        /\ m \in MessageIds(n)
        /\ n.messages[m] = [s.messages[m] EXCEPT !.read = n.messages[m].read]
        /\ s.messages[m].read \subseteq n.messages[m].read
        /\ n.messages[m].read \ s.messages[m].read \subseteq {u} \cap s.messages[m].rows

LEMMA SameMessages ==
    ASSUME NEW s \in Store, NEW n, NEW u, n.messages = s.messages
    PROVE  Grown(s, n, u)
<1>1. \A m \in MessageIds(s) : s.messages[m] \in MessageRow
  BY DEF Store, MessageIds
<1>. QED BY <1>1 DEF Grown, MessageIds, MessageRow

\* A new message comes after those that are there.
LEMMA AppendedGrown ==
    ASSUME NEW s \in Store, NEW n, NEW u, NEW msg \in MessageRow,
           n.messages = Append(s.messages, msg)
    PROVE  Grown(s, n, u)
<1>1. s.messages \in Seq(MessageRow)
  BY DEF Store
<1>2. \A m \in MessageIds(s) : /\ m \in MessageIds(n)
                               /\ n.messages[m] = s.messages[m]
                               /\ s.messages[m] \in MessageRow
  BY <1>1, AppendAt DEF MessageIds
<1>. QED BY <1>2 DEF Grown, MessageRow

\* message_status_update marks rows of u that exist and are not READ.
LEMMA MarkedGrown ==
    ASSUME NEW s \in Store, NEW n, NEW u \in Logins, NEW ms, NEW rest,
           \A m \in ms : m \in MessageIds(s) /\ Unread(s, m, u),
           rest \in MessageRow,
           n.messages \in {MarkRead(s.messages, u, ms),
                           Append(MarkRead(s.messages, u, ms), rest)}
    PROVE  Grown(s, n, u)
<1> DEFINE marked == MarkRead(s.messages, u, ms)
<1>1. s.messages \in Seq(MessageRow)
  BY DEF Store
<1>2. /\ marked \in Seq(MessageRow)
      /\ DOMAIN marked = MessageIds(s)
      /\ \A m \in MessageIds(s) :
            /\ marked[m].chat = s.messages[m].chat
            /\ marked[m].sender = s.messages[m].sender
            /\ marked[m].ts = s.messages[m].ts
            /\ marked[m].rows = s.messages[m].rows
            /\ m \in ms => marked[m].read = s.messages[m].read \cup {u}
            /\ m \notin ms => marked[m].read = s.messages[m].read
  BY <1>1, MarkReadKeeps DEF MessageIds
<1>. HIDE DEF marked
<1>3. \A m \in MessageIds(s) : m \in MessageIds(n) /\ n.messages[m] = marked[m]
  BY <1>2, AppendAt DEF MessageIds, marked
<1>4. ASSUME NEW m \in MessageIds(s)
      PROVE  marked[m] = [s.messages[m] EXCEPT !.read = marked[m].read]
  <2>1. s.messages[m] \in MessageRow /\ marked[m] \in MessageRow
    BY <1>1, <1>2 DEF MessageIds
  <2>. QED BY <1>2, <2>1 DEF MessageRow
<1>5. \A m \in ms : u \in s.messages[m].rows
  BY DEF Unread
<1>. QED BY <1>2, <1>3, <1>4, <1>5 DEF Grown

-----------------------------------------------------------------------------
(* The statements, as writers of messages.                                 *)

LEMMA UserAddedGrown ==
    ASSUME NEW s \in Store, NEW u PROVE Grown(s, UserAdded(s, u), u)
<1>1. UserAdded(s, u).messages = s.messages
  BY DEF UserAdded, Store
<1>. QED BY <1>1, SameMessages

LEMMA OrphanChatGrown ==
    ASSUME NEW s \in Store, NEW u PROVE Grown(s, OrphanChatAdded(s), u)
<1>1. OrphanChatAdded(s).messages = s.messages
  BY DEF OrphanChatAdded, Store
<1>. QED BY <1>1, SameMessages

LEMMA ChatAddedGrown ==
    ASSUME NEW s \in Store, NEW u \in s.users, NEW list, NEW t \in Nat
    PROVE  Grown(s, ChatAdded(s, u, list, t), u)
<1> DEFINE msg == [chat |-> Len(s.chats) + 1, sender |-> u, ts |-> t,
                   rows |-> (list \cap s.users) \cup {u}, read |-> {u}]
<1>1. s.chats \in Seq(ChatRow) /\ s.users \subseteq Logins
  BY DEF Store
<1>2. msg \in MessageRow
  BY <1>1 DEF MessageRow
<1>3. ChatAdded(s, u, list, t).messages = Append(s.messages, msg)
  BY DEF ChatAdded, Store
<1>. HIDE DEF msg
<1>. QED BY <1>2, <1>3, AppendedGrown

LEMMA MessageAddedGrown ==
    ASSUME NEW s \in Store, NEW u \in s.users, NEW c \in ChatIds(s), NEW t \in Nat
    PROVE  Grown(s, MessageAdded(s, u, c, t), u)
<1> DEFINE msg == [chat |-> c, sender |-> u, ts |-> t,
                   rows |-> Members(s, c) \cup {u}, read |-> {u}]
           older == PreviousUnread(s, u, c, t)
<1>1. s.chats \in Seq(ChatRow) /\ s.users \subseteq Logins
  BY DEF Store
<1>2. s.chats[c] \in ChatRow /\ c \in Nat
  BY <1>1 DEF ChatIds
<1>3. msg \in MessageRow
  BY <1>1, <1>2 DEF MessageRow, ChatRow, Members
<1>4. MessageAdded(s, u, c, t).messages = Append(MarkRead(s.messages, u, older), msg)
  BY DEF MessageAdded, Store
<1>5. \A m \in older : m \in MessageIds(s) /\ Unread(s, m, u)
  BY DEF PreviousUnread
<1>. HIDE DEF msg, older
<1>. QED BY <1>1, <1>3, <1>4, <1>5, MarkedGrown

LEMMA ReadMarkedGrown ==
    ASSUME NEW s \in Store, NEW u \in Logins, NEW c, NEW m
    PROVE  Grown(s, ReadMarked(s, u, c, m), u)
<1> DEFINE upTo == ReadUpTo(s, u, c, m)
<1>1. ReadMarked(s, u, c, m).messages = MarkRead(s.messages, u, upTo)
  BY DEF ReadMarked, Store
<1>2. \A k \in upTo : k \in MessageIds(s) /\ Unread(s, k, u)
  BY DEF ReadUpTo
<1>3. PICK row : row \in MessageRow
  <2>1. [chat |-> 0, sender |-> u, ts |-> 0, rows |-> {}, read |-> {}] \in MessageRow
    BY DEF MessageRow
  <2>. QED BY <2>1
<1>. HIDE DEF upTo
<1>. QED BY <1>1, <1>2, <1>3, MarkedGrown
==============================================================================
