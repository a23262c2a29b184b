------------------------------- MODULE Ordered -------------------------------
(***************************************************************************)
(* Numbers in the order of a key, as a std::multimap keeps them: what is   *)
(* inserted goes behind everything whose key is not greater.               *)
(***************************************************************************)
EXTENDS Naturals, FiniteSets, SequencesExt

\* k into the list, whose numbers are in the order of key already.
Inserted(list, k, key) ==
    InsertAt(list, 1 + Cardinality({i \in DOMAIN list : key[list[i]] <= key[k]}), k)

\* Those of the numbers up to n that are in T, inserted one after the other.
InKeyOrder(T, n, key) ==
    LET upTo[k \in 0 .. n] ==
            IF k = 0 THEN <<>>
            ELSE IF k \in T THEN Inserted(upTo[k - 1], k, key)
            ELSE upTo[k - 1]
    IN  upTo[n]
==============================================================================
