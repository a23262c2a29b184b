------------------------------- MODULE MCForms -------------------------------
(* Forms with two persons and one login that both may want.                *)
EXTENDS Forms, TLC

Persons == Permutations(Clients)
=============================================================================
