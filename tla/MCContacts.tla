----------------------------- MODULE MCContacts -----------------------------
(* Two contacts, the first of whom is blocked; a client that is new and has
   loaded nobody, and one that has loaded the first. *)
EXTENDS Contacts

MCContacts == <<"b", "c">>
MCCopies == {{}, {"b"}}
MCActive == [login \in {"b", "c"} |-> login # "b"]
=============================================================================
