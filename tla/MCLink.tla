------------------------------- MODULE MCLink -------------------------------
(* Numbers for the connections: one accepted, Backlog waiting, and for every
   client one that the server has lost and the client has not closed, or that is
   closed but is the one on which the request of the GUI thread began. *)
EXTENDS Link, FiniteSets

MCConns == 1 .. 1 + Backlog + Cardinality(Clients)
=============================================================================
