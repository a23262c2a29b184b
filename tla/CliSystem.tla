----------------------------- MODULE CliSystem -----------------------------
(***************************************************************************)
(* Shark 2.0: console clients (Console) and the server that keeps          *)
(* everything in memory (CliServer).                                       *)
(***************************************************************************)
EXTENDS CliServer

CONSTANTS Clients, Typed, Seed, MaxWrites, MaxStops, MaxTries     \* see Console

VARIABLES server, slot, link, client, stale, stops, writes        \* see Console

CliHandle(s, r) == Route(s, r)

C == INSTANCE Console WITH Handle <- CliHandle

ASSUME SeedAssumption == Seed \in Store /\ Settled(Seed)

ASSUME TypedAssumption == Typed \subseteq Logins

ASSUME ClientsAssumption == C!None \notin Clients

ASSUME BoundsAssumption == {MaxWrites, MaxStops, MaxTries} \subseteq Nat

Spec == C!Spec

-----------------------------------------------------------------------------
(* Properties *)

\* Stopped, or ended by a request that follows a null pointer.
Endings == {C!None, "stopped", "register", "createChat"}

TypeOK ==
    /\ server \in [up : BOOLEAN, store : Store, ended : Endings]
    /\ slot \in Clients \cup {C!None}
    /\ link \in [Clients -> C!Links]
    /\ DOMAIN client = Clients /\ \A c \in Clients : C!IsClient(client[c])
    /\ stale \subseteq Clients
    /\ stops \in 0 .. MaxStops + 1 /\ writes \in 0 .. MaxWrites

\* The ids that will be given again are those of chats that were given up, which
\* nobody has in a list: no two chats that are shown have the same id.
FreeAreAbandoned == server.store.free = {i \in DOMAIN server.store.chats : ~server.store.chats[i].listed}

\* Only a server that has lost users by ending follows a null pointer, leaves a
\* request without an answer, or makes a client that is not loading a chat follow
\* one: the logins clients send are otherwise known.
CalmBeforeFirstEnd ==
    /\ server.ended \notin {C!None, "stopped"} => stops >= 2
    /\ stops = 0 => \A c \in Clients : link[c] # "asked" /\ client[c].why \in {C!None, "sender"}

\* A client always knows the senders of the messages it loads.
SendersKnown == \A c \in Clients : client[c].why # "sender"

\* A client shows what the server would send it, and counts as unread what others
\* wrote after the user's read pointer and last message (see Console).
CopiesFaithful == C!CopiesFaithful

\* While the server runs no request takes anything from a user's chats (see Console).
AckedStays == C!AckedStays
=============================================================================
