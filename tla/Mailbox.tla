------------------------------- MODULE Mailbox -------------------------------
(***************************************************************************)
(* What the message store promises, without chats' rows, pointers, time    *)
(* stamps or failures: groups of logins that never change, a log of        *)
(* messages that only grows, and for every login the messages it has not   *)
(* read.  A message is new to everyone in its group but its sender, once;  *)
(* it stops being new to a login only by an act of that login in that      *)
(* group.  Recreating the database replaces all of it.                     *)
(***************************************************************************)
EXTENDS Naturals, Sequences

CONSTANT Logins

VARIABLES
    groups,     \* the members of each group
    log,        \* the group and the sender of each message
    unread,     \* the messages each login has not read
    recreated   \* the last request was one to recreate the database

box == <<groups, log, unread>>

Empty == groups = <<>> /\ log = <<>> /\ unread = [u \in Logins |-> {}]

\* u reads some of the messages of group g that are new to u.
ReadSome(u, g, before) ==
    \E seen \in SUBSET {m \in before[u] : log[m].group = g} :
        unread' = [before EXCEPT ![u] = @ \ seen]

\* u sends to group g, which is groups'[g]; earlier messages may count as read.
Deliver(u, g) ==
    /\ log' = Append(log, [group |-> g, sender |-> u])
    /\ \E seen \in SUBSET {m \in unread[u] : log[m].group = g} :
          unread' = [w \in Logins |->
                        IF w = u THEN unread[u] \ seen
                        ELSE IF w \in groups'[g] THEN unread[w] \cup {Len(log')}
                        ELSE unread[w]]

Send(u, g) == g \in DOMAIN groups /\ UNCHANGED groups /\ Deliver(u, g)

\* u opens a group that u is in, with a first message.
Open(u) ==
    /\ \E members \in SUBSET Logins :
          u \in members /\ groups' = Append(groups, members)
    /\ Deliver(u, Len(groups'))

\* A group without members, left behind when its creator is unknown.
Abandon == groups' = Append(groups, {}) /\ UNCHANGED <<log, unread>>

Look(u) == /\ \E g \in DOMAIN groups : ReadSome(u, g, unread)
           /\ UNCHANGED <<groups, log>>

Recreate == /\ recreated'
            /\ DOMAIN unread' = Logins
            /\ \A u \in Logins : unread'[u] \subseteq
                  {m \in DOMAIN log' : u \in groups'[log'[m].group] \ {log'[m].sender}}

Act(u) == Open(u) \/ Look(u) \/ \E g \in DOMAIN groups : Send(u, g)

Next == \/ ~recreated' /\ (Abandon \/ \E u \in Logins : Act(u))
        \/ Recreate

Spec == Empty /\ [][Next]_box
==============================================================================
