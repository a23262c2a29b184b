-------------------------------- MODULE Link --------------------------------
(***************************************************************************)
(* How requests travel in Shark 3.0 Qt.  The server has one thread, one    *)
(* slot for an accepted connection, and accepts the next one only when the *)
(* slot is empty.  A client process has a GUI thread that sends a request  *)
(* and blocks until the reply, and a monitor thread that opens the socket, *)
(* polls it every 500 ms and reopens it.  The two share the descriptor and *)
(* the flag status_online_ without a lock.                                 *)
(*                                                                         *)
(* What a request does to the database is in ChatStore.  Here it matters   *)
(* only how its processing ends: with a reply, in silence, with the        *)
(* connection closed, or with an exception nobody catches.                 *)
(***************************************************************************)
EXTENDS Naturals, Sequences

CONSTANTS
    Clients,    \* client processes
    Local,      \* those on the server's host: they find it by connecting to it
    Killable,   \* those whose process someone kills, and Server if that is one
    Conns,      \* bound: numbers for the TCP connections that exist at a time
    Backlog,    \* connections the kernel holds for accept, listen(..., 5)
    Outcomes    \* how the processing of a request may end

None == 0
Server == "server"

ASSUME LinkAssumption ==
    /\ Local \subseteq Clients
    /\ Conns \subseteq Nat \ {None}
    /\ Backlog \in Nat
    /\ Outcomes \subseteq {"reply", "silence", "refuse", "crash"}

VARIABLES
    server,     \* its thread: "poll", "busy" with a request, or the process is "down"
    job,        \* the request the server is busy with
    slot,       \* connection_: the accepted connection, or None
    backlog,    \* connections waiting for accept
    conn,       \* the TCP connections
    gui,        \* where the GUI thread of each client is
    serial,     \* the number of its request, modulo 2
    fd,         \* the connection its copy of the descriptor referred to at first
    on,         \* the connection its receiving recv is blocked on
    monitor,    \* where the monitor thread of each client is
    sock,       \* the connection socket_fd_ refers to, or None for -1
    status,     \* status_online_
    shown       \* the state of the last serverStatusChanged signal

serverVars == <<server, job, slot, backlog>>
guiVars == <<gui, serial, fd, on>>
monitorVars == <<monitor, sock, shown>>
vars == <<serverVars, conn, guiVars, monitorVars, status>>

\* Which ends are open, the requests the server has not read, the replies the
\* client has not read.  The server's end is open in the backlog, too.
Connection == [client : BOOLEAN, server : BOOLEAN,
               requests : Seq({0, 1}), replies : Seq({0, 1})]
Unused == [client |-> FALSE, server |-> FALSE, requests |-> <<>>, replies |-> <<>>]
Opened == [client |-> TRUE, server |-> TRUE, requests |-> <<>>, replies |-> <<>>]
Probe  == [client |-> FALSE, server |-> TRUE, requests |-> <<>>, replies |-> <<>>]

TypeOK ==
    /\ server \in {"poll", "busy", "down"}
    /\ job \in {0, 1}
    /\ slot \in Conns \cup {None}
    /\ backlog \in Seq(Conns)
    /\ conn \in [Conns -> Connection]
    /\ gui \in [Clients -> {"idle", "drain", "send", "receive", "blocked", "lost"}]
    /\ serial \in [Clients -> {0, 1}]
    /\ fd \in [Clients -> Conns \cup {None}]
    /\ on \in [Clients -> Conns \cup {None}]
    /\ monitor \in [Clients -> {"search", "connect", "watch", "drop"}]
    /\ sock \in [Clients -> Conns \cup {None}]
    /\ status \in [Clients -> BOOLEAN]
    /\ shown \in [Clients -> BOOLEAN]

Init ==
    /\ server = "poll" /\ job = 0 /\ slot = None /\ backlog = <<>>
    /\ conn = [q \in Conns |-> Unused]
    /\ gui = [c \in Clients |-> "idle"]
    /\ serial = [c \in Clients |-> 0]
    /\ fd = [c \in Clients |-> None]
    /\ on = [c \in Clients |-> None]
    /\ monitor = [c \in Clients |-> "search"]
    /\ sock = [c \in Clients |-> None]
    /\ status = [c \in Clients |-> FALSE]
    /\ shown = [c \in Clients |-> FALSE]

-----------------------------------------------------------------------------
(* Connections *)

\* socket_fd_ refers to an open socket (the monitor may have closed it).
HasSocket(c) == sock[c] # None /\ conn[sock[c]].client

\* recv and send on it work, and poll reports no hang-up.
Alive(c) == HasSocket(c) /\ conn[sock[c]].server

\* The numbers nothing refers to any more.
Free == {q \in Conns : /\ ~conn[q].client /\ ~conn[q].server
                       /\ \A c \in Clients : q \notin {sock[c], fd[c], on[c]}}
NewConn == CHOOSE q \in Free : TRUE

\* The kernel of a running server completes a connection it has room for.
CanConnect == server # "down" /\ Len(backlog) < Backlog /\ Free # {}

Close(q) == [conn EXCEPT ![q] = [client |-> FALSE, server |-> @.server,
                                 requests |-> @.requests, replies |-> <<>>]]

-----------------------------------------------------------------------------
(* The server *)

\* Mutant of Accept: the connection that came last is taken.
AcceptLast ==
    /\ server = "poll" /\ slot = None /\ backlog # <<>>
    /\ slot' = backlog[Len(backlog)]
    /\ backlog' = SubSeq(backlog, 1, Len(backlog) - 1)
    /\ UNCHANGED <<server, job, conn, guiVars, monitorVars, status>>

\* Mutant of Accept: a connection is accepted while there is one.
AcceptAnother ==
    /\ server = "poll" /\ backlog # <<>>
    /\ slot' = Head(backlog)
    /\ backlog' = Tail(backlog)
    /\ UNCHANGED <<server, job, conn, guiVars, monitorVars, status>>

\* EnsureConnected: accept blocks until there is a connection.
Accept ==
    /\ server = "poll" /\ slot = None /\ backlog # <<>>
    /\ slot' = Head(backlog)
    /\ backlog' = Tail(backlog)
    /\ UNCHANGED <<server, job, conn, guiVars, monitorVars, status>>

\* ReceiveFrame, ParseIncoming and the dispatch to a processor.
Receive ==
    /\ server = "poll" /\ slot # None /\ conn[slot].requests # <<>>
    /\ server' = "busy"
    /\ job' = Head(conn[slot].requests)
    /\ conn' = [conn EXCEPT ![slot].requests = Tail(@)]
    /\ UNCHANGED <<slot, backlog, guiVars, monitorVars, status>>

\* Mutant of HangUp: recv returning 0 is taken for no data yet.
EndOfFileIgnored ==
    /\ server = "poll" /\ slot # None
    /\ ~conn[slot].client
    /\ UNCHANGED vars

\* The client's end is closed: poll reports it, with a request still unread, or
\* recv returns 0.
HangUp ==
    /\ server = "poll" /\ slot # None
    /\ ~conn[slot].client
    /\ slot' = None
    /\ conn' = [conn EXCEPT ![slot] = Unused]
    /\ UNCHANGED <<server, job, backlog, guiVars, monitorVars, status>>

\* The server process ends; the kernel closes every connection.
Die ==
    /\ server' = "down" /\ slot' = None /\ backlog' = <<>>
    /\ conn' = [q \in Conns |-> [client |-> conn[q].client, server |-> FALSE,
                              requests |-> <<>>, replies |-> conn[q].replies]]
    /\ UNCHANGED <<job, guiVars, monitorVars, status>>

\* sendPacketListDTO.  To a client that is gone, the reply vanishes or, when
\* the reset arrives between the two sends of SendFrame, SIGPIPE ends the server.
Reply ==
    /\ server = "busy" /\ "reply" \in Outcomes
    /\ \/ /\ server' = "poll"
          /\ conn' = IF conn[slot].client
                     THEN [conn EXCEPT ![slot].replies = Append(@, job)]
                     ELSE conn
          /\ UNCHANGED <<job, slot, backlog, guiVars, monitorVars, status>>
       \/ ~conn[slot].client /\ Die

\* CreateMessage or CreateChat failed, an unknown login: no packet to send.
Silence ==
    /\ server = "busy" /\ "silence" \in Outcomes
    /\ server' = "poll"
    /\ UNCHANGED <<job, slot, backlog, conn, guiVars, monitorVars, status>>

\* The header of the request is not one: Reset closes the slot of a client that
\* is still there.
Refuse ==
    /\ server = "busy" /\ "refuse" \in Outcomes
    /\ server' = "poll" /\ slot' = None
    /\ conn' = [conn EXCEPT ![slot] = [client |-> @.client, server |-> FALSE,
                                     requests |-> <<>>, replies |-> @.replies]]
    /\ UNCHANGED <<job, backlog, guiVars, monitorVars, status>>

\* The processor throws what ProcessIncoming does not catch.
Crash == server = "busy" /\ "crash" \in Outcomes /\ Die

\* Someone stops the server, whatever it is doing.
Stop == Server \in Killable /\ server # "down" /\ Die

\* Someone starts the server again.
Start ==
    /\ server = "down"
    /\ server' = "poll"
    /\ UNCHANGED <<job, slot, backlog, conn, guiVars, monitorVars, status>>

ServerStep == Accept \/ Receive \/ HangUp \/ Reply \/ Silence \/ Refuse \/ Crash

-----------------------------------------------------------------------------
(* The monitor thread *)

\* findServerAddress.  On the server's host it opens a connection and closes it
\* at once, which the server accepts like any other; elsewhere the discovery
\* thread of the server answers a broadcast.
Search(c) ==
    /\ monitor[c] = "search"
    /\ \/ /\ c \in Local /\ CanConnect
          /\ conn' = [conn EXCEPT ![NewConn] = Probe]
          /\ backlog' = Append(backlog, NewConn)
       \/ /\ c \notin Local /\ server # "down"
          /\ UNCHANGED <<conn, backlog>>
    /\ monitor' = [monitor EXCEPT ![c] = "connect"]
    /\ UNCHANGED <<server, job, slot, guiVars, sock, shown, status>>

\* createConnectionCore, whatever the GUI thread is doing.
Connect(c) ==
    /\ monitor[c] = "connect"
    /\ \/ /\ CanConnect
          /\ conn' = [conn EXCEPT ![NewConn] = Opened]
          /\ backlog' = Append(backlog, NewConn)
          /\ sock' = [sock EXCEPT ![c] = NewConn]
          /\ status' = [status EXCEPT ![c] = TRUE]
          /\ shown' = [shown EXCEPT ![c] = TRUE]
          /\ monitor' = [monitor EXCEPT ![c] = "watch"]
       \/ /\ server = "down"
          /\ status' = [status EXCEPT ![c] = FALSE]
          /\ shown' = [shown EXCEPT ![c] = FALSE]
          /\ monitor' = [monitor EXCEPT ![c] = "search"]
          /\ UNCHANGED <<conn, backlog, sock>>
    /\ UNCHANGED <<server, job, slot, guiVars>>

\* socketAliveCore sees the hang-up and the loop closes the descriptor ...
CloseDead(c) ==
    /\ monitor[c] = "watch" /\ ~Alive(c)
    /\ conn' = Close(sock[c])
    /\ monitor' = [monitor EXCEPT ![c] = "drop"]
    /\ UNCHANGED <<serverVars, guiVars, sock, shown, status>>

\* Mutants of Drop: the local variable "online" stays true; the signal is not emitted.
DropStillOnline(c) ==
    /\ monitor[c] = "drop"
    /\ sock' = [sock EXCEPT ![c] = None]
    /\ status' = [status EXCEPT ![c] = FALSE]
    /\ shown' = [shown EXCEPT ![c] = FALSE]
    /\ monitor' = [monitor EXCEPT ![c] = "watch"]
    /\ UNCHANGED <<serverVars, conn, guiVars>>
DropSilently(c) ==
    /\ monitor[c] = "drop"
    /\ sock' = [sock EXCEPT ![c] = None]
    /\ status' = [status EXCEPT ![c] = FALSE]
    /\ monitor' = [monitor EXCEPT ![c] = "search"]
    /\ UNCHANGED <<serverVars, conn, guiVars, shown>>

\* ... and then sets socket_fd_ to -1 and the flag to false.
Drop(c) ==
    /\ monitor[c] = "drop"
    /\ sock' = [sock EXCEPT ![c] = None]
    /\ status' = [status EXCEPT ![c] = FALSE]
    /\ shown' = [shown EXCEPT ![c] = FALSE]
    /\ monitor' = [monitor EXCEPT ![c] = "search"]
    /\ UNCHANGED <<serverVars, conn, guiVars>>

MonitorStep(c) == Search(c) \/ Connect(c) \/ CloseDead(c) \/ Drop(c)

-----------------------------------------------------------------------------
(* The GUI thread.  The descriptor is copied once, but socket() returns the
   lowest free number, so a reopened socket has the number of the closed one. *)

GuiTo(c, place) == gui' = [gui EXCEPT ![c] = place] /\ UNCHANGED fd

\* The caller has a reply, or nothing.
Return(c) == gui' = [gui EXCEPT ![c] = "idle"] /\ fd' = [fd EXCEPT ![c] = None]

\* processingRequestToServerCore: without a connection nothing is sent.
Ask(c) ==
    /\ gui[c] = "idle" /\ sock[c] # None /\ status[c]
    /\ gui' = [gui EXCEPT ![c] = "drain"]
    /\ serial' = [serial EXCEPT ![c] = 1 - @]
    /\ fd' = [fd EXCEPT ![c] = sock[c]]
    /\ UNCHANGED <<serverVars, conn, on, monitorVars, status>>

\* getDataFromServer reads away what is there, and notices a closed connection.
Drain(c) ==
    /\ gui[c] = "drain"
    /\ \/ ~status[c] /\ Return(c) /\ UNCHANGED conn
       \/ status[c] /\ ~Alive(c) /\ GuiTo(c, "lost") /\ UNCHANGED conn
       \/ /\ status[c] /\ Alive(c) /\ GuiTo(c, "send")
          /\ conn' = [conn EXCEPT ![sock[c]].replies = <<>>]
    /\ UNCHANGED <<serverVars, serial, on, monitorVars, status>>

Send(c) ==
    /\ gui[c] = "send"
    /\ \/ ~Alive(c) /\ GuiTo(c, "lost") /\ UNCHANGED conn
       \/ /\ Alive(c) /\ GuiTo(c, "receive")
          /\ conn' = [conn EXCEPT ![sock[c]].requests = Append(@, serial[c])]
    /\ UNCHANGED <<serverVars, serial, on, monitorVars, status>>

\* The first recv for the reply: it blocks, without a time limit.
Block(c) ==
    /\ gui[c] = "receive"
    /\ \/ ~HasSocket(c) /\ GuiTo(c, "lost") /\ UNCHANGED on
       \/ HasSocket(c) /\ GuiTo(c, "blocked") /\ on' = [on EXCEPT ![c] = sock[c]]
    /\ UNCHANGED <<serverVars, conn, serial, monitorVars, status>>

\* Mutants of Wake: recv has a time limit; no data yet counts as an error; a
\* closed connection counts as no data yet.
WakeOnTimeout(c) ==
    /\ gui[c] = "blocked"
    /\ Return(c)
    /\ \/ /\ conn[on[c]].replies # <<>>
          /\ conn' = [conn EXCEPT ![on[c]].replies = Tail(@)]
       \/ conn[on[c]].replies = <<>> /\ UNCHANGED conn
    /\ on' = [on EXCEPT ![c] = None]
    /\ UNCHANGED <<serverVars, serial, monitorVars, status>>
WakeOnNothing(c) ==
    /\ gui[c] = "blocked" /\ conn[on[c]].replies = <<>>
    /\ GuiTo(c, "lost")
    /\ on' = [on EXCEPT ![c] = None]
    /\ UNCHANGED <<serverVars, conn, serial, monitorVars, status>>
WakeOnReply(c) ==
    /\ gui[c] = "blocked" /\ conn[on[c]].replies # <<>>
    /\ conn' = [conn EXCEPT ![on[c]].replies = Tail(@)]
    /\ Return(c)
    /\ on' = [on EXCEPT ![c] = None]
    /\ UNCHANGED <<serverVars, serial, monitorVars, status>>

\* A closed connection wakes the receiver when there is nothing left to read.
Wake(c) ==
    /\ gui[c] = "blocked"
    /\ \/ /\ conn[on[c]].replies # <<>>
          /\ conn' = [conn EXCEPT ![on[c]].replies = Tail(@)]
          /\ Return(c)
       \/ /\ conn[on[c]].replies = <<>>
          /\ ~conn[on[c]].client \/ ~conn[on[c]].server
          /\ GuiTo(c, "lost") /\ UNCHANGED conn
    /\ on' = [on EXCEPT ![c] = None]
    /\ UNCHANGED <<serverVars, serial, monitorVars, status>>

\* status_online.store(false), and an empty result for the caller.
Report(c) ==
    /\ gui[c] = "lost"
    /\ Return(c)
    /\ status' = [status EXCEPT ![c] = FALSE]
    /\ UNCHANGED <<serverVars, conn, serial, on, monitorVars>>

GuiStep(c) == Drain(c) \/ Send(c) \/ Block(c) \/ Wake(c) \/ Report(c)

\* The client process is killed (its kernel closes the socket), and started.
Kill(c) ==
    /\ c \in Killable
    /\ conn' = IF sock[c] = None THEN conn ELSE Close(sock[c])
    /\ Return(c)
    /\ on' = [on EXCEPT ![c] = None]
    /\ monitor' = [monitor EXCEPT ![c] = "search"]
    /\ sock' = [sock EXCEPT ![c] = None]
    /\ status' = [status EXCEPT ![c] = FALSE]
    /\ shown' = [shown EXCEPT ![c] = FALSE]
    /\ UNCHANGED <<serverVars, serial>>

Next == \/ ServerStep
        \/ Stop
        \/ Start
        \/ \E c \in Clients : MonitorStep(c) \/ Ask(c) \/ GuiStep(c) \/ Kill(c)

Spec == Init /\ [][Next]_vars

\* The loops run as long as their processes; users are under no obligation to
\* ask, to kill a client, or to stop or start the server.
Fairness == /\ WF_vars(ServerStep)
            /\ \A c \in Clients : WF_vars(MonitorStep(c)) /\ WF_vars(GuiStep(c))

\* What the code counts on without enforcing it.  The monitor closes a socket
\* only when the server's end is gone, so that no call of the GUI thread blocks
\* on it, and sleeps for 500 ms or more before it opens the next one: time
\* enough for the thread to report the loss.
Timely == \A c \in Clients :
              monitor[c] = "connect" /\ monitor'[c] = "watch" => gui[c] = "idle"

TimelySpec == Init /\ [][Next /\ Timely]_vars /\ Fairness

-----------------------------------------------------------------------------
(* Properties *)

\* The reply a GUI thread is about to take answers the request it sent, not an
\* earlier one, across closed and reopened sockets.
ReplyMatches ==
    \A c \in Clients :
        gui[c] = "blocked" => \A i \in DOMAIN conn[on[c]].replies :
                                  conn[on[c]].replies[i] = serial[c]

\* A request is given up only if the connection on which it began is gone, even
\* when the descriptor has come to refer to another one meanwhile.
GivenUpIfLost ==
    \A c \in Clients : gui[c] = "lost" => ~(conn[fd[c]].client /\ conn[fd[c]].server)

\* No descriptor leaks, and none is shared: what the server has open is in its
\* slot or waits for accept, what a client has open is the socket of that client.
SocketsOwned ==
    /\ \A q \in Conns : conn[q].server <=> \/ q = slot
                                          \/ \E i \in DOMAIN backlog : backlog[i] = q
    /\ \A q \in Conns : conn[q].client => \E c \in Clients : sock[c] = q
    /\ \A c, d \in Clients : sock[c] # None /\ sock[c] = sock[d] => c = d

\* Every request returns to its caller, with a reply or without.
Answered == \A c \in Clients : gui[c] # "idle" ~> gui[c] = "idle"

\* One client is served at a time, for as long as it stays; if each of them
\* leaves the slot sooner or later, a waiting client has its turn.
TurnComes == []<>(slot = None) => Answered

\* A connection whose client is gone does not keep the slot.
SlotFreed == \A q \in Conns : (slot = q /\ ~conn[q].client) ~> (slot # q)

\* Once the server stays up and closes no connection for a bad header, and the
\* users let the clients run, every client comes back: its flag is true and its
\* connection works, for good.
Reconnects ==
    (/\ <>[](server # "down")
     /\ <>[][~Refuse /\ \A c \in Clients : ~Kill(c)]_vars)
    => \A c \in Clients : <>[](status[c] /\ Alive(c))

\* The state the window shows does not stay different from the flag requests
\* are decided by.
VisibleState == \A c \in Clients : []<>(shown[c] = status[c])
=============================================================================
