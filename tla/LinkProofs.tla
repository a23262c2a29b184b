----------------------------- MODULE LinkProofs -----------------------------
(***************************************************************************)
(* Proofs about Link, for any clients, connections, backlog and outcomes:  *)
(* whatever the timing: the types; that a GUI thread never takes the       *)
(* answer to an earlier request for the one to its own; that no descriptor *)
(* leaks or is shared; and that a request is given up only if the          *)
(* connection on which it began is gone.                                   *)
(***************************************************************************)
EXTENDS Link, TLAPS

-----------------------------------------------------------------------------
(* The inductive invariant *)

\* The server works on a request of the connection q.
Working(q) == server = "busy" /\ slot = q

\* No request or reply is on its way on q.
Quiet(q) == conn[q].requests = <<>> /\ conn[q].replies = <<>> /\ ~Working(q)

\* One request, or the reply to it, is on its way on q, and it has the number s.
Carries(q, s) ==
    \/ conn[q].requests = <<s>> /\ conn[q].replies = <<>> /\ ~Working(q)
    \/ conn[q].requests = <<>> /\ conn[q].replies = <<s>> /\ ~Working(q)
    \/ conn[q].requests = <<>> /\ conn[q].replies = <<>> /\ Working(q) /\ job = s

\* c has sent a request on the connection it has open, as far as it knows.
Waiting(c) == gui[c] = "receive" \/ (gui[c] = "blocked" /\ on[c] = sock[c])

\* Only the answer to the last request may come on the socket c has open now.
Exchange(c) ==
    HasSocket(c) => \/ Quiet(sock[c])
                    \/ Waiting(c) /\ Carries(sock[c], serial[c])

\* Where a client's threads are fits the sockets it refers to.
Placed(c) ==
    /\ monitor[c] \in {"search", "connect"} <=> sock[c] = None
    /\ monitor[c] = "drop" => ~conn[sock[c]].client
    /\ gui[c] = "blocked" <=> on[c] # None
    /\ on[c] # None /\ conn[on[c]].client => sock[c] = on[c]

\* No two clients refer to one socket.
Distinct == \A c, d \in Clients : sock[c] # None /\ sock[c] = sock[d] => c = d

\* What the kernel of the server's host knows.
Kernel ==
    /\ slot # None => conn[slot].server
    /\ server = "busy" => slot # None
    /\ \A i \in DOMAIN backlog : conn[backlog[i]].server /\ backlog[i] # slot
    /\ \A i, j \in DOMAIN backlog : backlog[i] = backlog[j] => i = j
    /\ \A q \in Conns : /\ ~conn[q].client => conn[q].replies = <<>>
                        /\ ~conn[q].server => conn[q].requests = <<>>

Threads == \A c \in Clients : Placed(c) /\ Exchange(c)

LinkInv == TypeOK /\ Kernel /\ Distinct /\ Threads

-----------------------------------------------------------------------------
(* Types *)

LEMMA NoMessages == <<>> \in Seq({0, 1})
OBVIOUS

LEMMA RepliesType ==
    ASSUME NEW r \in Connection, NEW x \in Seq({0, 1})
    PROVE  [r EXCEPT !.replies = x] \in Connection
BY DEF Connection

\* A new connection gets a number that nothing refers to.
LEMMA NewIsFree ==
    ASSUME TypeOK, Free # {}
    PROVE  /\ NewConn \in Conns /\ NewConn # None
           /\ ~conn[NewConn].client /\ ~conn[NewConn].server
           /\ \A c \in Clients : NewConn \notin {sock[c], fd[c], on[c]}
<1>1. NewConn \in Free
  BY DEF NewConn
<1>2. None \notin Conns
  BY LinkAssumption
<1> QED BY <1>1, <1>2 DEF Free

LEMMA TypeServer ==
    ASSUME TypeOK, ServerStep \/ Stop \/ Start
    PROVE  TypeOK'
<1> USE DEF TypeOK
<1>0. \A q \in Conns : conn[q] \in Connection
  OBVIOUS
<1>1. CASE Accept
  <2>1. slot' \in Conns /\ backlog' \in Seq(Conns)
    BY <1>1 DEF Accept
  <2> QED BY <1>1, <2>1 DEF Accept, guiVars, monitorVars
<1>2. CASE Receive
  <2>1. slot \in Conns /\ conn[slot].requests \in Seq({0, 1}) /\ conn[slot].requests # <<>>
    BY <1>0, <1>2 DEF Receive, Connection
  <2>2. job' \in {0, 1} /\ Tail(conn[slot].requests) \in Seq({0, 1})
    BY <1>2, <2>1 DEF Receive
  <2>3. [conn[slot] EXCEPT !.requests = Tail(@)] \in Connection
    BY <1>0, <2>1, <2>2, ZenonT(40) DEF Connection
  <2>4. conn' \in [Conns -> Connection]
    BY <1>2, <2>3 DEF Receive
  <2> QED BY <1>2, <2>2, <2>4 DEF Receive, guiVars, monitorVars
<1>3. CASE HangUp
  <2>1. Unused \in Connection
    BY DEF Unused, Connection
  <2>2. conn' \in [Conns -> Connection] /\ slot' \in Conns \cup {None}
    BY <1>3, <2>1 DEF HangUp
  <2> QED BY <1>3, <2>2 DEF HangUp, guiVars, monitorVars
<1>4. ASSUME Die PROVE TypeOK'
  <2>1. conn' \in [Conns -> Connection] /\ backlog' \in Seq(Conns)
    BY <1>0, <1>4 DEF Die, Connection
  <2> QED BY <1>4, <2>1 DEF Die, guiVars, monitorVars
<1>5. CASE Reply
  <2>1. CASE Die
    BY <1>4, <2>1
  <2>2. CASE ~Die
    <3>1. /\ conn' = IF conn[slot].client THEN [conn EXCEPT ![slot].replies = Append(@, job)]
                                          ELSE conn
          /\ server' = "poll"
          /\ UNCHANGED <<job, slot, backlog, guiVars, monitorVars, status>>
      BY <1>5, <2>2 DEF Reply
    <3>2. ASSUME NEW q \in Conns PROVE [conn[q] EXCEPT !.replies = Append(@, job)] \in Connection
      <4>1. conn[q].replies \in Seq({0, 1})
        BY <1>0 DEF Connection
      <4>2. Append(conn[q].replies, job) \in Seq({0, 1})
        BY <4>1
      <4> QED BY <1>0, <4>2 DEF Connection
    <3>3. conn' \in [Conns -> Connection]
      BY <3>1, <3>2
    <3> QED BY <3>1, <3>3 DEF guiVars, monitorVars
  <2> QED BY <2>1, <2>2
<1>6. CASE Silence
  BY <1>6 DEF Silence, guiVars, monitorVars
<1>7. CASE Crash \/ Stop
  BY <1>4, <1>7 DEF Crash, Stop
<1>8. CASE Start
  BY <1>8 DEF Start, guiVars, monitorVars
<1>9. CASE Refuse
  <2>1. \A q \in Conns : [client |-> conn[q].client, server |-> FALSE,
                        requests |-> <<>>, replies |-> conn[q].replies] \in Connection
    BY <1>0 DEF Connection
  <2>2. conn' \in [Conns -> Connection] /\ slot' \in Conns \cup {None}
    BY <1>9, <2>1 DEF Refuse
  <2> QED BY <1>9, <2>2 DEF Refuse, guiVars, monitorVars
<1> QED BY <1>1, <1>2, <1>3, <1>5, <1>6, <1>7, <1>8, <1>9 DEF ServerStep

LEMMA TypeClose ==
    ASSUME TypeOK, NEW q
    PROVE  Close(q) \in [Conns -> Connection]
<1>1. conn \in [Conns -> Connection]
  BY DEF TypeOK
<1>2. CASE q \in Conns
  <2> DEFINE r == [client |-> FALSE, server |-> conn[q].server,
                   requests |-> conn[q].requests, replies |-> <<>>]
  <2>1. r \in Connection
    BY <1>1, <1>2 DEF Connection
  <2>2. Close(q) = [conn EXCEPT ![q] = r]
    BY DEF Close
  <2> QED BY <1>1, <2>1, <2>2
<1>3. CASE q \notin Conns
  BY <1>1, <1>3 DEF Close
<1> QED BY <1>2, <1>3

LEMMA TypeMonitor ==
    ASSUME TypeOK, NEW c \in Clients, MonitorStep(c)
    PROVE  TypeOK'
<1>1. CASE Search(c)
  <2>1. CASE CanConnect /\ conn' = [conn EXCEPT ![NewConn] = Probe]
                        /\ backlog' = Append(backlog, NewConn)
    <3>1. NewConn \in Conns
      BY <2>1, NewIsFree DEF CanConnect
    <3>2. Probe \in Connection
      BY DEF Probe, Connection
    <3>3. conn' \in [Conns -> Connection] /\ backlog' \in Seq(Conns)
      BY <2>1, <3>1, <3>2 DEF TypeOK
    <3> QED BY <1>1, <3>3 DEF Search, TypeOK, guiVars
  <2>2. CASE UNCHANGED <<conn, backlog>>
    BY <1>1, <2>2 DEF Search, TypeOK, guiVars
  <2> QED BY <1>1, <2>1, <2>2 DEF Search
<1>2. CASE Connect(c)
  <2>1. CASE CanConnect /\ conn' = [conn EXCEPT ![NewConn] = Opened]
                        /\ backlog' = Append(backlog, NewConn)
                        /\ sock' = [sock EXCEPT ![c] = NewConn]
                        /\ status' = [status EXCEPT ![c] = TRUE]
                        /\ shown' = [shown EXCEPT ![c] = TRUE]
                        /\ monitor' = [monitor EXCEPT ![c] = "watch"]
    <3>1. NewConn \in Conns
      BY <2>1, NewIsFree DEF CanConnect
    <3>2. Opened \in Connection
      BY DEF Opened, Connection
    <3>3. conn' \in [Conns -> Connection] /\ backlog' \in Seq(Conns)
      BY <2>1, <3>1, <3>2 DEF TypeOK
    <3> QED BY <1>2, <2>1, <3>1, <3>3 DEF Connect, TypeOK, guiVars
  <2>2. CASE /\ status' = [status EXCEPT ![c] = FALSE]
             /\ shown' = [shown EXCEPT ![c] = FALSE]
             /\ monitor' = [monitor EXCEPT ![c] = "search"]
             /\ UNCHANGED <<conn, backlog, sock>>
    BY <1>2, <2>2 DEF Connect, TypeOK, guiVars
  <2> QED BY <1>2, <2>1, <2>2 DEF Connect
<1>3. CASE CloseDead(c)
  BY <1>3, TypeClose DEF CloseDead, TypeOK, guiVars, serverVars
<1>4. CASE Drop(c)
  BY <1>4 DEF Drop, TypeOK, guiVars, serverVars
<1> QED BY <1>1, <1>2, <1>3, <1>4 DEF MonitorStep

LEMMA TypeGui ==
    ASSUME TypeOK, NEW c \in Clients, Ask(c) \/ GuiStep(c) \/ Kill(c)
    PROVE  TypeOK'
<1>0. \A q \in Conns : conn[q] \in Connection
  BY DEF TypeOK
<1>1. CASE Ask(c)
  <2>1. 1 - serial[c] \in {0, 1}
    BY DEF TypeOK
  <2> QED BY <1>1, <2>1 DEF Ask, GuiTo, Return, TypeOK, serverVars, monitorVars
<1>2. CASE Drain(c)
  <2>1. ASSUME NEW r \in Connection PROVE [r EXCEPT !.replies = <<>>] \in Connection
    BY NoMessages, RepliesType
  <2>2. conn' \in [Conns -> Connection]
    <3>1. CASE conn' = [conn EXCEPT ![sock[c]].replies = <<>>] /\ sock[c] \in Conns
      BY <1>0, <2>1, <3>1 DEF TypeOK
    <3>2. CASE UNCHANGED conn
      BY <3>2 DEF TypeOK
    <3> QED BY <1>2, <3>1, <3>2 DEF Drain, Alive, HasSocket, TypeOK
  <2>3. gui' \in [Clients -> {"idle", "drain", "send", "receive", "blocked", "lost"}]
    BY <1>2, SMTT(40) DEF Drain, GuiTo, Return, TypeOK
  <2>4. fd' \in [Clients -> Conns \cup {None}]
    BY <1>2 DEF Drain, GuiTo, Return, TypeOK
  <2> QED BY <1>2, <2>2, <2>3, <2>4 DEF Drain, TypeOK, serverVars, monitorVars
<1>3. CASE Send(c)
  <2>1. ASSUME NEW q \in Conns
        PROVE  [conn[q] EXCEPT !.requests = Append(@, serial[c])] \in Connection
    <3>1. conn[q].requests \in Seq({0, 1}) /\ serial[c] \in {0, 1}
      BY <1>0 DEF Connection, TypeOK
    <3>2. Append(conn[q].requests, serial[c]) \in Seq({0, 1})
      BY <3>1
    <3> QED BY <1>0, <3>2 DEF Connection
  <2>2. conn' \in [Conns -> Connection]
    BY <1>3, <2>1, SMTT(40) DEF Send, TypeOK
  <2>3. gui' \in [Clients -> {"idle", "drain", "send", "receive", "blocked", "lost"}]
    BY <1>3 DEF Send, GuiTo, Return, TypeOK
  <2>4. fd' \in [Clients -> Conns \cup {None}]
    BY <1>3 DEF Send, GuiTo, Return, TypeOK
  <2> QED BY <1>3, <2>2, <2>3, <2>4 DEF Send, TypeOK, serverVars, monitorVars
<1>4. CASE Block(c)
  BY <1>4, SMTT(40) DEF Block, GuiTo, Return, TypeOK, serverVars, monitorVars
<1>5. CASE Wake(c)
  <2>1. CASE conn' = [conn EXCEPT ![on[c]].replies = Tail(@)] /\ conn[on[c]].replies # <<>>
    <3>1. ASSUME NEW q \in Conns, conn[q].replies # <<>>
          PROVE  [conn[q] EXCEPT !.replies = Tail(@)] \in Connection
      <4>1. Tail(conn[q].replies) \in Seq({0, 1})
        BY <1>0, <3>1 DEF Connection
      <4> QED BY <1>0, <4>1 DEF Connection
    <3> QED BY <2>1, <3>1, <1>5 DEF Wake, GuiTo, Return, TypeOK, serverVars, monitorVars
  <2>2. CASE UNCHANGED conn
    BY <1>5, <2>2 DEF Wake, GuiTo, Return, TypeOK, serverVars, monitorVars
  <2> QED BY <1>5, <2>1, <2>2 DEF Wake
<1>6. CASE Report(c)
  BY <1>6 DEF Report, GuiTo, Return, TypeOK, serverVars, monitorVars
<1>7. CASE Kill(c)
  BY <1>7, TypeClose DEF Kill, GuiTo, Return, TypeOK, serverVars
<1> QED BY <1>1, <1>2, <1>3, <1>4, <1>5, <1>6, <1>7 DEF GuiStep

LEMMA TypeInit == Init => TypeOK
BY DEF Init, TypeOK, Unused, Connection

LEMMA TypeStep == TypeOK /\ [Next]_vars => TypeOK'
<1>1. ASSUME TypeOK, UNCHANGED vars PROVE TypeOK'
  BY <1>1 DEF TypeOK, vars, serverVars, guiVars, monitorVars
<1> QED BY <1>1, TypeServer, TypeMonitor, TypeGui DEF Next

\* Every reachable state of the link is well typed: in particular what a thread
\* blocks on, or began with, always is a connection.
THEOREM LinkTypes == Spec => []TypeOK
BY TypeInit, TypeStep, PTL DEF Spec

-----------------------------------------------------------------------------
(* The steps of the server *)

\* A client whose threads and whose socket a step leaves alone.
LEMMA Bystander ==
    ASSUME NEW d \in Clients, Placed(d), Exchange(d),
           UNCHANGED <<gui[d], serial[d], on[d], monitor[d], sock[d]>>,
           sock[d] # None => UNCHANGED conn[sock[d]],
           on[d] # None /\ conn'[on[d]].client => conn[on[d]].client,
           sock[d] # None => (Working(sock[d])' <=> Working(sock[d])),
           sock[d] # None /\ Working(sock[d]) => job' = job
    PROVE  Placed(d)' /\ Exchange(d)'
<1>1. Placed(d)'
  BY DEF Placed
<1>2. Exchange(d)'
  <2>1. CASE sock[d] = None
    BY <2>1 DEF Exchange, HasSocket
  <2>2. CASE sock[d] # None
    <3>1. Waiting(d)' <=> Waiting(d)
      BY DEF Waiting
    <3>2. Quiet(sock[d])' <=> Quiet(sock[d])
      BY <2>2 DEF Quiet
    <3>3. Carries(sock[d], serial[d])' <=> Carries(sock[d], serial[d])
      BY <2>2 DEF Carries
    <3>4. HasSocket(d)' <=> HasSocket(d)
      BY <2>2 DEF HasSocket
    <3> QED BY <3>1, <3>2, <3>3, <3>4 DEF Exchange
  <2> QED BY <2>1, <2>2
<1> QED BY <1>1, <1>2

LEMMA InvAccept ==
    ASSUME LinkInv, Accept
    PROVE  Kernel' /\ Distinct' /\ Threads'
<1>1. /\ backlog \in Seq(Conns) /\ backlog # <<>>
      /\ slot' = backlog[1] /\ backlog' = Tail(backlog)
      /\ server = "poll" /\ server' = "poll"
      /\ UNCHANGED <<job, conn, gui, serial, on, monitor, sock>>
  BY DEF Accept, LinkInv, TypeOK, guiVars, monitorVars
<1>2. 1 \in DOMAIN backlog
  BY <1>1
<1>3. ASSUME NEW i \in DOMAIN backlog'
      PROVE  i + 1 \in DOMAIN backlog /\ backlog'[i] = backlog[i + 1] /\ i + 1 # 1
  BY <1>1, <1>3
<1>4. Kernel'
  <2>1. slot' # None => conn'[slot'].server
    BY <1>1, <1>2 DEF LinkInv, Kernel
  <2>2. \A i \in DOMAIN backlog' : conn'[backlog'[i]].server /\ backlog'[i] # slot'
    BY <1>1, <1>2, <1>3 DEF LinkInv, Kernel
  <2>3. \A i, j \in DOMAIN backlog' : backlog'[i] = backlog'[j] => i = j
    <3> SUFFICES ASSUME NEW i \in DOMAIN backlog', NEW j \in DOMAIN backlog',
                        backlog'[i] = backlog'[j]
                 PROVE  i = j
      OBVIOUS
    <3>1. i + 1 = j + 1
      BY <1>3 DEF LinkInv, Kernel
    <3> QED BY <1>1, <3>1
  <2> QED BY <1>1, <2>1, <2>2, <2>3 DEF LinkInv, Kernel
<1>5. Distinct'
  BY <1>1 DEF LinkInv, Distinct
<1>6. Threads'
  BY <1>1, Bystander DEF LinkInv, Threads, Working
<1> QED BY <1>4, <1>5, <1>6

LEMMA InvReceive ==
    ASSUME LinkInv, Receive
    PROVE  Kernel' /\ Distinct' /\ Threads'
<1>1. /\ server = "poll" /\ server' = "busy" /\ slot # None /\ slot \in Conns
      /\ job' = Head(conn[slot].requests) /\ conn[slot].requests # <<>>
      /\ UNCHANGED <<slot, backlog, gui, serial, on, monitor, sock>>
  BY DEF Receive, LinkInv, TypeOK, guiVars, monitorVars
<1>2. \A q \in Conns : q # slot => conn'[q] = conn[q]
  BY DEF Receive, LinkInv, TypeOK
<1>3. /\ conn'[slot].client = conn[slot].client /\ conn'[slot].server = conn[slot].server
      /\ conn'[slot].replies = conn[slot].replies
      /\ conn'[slot].requests = Tail(conn[slot].requests)
  BY <1>1 DEF Receive, LinkInv, TypeOK, Connection
<1>4. Kernel'
  BY <1>1, <1>2, <1>3 DEF LinkInv, Kernel, TypeOK
<1>5. Distinct'
  BY <1>1 DEF LinkInv, Distinct
<1>6. ASSUME NEW d \in Clients PROVE Placed(d)' /\ Exchange(d)'
  <2>1. CASE sock[d] # slot
    BY <1>1, <1>2, <1>3, <2>1, Bystander DEF LinkInv, Threads, TypeOK, Working
  <2>2. CASE sock[d] = slot
    <3>1. Placed(d)'
      BY <1>1, <1>2, <1>3, <2>2 DEF LinkInv, Threads, Placed, TypeOK
    <3>2. ASSUME HasSocket(d)' PROVE Waiting(d)' /\ Carries(slot, serial[d])'
      <4>1. HasSocket(d)
        BY <1>1, <1>3, <2>2, <3>2 DEF HasSocket
      <4>2. Waiting(d) /\ Carries(slot, serial[d])
        BY <1>1, <2>2, <4>1 DEF LinkInv, Threads, Exchange, Quiet
      <4>3. conn[slot].requests = <<serial[d]>> /\ conn[slot].replies = <<>>
        BY <1>1, <4>2 DEF Carries
      <4>4. conn'[slot].requests = <<>> /\ conn'[slot].replies = <<>> /\ job' = serial[d]
        BY <1>1, <1>3, <4>3
      <4> QED BY <1>1, <4>2, <4>4 DEF Carries, Working, Waiting
    <3> QED BY <1>1, <2>2, <3>1, <3>2 DEF Exchange
  <2> QED BY <2>1, <2>2
<1> QED BY <1>4, <1>5, <1>6 DEF Threads

LEMMA InvHangUp ==
    ASSUME LinkInv, HangUp
    PROVE  Kernel' /\ Distinct' /\ Threads'
<1>1. /\ server = "poll" /\ server' = "poll" /\ slot # None /\ slot \in Conns
      /\ ~conn[slot].client /\ slot' = None
      /\ UNCHANGED <<job, backlog, gui, serial, on, monitor, sock>>
  BY DEF HangUp, LinkInv, TypeOK, guiVars, monitorVars
<1>2. \A q \in Conns : q # slot => conn'[q] = conn[q]
  BY DEF HangUp, LinkInv, TypeOK
<1>3. conn'[slot] = Unused
  BY <1>1 DEF HangUp, LinkInv, TypeOK
<1>4. ~conn'[slot].client /\ conn'[slot].replies = <<>> /\ conn'[slot].requests = <<>>
  BY <1>3 DEF Unused
<1>5. Kernel'
  <2>1. \A i \in DOMAIN backlog : backlog[i] \in Conns
    BY DEF LinkInv, TypeOK
  <2>2. None \notin Conns
    BY LinkAssumption
  <2> QED BY <1>1, <1>2, <1>4, <2>1, <2>2 DEF LinkInv, Kernel
<1>6. Distinct'
  BY <1>1 DEF LinkInv, Distinct
<1>7. ASSUME NEW d \in Clients PROVE Placed(d)' /\ Exchange(d)'
  <2>1. CASE sock[d] # slot
    BY <1>1, <1>2, <1>4, <2>1, Bystander DEF LinkInv, Threads, TypeOK, Working
  <2>2. CASE sock[d] = slot
    <3>1. Placed(d)'
      BY <1>1, <1>2, <1>4, <2>2 DEF LinkInv, Threads, Placed, TypeOK
    <3> QED BY <1>1, <1>4, <2>2, <3>1 DEF Exchange, HasSocket
  <2> QED BY <2>1, <2>2
<1> QED BY <1>5, <1>6, <1>7 DEF Threads

LEMMA InvDie ==
    ASSUME LinkInv, Die
    PROVE  Kernel' /\ Distinct' /\ Threads'
<1>1. /\ server' = "down" /\ slot' = None /\ backlog' = <<>>
      /\ UNCHANGED <<job, gui, serial, on, monitor, sock>>
  BY DEF Die, guiVars, monitorVars
<1>2. ASSUME NEW q \in Conns
      PROVE  /\ conn'[q].client = conn[q].client /\ conn'[q].replies = conn[q].replies
             /\ ~conn'[q].server /\ conn'[q].requests = <<>>
  BY DEF Die
<1>3. Kernel'
  BY <1>1, <1>2 DEF LinkInv, Kernel
<1>4. Distinct'
  BY <1>1 DEF LinkInv, Distinct
<1>5. ASSUME NEW d \in Clients PROVE Placed(d)' /\ Exchange(d)'
  <2>1. Placed(d)'
    BY <1>1, <1>2 DEF LinkInv, Threads, Placed, TypeOK
  <2>2. ASSUME HasSocket(d)' PROVE Quiet(sock[d])' \/ (Waiting(d) /\ Carries(sock[d], serial[d]))'
    <3>1. sock[d] \in Conns /\ HasSocket(d)
      BY <1>1, <1>2, <2>2 DEF HasSocket, LinkInv, TypeOK
    <3>2. ~Working(sock[d])'
      BY <1>1 DEF Working
    <3>3. CASE Quiet(sock[d])
      BY <1>1, <1>2, <3>1, <3>2, <3>3 DEF Quiet
    <3>4. CASE Waiting(d) /\ Carries(sock[d], serial[d])
      BY <1>1, <1>2, <3>1, <3>2, <3>4 DEF Quiet, Carries, Waiting
    <3> QED BY <3>1, <3>3, <3>4 DEF LinkInv, Threads, Exchange
  <2> QED BY <1>1, <2>1, <2>2 DEF Exchange
<1> QED BY <1>3, <1>4, <1>5 DEF Threads

\* The request is done with, and its client, if it is still there, has its reply.
LEMMA InvReply ==
    ASSUME LinkInv, Reply
    PROVE  Kernel' /\ Distinct' /\ Threads'
<1>1. CASE Die
  BY <1>1, InvDie
<1>2. CASE ~Die
  <2>1. /\ server = "busy" /\ server' = "poll" /\ slot # None /\ slot \in Conns
        /\ UNCHANGED <<job, slot, backlog, gui, serial, on, monitor, sock>>
    BY <1>2 DEF Reply, LinkInv, TypeOK, Kernel, guiVars, monitorVars
  <2>2. \A q \in Conns : q # slot => conn'[q] = conn[q]
    BY <1>2 DEF Reply, LinkInv, TypeOK
  <2>3. /\ conn'[slot].client = conn[slot].client /\ conn'[slot].server = conn[slot].server
        /\ conn'[slot].requests = conn[slot].requests
        /\ conn'[slot].replies = IF conn[slot].client THEN Append(conn[slot].replies, job)
                                                     ELSE conn[slot].replies
    <3>1. conn \in [Conns -> Connection] /\ conn[slot] \in Connection
      BY <2>1 DEF LinkInv, TypeOK
    <3>2. conn' = IF conn[slot].client THEN [conn EXCEPT ![slot].replies = Append(@, job)]
                                       ELSE conn
      BY <1>2 DEF Reply
    <3> QED BY <2>1, <3>1, <3>2 DEF Connection
  <2>4. Kernel'
    BY <2>1, <2>2, <2>3 DEF LinkInv, Kernel, TypeOK
  <2>5. Distinct'
    BY <2>1 DEF LinkInv, Distinct
  <2>6. ASSUME NEW d \in Clients PROVE Placed(d)' /\ Exchange(d)'
    <3>1. CASE sock[d] # slot
      BY <2>1, <2>2, <2>3, <3>1, Bystander, SMTT(40) DEF LinkInv, Threads, TypeOK, Working
    <3>2. CASE sock[d] = slot
      <4>1. Placed(d)'
        BY <2>1, <2>2, <2>3, <3>2 DEF LinkInv, Threads, Placed, TypeOK
      <4>2. ASSUME HasSocket(d)' PROVE Waiting(d)' /\ Carries(slot, serial[d])'
        <5>1. HasSocket(d) /\ conn[slot].client
          BY <2>1, <2>3, <3>2, <4>2 DEF HasSocket
        <5>2. Waiting(d) /\ Carries(slot, serial[d]) /\ Working(slot)
          BY <2>1, <3>2, <5>1 DEF LinkInv, Threads, Exchange, Quiet, Working
        <5>3. conn[slot].requests = <<>> /\ conn[slot].replies = <<>> /\ job = serial[d]
          BY <5>2 DEF Carries
        <5>4. conn'[slot].requests = <<>> /\ conn'[slot].replies = <<serial[d]>>
          BY <2>1, <2>3, <5>1, <5>3
        <5> QED BY <2>1, <5>2, <5>4 DEF Carries, Working, Waiting
      <4> QED BY <2>1, <3>2, <4>1, <4>2 DEF Exchange
    <3> QED BY <3>1, <3>2
  <2> QED BY <2>4, <2>5, <2>6 DEF Threads
<1> QED BY <1>1, <1>2

LEMMA InvSilence ==
    ASSUME LinkInv, Silence
    PROVE  Kernel' /\ Distinct' /\ Threads'
<1>1. /\ server = "busy" /\ server' = "poll" /\ slot # None /\ slot \in Conns
      /\ UNCHANGED <<job, slot, backlog, conn, gui, serial, on, monitor, sock>>
  BY DEF Silence, LinkInv, TypeOK, Kernel, guiVars, monitorVars
<1>2. Kernel' /\ Distinct'
  BY <1>1 DEF LinkInv, Kernel, Distinct
<1>3. ASSUME NEW d \in Clients PROVE Placed(d)' /\ Exchange(d)'
  <2>1. CASE sock[d] # slot
    BY <1>1, <2>1, Bystander DEF LinkInv, Threads, TypeOK, Working
  <2>2. CASE sock[d] = slot
    <3>1. Placed(d)'
      BY <1>1 DEF LinkInv, Threads, Placed
    <3>2. HasSocket(d)' => Quiet(slot)'
      BY <1>1, <2>2 DEF HasSocket, LinkInv, Threads, Exchange, Quiet, Carries, Working
    <3> QED BY <1>1, <2>2, <3>1, <3>2 DEF Exchange
  <2> QED BY <2>1, <2>2
<1> QED BY <1>2, <1>3 DEF Threads

\* The request is done with, and its client, if it is still there, has nothing but
\* the end of the connection to see.
LEMMA InvRefuse ==
    ASSUME LinkInv, Refuse
    PROVE  Kernel' /\ Distinct' /\ Threads'
<1>1. /\ server = "busy" /\ server' = "poll" /\ slot # None /\ slot \in Conns /\ slot' = None
      /\ UNCHANGED <<job, backlog, gui, serial, on, monitor, sock>>
  BY DEF Refuse, LinkInv, TypeOK, Kernel, guiVars, monitorVars
<1>2. \A q \in Conns : q # slot => conn'[q] = conn[q]
  BY DEF Refuse, LinkInv, TypeOK
<1>3. /\ conn'[slot].client = conn[slot].client /\ conn'[slot].replies = conn[slot].replies
      /\ ~conn'[slot].server /\ conn'[slot].requests = <<>>
  BY <1>1 DEF Refuse, LinkInv, TypeOK
<1>4. Kernel'
  <2>1. \A i \in DOMAIN backlog : backlog[i] \in Conns
    BY DEF LinkInv, TypeOK
  <2>2. None \notin Conns
    BY LinkAssumption
  <2> QED BY <1>1, <1>2, <1>3, <2>1, <2>2 DEF LinkInv, Kernel
<1>5. Distinct'
  BY <1>1 DEF LinkInv, Distinct
<1>6. ASSUME NEW d \in Clients PROVE Placed(d)' /\ Exchange(d)'
  <2>1. CASE sock[d] # slot
    BY <1>1, <1>2, <1>3, <2>1, Bystander, SMTT(40) DEF LinkInv, Threads, TypeOK, Working
  <2>2. CASE sock[d] = slot
    <3>1. Placed(d)'
      BY <1>1, <1>2, <1>3, <2>2 DEF LinkInv, Threads, Placed, TypeOK
    <3>2. HasSocket(d)' => Quiet(sock[d])'
      <4>1. ASSUME HasSocket(d)' PROVE HasSocket(d)
        BY <1>1, <1>3, <2>2, <4>1 DEF HasSocket
      <4>2. ASSUME HasSocket(d) PROVE conn[slot].replies = <<>>
        BY <1>1, <2>2, <4>2 DEF LinkInv, Threads, Exchange, Quiet, Carries, Working
      <4> QED BY <1>1, <1>3, <2>2, <4>1, <4>2 DEF Quiet, Working
    <3> QED BY <1>1, <2>2, <3>1, <3>2 DEF Exchange
  <2> QED BY <2>1, <2>2
<1> QED BY <1>4, <1>5, <1>6 DEF Threads

LEMMA InvServer ==
    ASSUME LinkInv, ServerStep \/ Stop \/ Start
    PROVE  Kernel' /\ Distinct' /\ Threads'
<1>1. CASE Start
  <2>1. /\ server = "down" /\ server' = "poll"
        /\ UNCHANGED <<job, slot, backlog, conn, gui, serial, on, monitor, sock>>
    BY <1>1 DEF Start, guiVars, monitorVars
  <2>2. Kernel' /\ Distinct'
    BY <2>1 DEF LinkInv, Kernel, Distinct
  <2>3. Threads'
    BY <2>1, Bystander DEF LinkInv, Threads, Working
  <2> QED BY <2>2, <2>3
<1>2. CASE Crash \/ Stop
  BY <1>2, InvDie DEF Crash, Stop
<1> QED BY <1>1, <1>2, InvAccept, InvReceive, InvHangUp, InvReply, InvSilence, InvRefuse
        DEF ServerStep

-----------------------------------------------------------------------------
(* The steps of the monitor *)

\* A new connection disturbs nobody but the client that holds it.
LEMMA NewInBacklog ==
    ASSUME LinkInv, CanConnect, NEW r, r.server,
           conn' = [conn EXCEPT ![NewConn] = r],
           r.requests = <<>>, r.replies = <<>>,
           backlog' = Append(backlog, NewConn),
           UNCHANGED <<server, job, slot>>
    PROVE  /\ Kernel'
           /\ \A d \in Clients :
                 UNCHANGED <<gui[d], serial[d], on[d], monitor[d], sock[d]>>
                     => Placed(d)' /\ Exchange(d)'
<1>1. /\ NewConn \in Conns /\ NewConn # None /\ ~conn[NewConn].server
      /\ \A d \in Clients : sock[d] # NewConn /\ on[d] # NewConn
  BY NewIsFree DEF LinkInv, CanConnect
<1>2. conn'[NewConn] = r /\ \A q \in Conns : q # NewConn => conn'[q] = conn[q]
  BY <1>1 DEF LinkInv, TypeOK
<1>3. \A i \in DOMAIN backlog : backlog[i] \in Conns /\ backlog[i] # NewConn
  BY <1>1 DEF LinkInv, TypeOK, Kernel
<1>4. slot # NewConn
  BY <1>1 DEF LinkInv, Kernel
<1>5. Kernel'
  <2>1. backlog \in Seq(Conns)
    BY DEF LinkInv, TypeOK
  <2>2. ASSUME NEW i \in DOMAIN backlog'
        PROVE  \/ i \in DOMAIN backlog /\ backlog'[i] = backlog[i]
               \/ i = Len(backlog) + 1 /\ backlog'[i] = NewConn
    BY <2>1, <2>2
  <2>3. \A i \in DOMAIN backlog' : conn'[backlog'[i]].server /\ backlog'[i] # slot'
    BY <1>2, <1>3, <1>4, <2>2 DEF LinkInv, Kernel
  <2>4. \A i, j \in DOMAIN backlog' : backlog'[i] = backlog'[j] => i = j
    BY <1>3, <2>2 DEF LinkInv, Kernel
  <2>5. slot' # None => conn'[slot'].server
    BY <1>2, <1>4 DEF LinkInv, Kernel, TypeOK
  <2>6. \A q \in Conns : /\ ~conn'[q].client => conn'[q].replies = <<>>
                         /\ ~conn'[q].server => conn'[q].requests = <<>>
    BY <1>2 DEF LinkInv, Kernel
  <2> QED BY <2>3, <2>4, <2>5, <2>6 DEF LinkInv, Kernel
<1>6. ASSUME NEW d \in Clients, UNCHANGED <<gui[d], serial[d], on[d], monitor[d], sock[d]>>
      PROVE  Placed(d)' /\ Exchange(d)'
  BY <1>1, <1>2, <1>6, Bystander DEF LinkInv, Threads, TypeOK, Working
<1> QED BY <1>5, <1>6

LEMMA InvSearch ==
    ASSUME LinkInv, NEW c \in Clients, Search(c)
    PROVE  Kernel' /\ Distinct' /\ Threads'
<1>1. /\ monitor[c] = "search" /\ monitor' = [monitor EXCEPT ![c] = "connect"]
      /\ UNCHANGED <<server, job, slot, gui, serial, on, sock>>
  BY DEF Search, guiVars
<1>2. Distinct'
  BY <1>1 DEF LinkInv, Distinct
<1>3. \A d \in Clients : d # c => UNCHANGED monitor[d]
  BY <1>1 DEF LinkInv, TypeOK
<1>4. sock[c] = None /\ sock'[c] = None /\ monitor'[c] = "connect"
  BY <1>1 DEF LinkInv, Threads, Placed, TypeOK
<1>5. Exchange(c)'
  BY <1>4 DEF Exchange, HasSocket
<1>6. on[c] # None => on[c] \in Conns /\ ~conn[on[c]].client
  BY <1>4 DEF LinkInv, Threads, Placed, TypeOK
<1>7. CASE CanConnect /\ conn' = [conn EXCEPT ![NewConn] = Probe]
                      /\ backlog' = Append(backlog, NewConn)
  <2>1. Probe.server /\ Probe.requests = <<>> /\ Probe.replies = <<>>
    BY DEF Probe
  <2>2. Kernel' /\ \A d \in Clients : d # c => Placed(d)' /\ Exchange(d)'
    BY <1>1, <1>3, <1>7, <2>1, NewInBacklog
  <2>3. on[c] # None => ~conn'[on[c]].client
    BY <1>6, <1>7, NewIsFree DEF LinkInv, TypeOK, CanConnect
  <2>4. Placed(c)'
    BY <1>1, <1>4, <2>3 DEF LinkInv, Threads, Placed
  <2> QED BY <1>2, <1>5, <2>2, <2>4 DEF Threads
<1>8. CASE UNCHANGED <<conn, backlog>>
  <2>1. Kernel'
    BY <1>1, <1>8 DEF LinkInv, Kernel
  <2>2. \A d \in Clients : d # c => Placed(d)' /\ Exchange(d)'
    BY <1>1, <1>3, <1>8, Bystander DEF LinkInv, Threads, Working
  <2>3. Placed(c)'
    BY <1>1, <1>4, <1>6, <1>8 DEF LinkInv, Threads, Placed
  <2> QED BY <1>2, <1>5, <2>1, <2>2, <2>3 DEF Threads
<1> QED BY <1>7, <1>8 DEF Search

LEMMA InvConnect ==
    ASSUME LinkInv, NEW c \in Clients, Connect(c)
    PROVE  Kernel' /\ Distinct' /\ Threads'
<1>1. monitor[c] = "connect" /\ UNCHANGED <<server, job, slot, gui, serial, on>>
  BY DEF Connect, guiVars
<1>2. sock[c] = None
  BY <1>1 DEF LinkInv, Threads, Placed
<1>3. on[c] # None => on[c] \in Conns /\ ~conn[on[c]].client
  BY <1>2 DEF LinkInv, Threads, Placed, TypeOK
<1>4. CASE CanConnect /\ conn' = [conn EXCEPT ![NewConn] = Opened]
                      /\ backlog' = Append(backlog, NewConn)
                      /\ sock' = [sock EXCEPT ![c] = NewConn]
                      /\ monitor' = [monitor EXCEPT ![c] = "watch"]
  <2>1. /\ NewConn \in Conns /\ NewConn # None /\ ~conn[NewConn].server
        /\ \A d \in Clients : sock[d] # NewConn /\ on[d] # NewConn
    BY <1>4, NewIsFree DEF LinkInv, CanConnect
  <2>2. /\ sock'[c] = NewConn /\ monitor'[c] = "watch"
        /\ \A d \in Clients : d # c => UNCHANGED <<sock[d], monitor[d]>>
    BY <1>4 DEF LinkInv, TypeOK
  <2>3. conn'[NewConn] = Opened /\ \A q \in Conns : q # NewConn => conn'[q] = conn[q]
    BY <1>4, <2>1 DEF LinkInv, TypeOK
  <2>4. Opened.server /\ Opened.requests = <<>> /\ Opened.replies = <<>>
    BY DEF Opened
  <2>5. Kernel' /\ \A d \in Clients : d # c => Placed(d)' /\ Exchange(d)'
    BY <1>1, <1>4, <2>2, <2>4, NewInBacklog
  <2>6. Distinct'
    BY <2>1, <2>2 DEF LinkInv, Distinct
  <2>7. Placed(c)'
    BY <1>1, <1>3, <2>1, <2>2, <2>3 DEF LinkInv, Threads, Placed
  <2>8. Quiet(sock[c])'
    BY <1>1, <2>1, <2>2, <2>3 DEF Quiet, Working, Opened, LinkInv, Kernel
  <2>9. Exchange(c)'
    BY <2>8 DEF Exchange
  <2> QED BY <2>5, <2>6, <2>7, <2>9 DEF Threads
<1>5. CASE /\ monitor' = [monitor EXCEPT ![c] = "search"]
           /\ UNCHANGED <<conn, backlog, sock>>
  <2>1. Kernel' /\ Distinct'
    BY <1>1, <1>5 DEF LinkInv, Kernel, Distinct
  <2>2. /\ monitor'[c] = "search"
        /\ \A d \in Clients : d # c => UNCHANGED monitor[d]
    BY <1>5 DEF LinkInv, TypeOK
  <2>3. \A d \in Clients : d # c => Placed(d)' /\ Exchange(d)'
    BY <1>1, <1>5, <2>2, Bystander DEF LinkInv, Threads, Working
  <2>4. Placed(c)' /\ Exchange(c)'
    BY <1>1, <1>2, <1>3, <1>5, <2>2 DEF LinkInv, Threads, Placed, Exchange, HasSocket
  <2> QED BY <2>1, <2>3, <2>4 DEF Threads
<1> QED BY <1>4, <1>5 DEF Connect

\* Closing a socket disturbs nobody but the client that holds it.
LEMMA ClosingDisturbsNoOther ==
    ASSUME LinkInv, NEW c \in Clients, sock[c] # None, conn' = Close(sock[c]),
           UNCHANGED <<server, job, slot, backlog>>
    PROVE  /\ Kernel'
           /\ ~conn'[sock[c]].client
           /\ \A q \in Conns : conn'[q].client => conn[q].client
           /\ \A d \in Clients :
                 d # c /\ UNCHANGED <<gui[d], serial[d], on[d], monitor[d], sock[d]>>
                     => Placed(d)' /\ Exchange(d)'
<1>1. sock[c] \in Conns /\ \A d \in Clients : d # c => sock[d] # sock[c]
  BY DEF LinkInv, TypeOK, Distinct
<1>2. \A q \in Conns : q # sock[c] => conn'[q] = conn[q]
  BY DEF Close, LinkInv, TypeOK
<1>3. /\ ~conn'[sock[c]].client /\ conn'[sock[c]].replies = <<>>
      /\ conn'[sock[c]].server = conn[sock[c]].server
      /\ conn'[sock[c]].requests = conn[sock[c]].requests
  BY <1>1 DEF Close, LinkInv, TypeOK
<1>4. \A q \in Conns : conn'[q].client => conn[q].client
  BY <1>2, <1>3
<1>5. \A q \in Conns : conn'[q].server = conn[q].server /\ conn'[q].requests = conn[q].requests
  BY <1>2, <1>3
<1>6. \A q \in Conns : ~conn'[q].client => conn'[q].replies = <<>>
  BY <1>2, <1>3 DEF LinkInv, Kernel
<1>7. Kernel'
  BY <1>5, <1>6, SMTT(40) DEF LinkInv, Kernel, TypeOK
<1>8. ASSUME NEW d \in Clients, d # c,
             UNCHANGED <<gui[d], serial[d], on[d], monitor[d], sock[d]>>
      PROVE  Placed(d)' /\ Exchange(d)'
  <2>1. sock[d] # None => UNCHANGED conn[sock[d]]
    BY <1>1, <1>2, <1>8 DEF LinkInv, TypeOK
  <2>2. on[d] # None /\ conn'[on[d]].client => conn[on[d]].client
    BY <1>4, <1>8 DEF LinkInv, TypeOK
  <2> QED BY <1>8, <2>1, <2>2, Bystander DEF LinkInv, Threads, Working
<1> QED BY <1>3, <1>4, <1>7, <1>8

LEMMA InvCloseDead ==
    ASSUME LinkInv, NEW c \in Clients, CloseDead(c)
    PROVE  Kernel' /\ Distinct' /\ Threads'
<1>1. /\ monitor[c] = "watch" /\ monitor' = [monitor EXCEPT ![c] = "drop"]
      /\ conn' = Close(sock[c])
      /\ UNCHANGED <<server, job, slot, backlog, gui, serial, on, sock>>
  BY DEF CloseDead, serverVars, guiVars
<1>2. sock[c] # None
  BY <1>1 DEF LinkInv, Threads, Placed
<1>3. /\ Kernel' /\ ~conn'[sock[c]].client
      /\ \A q \in Conns : conn'[q].client => conn[q].client
      /\ \A d \in Clients : d # c /\ UNCHANGED <<gui[d], serial[d], on[d], monitor[d], sock[d]>>
                               => Placed(d)' /\ Exchange(d)'
  BY <1>1, <1>2, ClosingDisturbsNoOther
<1>4. monitor'[c] = "drop" /\ \A d \in Clients : d # c => UNCHANGED monitor[d]
  BY <1>1 DEF LinkInv, TypeOK
<1>5. Distinct'
  BY <1>1 DEF LinkInv, Distinct
<1>6. Placed(c)'
  BY <1>1, <1>2, <1>3, <1>4 DEF LinkInv, Threads, Placed, TypeOK
<1>7. Exchange(c)'
  BY <1>1, <1>3 DEF Exchange, HasSocket
<1>8. \A d \in Clients : d # c => Placed(d)' /\ Exchange(d)'
  BY <1>1, <1>3, <1>4
<1> QED BY <1>3, <1>5, <1>6, <1>7, <1>8 DEF Threads

LEMMA InvDrop ==
    ASSUME LinkInv, NEW c \in Clients, Drop(c)
    PROVE  Kernel' /\ Distinct' /\ Threads'
<1>1. /\ monitor[c] = "drop" /\ sock' = [sock EXCEPT ![c] = None]
      /\ monitor' = [monitor EXCEPT ![c] = "search"]
      /\ UNCHANGED <<server, job, slot, backlog, conn, gui, serial, on>>
  BY DEF Drop, serverVars, guiVars
<1>2. /\ monitor'[c] = "search" /\ sock'[c] = None
      /\ \A d \in Clients : d # c => UNCHANGED <<monitor[d], sock[d]>>
  BY <1>1 DEF LinkInv, TypeOK
<1>3. Kernel'
  BY <1>1 DEF LinkInv, Kernel
<1>4. Distinct'
  BY <1>2 DEF LinkInv, Distinct
<1>5. Placed(c)'
  BY <1>1, <1>2 DEF LinkInv, Threads, Placed
<1>6. Exchange(c)'
  BY <1>2 DEF Exchange, HasSocket
<1>7. \A d \in Clients : d # c => Placed(d)' /\ Exchange(d)'
  BY <1>1, <1>2, Bystander DEF LinkInv, Threads, Working
<1> QED BY <1>3, <1>4, <1>5, <1>6, <1>7 DEF Threads

-----------------------------------------------------------------------------
(* The steps of the GUI thread, and of whoever kills the client *)

\* The others do not see what c's GUI thread does on c's socket.
LEMMA OtherThreads ==
    ASSUME LinkInv, NEW c \in Clients,
           \A q \in Conns : q # sock[c] => UNCHANGED conn[q],
           \A q \in Conns : conn'[q].client = conn[q].client,
           \A d \in Clients : d # c => UNCHANGED <<gui[d], serial[d], on[d]>>,
           UNCHANGED <<server, job, slot, monitor, sock>>
    PROVE  /\ Distinct'
           /\ \A d \in Clients : d # c => Placed(d)' /\ Exchange(d)'
<1>1. Distinct'
  BY DEF LinkInv, Distinct
<1>2. ASSUME NEW d \in Clients, d # c PROVE Placed(d)' /\ Exchange(d)'
  <2>1. sock[d] # None => UNCHANGED conn[sock[d]]
    BY <1>2 DEF LinkInv, TypeOK, Distinct
  <2>2. on[d] # None /\ conn'[on[d]].client => conn[on[d]].client
    BY DEF LinkInv, TypeOK
  <2> QED BY <1>2, <2>1, <2>2, Bystander DEF LinkInv, Threads, Working
<1> QED BY <1>1, <1>2

\* A step that leaves the connections as they are.
LEMMA OtherThreadsStill ==
    ASSUME LinkInv, NEW c \in Clients,
           \A d \in Clients : d # c => UNCHANGED <<gui[d], serial[d], on[d]>>,
           UNCHANGED <<server, job, slot, backlog, conn, monitor, sock>>
    PROVE  /\ Kernel' /\ Distinct'
           /\ \A d \in Clients : d # c => Placed(d)' /\ Exchange(d)'
<1>1. Kernel'
  BY DEF LinkInv, Kernel
<1> QED BY <1>1, OtherThreads

LEMMA InvAsk ==
    ASSUME LinkInv, NEW c \in Clients, Ask(c)
    PROVE  Kernel' /\ Distinct' /\ Threads'
<1>1. /\ gui[c] = "idle" /\ gui' = [gui EXCEPT ![c] = "drain"]
      /\ serial' = [serial EXCEPT ![c] = 1 - @]
      /\ UNCHANGED <<server, job, slot, backlog, conn, on, monitor, sock>>
  BY DEF Ask, GuiTo, Return, serverVars, monitorVars
<1>2. /\ gui'[c] = "drain"
      /\ \A d \in Clients : d # c => UNCHANGED <<gui[d], serial[d], on[d]>>
  BY <1>1 DEF LinkInv, TypeOK
<1>3. Kernel' /\ Distinct' /\ \A d \in Clients : d # c => Placed(d)' /\ Exchange(d)'
  BY <1>1, <1>2, OtherThreadsStill
<1>4. Placed(c)'
  BY <1>1, <1>2 DEF LinkInv, Threads, Placed
<1>5. HasSocket(c) => Quiet(sock[c])
  BY <1>1 DEF LinkInv, Threads, Exchange, Waiting
<1>6. Exchange(c)'
  BY <1>1, <1>5 DEF Exchange, HasSocket, Quiet, Working
<1> QED BY <1>3, <1>4, <1>6 DEF Threads

\* Of the socket of a thread that is not waiting, nothing is on its way.
LEMMA InvDrain ==
    ASSUME LinkInv, NEW c \in Clients, Drain(c)
    PROVE  Kernel' /\ Distinct' /\ Threads'
<1>1. /\ gui[c] = "drain"
      /\ UNCHANGED <<server, job, slot, backlog, serial, on, monitor, sock>>
  BY DEF Drain, serverVars, monitorVars
<1>2. /\ gui'[c] \in {"idle", "lost", "send"}
      /\ \A d \in Clients : d # c => UNCHANGED gui[d]
  BY DEF Drain, GuiTo, Return, LinkInv, TypeOK
<1>3. HasSocket(c) => Quiet(sock[c])
  BY <1>1 DEF LinkInv, Threads, Exchange, Waiting
<1>4. UNCHANGED conn
  <2>1. CASE Alive(c) /\ conn' = [conn EXCEPT ![sock[c]].replies = <<>>]
    <3>1. sock[c] \in Conns /\ conn[sock[c]].replies = <<>>
      BY <1>3, <2>1 DEF Alive, HasSocket, Quiet, LinkInv, TypeOK
    <3>2. conn \in [Conns -> Connection] /\ conn[sock[c]] \in Connection
      BY <3>1 DEF LinkInv, TypeOK
    <3>3. [conn[sock[c]] EXCEPT !.replies = <<>>] = conn[sock[c]]
      BY <3>1, <3>2 DEF Connection
    <3> QED BY <2>1, <3>2, <3>3
  <2> QED BY <2>1 DEF Drain
<1>5. Kernel' /\ Distinct' /\ \A d \in Clients : d # c => Placed(d)' /\ Exchange(d)'
  BY <1>1, <1>2, <1>4, OtherThreadsStill
<1>6. Placed(c)'
  BY <1>1, <1>2, <1>4 DEF LinkInv, Threads, Placed
<1>7. Exchange(c)'
  BY <1>1, <1>3, <1>4 DEF Exchange, HasSocket, Quiet, Working
<1> QED BY <1>5, <1>6, <1>7 DEF Threads

LEMMA InvSend ==
    ASSUME LinkInv, NEW c \in Clients, Send(c)
    PROVE  Kernel' /\ Distinct' /\ Threads'
<1>1. /\ gui[c] = "send"
      /\ UNCHANGED <<server, job, slot, backlog, serial, on, monitor, sock>>
  BY DEF Send, serverVars, monitorVars
<1>2. HasSocket(c) => Quiet(sock[c])
  BY <1>1 DEF LinkInv, Threads, Exchange, Waiting
<1>3. on[c] = None
  BY <1>1 DEF LinkInv, Threads, Placed
<1>4. CASE ~Alive(c) /\ gui' = [gui EXCEPT ![c] = "lost"] /\ UNCHANGED conn
  <2>1. gui'[c] = "lost" /\ \A d \in Clients : d # c => UNCHANGED gui[d]
    BY <1>4 DEF LinkInv, TypeOK
  <2>2. Kernel' /\ Distinct' /\ \A d \in Clients : d # c => Placed(d)' /\ Exchange(d)'
    BY <1>1, <1>4, <2>1, OtherThreadsStill
  <2>3. Placed(c)'
    BY <1>1, <1>4, <2>1 DEF LinkInv, Threads, Placed
  <2>4. Exchange(c)'
    BY <1>1, <1>2, <1>4 DEF Exchange, HasSocket, Quiet, Working
  <2> QED BY <2>2, <2>3, <2>4 DEF Threads
<1>5. CASE /\ Alive(c) /\ gui' = [gui EXCEPT ![c] = "receive"]
           /\ conn' = [conn EXCEPT ![sock[c]].requests = Append(@, serial[c])]
  <2>1. sock[c] \in Conns /\ conn[sock[c]].client /\ conn[sock[c]].server /\ Quiet(sock[c])
    BY <1>2, <1>5 DEF Alive, HasSocket, LinkInv, TypeOK
  <2>2. \A q \in Conns : q # sock[c] => UNCHANGED conn[q]
    BY <1>5 DEF LinkInv, TypeOK
  <2>3. conn \in [Conns -> Connection] /\ conn[sock[c]] \in Connection
    BY <2>1 DEF LinkInv, TypeOK
  <2>4. /\ conn'[sock[c]].requests = Append(conn[sock[c]].requests, serial[c])
        /\ conn'[sock[c]].client /\ conn'[sock[c]].server
        /\ conn'[sock[c]].replies = conn[sock[c]].replies
    BY <1>5, <2>1, <2>3 DEF Connection
  <2>5. conn'[sock[c]].requests = <<serial[c]>> /\ conn'[sock[c]].replies = <<>>
    BY <2>1, <2>4 DEF Quiet
  <2>6. gui'[c] = "receive" /\ \A d \in Clients : d # c => UNCHANGED gui[d]
    BY <1>5 DEF LinkInv, TypeOK
  <2>7. \A q \in Conns : conn'[q].client = conn[q].client /\ conn'[q].server = conn[q].server
    BY <2>1, <2>2, <2>4, <2>3, <1>5 DEF Connection
  <2>8. Kernel'
    BY <1>1, <2>2, <2>4, <2>5, <2>7, SMTT(40) DEF LinkInv, Kernel, TypeOK
  <2>9. Distinct' /\ \A d \in Clients : d # c => Placed(d)' /\ Exchange(d)'
    BY <1>1, <2>2, <2>6, <2>7, OtherThreads
  <2>10. Placed(c)'
    BY <1>1, <1>3, <2>1, <2>4, <2>6 DEF LinkInv, Threads, Placed
  <2>11. Exchange(c)'
    BY <1>1, <2>1, <2>5, <2>6 DEF Exchange, Waiting, Carries, Quiet, Working
  <2> QED BY <2>8, <2>9, <2>10, <2>11 DEF Threads
<1> QED BY <1>4, <1>5 DEF Send, GuiTo, Return

LEMMA InvBlock ==
    ASSUME LinkInv, NEW c \in Clients, Block(c)
    PROVE  Kernel' /\ Distinct' /\ Threads'
<1>1. /\ gui[c] = "receive"
      /\ UNCHANGED <<server, job, slot, backlog, conn, serial, monitor, sock>>
  BY DEF Block, serverVars, monitorVars
<1>2. on[c] = None
  BY <1>1 DEF LinkInv, Threads, Placed
<1>3. \A d \in Clients : d # c => UNCHANGED <<gui[d], on[d]>>
  BY DEF Block, GuiTo, Return, LinkInv, TypeOK
<1>4. Kernel' /\ Distinct' /\ \A d \in Clients : d # c => Placed(d)' /\ Exchange(d)'
  BY <1>1, <1>3, OtherThreadsStill
<1>5. CASE ~HasSocket(c) /\ gui'[c] = "lost" /\ on'[c] = None
  <2>1. Placed(c)' /\ Exchange(c)'
    BY <1>1, <1>5 DEF LinkInv, Threads, Placed, Exchange, HasSocket
  <2> QED BY <1>4, <2>1 DEF Threads
<1>6. CASE HasSocket(c) /\ gui'[c] = "blocked" /\ on'[c] = sock[c]
  <2>1. Placed(c)'
    BY <1>1, <1>6 DEF LinkInv, Threads, Placed, HasSocket
  <2>2. Exchange(c)'
    BY <1>1, <1>6 DEF LinkInv, Threads, Exchange, HasSocket, Waiting, Quiet, Carries, Working
  <2> QED BY <1>4, <2>1, <2>2 DEF Threads
<1> QED BY <1>2, <1>5, <1>6 DEF Block, GuiTo, Return, LinkInv, TypeOK

LEMMA InvWake ==
    ASSUME LinkInv, NEW c \in Clients, Wake(c)
    PROVE  Kernel' /\ Distinct' /\ Threads'
<1>1. /\ gui[c] = "blocked" /\ on' = [on EXCEPT ![c] = None]
      /\ UNCHANGED <<server, job, slot, backlog, serial, monitor, sock>>
  BY DEF Wake, serverVars, monitorVars
<1>2. on[c] # None /\ on[c] \in Conns
  BY <1>1 DEF LinkInv, Threads, Placed, TypeOK
<1>3. /\ on'[c] = None /\ gui'[c] \in {"idle", "lost"}
      /\ \A d \in Clients : d # c => UNCHANGED <<gui[d], on[d]>>
  BY <1>1 DEF Wake, GuiTo, Return, LinkInv, TypeOK
<1>4. CASE conn[on[c]].replies # <<>> /\ conn' = [conn EXCEPT ![on[c]].replies = Tail(@)]
  <2>1. conn[on[c]].client /\ sock[c] = on[c]
    BY <1>2, <1>4 DEF LinkInv, Kernel, Threads, Placed
  <2>2. Carries(sock[c], serial[c])
    BY <1>2, <1>4, <2>1 DEF LinkInv, Threads, Exchange, HasSocket, Quiet
  <2>3. /\ conn[sock[c]].replies = <<serial[c]>> /\ conn[sock[c]].requests = <<>>
        /\ ~Working(sock[c])
    BY <1>4, <2>1, <2>2 DEF Carries
  <2>4. \A q \in Conns : q # sock[c] => UNCHANGED conn[q]
    BY <1>4, <2>1 DEF LinkInv, TypeOK
  <2>5. conn \in [Conns -> Connection] /\ conn[sock[c]] \in Connection
    BY <1>2, <2>1 DEF LinkInv, TypeOK
  <2>6. /\ conn'[sock[c]].replies = Tail(conn[sock[c]].replies)
        /\ conn'[sock[c]].requests = conn[sock[c]].requests
        /\ conn'[sock[c]].client = conn[sock[c]].client
        /\ conn'[sock[c]].server = conn[sock[c]].server
    BY <1>2, <1>4, <2>1, <2>5 DEF Connection
  <2>7. conn'[sock[c]].replies = <<>>
    BY <2>3, <2>6
  <2>8. \A q \in Conns : conn'[q].client = conn[q].client /\ conn'[q].server = conn[q].server
                         /\ conn'[q].requests = conn[q].requests
    BY <2>4, <2>6
  <2>9. Kernel'
    BY <1>1, <2>4, <2>7, <2>8, SMTT(40) DEF LinkInv, Kernel, TypeOK
  <2>10. Distinct' /\ \A d \in Clients : d # c => Placed(d)' /\ Exchange(d)'
    BY <1>1, <1>3, <2>4, <2>8, OtherThreads
  <2>11. Placed(c)'
    BY <1>1, <1>2, <1>3, <2>1, <2>6 DEF LinkInv, Threads, Placed
  <2>12. Exchange(c)'
    BY <1>1, <2>3, <2>6, <2>7 DEF Exchange, Quiet, Working
  <2> QED BY <2>9, <2>10, <2>11, <2>12 DEF Threads
<1>5. CASE /\ conn[on[c]].replies = <<>>
           /\ ~conn[on[c]].client \/ ~conn[on[c]].server
           /\ UNCHANGED conn
  <2>1. Kernel' /\ Distinct' /\ \A d \in Clients : d # c => Placed(d)' /\ Exchange(d)'
    BY <1>1, <1>3, <1>5, OtherThreadsStill
  <2>2. Placed(c)'
    BY <1>1, <1>3, <1>5 DEF LinkInv, Threads, Placed
  <2>3. ASSUME HasSocket(c) PROVE Quiet(sock[c])
    <3>1. CASE on[c] = sock[c]
      <4>1. ~conn[on[c]].server
        BY <1>5, <2>3, <3>1 DEF HasSocket
      <4>2. conn[on[c]].requests = <<>> /\ ~Working(on[c])
        BY <1>2, <4>1 DEF LinkInv, Kernel, Working
      <4> QED BY <1>5, <3>1, <4>2 DEF Quiet
    <3>2. CASE on[c] # sock[c]
      BY <1>1, <2>3, <3>2 DEF LinkInv, Threads, Exchange, Waiting
    <3> QED BY <3>1, <3>2
  <2>4. Exchange(c)'
    BY <1>1, <1>5, <2>3 DEF Exchange, HasSocket, Quiet, Working
  <2> QED BY <2>1, <2>2, <2>4 DEF Threads
<1> QED BY <1>4, <1>5 DEF Wake

LEMMA InvReport ==
    ASSUME LinkInv, NEW c \in Clients, Report(c)
    PROVE  Kernel' /\ Distinct' /\ Threads'
<1>1. /\ gui[c] = "lost" /\ gui' = [gui EXCEPT ![c] = "idle"]
      /\ UNCHANGED <<server, job, slot, backlog, conn, serial, on, monitor, sock>>
  BY DEF Report, GuiTo, Return, serverVars, monitorVars
<1>2. gui'[c] = "idle" /\ \A d \in Clients : d # c => UNCHANGED gui[d]
  BY <1>1 DEF LinkInv, TypeOK
<1>3. Kernel' /\ Distinct' /\ \A d \in Clients : d # c => Placed(d)' /\ Exchange(d)'
  BY <1>1, <1>2, OtherThreadsStill
<1>4. Placed(c)'
  BY <1>1, <1>2 DEF LinkInv, Threads, Placed
<1>5. HasSocket(c) => Quiet(sock[c])
  BY <1>1 DEF LinkInv, Threads, Exchange, Waiting
<1>6. Exchange(c)'
  BY <1>1, <1>5 DEF Exchange, HasSocket, Quiet, Working
<1> QED BY <1>3, <1>4, <1>6 DEF Threads

LEMMA InvKill ==
    ASSUME LinkInv, NEW c \in Clients, Kill(c)
    PROVE  Kernel' /\ Distinct' /\ Threads'
<1>1. /\ gui' = [gui EXCEPT ![c] = "idle"] /\ on' = [on EXCEPT ![c] = None]
      /\ monitor' = [monitor EXCEPT ![c] = "search"] /\ sock' = [sock EXCEPT ![c] = None]
      /\ conn' = IF sock[c] = None THEN conn ELSE Close(sock[c])
      /\ UNCHANGED <<server, job, slot, backlog, serial>>
  BY DEF Kill, GuiTo, Return, serverVars
<1>2. /\ gui'[c] = "idle" /\ on'[c] = None /\ monitor'[c] = "search" /\ sock'[c] = None
      /\ \A d \in Clients :
            d # c => UNCHANGED <<gui[d], serial[d], on[d], monitor[d], sock[d]>>
  BY <1>1 DEF LinkInv, TypeOK
<1>3. Kernel' /\ \A d \in Clients : d # c => Placed(d)' /\ Exchange(d)'
  <2>1. CASE sock[c] # None
    BY <1>1, <1>2, <2>1, ClosingDisturbsNoOther
  <2>2. CASE sock[c] = None
    <3>1. Kernel'
      BY <1>1, <2>2 DEF LinkInv, Kernel
    <3>2. \A d \in Clients : d # c => Placed(d)' /\ Exchange(d)'
      BY <1>1, <1>2, <2>2, Bystander DEF LinkInv, Threads, Working
    <3> QED BY <3>1, <3>2
  <2> QED BY <2>1, <2>2
<1>4. Distinct'
  BY <1>2 DEF LinkInv, Distinct
<1>5. Placed(c)' /\ Exchange(c)'
  BY <1>2 DEF Placed, Exchange, HasSocket
<1> QED BY <1>3, <1>4, <1>5 DEF Threads

-----------------------------------------------------------------------------
(* The theorems *)

LEMMA InvInit == Init => LinkInv
<1> SUFFICES ASSUME Init PROVE LinkInv
  OBVIOUS
<1>1. Kernel
  BY DEF Init, Kernel, Unused
<1>2. Distinct /\ Threads
  BY DEF Init, Distinct, Threads, Placed, Exchange, HasSocket
<1> QED BY <1>1, <1>2, TypeInit DEF LinkInv

LEMMA InvStep == LinkInv /\ [Next]_vars => LinkInv'
<1> SUFFICES ASSUME LinkInv, [Next]_vars PROVE LinkInv'
  OBVIOUS
<1>1. TypeOK'
  BY TypeStep DEF LinkInv
<1>2. CASE UNCHANGED vars
  <2>1. UNCHANGED <<server, job, slot, backlog, conn, gui, serial, on, monitor, sock>>
    BY <1>2 DEF vars, serverVars, guiVars, monitorVars
  <2>2. Kernel' /\ Distinct'
    BY <2>1 DEF LinkInv, Kernel, Distinct
  <2>3. Threads'
    BY <2>1, Bystander DEF LinkInv, Threads, Working
  <2> QED BY <1>1, <2>2, <2>3 DEF LinkInv
<1>3. CASE ServerStep \/ Stop \/ Start
  BY <1>1, <1>3, InvServer DEF LinkInv
<1>4. ASSUME NEW c \in Clients, MonitorStep(c) PROVE LinkInv'
  BY <1>1, <1>4, InvSearch, InvConnect, InvCloseDead, InvDrop DEF MonitorStep, LinkInv
<1>5. ASSUME NEW c \in Clients, Ask(c) \/ GuiStep(c) \/ Kill(c) PROVE LinkInv'
  BY <1>1, <1>5, InvAsk, InvDrain, InvSend, InvBlock, InvWake, InvReport, InvKill
     DEF GuiStep, LinkInv
<1> QED BY <1>2, <1>3, <1>4, <1>5 DEF Next

LEMMA InvReplies == LinkInv => ReplyMatches
<1> SUFFICES ASSUME LinkInv, NEW c \in Clients, gui[c] = "blocked",
                    NEW i \in DOMAIN conn[on[c]].replies
             PROVE  conn[on[c]].replies[i] = serial[c]
  BY DEF ReplyMatches
<1>1. on[c] # None /\ on[c] \in Conns
  BY DEF LinkInv, Threads, Placed, TypeOK
<1>2. conn[on[c]].replies # <<>>
  OBVIOUS
<1>3. conn[on[c]].client /\ sock[c] = on[c]
  BY <1>1, <1>2 DEF LinkInv, Kernel, Threads, Placed
<1>4. Carries(on[c], serial[c])
  BY <1>1, <1>2, <1>3 DEF LinkInv, Threads, Exchange, HasSocket, Quiet
<1>5. conn[on[c]].replies = <<serial[c]>>
  BY <1>2, <1>4 DEF Carries
<1> QED BY <1>5

\* Whenever a GUI thread is about to take a reply, it is the one to the request it sent,
\* for any number of clients and any timing: although the sockets are reopened while it
\* waits, and the server leaves requests unanswered or ends.
THEOREM LinkReplies == Spec => []ReplyMatches
BY InvInit, InvStep, InvReplies, PTL DEF Spec

-----------------------------------------------------------------------------
(* Descriptors *)

\* An open end of q was open before.
Fading(q) == /\ conn'[q].client => conn[q].client
             /\ conn'[q].server => conn[q].server

LEMMA FadingAtServer ==
    ASSUME LinkInv, ServerStep \/ Stop \/ Start, NEW q \in Conns
    PROVE  Fading(q)
<1>1. conn \in [Conns -> Connection] /\ conn[q] \in Connection
  BY DEF LinkInv, TypeOK
<1>2. CASE Accept \/ Silence \/ Start
  BY <1>2 DEF Accept, Silence, Start, Fading
<1>3. CASE Receive
  BY <1>1, <1>3 DEF Receive, Fading, Connection
<1>4. CASE HangUp
  BY <1>1, <1>4 DEF HangUp, Fading, Unused
<1>5. ASSUME Die PROVE Fading(q)
  BY <1>5 DEF Die, Fading
<1>6. CASE Reply
  <2>1. CASE conn' = [conn EXCEPT ![slot].replies = Append(@, job)]
    BY <1>1, <2>1 DEF Fading, Connection
  <2>2. CASE UNCHANGED conn
    BY <2>2 DEF Fading
  <2> QED BY <1>5, <1>6, <2>1, <2>2 DEF Reply
<1>7. CASE Crash \/ Stop
  BY <1>5, <1>7 DEF Crash, Stop
<1>8. CASE Refuse
  BY <1>1, <1>8 DEF Refuse, Fading
<1> QED BY <1>2, <1>3, <1>4, <1>6, <1>7, <1>8 DEF ServerStep

LEMMA FadingAtClient ==
    ASSUME LinkInv, NEW d \in Clients, Ask(d) \/ GuiStep(d) \/ Kill(d) \/ CloseDead(d) \/ Drop(d),
           NEW q \in Conns
    PROVE  Fading(q)
<1>1. conn \in [Conns -> Connection] /\ conn[q] \in Connection
  BY DEF LinkInv, TypeOK
<1>2. ASSUME NEW x, conn' = Close(x) PROVE Fading(q)
  BY <1>1, <1>2 DEF Close, Fading
<1>3. CASE Ask(d) \/ Block(d) \/ Report(d) \/ Drop(d) \/ UNCHANGED conn
  BY <1>3 DEF Ask, Block, Report, Drop, Fading
<1>4. CASE Kill(d) \/ CloseDead(d)
  BY <1>2, <1>3, <1>4 DEF Kill, CloseDead
<1>5. CASE Drain(d)
  BY <1>1, <1>3, <1>5, ZenonT(40) DEF Drain, Fading, Connection
<1>6. CASE Send(d)
  BY <1>1, <1>3, <1>6, ZenonT(40) DEF Send, Fading, Connection
<1>7. CASE Wake(d)
  BY <1>1, <1>3, <1>7, ZenonT(40) DEF Wake, Fading, Connection
<1> QED BY <1>3, <1>4, <1>5, <1>6, <1>7 DEF GuiStep

\* What a client refers to never comes back to life.
LEMMA NothingRevives ==
    ASSUME LinkInv, [Next]_vars, NEW c \in Clients, NEW q \in {sock[c], fd[c], on[c]}, q # None
    PROVE  q \in Conns /\ Fading(q)
<1>1. q \in Conns
  <2>1. /\ sock \in [Clients -> Conns \cup {None}] /\ fd \in [Clients -> Conns \cup {None}]
        /\ on \in [Clients -> Conns \cup {None}]
    BY DEF LinkInv, TypeOK
  <2>2. sock[c] \in Conns \cup {None} /\ fd[c] \in Conns \cup {None} /\ on[c] \in Conns \cup {None}
    BY <2>1
  <2> QED BY <2>2
<1>2. CASE ServerStep \/ Stop \/ Start
  BY <1>1, <1>2, FadingAtServer
<1>3. ASSUME NEW d \in Clients, Ask(d) \/ GuiStep(d) \/ Kill(d) \/ CloseDead(d) \/ Drop(d)
      PROVE  Fading(q)
  BY <1>1, <1>3, FadingAtClient
<1>4. ASSUME NEW d \in Clients, Search(d) \/ Connect(d)
      PROVE  Fading(q)
  <2>1. CASE UNCHANGED conn
    BY <2>1 DEF Fading
  <2>2. ASSUME CanConnect, NEW r, conn' = [conn EXCEPT ![NewConn] = r] PROVE Fading(q)
    <3>1. q # NewConn
      BY <2>2, NewIsFree DEF LinkInv, CanConnect
    <3> QED BY <1>1, <2>2, <3>1 DEF LinkInv, TypeOK, Fading
  <2> QED BY <1>4, <2>1, <2>2 DEF Search, Connect
<1>5. CASE UNCHANGED vars
  BY <1>1, <1>5 DEF vars, Fading
<1> QED BY <1>1, <1>2, <1>3, <1>4, <1>5 DEF Next, MonitorStep

\* The monitor refers to the same socket until it closes it.
LEMMA SocketKept ==
    ASSUME LinkInv, [Next]_vars, NEW c \in Clients, sock[c] # None
    PROVE  sock'[c] = sock[c] \/ ~conn'[sock[c]].client
<1>1. sock \in [Clients -> Conns \cup {None}] /\ sock[c] \in Conns
  BY DEF LinkInv, TypeOK
<1>2. CASE ServerStep \/ Stop \/ Start
  BY <1>2 DEF ServerStep, Accept, Receive, HangUp, Reply, Silence, Refuse, Crash, Stop, Die,
              Start, monitorVars
<1>3. ASSUME NEW d \in Clients, Ask(d) \/ GuiStep(d) \/ Search(d) \/ CloseDead(d)
      PROVE  sock'[c] = sock[c]
  BY <1>3 DEF Ask, GuiStep, Drain, Send, Block, Wake, Report, Search, CloseDead, monitorVars
<1>4. ASSUME NEW d \in Clients, Connect(d) PROVE sock'[c] = sock[c]
  <2>1. d # c
    BY <1>4 DEF Connect, LinkInv, Threads, Placed
  <2> QED BY <1>1, <1>4, <2>1 DEF Connect
<1>5. ASSUME NEW d \in Clients, Drop(d) PROVE sock'[c] = sock[c] \/ ~conn'[sock[c]].client
  BY <1>1, <1>5 DEF Drop, LinkInv, Threads, Placed
<1>6. ASSUME NEW d \in Clients, Kill(d) PROVE sock'[c] = sock[c] \/ ~conn'[sock[c]].client
  BY <1>1, <1>6 DEF Kill, Close, LinkInv, TypeOK
<1>7. CASE UNCHANGED vars
  BY <1>7 DEF vars, monitorVars
<1> QED BY <1>2, <1>3, <1>4, <1>5, <1>6, <1>7 DEF Next, MonitorStep

\* What the request of c began on, and what it has come to.
Begun(c) ==
    /\ gui[c] = "idle" <=> fd[c] = None
    /\ fd[c] # None /\ conn[fd[c]].client => sock[c] = fd[c]
    /\ on[c] \notin {None, fd[c]} => ~conn[fd[c]].client
    /\ gui[c] = "lost" => ~(conn[fd[c]].client /\ conn[fd[c]].server)

BegunInv == LinkInv /\ \A c \in Clients : Begun(c)

\* A step that leaves the GUI thread of c alone.
LEMMA BegunStays ==
    ASSUME LinkInv, [Next]_vars, NEW c \in Clients, Begun(c),
           UNCHANGED <<gui[c], fd[c], on[c]>>
    PROVE  Begun(c)'
<1>1. CASE fd[c] = None
  <2>1. on[c] = None
    BY <1>1 DEF Begun, LinkInv, Threads, Placed
  <2> QED BY <1>1, <2>1 DEF Begun
<1>2. CASE fd[c] # None
  <2>1. Fading(fd[c])
    BY <1>2, NothingRevives
  <2>2. conn'[fd[c]].client => sock'[c] = fd[c]
    BY <1>2, <2>1, SocketKept DEF Begun, Fading
  <2> QED BY <1>2, <2>1, <2>2 DEF Begun, Fading
<1> QED BY <1>1, <1>2

\* A step of the GUI thread of c.
LEMMA BegunMoves ==
    ASSUME LinkInv, [Next]_vars, NEW c \in Clients, Begun(c), Ask(c) \/ GuiStep(c) \/ Kill(c)
    PROVE  Begun(c)'
<1>0. /\ gui \in [Clients -> {"idle", "drain", "send", "receive", "blocked", "lost"}]
      /\ fd \in [Clients -> Conns \cup {None}] /\ on \in [Clients -> Conns \cup {None}]
      /\ None \notin Conns
  BY LinkAssumption DEF LinkInv, TypeOK
<1>1. gui[c] # "blocked" => on[c] = None
  BY DEF LinkInv, Threads, Placed
<1>2. CASE Ask(c)
  BY <1>0, <1>1, <1>2 DEF Ask, Begun, monitorVars
<1>3. CASE Kill(c) \/ Report(c)
  BY <1>0, <1>1, <1>3 DEF Kill, Report, Return, Begun
<1>4. CASE gui[c] # "idle" /\ fd'[c] = fd[c] /\ sock'[c] = sock[c] /\ on'[c] = None
           /\ gui'[c] \notin {"idle", "lost"}
  <2>1. fd[c] # None /\ Fading(fd[c])
    BY <1>4, NothingRevives DEF Begun
  <2> QED BY <1>4, <2>1 DEF Begun, Fading
<1>5. CASE gui[c] # "idle" /\ fd'[c] = fd[c] /\ sock'[c] = sock[c] /\ on'[c] = None
           /\ gui'[c] = "lost" /\ ~(conn[fd[c]].client /\ conn[fd[c]].server)
  <2>1. fd[c] # None /\ Fading(fd[c])
    BY <1>5, NothingRevives DEF Begun
  <2> QED BY <1>5, <2>1 DEF Begun, Fading
<1>6. CASE gui'[c] = "idle" /\ fd'[c] = None /\ on'[c] = None
  BY <1>6 DEF Begun
<1>7. ~Alive(c) /\ fd[c] # None => ~(conn[fd[c]].client /\ conn[fd[c]].server)
  BY DEF Begun, Alive, HasSocket
<1>8. CASE Drain(c)
  BY <1>0, <1>1, <1>4, <1>5, <1>6, <1>7, <1>8 DEF Drain, GuiTo, Return, Begun, monitorVars
<1>9. CASE Send(c)
  BY <1>0, <1>1, <1>4, <1>5, <1>7, <1>9 DEF Send, GuiTo, Begun, monitorVars
<1>10. CASE Block(c)
  <2>1. fd[c] # None /\ fd'[c] = fd[c] /\ UNCHANGED <<conn, sock>>
    BY <1>10 DEF Block, GuiTo, Begun, monitorVars
  <2>2. CASE ~HasSocket(c) /\ gui'[c] = "lost" /\ on'[c] = None
    BY <1>5, <1>7, <1>10, <2>1, <2>2 DEF Block, Alive
  <2>3. CASE HasSocket(c) /\ gui'[c] = "blocked" /\ on'[c] = sock[c]
    BY <2>1, <2>3 DEF Begun
  <2> QED BY <1>0, <1>1, <1>10, <2>2, <2>3 DEF Block, GuiTo
<1>11. CASE Wake(c)
  <2>1. on[c] # None /\ on'[c] = None /\ sock'[c] = sock[c]
    BY <1>0, <1>11 DEF Wake, LinkInv, Threads, Placed, monitorVars
  <2>2. CASE GuiTo(c, "lost") /\ (~conn[on[c]].client \/ ~conn[on[c]].server)
    BY <1>0, <1>5, <1>11, <2>1, <2>2 DEF Wake, GuiTo, Begun
  <2>3. CASE Return(c)
    BY <1>0, <1>6, <2>1, <2>3 DEF Return
  <2> QED BY <1>11, <2>2, <2>3 DEF Wake
<1> QED BY <1>2, <1>3, <1>8, <1>9, <1>10, <1>11 DEF GuiStep

LEMMA BegunStep ==
    ASSUME BegunInv, [Next]_vars
    PROVE  BegunInv'
<1>1. LinkInv'
  BY InvStep DEF BegunInv
<1>2. ASSUME NEW c \in Clients PROVE Begun(c)'
  <2>1. \/ UNCHANGED <<gui[c], fd[c], on[c]>>
        \/ Ask(c) \/ GuiStep(c) \/ Kill(c)
    <3>1. CASE UNCHANGED vars
      BY <3>1 DEF vars, guiVars
    <3>2. CASE ServerStep \/ Stop \/ Start
      BY <3>2 DEF ServerStep, Accept, Receive, HangUp, Reply, Silence, Refuse, Crash, Stop, Die,
                  Start, guiVars
    <3>3. ASSUME NEW d \in Clients, MonitorStep(d) PROVE UNCHANGED <<gui[c], fd[c], on[c]>>
      BY <3>3 DEF MonitorStep, Search, Connect, CloseDead, Drop, guiVars
    <3>4. ASSUME NEW d \in Clients, d # c, Ask(d) \/ GuiStep(d) \/ Kill(d)
          PROVE  UNCHANGED <<gui[c], fd[c], on[c]>>
      BY <3>4 DEF Ask, GuiStep, Drain, Send, Block, Wake, Report, Kill, GuiTo, Return,
                  BegunInv, LinkInv, TypeOK
    <3> QED BY <3>1, <3>2, <3>3, <3>4 DEF Next
  <2> QED BY <2>1, BegunStays, BegunMoves DEF BegunInv
<1> QED BY <1>1, <1>2 DEF BegunInv

\* A request is given up only if the connection on which it began is gone, for any
\* number of clients and any timing of the monitor, the GUI thread and the server.
THEOREM LinkGivesUpIfLost == Spec => []GivenUpIfLost
<1>1. Init => BegunInv
  BY InvInit DEF Init, BegunInv, Begun
<1>2. BegunInv => GivenUpIfLost
  BY DEF BegunInv, Begun, GivenUpIfLost
<1> QED BY <1>1, <1>2, BegunStep, PTL DEF Spec

\* What the server has open.
OpenAtServer(q) == conn[q].server <=> q = slot \/ \E i \in DOMAIN backlog : backlog[i] = q

\* What a client has open.
OpenAtClient(q) == conn[q].client => \E c \in Clients : sock[c] = q

OwnedInv == LinkInv /\ \A q \in Conns : OpenAtServer(q) /\ OpenAtClient(q)

LEMMA OwnedAtServer ==
    ASSUME OwnedInv, ServerStep \/ Stop \/ Start, NEW q \in Conns
    PROVE  OpenAtServer(q)' /\ OpenAtClient(q)'
<1>0. /\ conn \in [Conns -> Connection] /\ conn[q] \in Connection /\ None \notin Conns
      /\ backlog \in Seq(Conns) /\ slot \in Conns \cup {None}
      /\ OpenAtServer(q) /\ OpenAtClient(q)
  BY LinkAssumption DEF OwnedInv, LinkInv, TypeOK
<1>1. OpenAtClient(q)'
  <2>1. sock' = sock
    <3>1. CASE Reply \/ Crash \/ Stop
      BY <3>1 DEF Reply, Crash, Stop, Die, monitorVars
    <3> QED BY <3>1 DEF ServerStep, Accept, Receive, HangUp, Silence, Refuse, Start, monitorVars
  <2> QED BY <1>0, <2>1, FadingAtServer DEF OpenAtClient, Fading, OwnedInv
<1>2. CASE Accept
  <2>1. slot = None /\ backlog # <<>> /\ slot' = backlog[1] /\ backlog' = Tail(backlog)
        /\ conn' = conn
    BY <1>0, <1>2 DEF Accept
  <2>2. (\E i \in DOMAIN backlog : backlog[i] = q)
            <=> q = backlog[1] \/ \E i \in DOMAIN Tail(backlog) : Tail(backlog)[i] = q
    <3>1. ASSUME NEW i \in DOMAIN backlog, i # 1
          PROVE  i - 1 \in DOMAIN Tail(backlog) /\ Tail(backlog)[i - 1] = backlog[i]
      BY <1>0, <2>1, <3>1
    <3>2. ASSUME NEW i \in DOMAIN Tail(backlog)
          PROVE  i + 1 \in DOMAIN backlog /\ Tail(backlog)[i] = backlog[i + 1]
      BY <1>0, <2>1, <3>2
    <3>3. 1 \in DOMAIN backlog
      BY <1>0, <2>1
    <3> QED BY <3>1, <3>2, <3>3
  <2> QED BY <1>0, <1>1, <2>1, <2>2 DEF OpenAtServer
<1>3. CASE Receive
  <2>1. conn'[q].server = conn[q].server /\ UNCHANGED <<slot, backlog>>
    BY <1>0, <1>3 DEF Receive, Connection
  <2> QED BY <1>0, <1>1, <2>1 DEF OpenAtServer
<1>4. CASE HangUp \/ Refuse
  <2>1. slot # None /\ slot' = None /\ backlog' = backlog
    BY <1>4 DEF HangUp, Refuse, OwnedInv, LinkInv, Kernel
  <2>2. conn'[q].server <=> conn[q].server /\ q # slot
    BY <1>0, <1>4, <2>1 DEF HangUp, Refuse, Unused
  <2>3. \A i \in DOMAIN backlog : backlog[i] # slot
    BY DEF OwnedInv, LinkInv, Kernel
  <2> QED BY <1>0, <1>1, <2>1, <2>2, <2>3 DEF OpenAtServer
<1>5. ASSUME Die PROVE OpenAtServer(q)'
  BY <1>0, <1>5 DEF Die, OpenAtServer
<1>6. CASE Reply /\ ~Die
  <2>1. conn'[q].server = conn[q].server /\ UNCHANGED <<slot, backlog>>
    BY <1>0, <1>6, ZenonT(40) DEF Reply, Connection
  <2> QED BY <1>0, <1>1, <2>1 DEF OpenAtServer
<1>7. CASE Silence \/ Start
  BY <1>0, <1>1, <1>7 DEF Silence, Start, OpenAtServer
<1> QED BY <1>1, <1>2, <1>3, <1>4, <1>5, <1>6, <1>7 DEF ServerStep, Crash, Stop

LEMMA OwnedAtGui ==
    ASSUME OwnedInv, NEW c \in Clients, Ask(c) \/ GuiStep(c), NEW q \in Conns
    PROVE  OpenAtServer(q)' /\ OpenAtClient(q)'
<1>0. conn \in [Conns -> Connection] /\ conn[q] \in Connection
  BY DEF OwnedInv, LinkInv, TypeOK
<1>1. UNCHANGED <<sock, slot, backlog>>
  BY DEF Ask, GuiStep, Drain, Send, Block, Wake, Report, serverVars, monitorVars
<1>2. conn'[q].client = conn[q].client /\ conn'[q].server = conn[q].server
  <2>1. ASSUME NEW x, NEW y, \/ conn' = [conn EXCEPT ![x].replies = y]
                             \/ conn' = [conn EXCEPT ![x].requests = y]
                             \/ conn' = conn
        PROVE  conn'[q].client = conn[q].client /\ conn'[q].server = conn[q].server
    BY <1>0, <2>1, ZenonT(40) DEF Connection
  <2>2. CASE Drain(c)
    BY <2>1, <2>2 DEF Drain
  <2>3. CASE Send(c)
    BY <2>1, <2>3 DEF Send
  <2>4. CASE Wake(c)
    BY <2>1, <2>4 DEF Wake
  <2> QED BY <2>1, <2>2, <2>3, <2>4 DEF Ask, GuiStep, Block, Report
<1> QED BY <1>1, <1>2 DEF OpenAtServer, OpenAtClient, OwnedInv

LEMMA OwnedAtMonitor ==
    ASSUME OwnedInv, NEW c \in Clients, MonitorStep(c) \/ Kill(c), NEW q \in Conns
    PROVE  OpenAtServer(q)' /\ OpenAtClient(q)'
<1>0. /\ conn \in [Conns -> Connection] /\ sock \in [Clients -> Conns \cup {None}]
      /\ backlog \in Seq(Conns) /\ None \notin Conns /\ slot' = slot
      /\ OpenAtServer(q) /\ OpenAtClient(q)
  BY LinkAssumption
     DEF OwnedInv, LinkInv, TypeOK, MonitorStep, Search, Connect, CloseDead, Drop, Kill, serverVars
<1>1. ASSUME CanConnect, NEW r, r.server, conn' = [conn EXCEPT ![NewConn] = r],
             backlog' = Append(backlog, NewConn)
      PROVE  /\ OpenAtServer(q)'
             /\ conn'[NewConn] = r /\ (q # NewConn => conn'[q] = conn[q])
             /\ \A d \in Clients : sock[d] # NewConn
  <2>1. NewConn \in Conns /\ \A d \in Clients : sock[d] # NewConn
    BY <1>1, NewIsFree DEF OwnedInv, LinkInv, CanConnect
  <2>2. (\E i \in DOMAIN backlog' : backlog'[i] = q)
            <=> q = NewConn \/ \E i \in DOMAIN backlog : backlog[i] = q
    <3>1. /\ DOMAIN backlog' = 1 .. Len(backlog) + 1
          /\ backlog'[Len(backlog) + 1] = NewConn
          /\ \A i \in DOMAIN backlog : backlog'[i] = backlog[i] /\ i \in DOMAIN backlog'
          /\ \A i \in DOMAIN backlog' : i = Len(backlog) + 1 \/ i \in DOMAIN backlog
      BY <1>0, <1>1, <2>1
    <3> QED BY <3>1
  <2> QED BY <1>0, <1>1, <2>1, <2>2 DEF OpenAtServer
<1>2. CASE Search(c)
  <2>1. UNCHANGED sock
    BY <1>2 DEF Search
  <2>2. CASE UNCHANGED <<conn, backlog>>
    BY <1>0, <2>1, <2>2 DEF OpenAtServer, OpenAtClient
  <2>3. CASE CanConnect /\ conn' = [conn EXCEPT ![NewConn] = Probe]
             /\ backlog' = Append(backlog, NewConn)
    <3>1. Probe.server /\ ~Probe.client
      BY DEF Probe
    <3> QED BY <1>0, <1>1, <2>1, <2>3, <3>1 DEF OpenAtClient
  <2> QED BY <1>2, <2>2, <2>3 DEF Search
<1>3. CASE Connect(c)
  <2>1. CASE UNCHANGED <<conn, backlog, sock>>
    BY <1>0, <2>1 DEF OpenAtServer, OpenAtClient
  <2>2. CASE CanConnect /\ conn' = [conn EXCEPT ![NewConn] = Opened]
             /\ backlog' = Append(backlog, NewConn) /\ sock' = [sock EXCEPT ![c] = NewConn]
    <3>1. Opened.server
      BY DEF Opened
    <3>2. sock[c] = None
      BY <1>3 DEF Connect, OwnedInv, LinkInv, Threads, Placed
    <3>3. OpenAtServer(q)' /\ (q # NewConn => conn'[q] = conn[q])
      BY <1>1, <2>2, <3>1
    <3>4. OpenAtClient(q)'
      BY <1>0, <2>2, <3>2, <3>3 DEF OpenAtClient
    <3> QED BY <3>3, <3>4
  <2> QED BY <1>3, <2>1, <2>2 DEF Connect
<1>4. ASSUME NEW x \in Conns, conn' = Close(x), UNCHANGED backlog
      PROVE  OpenAtServer(q)' /\ (q # x => conn'[q] = conn[q]) /\ ~conn'[x].client
  BY <1>0, <1>4 DEF Close, OpenAtServer
<1>5. CASE CloseDead(c)
  <2>1. sock[c] \in Conns
    BY <1>0, <1>5 DEF CloseDead, OwnedInv, LinkInv, Threads, Placed
  <2> QED BY <1>0, <1>4, <1>5, <2>1 DEF CloseDead, OpenAtClient, serverVars
<1>6. CASE Drop(c)
  <2>1. ~conn[sock[c]].client
    BY <1>6 DEF Drop, OwnedInv, LinkInv, Threads, Placed
  <2>2. UNCHANGED <<conn, backlog>> /\ sock' = [sock EXCEPT ![c] = None]
    BY <1>6 DEF Drop, serverVars
  <2> QED BY <1>0, <2>1, <2>2 DEF OpenAtServer, OpenAtClient
<1>7. CASE Kill(c)
  <2>1. UNCHANGED backlog /\ sock' = [sock EXCEPT ![c] = None]
        /\ conn' = IF sock[c] = None THEN conn ELSE Close(sock[c])
    BY <1>7 DEF Kill, serverVars
  <2>2. CASE sock[c] = None
    BY <1>0, <2>1, <2>2 DEF OpenAtServer, OpenAtClient
  <2>3. CASE sock[c] \in Conns
    BY <1>0, <1>4, <2>1, <2>3 DEF OpenAtClient
  <2> QED BY <1>0, <2>2, <2>3
<1> QED BY <1>2, <1>3, <1>5, <1>6, <1>7 DEF MonitorStep

\* No descriptor of the server or of a client leaks, and none is shared by two clients,
\* on any path on which a connection is closed.
THEOREM LinkSocketsOwned == Spec => []SocketsOwned
<1>1. Init => OwnedInv
  BY InvInit, LinkAssumption DEF Init, OwnedInv, OpenAtServer, OpenAtClient, Unused
<1>2. ASSUME OwnedInv, [Next]_vars PROVE OwnedInv'
  <2>1. LinkInv'
    BY <1>2, InvStep DEF OwnedInv
  <2>2. ASSUME NEW q \in Conns PROVE OpenAtServer(q)' /\ OpenAtClient(q)'
    <3>1. CASE UNCHANGED vars
      BY <1>2, <3>1 DEF vars, serverVars, monitorVars, OwnedInv, OpenAtServer, OpenAtClient
    <3> QED BY <1>2, <3>1, OwnedAtServer, OwnedAtGui, OwnedAtMonitor DEF Next
  <2> QED BY <2>1, <2>2 DEF OwnedInv
<1>3. OwnedInv => SocketsOwned
  BY DEF OwnedInv, LinkInv, Distinct, OpenAtServer, OpenAtClient, SocketsOwned
<1> QED BY <1>1, <1>2, <1>3, PTL DEF Spec

=============================================================================
