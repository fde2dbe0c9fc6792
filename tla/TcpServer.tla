------------------------------ MODULE TcpServer ------------------------------
(***************************************************************************)
(* EpollTcpServer, the event loop of the gateway and of the three servers, *)
(* with the kernel's socket queues and the peers around it.  A byte stream *)
(* is a sequence of halves of packets, and a read may end after any half.  *)
(*                                                                         *)
(* Every packet handler of this repository answers a packet with a packet, *)
(* here the one of the same number.  A socket stands for one connection    *)
(* and is not used again.                                                  *)
(***************************************************************************)
EXTENDS Integers, Sequences, FiniteSets

CONSTANTS
  Sockets,     \* bound: fewer than kMaxEvents, so one epoll_wait returns them all
  Listener,    \* listen_fd_
  MaxPackets,  \* bound: packets that peers send, numbered in the order they do
  Room,        \* halves the kernel takes for a peer that does not read
  Faults       \* "junk": one peer sends, once, bytes that are no packet; "close": a peer
               \* closes; "crash": the process dies; "accept": accept(2) fails

ASSUME ListenerAssumption == Listener \notin Sockets
ASSUME BoundsAssumption == MaxPackets \in Nat /\ Room \in Nat \ {0}
ASSUME FaultsAssumption == Faults \subseteq {"junk", "close", "crash", "accept"}

VARIABLES
  peer,     \* the peer's end: "none", "up", "closing" (close() was called), "fin"
            \* and "rst" (the server's kernel knows)
  in, out,  \* halves on the way to the server and to the peer
  backlog,  \* connections the server has yet to accept
  conn,     \* connections_
  batch,    \* what epoll_wait returned and Run has not looked at yet
  nextId,   \* next_connection_id_
  process,  \* "up", "down", or "killed" (by SIGPIPE)
  stream,   \* all halves a peer has sent
  done,     \* packets handed to the packet handler
  got,      \* all halves a peer has read
  told      \* connection ids given to the disconnect handler

kernelVars == <<peer, in, out>>
serverVars == <<backlog, conn, batch, nextId, process, told>>
historyVars == <<stream, done, got>>
vars == <<kernelVars, serverVars, historyVars>>

Junk == <<0, "junk">>
Half == {Junk} \union (1..MaxPackets) \X {"head", "body"}
Number(half) == half[1]
IsHead(half) == half[2] = "head"

\* EncodePacket of every packet of a sequence.
Halves(ps) == [i \in 1..(2 * Len(ps)) |->
                <<ps[(i + 1) \div 2], IF i % 2 = 1 THEN "head" ELSE "body">>]

NoConn == [st |-> "none", id |-> 0, buf |-> <<>>, queue |-> <<>>, armed |-> FALSE]
Closed == [NoConn EXCEPT !.st = "closed"]
Conn == [st : {"none", "queued", "open", "closed"}, id : Nat, buf : Seq(Half),
         queue : Seq(Half), armed : BOOLEAN]
Open(s) == conn[s].st = "open"
Alive == process = "up"

TypeOK ==
  /\ peer \in [Sockets -> {"none", "up", "closing", "fin", "rst"}]
  /\ in \in [Sockets -> Seq(Half)] /\ out \in [Sockets -> Seq(Half)]
  /\ backlog \in Seq(Sockets)
  /\ conn \in [Sockets -> Conn]
  /\ batch \in [Sockets \union {Listener} -> SUBSET {"in", "out", "hup"}]
  /\ nextId \in Nat \ {0}
  /\ process \in {"up", "down", "killed"}
  /\ stream \in [Sockets -> Seq(Half)] /\ got \in [Sockets -> Seq(Half)]
  /\ done \in [Sockets -> Seq(0..MaxPackets)]
  /\ told \in Seq(Nat)

Init ==
  /\ peer = [s \in Sockets |-> "none"]
  /\ in = [s \in Sockets |-> <<>>] /\ out = [s \in Sockets |-> <<>>]
  /\ backlog = <<>>
  /\ conn = [s \in Sockets |-> NoConn]
  /\ batch = [f \in Sockets \union {Listener} |-> {}]
  /\ nextId = 1
  /\ process = "up"
  /\ stream = [s \in Sockets |-> <<>>] /\ got = [s \in Sockets |-> <<>>]
  /\ done = [s \in Sockets |-> <<>>]
  /\ told = <<>>
-----------------------------------------------------------------------------
(* Peers and the network                                                   *)

PeerConnect(s) ==
  /\ Alive /\ peer[s] = "none"
  /\ peer' = [peer EXCEPT ![s] = "up"]
  /\ conn' = [conn EXCEPT ![s].st = "queued"]
  /\ backlog' = Append(backlog, s)
  /\ UNCHANGED <<in, out, batch, nextId, process, told, historyVars>>

Used(k) == \E s \in Sockets : \E i \in 1..Len(stream[s]) : Number(stream[s][i]) = k
Fresh(k) == ~Used(k) /\ \A j \in 1..(k - 1) : Used(j)

PeerWrites(s, halves) ==
  /\ peer[s] = "up" /\ conn[s].st \in {"queued", "open"}
  /\ in' = [in EXCEPT ![s] = @ \o halves]
  /\ stream' = [stream EXCEPT ![s] = @ \o halves]
  /\ UNCHANGED <<peer, out, serverVars, done, got>>

PeerSend(s, k) == Fresh(k) /\ PeerWrites(s, Halves(<<k>>))
HasJunk(s) == \E i \in 1..Len(stream[s]) : stream[s][i] = Junk
PeerJunk(s) ==
  "junk" \in Faults /\ (\A t \in Sockets : ~HasJunk(t)) /\ PeerWrites(s, <<Junk>>)

PeerRecv(s, n) ==
  /\ peer[s] = "up" /\ n \in 1..Len(out[s])
  /\ got' = [got EXCEPT ![s] = @ \o SubSeq(out[s], 1, n)]
  /\ out' = [out EXCEPT ![s] = SubSeq(@, n + 1, Len(@))]
  /\ UNCHANGED <<peer, in, serverVars, stream, done>>

PeerClose(s) ==
  /\ peer[s] = "up"
  /\ peer' = [peer EXCEPT ![s] = "closing"]
  /\ UNCHANGED <<in, out, serverVars, historyVars>>

\* The server's kernel learns of the close: a FIN, or a RST if there was
\* something the peer has not read or the server has sent since.
CloseArrives(s) ==
  /\ peer[s] = "closing"
  /\ peer' = [peer EXCEPT ![s] = IF out[s] = <<>> THEN "fin" ELSE "rst"]
  /\ UNCHANGED <<in, out, serverVars, historyVars>>
Gone(s) == peer[s] \in {"fin", "rst"}
-----------------------------------------------------------------------------
(* Run: one epoll_wait, then one event after the other                     *)

Events(f) ==
  IF f = Listener THEN {e \in {"in"} : backlog # <<>>}
  ELSE IF ~Open(f) THEN {}
  ELSE {e \in {"in", "out", "hup"} :
          \/ e = "in" /\ in[f] # <<>>
          \/ e = "out" /\ conn[f].armed /\ Len(out[f]) < Room
          \/ e = "hup" /\ Gone(f)}

EpollWait ==
  /\ Alive
  /\ \A f \in DOMAIN batch : batch[f] = {}
  /\ \E f \in DOMAIN batch : Events(f) # {}
  /\ batch' = [f \in DOMAIN batch |-> Events(f)]
  /\ UNCHANGED <<kernelVars, backlog, conn, nextId, process, told, historyVars>>

\* One accept(2) of the loop in AcceptConnections.
Accept ==
  LET s == Head(backlog) IN
  /\ batch[Listener] # {}
  /\ backlog # <<>>
  /\ conn' = [conn EXCEPT ![s] = [NoConn EXCEPT !.st = "open", !.id = nextId]]
  /\ nextId' = nextId + 1
  /\ backlog' = Tail(backlog)
  /\ batch' = [batch EXCEPT ![Listener] = IF Len(backlog) = 1 THEN {} ELSE @]
  /\ UNCHANGED <<kernelVars, process, told, historyVars>>

\* Mutated form: the disconnect handler is not called.
CloseConnectionQuietly(s) ==
  /\ conn' = [conn EXCEPT ![s] = Closed]
  /\ batch' = [batch EXCEPT ![s] = {}]
  /\ told' = told
CloseConnection(s) ==
  /\ told' = Append(told, conn[s].id)
  /\ conn' = [conn EXCEPT ![s] = Closed]
  /\ batch' = [batch EXCEPT ![s] = {}]

\* EPOLLERR, EPOLLHUP and EPOLLRDHUP are looked at before EPOLLIN.
Hangup(s) ==
  /\ "hup" \in batch[s]
  /\ CloseConnection(s)
  /\ UNCHANGED <<kernelVars, backlog, nextId, process, historyVars>>

\* Mutated form: the magic is not checked.
WholeUnchecked(b) == Len(b) \div 2
\* TryExtractPacket as often as it succeeds: the packets at the front of a
\* buffer, and what is left, nothing if a header with a bad magic comes next.
Whole(b) == CHOOSE n \in 0..(Len(b) \div 2) :
  /\ \A i \in 1..n : IsHead(b[2 * i - 1])
  /\ n = Len(b) \div 2 \/ ~IsHead(b[2 * n + 1])
Packet(head, body) == IF Number(head) = Number(body) THEN Number(head) ELSE 0
Packets(b) == [i \in 1..Whole(b) |-> Packet(b[2 * i - 1], b[2 * i])]
\* Mutated form: the rest of the buffer is thrown away with the last packet.
RestNone(b) == <<>>
Rest(b) ==
  LET r == SubSeq(b, 2 * Whole(b) + 1, Len(b)) IN
  IF r # <<>> /\ ~IsHead(r[1]) THEN <<>> ELSE r

\* QueueResponse for each of the packets.
\* Mutated form: EPOLLOUT is not asked for.
QueueResponsesUnarmed(c, ps) == [c EXCEPT !.queue = @ \o Halves(ps)]
QueueResponses(c, ps) ==
  [c EXCEPT !.queue = @ \o Halves(ps), !.armed = @ \/ ps # <<>>]

\* recv until EAGAIN, n halves having arrived; the end of the connection comes
\* after them and is met before any packet is looked at.
HandleRead(s) ==
  /\ "in" \in batch[s] /\ "hup" \notin batch[s]
  /\ \/ /\ Gone(s)
        /\ CloseConnection(s)
        /\ UNCHANGED <<in, done>>
     \/ /\ ~Gone(s)
        /\ \E n \in 1..Len(in[s]) :
             LET b == conn[s].buf \o SubSeq(in[s], 1, n) IN
             /\ conn' = [conn EXCEPT ![s] =
                           QueueResponses([conn[s] EXCEPT !.buf = Rest(b)], Packets(b))]
             /\ done' = [done EXCEPT ![s] = @ \o Packets(b)]
             /\ in' = [in EXCEPT ![s] = SubSeq(@, n + 1, Len(@))]
        /\ batch' = [batch EXCEPT ![s] = @ \ {"in"}]
        /\ told' = told
  /\ UNCHANGED <<peer, out, backlog, nextId, process, stream, got>>

\* send until the queue is empty or the kernel takes no more: n halves go.
Sendable(s) ==
  LET room == Room - Len(out[s]) IN
  IF Len(conn[s].queue) < room THEN Len(conn[s].queue) ELSE room
\* Mutated form: the part of a response that was sent stays at the front.
SendWhole(s, n) ==
  LET q == conn[s].queue
      rest == SubSeq(q, n - (n % 2) + 1, Len(q)) IN
  conn' = [conn EXCEPT ![s] = [@ EXCEPT !.queue = rest, !.armed = rest # <<>>]]
Send(s, n) ==
  LET rest == SubSeq(conn[s].queue, n + 1, Len(conn[s].queue)) IN
  conn' = [conn EXCEPT ![s] = [@ EXCEPT !.queue = rest, !.armed = rest # <<>>]]

\* Mutated form: header and body are queued and sent apart.
StringsOfHalves(s) == {conn[s].queue[i] : i \in 1..Len(conn[s].queue)}
\* Responses at least partly in the queue; each takes a send of its own.
Strings(s) == {Number(conn[s].queue[i]) : i \in 1..Len(conn[s].queue)}

\* The end of the process: the kernel closes its sockets, nobody is told.
Die(how) ==
  /\ process' = how
  /\ backlog' = <<>>
  /\ conn' = [s \in Sockets |-> IF conn[s].st = "none" THEN NoConn ELSE Closed]
  /\ batch' = [f \in DOMAIN batch |-> {}]

HandleWrite(s) ==
  /\ batch[s] = {"out"}
  /\ \/ /\ ~Gone(s)
        /\ Send(s, Sendable(s))
        /\ out' = [out EXCEPT ![s] = @ \o SubSeq(conn[s].queue, 1, Sendable(s))]
        /\ batch' = [batch EXCEPT ![s] = {}]
        /\ UNCHANGED <<peer, backlog, process, told>>
     \/ /\ peer[s] = "fin"   \* sent to nobody, and answered with a RST
        /\ Send(s, Sendable(s))
        /\ peer' = [peer EXCEPT ![s] = "rst"]
        /\ batch' = [batch EXCEPT ![s] = {}]
        /\ UNCHANGED <<out, backlog, process, told>>
     \/ /\ peer[s] = "fin" /\ Cardinality(Strings(s)) > 1
        /\ Die("killed")     \* the RST is back before the second send: SIGPIPE
        /\ UNCHANGED <<peer, out, told>>
     \/ /\ peer[s] = "rst"
        /\ CloseConnection(s)
        /\ UNCHANGED <<peer, out, backlog, process>>
  /\ UNCHANGED <<in, nextId, historyVars>>

\* Any error of accept(2) but EAGAIN makes Run return.
AcceptFails ==
  /\ "accept" \in Faults
  /\ batch[Listener] # {}
  /\ Die("down")
  /\ UNCHANGED <<kernelVars, nextId, told, historyVars>>

Crash ==
  /\ "crash" \in Faults /\ Alive
  /\ Die("down")
  /\ UNCHANGED <<kernelVars, nextId, told, historyVars>>

Restart ==
  /\ ~Alive
  /\ process' = "up"
  /\ nextId' = 1
  /\ told' = <<>>
  /\ UNCHANGED <<kernelVars, backlog, conn, batch, historyVars>>

ConnectionEvent(s) == Hangup(s) \/ HandleRead(s) \/ HandleWrite(s)
Loop == EpollWait \/ Accept \/ \E s \in Sockets : ConnectionEvent(s)
Failure == AcceptFails \/ Crash
ServerNext == Loop \/ Failure \/ Restart

PeerStep(s) ==
  \/ PeerConnect(s) \/ PeerJunk(s)
  \/ \E n \in 1..Room : PeerRecv(s, n)
  \/ \E k \in 1..MaxPackets : PeerSend(s, k)
  \/ "close" \in Faults /\ PeerClose(s)
  \/ CloseArrives(s)

Next == ServerNext \/ \E s \in Sockets : PeerStep(s)

Spec == Init /\ [][Next]_vars

\* The process runs on and calls epoll_wait again whatever an event did.
LoopFairness ==
  /\ WF_vars(EpollWait) /\ WF_vars(Accept)
  /\ \A s \in Sockets : WF_vars(ConnectionEvent(s))
\* A peer that stays reads what has come.
FairSpec == Spec /\ LoopFairness /\ \A s \in Sockets : WF_vars(\E n \in 1..Room : PeerRecv(s, n))
-----------------------------------------------------------------------------
(* Properties                                                              *)

\* No byte of a well-formed stream is lost, repeated or read out of order: the
\* packets handled, the buffer and the kernel together are what the peer sent.
InputConserved ==
  \A s \in Sockets : Open(s) /\ ~HasJunk(s) =>
    Halves(done[s]) \o conn[s].buf \o in[s] = stream[s]

\* Responses reach the peer whole, once each and in the order of its requests:
\* what it has read, what the kernel holds and what is queued are the answers.
OutputConserved ==
  \A s \in Sockets : Open(s) /\ peer[s] \in {"up", "closing"} =>
    got[s] \o out[s] \o conn[s].queue = Halves(done[s])

\* Also around bytes that are no packet: whatever is handed to the handler was
\* sent as a whole, and in that order.
HandledWasSent ==
  \A s \in Sockets : \A i \in 1..Len(done[s]) :
    /\ \E j \in 1..(Len(stream[s]) - 1) :
         stream[s][j] = <<done[s][i], "head">> /\ stream[s][j + 1] = <<done[s][i], "body">>
    /\ i > 1 => done[s][i - 1] < done[s][i]

\* Every id accepted is either that of an open connection or was given to the
\* disconnect handler, once: no binding of the gateway outlives its connection,
\* and none is taken over by another one.
DisconnectToldOnce ==
  LET open == {s \in Sockets : Open(s)} IN
  Alive =>
    /\ \A s, t \in open : s # t => conn[s].id # conn[t].id
    /\ \A i, j \in 1..Len(told) : i # j => told[i] # told[j]
    /\ {conn[s].id : s \in open} \intersect {told[i] : i \in 1..Len(told)} = {}
    /\ {conn[s].id : s \in open} \union {told[i] : i \in 1..Len(told)} = 1..(nextId - 1)

\* A client that sends its next request after the last answer only (the demo
\* client, PersistentTcpClient) never ends the process by going away.
Outstanding(s) ==
  {stream[s][i] : i \in 1..Len(stream[s])} \ {got[s][i] : i \in 1..Len(got[s])}
PatientPeersHarmless ==
  [][ process' = "killed" /\ Alive => \E s \in Sockets : Cardinality(Outstanding(s)) > 2 ]_vars

\* A request on a connection that stays is answered, whatever others do.
Answered ==
  \A s \in Sockets, k \in 1..MaxPackets :
    (\E i \in 1..Len(stream[s]) : stream[s][i] = <<k, "body">>) ~>
      \/ \E i \in 1..Len(got[s]) : got[s][i] = <<k, "body">>
      \/ ~Alive \/ peer[s] # "up" \/ ~Open(s) \/ HasJunk(s)
=============================================================================
