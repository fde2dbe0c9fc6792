---------------------------- MODULE UpstreamPool ----------------------------
(***************************************************************************)
(* UpstreamClientPool and its PersistentTcpClients, as peers of the event  *)
(* loop of an upstream server.  The gateway makes one call at a time: the  *)
(* handler of its own event loop waits for the answer.                     *)
(***************************************************************************)
EXTENDS TcpServer

CONSTANTS
  PoolSize,  \* clients_.size()
  NoSocket   \* socket_fd_ = -1

ASSUME PoolAssumption == PoolSize \in Nat \ {0} /\ NoSocket \notin Sockets

Clients == 0..(PoolSize - 1)
Calls == 1..MaxPackets

VARIABLES
  fd,       \* socket_fd_ of each client
  next,     \* next_index_ % clients_.size()
  pc,       \* where the running SendAndReceive is
  client,   \* the client it runs on
  packet,   \* the request, numbered as the packets of TcpServer
  buffer,   \* what ReadPacket has received
  outcome   \* of each call, with the number of the answer it returned

poolVars == <<fd, next, pc, client, packet, buffer, outcome>>
allVars == <<vars, poolVars>>

PoolTypeOK ==
  /\ TypeOK
  /\ fd \in [Clients -> Sockets \union {NoSocket}]
  /\ next \in Clients /\ client \in Clients
  /\ pc \in {"idle", "connect", "write", "read"}
  /\ packet \in 0..MaxPackets
  /\ buffer \in Seq(Half)
  /\ outcome \in [Calls -> [is : {"none", "open", "failed", "ok"}, answer : 0..MaxPackets]]
  \* A socket belongs to one client, and a call has one only past Connect.
  /\ \A c, d \in Clients : c # d /\ fd[c] # NoSocket => fd[c] # fd[d]
  /\ pc \in {"write", "read"} => fd[client] # NoSocket

Result(is, answer) == [is |-> is, answer |-> answer]

PoolInit ==
  /\ Init
  /\ fd = [c \in Clients |-> NoSocket]
  /\ next = 0 /\ client = 0
  /\ pc = "idle" /\ packet = 0 /\ buffer = <<>>
  /\ outcome = [k \in Calls |-> Result("none", 0)]

\* Mutated form: the index runs one past the last client.
CallOffByOne(k) ==
  /\ pc = "idle"
  /\ k = packet + 1 /\ k \in Calls
  /\ client' = next
  /\ next' = (next + 1) % (PoolSize + 1)
  /\ packet' = k
  /\ pc' = IF fd[next] = NoSocket THEN "connect" ELSE "write"
  /\ outcome' = [outcome EXCEPT ![k] = Result("open", 0)]
  /\ UNCHANGED <<vars, fd, buffer>>
Call(k) ==
  /\ pc = "idle"
  /\ k = packet + 1 /\ k \in Calls
  /\ client' = next
  /\ next' = (next + 1) % PoolSize
  /\ packet' = k
  /\ pc' = IF fd[next] = NoSocket THEN "connect" ELSE "write"
  /\ outcome' = [outcome EXCEPT ![k] = Result("open", 0)]
  /\ UNCHANGED <<vars, fd, buffer>>

Return(is, answer) ==
  /\ pc' = "idle"
  /\ buffer' = <<>>
  /\ outcome' = [outcome EXCEPT ![packet] = Result(is, answer)]
  /\ UNCHANGED <<next, client, packet>>

\* Whichever descriptor socket(2) gives is as good as another.
Connect ==
  LET s == CHOOSE t \in Sockets : peer[t] = "none" IN
  /\ pc = "connect"
  /\ \E t \in Sockets : peer[t] = "none"
  /\ PeerConnect(s)
  /\ fd' = [fd EXCEPT ![client] = s]
  /\ pc' = "write"
  /\ UNCHANGED <<next, client, packet, buffer, outcome>>

ConnectFails ==
  /\ pc = "connect" /\ ~Alive
  /\ Return("failed", 0)
  /\ UNCHANGED <<vars, fd>>

\* Bytes for a server that has closed the connection are taken and lost.
WritePacket ==
  /\ pc = "write"
  /\ \/ PeerWrites(fd[client], Halves(<<packet>>))
     \/ conn[fd[client]].st = "closed" /\ UNCHANGED vars
  /\ pc' = "read"
  /\ UNCHANGED <<fd, next, client, packet, buffer, outcome>>

\* One recv, and TryExtractPacket; what follows the packet is dropped.
ReadPacket ==
  /\ pc = "read"
  /\ \E n \in 1..Room :
       LET b == buffer \o SubSeq(out[fd[client]], 1, n) IN
       /\ PeerRecv(fd[client], n)
       /\ IF Packets(b) = <<>>
            THEN buffer' = Rest(b) /\ UNCHANGED <<pc, next, client, packet, outcome>>
            ELSE Return("ok", Packets(b)[1])
  /\ UNCHANGED fd

\* Mutated form: a client whose request timed out keeps its connection.
FailKeepingSocket ==
  /\ pc \in {"write", "read"}
  /\ Return("failed", 0)
  /\ UNCHANGED <<vars, fd>>
\* Mutated form: the request is sent once more on a new connection.
FailRetrying ==
  /\ pc \in {"write", "read"}
  /\ PeerClose(fd[client])
  /\ fd' = [fd EXCEPT ![client] = NoSocket]
  /\ pc' = "connect" /\ buffer' = <<>>
  /\ UNCHANGED <<next, client, packet, outcome>>
\* Mutated form: poll has no time-out.
FailIfBroken ==
  /\ pc \in {"write", "read"} /\ conn[fd[client]].st = "closed"
  /\ PeerClose(fd[client])
  /\ fd' = [fd EXCEPT ![client] = NoSocket]
  /\ Return("failed", 0)
\* WaitForEvent, send or recv fails, by the time-out if by nothing else: Close.
Fail ==
  /\ pc \in {"write", "read"}
  /\ PeerClose(fd[client])
  /\ fd' = [fd EXCEPT ![client] = NoSocket]
  /\ Return("failed", 0)

PoolStep ==
  \/ \E k \in Calls : Call(k)
  \/ Connect \/ ConnectFails \/ WritePacket \/ ReadPacket \/ Fail
Environment == (ServerNext \/ \E s \in Sockets : CloseArrives(s)) /\ UNCHANGED poolVars
PoolNext == PoolStep \/ Environment

\* Every system call of the client returns, poll after timeout_ms at the latest;
\* nothing is assumed of the server.
PoolSpec ==
  /\ PoolInit /\ [][PoolNext]_allVars
  /\ WF_allVars(Connect \/ ConnectFails) /\ WF_allVars(WritePacket)
  /\ WF_allVars(ReadPacket) /\ WF_allVars(Fail)
-----------------------------------------------------------------------------
(* Properties                                                              *)

\* The answer a call returns is the answer to its own request, although earlier
\* requests timed out and were answered later.
AnswerIsMine == \A k \in Calls : outcome[k].is = "ok" => outcome[k].answer = k

\* The pool keeps what CallPromise says: in particular no request is executed
\* twice, whatever failed.
RunsOf(k) == Cardinality({x \in Sockets \X (1..MaxPackets) :
                           x[2] <= Len(done[x[1]]) /\ done[x[1]][x[2]] = k})
Promise == INSTANCE CallPromise WITH
  call <- [k \in Calls |-> outcome[k].is],
  ran <- [k \in Calls |-> RunsOf(k)]
ImplementsCallPromise == Promise!Spec

\* A call ends even if the upstream hangs.
CallEnds == pc # "idle" ~> pc = "idle"
=============================================================================
