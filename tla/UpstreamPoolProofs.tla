-------------------------- MODULE UpstreamPoolProofs --------------------------
(***************************************************************************)
(* What UpstreamClientPool promises its caller, for every number of        *)
(* clients, sockets and requests: the answer SendAndReceive returns is the *)
(* one to its request, and no request is executed twice.                   *)
(*                                                                         *)
(* The pool is a peer of the event loop of TcpServer, so its invariant     *)
(* stands on the one of TcpServerProofs for the streams.  What it adds: a  *)
(* connection which the pool keeps is one on which nothing is left to be   *)
(* answered, because a call that fails closes its connection.              *)
(***************************************************************************)
EXTENDS UpstreamPool, TcpServerProofs

\* What the pool sends: packets whose numbers no other connection carries, and
\* the running call has the largest number.
NumbersInv ==
  \A s \in Sockets : \A j \in 1..Len(stream[s]) :
    /\ stream[s][j] # Junk
    /\ Number(stream[s][j]) <= packet
    /\ pc \in {"connect", "write"} => Number(stream[s][j]) # packet
    /\ \A t \in Sockets \ {s} : \A i \in 1..Len(stream[t]) :
         Number(stream[t][i]) # Number(stream[s][j])

\* On each connection the server has handled all packets in order but the last one.
DoneInv ==
  \A s \in Sockets :
    /\ 2 * Len(done[s]) <= Len(stream[s]) /\ Len(stream[s]) <= 2 * Len(done[s]) + 2
    /\ \A i \in 1..(2 * Len(done[s])) : Halves(done[s])[i] = stream[s][i]

\* A connection the pool keeps is one on which nothing is left to be answered.
Settled(s) == got[s] = stream[s]
ClientInv ==
  \A c \in Clients : fd[c] # NoSocket =>
    /\ peer[fd[c]] = "up"
    /\ ~(pc = "read" /\ c = client) => Settled(fd[c])

\* The running call waits for its answer, which may have come in part, or for
\* nothing, because its request was lost.
Asked(s) ==
  LET l == Len(stream[s]) IN
  /\ l > 1 /\ stream[s][l - 1] = <<packet, "head">> /\ stream[s][l] = <<packet, "body">>
  /\ Len(got[s]) = l - 2 + Len(buffer)
  /\ buffer \in {<<>>, <<<<packet, "head">>>>}
ReadInv ==
  /\ pc # "read" => buffer = <<>>
  /\ pc = "read" => \/ Asked(fd[client])
                    \/ buffer = <<>> /\ Settled(fd[client])

\* What is known of each call.
Ran(k) == \E s \in Sockets : \E i \in 1..Len(done[s]) : done[s][i] = k
CallInv ==
  /\ pc # "idle" => packet # 0
  /\ \A k \in Calls :
       /\ outcome[k].is = "none" <=> k > packet
       /\ outcome[k].is = "open" <=> k = packet /\ pc # "idle"
       /\ outcome[k].is = "ok" => outcome[k].answer = k /\ Ran(k)

PoolInv == PoolTypeOK /\ NumbersInv /\ DoneInv /\ ClientInv /\ ReadInv /\ CallInv
RanInv == \A k \in Calls : RunsOf(k) = IF Ran(k) THEN 1 ELSE 0

LEMMA NumbersAreNat ==
  ASSUME TypeOK, NEW s \in Sockets
  PROVE  \A j \in 1..Len(stream[s]) : Number(stream[s][j]) \in Nat /\ stream[s][j] \in Half
  <1>1. \A j \in 1..Len(stream[s]) : stream[s][j] \in Half
    BY Typed, ElementOfSeq
  <1>2. \A h \in Half : Number(h) \in Nat
    BY BoundsAssumption DEF Half, Junk, Number
  <1> QED
    BY <1>1, <1>2

\* The request of the running call may be sent on any connection.
LEMMA PacketIsNext ==
  ASSUME PoolInv, pc = "write", NEW s \in Sockets
  PROVE  packet \in Numbers /\ SentNext(stream[s], Halves(<<packet>>))
  <1>1. TypeOK /\ packet \in 0..MaxPackets /\ packet # 0
    BY DEF PoolInv, PoolTypeOK, CallInv
  <1>2. packet \in Numbers
    BY <1>1, BoundsAssumption DEF Numbers
  <1>3. ASSUME NEW j \in 1..Len(stream[s]) PROVE Number(stream[s][j]) < packet
    <2>1. Number(stream[s][j]) <= packet /\ Number(stream[s][j]) # packet
      BY DEF PoolInv, NumbersInv
    <2>2. Number(stream[s][j]) \in Nat
      BY <1>1, NumbersAreNat
    <2> DEFINE m == Number(stream[s][j])
    <2>3. m \in Nat /\ m <= packet /\ m # packet /\ packet \in Nat
      BY <1>2, <2>1, <2>2, BoundsAssumption DEF Numbers
    <2> HIDE DEF m
    <2>4. m < packet
      BY <2>3
    <2> QED
      BY <2>4 DEF m
  <1> QED
    BY <1>2, <1>3, OnePacket DEF SentNext

\* What the pool and the server do to the event loop keeps what is known of it.
LEMMA LoopKeeps ==
  ASSUME IInv, DataInv, PoolInv, [PoolNext]_allVars
  PROVE  IInv' /\ DataInv'
  <1> USE DEF IInv
  <1>0. TypeOK /\ fd \in [Clients -> Sockets \union {NoSocket}] /\ client \in Clients
    BY DEF PoolInv, PoolTypeOK
  <1>1. CASE UNCHANGED vars
    <2>1. [Next]_vars
      BY <1>1
    <2>2. IInv'
      BY <2>1, NextKeeps
    <2> QED
      BY <1>1, <2>2, DataStays DEF vars, kernelVars, serverVars, historyVars
  <1>2. ASSUME NEW s \in Sockets, PeerConnect(s) PROVE IInv' /\ DataInv'
    BY <1>2, ConnectKeeps, ConnectData
  <1>3. ASSUME NEW s \in Sockets, PeerWrites(s, Halves(<<packet>>)), pc = "write"
        PROVE  IInv' /\ DataInv'
    <2>1. /\ peer' \in [Sockets -> {"none", "up", "closing", "fin", "rst"}]
          /\ \A t \in Sockets : peer[t] # "none" => peer'[t] # "none"
          /\ serverVars' = serverVars
      BY <1>3 DEF ShapeInv, PeerWrites
    <2>2. IInv'
      BY <2>1, PeerKeeps
    <2> QED
      BY <1>3, <2>2, PacketIsNext, WriteData
  <1>4. ASSUME NEW s \in Sockets, NEW n \in 1..Room, PeerRecv(s, n)
        PROVE  IInv' /\ DataInv'
    <2>1. PeerStep(s)
      BY <1>4 DEF PeerStep
    <2>2. IInv' /\ n \in Nat
      BY <2>1, PeerStepKeeps, BoundsAssumption
    <2> QED
      BY <1>4, <2>2, RecvData
  <1>5. ASSUME NEW s \in Sockets, PeerClose(s) \/ CloseArrives(s)
        PROVE  IInv' /\ DataInv'
    <2>1. /\ peer' \in [Sockets -> {"none", "up", "closing", "fin", "rst"}]
          /\ \A t \in Sockets : peer[t] # "none" => peer'[t] # "none"
          /\ \A t \in Sockets : peer[t] = "rst" => peer'[t] = "rst"
          /\ serverVars' = serverVars
      BY <1>5 DEF ShapeInv, PeerClose, CloseArrives
    <2>2. IInv'
      BY <2>1, PeerKeeps
    <2>3. UNCHANGED <<conn, in, out, stream, done, got>>
      BY <1>5 DEF PeerClose, CloseArrives, serverVars, historyVars
    <2> QED
      BY <2>1, <2>2, <2>3, DataStays
  <1>6. CASE ServerNext
    <2>1. [Next]_vars
      BY <1>6 DEF Next
    <2>2. IInv'
      BY <2>1, NextKeeps
    <2> QED
      BY <1>6, <2>2, ServerData
  <1>7. CASE Connect
    BY <1>2, <1>7 DEF Connect
  <1>8. CASE WritePacket
    <2>1. fd[client] \in Sockets
      BY <1>8, <1>0 DEF WritePacket, PoolInv, PoolTypeOK
    <2> QED
      BY <1>1, <1>3, <1>8, <2>1 DEF WritePacket
  <1>9. CASE ReadPacket
    <2>1. fd[client] \in Sockets
      BY <1>9, <1>0 DEF ReadPacket, PoolInv, PoolTypeOK
    <2> QED
      BY <1>4, <1>9, <2>1 DEF ReadPacket
  <1>10. CASE Fail
    <2>1. fd[client] \in Sockets
      BY <1>10, <1>0 DEF Fail, PoolInv, PoolTypeOK
    <2> QED
      BY <1>5, <1>10, <2>1 DEF Fail
  <1>11. CASE UNCHANGED allVars
    BY <1>1, <1>11 DEF allVars
  <1>12. CASE ConnectFails \/ \E k \in Calls : Call(k)
    BY <1>1, <1>12 DEF ConnectFails, Call
  <1> QED
    BY <1>5, <1>6, <1>7, <1>8, <1>9, <1>10, <1>11, <1>12 DEF PoolNext, PoolStep, Environment

\* What a peer has read and may read is the beginning of what it sent.
LEMMA AnswersAreMine ==
  ASSUME DataInv, DoneInv, NEW s \in Sockets
  PROVE  /\ Len(got[s]) + Len(out[s]) <= 2 * Len(done[s])
         /\ Len(got[s]) + Len(out[s]) <= Len(stream[s])
         /\ \A i \in 1..(Len(got[s]) + Len(out[s])) : (got[s] \o out[s])[i] = stream[s][i]
  <1> DEFINE m == Len(got[s]) + Len(out[s])
             l == Len(stream[s])
             n == Len(done[s])
             g == got[s] \o out[s]
  <1>1. m <= 2 * n /\ \A i \in 1..m : g[i] = Halves(done[s])[i]
    BY DEF DataInv, FlowInv, AnswersInv
  <1>2. 2 * n <= l /\ \A i \in 1..(2 * n) : Halves(done[s])[i] = stream[s][i]
    BY DEF DoneInv
  <1>3. m \in Nat
    BY AnsweredIsNat DEF DataInv
  <1>4. l \in Nat /\ n \in Nat
    BY Typed DEF DataInv
  <1> HIDE DEF m, l, n, g
  <1>5. m <= l /\ \A i \in 1..m : i \in 1..(2 * n)
    BY <1>1, <1>2, <1>3, <1>4
  <1>6. \A i \in 1..m : g[i] = stream[s][i]
    BY <1>1, <1>2, <1>5
  <1> QED
    BY <1>1, <1>5, <1>6 DEF m, l, n, g
-----------------------------------------------------------------------------
(* Calls and connections                                                   *)

\* The conjuncts of the invariant which a step that leaves the streams alone keeps.
LEMMA QuietSteps ==
  ASSUME PoolInv, UNCHANGED <<stream, done>>, packet' \in Nat, packet <= packet',
         pc' \in {"connect", "write"} => pc \in {"connect", "write"} \/ packet < packet'
  PROVE  /\ NumbersInv' /\ DoneInv'
         /\ got' = got => \A s \in Sockets : Settled(s)' = Settled(s)
         /\ \A k : Ran(k)' = Ran(k)
  <1>1. TypeOK /\ NumbersInv /\ DoneInv /\ packet \in Nat
    BY BoundsAssumption DEF PoolInv, PoolTypeOK
  <1>2. DoneInv'
    BY <1>1 DEF DoneInv
  <1>3. ASSUME NEW s \in Sockets, NEW j \in 1..Len(stream[s])
        PROVE  /\ Number(stream[s][j]) <= packet'
               /\ pc' \in {"connect", "write"} => Number(stream[s][j]) # packet'
    <2> DEFINE m == Number(stream[s][j])
    <2>1. m \in Nat
      BY <1>1, NumbersAreNat
    <2>2. m <= packet /\ (pc \in {"connect", "write"} => m # packet)
      BY <1>1 DEF NumbersInv
    <2> HIDE DEF m
    <2>3. m <= packet' /\ (pc' \in {"connect", "write"} => m # packet')
      BY <1>1, <2>1, <2>2
    <2> QED
      BY <2>3 DEF m
  <1>4. NumbersInv'
    BY <1>1, <1>3 DEF NumbersInv
  <1> QED
    BY <1>2, <1>4 DEF Settled, Ran

\* The parts of PoolTypeOK that speak of the pool's own variables.
LEMMA PoolTypes ==
  ASSUME PoolInv
  PROVE  /\ fd \in [Clients -> Sockets \union {NoSocket}]
         /\ next \in Clients /\ client \in Clients
         /\ pc \in {"idle", "connect", "write", "read"}
         /\ packet \in 0..MaxPackets /\ packet \in Nat
         /\ buffer \in Seq(Half)
         /\ outcome \in [Calls -> [is : {"none", "open", "failed", "ok"}, answer : 0..MaxPackets]]
         /\ \A c, d \in Clients : c # d /\ fd[c] # NoSocket => fd[c] # fd[d]
         /\ pc \in {"write", "read"} => fd[client] \in Sockets
  BY BoundsAssumption DEF PoolInv, PoolTypeOK

LEMMA NextInPool ==
  ASSUME NEW i \in Clients
  PROVE  (i + 1) % PoolSize \in Clients
  BY PoolAssumption DEF Clients

\* What a step makes of the outcomes.
LEMMA OutcomeSet ==
  ASSUME PoolInv, NEW k \in Calls, NEW is \in {"none", "open", "failed", "ok"},
         NEW a \in 0..MaxPackets, outcome' = [outcome EXCEPT ![k] = Result(is, a)]
  PROVE  /\ outcome' \in [Calls -> [is : {"none", "open", "failed", "ok"}, answer : 0..MaxPackets]]
         /\ outcome'[k].is = is /\ outcome'[k].answer = a
         /\ \A j \in Calls \ {k} : outcome'[j] = outcome[j]
  <1>1. Result(is, a) \in [is : {"none", "open", "failed", "ok"}, answer : 0..MaxPackets]
    BY DEF Result
  <1>2. Result(is, a).is = is /\ Result(is, a).answer = a
    BY DEF Result
  <1> QED
    BY <1>1, <1>2, PoolTypes

LEMMA CallPool ==
  ASSUME PoolInv, TypeOK', NEW k \in Calls, Call(k)
  PROVE  PoolInv'
  <1> USE PoolTypes
  <1>1. UNCHANGED <<stream, done, got>> /\ UNCHANGED <<peer, fd, buffer>> /\ pc = "idle"
    BY DEF Call, vars, kernelVars, historyVars
  <1>2. packet' = k /\ k = packet + 1 /\ packet' \in 0..MaxPackets /\ packet' # 0
    BY BoundsAssumption DEF Call, Calls
  <1>3. NumbersInv' /\ DoneInv' /\ (\A s \in Sockets : Settled(s)' = Settled(s))
        /\ \A j : Ran(j)' = Ran(j)
    BY <1>1, <1>2, QuietSteps
  <1>4. /\ client' = next /\ next' \in Clients
        /\ pc' = IF fd[next] = NoSocket THEN "connect" ELSE "write"
    BY NextInPool DEF Call
  <1>5. outcome' = [outcome EXCEPT ![k] = Result("open", 0)]
    BY DEF Call
  <1>6. /\ outcome' \in [Calls -> [is : {"none", "open", "failed", "ok"}, answer : 0..MaxPackets]]
        /\ outcome'[k].is = "open"
        /\ \A j \in Calls \ {k} : outcome'[j] = outcome[j]
    <2>1. 0 \in 0..MaxPackets
      BY BoundsAssumption
    <2> QED
      BY <1>5, <2>1, OutcomeSet
  <1>7. PoolTypeOK'
    BY <1>1, <1>2, <1>4, <1>6 DEF PoolTypeOK
  <1>8. ClientInv'
    BY <1>1, <1>3, <1>4 DEF PoolInv, ClientInv
  <1>9. ReadInv'
    BY <1>1, <1>4 DEF PoolInv, ReadInv
  <1>10. CallInv'
    <2>1. \A j \in Calls : j \in Nat
      BY BoundsAssumption DEF Calls
    <2>2. \A j \in Calls : /\ outcome[j].is = "none" <=> j > packet
                           /\ outcome[j].is # "open"
                           /\ outcome[j].is = "ok" => outcome[j].answer = j /\ Ran(j)
      BY <1>1 DEF PoolInv, CallInv
    <2>3. pc' # "idle"
      BY <1>4
    <2>4. ASSUME NEW j \in Calls
          PROVE  /\ outcome'[j].is = "none" <=> j > packet'
                 /\ outcome'[j].is = "open" <=> j = packet' /\ pc' # "idle"
                 /\ outcome'[j].is = "ok" => outcome'[j].answer = j /\ Ran(j)'
      <3>1. CASE j = k
        BY <1>2, <1>6, <2>1, <2>3, <3>1
      <3>2. CASE j # k
        BY <1>2, <1>3, <1>6, <2>1, <2>2, <3>2
      <3> QED
        BY <3>1, <3>2
    <2> QED
      BY <1>2, <2>4 DEF CallInv
  <1> QED
    BY <1>3, <1>7, <1>8, <1>9, <1>10 DEF PoolInv

LEMMA ConnectPool ==
  ASSUME IInv, DataInv, PoolInv, TypeOK', Connect
  PROVE  PoolInv'
  <1> USE PoolTypes
  <1>1. PICK s \in Sockets : peer[s] = "none" /\ PeerConnect(s)
                             /\ fd' = [fd EXCEPT ![client] = s]
    BY DEF Connect
  <1>2. /\ UNCHANGED <<stream, done, got>> /\ UNCHANGED <<next, client, packet, buffer, outcome>>
        /\ pc = "connect" /\ pc' = "write"
    BY <1>1 DEF Connect, PeerConnect, historyVars
  <1>3. NumbersInv' /\ DoneInv' /\ (\A t \in Sockets : Settled(t)' = Settled(t))
        /\ \A k : Ran(k)' = Ran(k)
    BY <1>2, QuietSteps
  <1>4. peer \in [Sockets -> {"none", "up", "closing", "fin", "rst"}]
    BY DEF DataInv, TypeOK
  <1>5. peer'[s] = "up" /\ \A t \in Sockets \ {s} : peer'[t] = peer[t]
    BY <1>1, <1>4 DEF PeerConnect
  <1>6. Settled(s)
    <2>1. conn[s].st = "none"
      BY <1>1 DEF IInv, LoopInv
    <2>2. stream[s] = <<>> /\ got[s] = <<>>
      BY <2>1 DEF DataInv, FlowInv, NewInv
    <2> QED
      BY <2>2 DEF Settled
  <1>7. fd'[client] = s /\ \A c \in Clients \ {client} : fd'[c] = fd[c] /\ fd[c] # s
    BY <1>1, PoolAssumption DEF PoolInv, ClientInv
  <1>8. PoolTypeOK'
    <2>1. fd' \in [Clients -> Sockets \union {NoSocket}]
      BY <1>1
    <2>2. \A c, d \in Clients : c # d /\ fd'[c] # NoSocket => fd'[c] # fd'[d]
      BY <1>7
    <2>3. s # NoSocket
      BY PoolAssumption
    <2> QED
      BY <1>2, <1>7, <2>1, <2>2, <2>3 DEF PoolTypeOK
  <1>9. ClientInv'
    <2>1. ASSUME NEW c \in Clients, fd'[c] # NoSocket
          PROVE  peer'[fd'[c]] = "up" /\ got'[fd'[c]] = stream'[fd'[c]]
      <3>1. CASE c = client
        BY <1>2, <1>5, <1>6, <1>7, <3>1 DEF Settled
      <3>2. CASE c # client
        <4>1. fd'[c] = fd[c] /\ fd[c] \in Sockets \ {s} /\ fd[c] # NoSocket
          BY <1>7, <2>1, <3>2
        <4>2. peer[fd[c]] = "up" /\ got[fd[c]] = stream[fd[c]]
          BY <1>2, <4>1 DEF PoolInv, ClientInv, Settled
        <4> QED
          BY <1>2, <1>5, <4>1, <4>2
      <3> QED
        BY <3>1, <3>2
    <2> QED
      BY <2>1 DEF ClientInv, Settled
  <1>10. ReadInv'
    BY <1>2 DEF PoolInv, ReadInv
  <1>11. CallInv'
    BY <1>2, <1>3 DEF PoolInv, CallInv
  <1> QED
    BY <1>3, <1>8, <1>9, <1>10, <1>11 DEF PoolInv

\* A call that returns.
LEMMA CallReturns ==
  ASSUME PoolInv, pc # "idle", NEW is \in {"failed", "ok"}, NEW a \in 0..MaxPackets, Return(is, a),
         is = "ok" => a = packet /\ Ran(packet)', \A k : Ran(k) => Ran(k)'
  PROVE  /\ CallInv' /\ pc' = "idle" /\ buffer' = <<>> /\ UNCHANGED <<next, client, packet>>
         /\ outcome' \in [Calls -> [is : {"none", "open", "failed", "ok"}, answer : 0..MaxPackets]]
  <1> USE PoolTypes
  <1>1. packet \in Calls
    BY BoundsAssumption DEF PoolInv, CallInv, Calls
  <1>2. pc' = "idle" /\ buffer' = <<>> /\ UNCHANGED <<next, client, packet>>
    BY DEF Return
  <1>3. outcome' = [outcome EXCEPT ![packet] = Result(is, a)]
    BY DEF Return
  <1>4. /\ outcome' \in [Calls -> [is : {"none", "open", "failed", "ok"}, answer : 0..MaxPackets]]
        /\ outcome'[packet].is = is /\ outcome'[packet].answer = a
        /\ \A j \in Calls \ {packet} : outcome'[j] = outcome[j]
    BY <1>1, <1>3, OutcomeSet
  <1>5. \A j \in Calls : /\ j \in Nat
                         /\ outcome[j].is = "none" <=> j > packet
                         /\ outcome[j].is = "open" <=> j = packet
                         /\ outcome[j].is = "ok" => outcome[j].answer = j /\ Ran(j)
    BY BoundsAssumption DEF PoolInv, CallInv, Calls
  <1>6. ASSUME NEW j \in Calls
        PROVE  /\ outcome'[j].is = "none" <=> j > packet'
               /\ outcome'[j].is = "open" <=> j = packet' /\ pc' # "idle"
               /\ outcome'[j].is = "ok" => outcome'[j].answer = j /\ Ran(j)'
    <2>1. CASE j = packet
      BY <1>2, <1>4, <2>1
    <2>2. CASE j # packet
      <3>1. outcome'[j] = outcome[j]
        BY <1>4, <2>2
      <3> QED
        BY <1>2, <1>5, <2>2, <3>1
    <2> QED
      BY <2>1, <2>2
  <1>7. CallInv'
    BY <1>2, <1>6 DEF CallInv
  <1> QED
    BY <1>2, <1>4, <1>7

LEMMA ConnectFailsPool ==
  ASSUME PoolInv, TypeOK', ConnectFails
  PROVE  PoolInv'
  <1> USE PoolTypes
  <1>1. /\ UNCHANGED <<stream, done, got>> /\ UNCHANGED <<peer, fd>>
        /\ pc = "connect" /\ Return("failed", 0)
    BY DEF ConnectFails, vars, kernelVars, historyVars
  <1>2. 0 \in 0..MaxPackets /\ \A k : Ran(k)' = Ran(k)
    BY <1>1, BoundsAssumption DEF Ran
  <1>3. /\ CallInv' /\ pc' = "idle" /\ buffer' = <<>> /\ UNCHANGED <<next, client, packet>>
        /\ outcome' \in [Calls -> [is : {"none", "open", "failed", "ok"}, answer : 0..MaxPackets]]
    BY <1>1, <1>2, CallReturns
  <1>4. NumbersInv' /\ DoneInv' /\ \A s \in Sockets : Settled(s)' = Settled(s)
    BY <1>1, <1>3, QuietSteps
  <1>5. PoolTypeOK'
    BY <1>1, <1>3 DEF PoolTypeOK
  <1>6. ClientInv'
    BY <1>1, <1>3, <1>4 DEF PoolInv, ClientInv
  <1>7. ReadInv'
    BY <1>3 DEF ReadInv
  <1> QED
    BY <1>3, <1>4, <1>5, <1>6, <1>7 DEF PoolInv

LEMMA FailPool ==
  ASSUME IInv, PoolInv, TypeOK', Fail
  PROVE  PoolInv'
  <1> USE PoolTypes
  <1> DEFINE s == fd[client]
  <1>1. /\ pc \in {"write", "read"} /\ s \in Sockets /\ PeerClose(s) /\ Return("failed", 0)
        /\ fd' = [fd EXCEPT ![client] = NoSocket]
    BY DEF Fail
  <1>2. UNCHANGED <<stream, done, got>> /\ \A t \in Sockets \ {s} : peer'[t] = peer[t]
    BY <1>1 DEF PeerClose, historyVars, IInv, ShapeInv
  <1>3. 0 \in 0..MaxPackets /\ \A k : Ran(k)' = Ran(k)
    BY <1>2, BoundsAssumption DEF Ran
  <1>4. /\ CallInv' /\ pc' = "idle" /\ buffer' = <<>> /\ UNCHANGED <<next, client, packet>>
        /\ outcome' \in [Calls -> [is : {"none", "open", "failed", "ok"}, answer : 0..MaxPackets]]
    BY <1>1, <1>3, CallReturns
  <1>5. NumbersInv' /\ DoneInv' /\ \A t \in Sockets : Settled(t)' = Settled(t)
    BY <1>2, <1>4, QuietSteps
  <1>6. /\ fd'[client] = NoSocket /\ fd' \in [Clients -> Sockets \union {NoSocket}]
        /\ \A c \in Clients \ {client} : fd'[c] = fd[c] /\ (fd[c] # NoSocket => fd[c] # s)
    BY <1>1
  <1>7. PoolTypeOK'
    <2>1. \A c, d \in Clients : c # d /\ fd'[c] # NoSocket => fd'[c] # fd'[d]
      BY <1>6
    <2> QED
      BY <1>4, <1>6, <2>1 DEF PoolTypeOK
  <1>8. ClientInv'
    <2>1. ASSUME NEW c \in Clients, fd'[c] # NoSocket
          PROVE  peer'[fd'[c]] = "up" /\ got'[fd'[c]] = stream'[fd'[c]]
      <3>1. c # client /\ fd'[c] = fd[c] /\ fd[c] \in Sockets \ {s} /\ fd[c] # NoSocket
        BY <1>6, <2>1
      <3>2. peer[fd[c]] = "up" /\ got[fd[c]] = stream[fd[c]]
        BY <3>1 DEF PoolInv, ClientInv, Settled
      <3> QED
        BY <1>2, <3>1, <3>2
    <2> QED
      BY <2>1 DEF ClientInv, Settled
  <1>9. ReadInv'
    BY <1>4 DEF ReadInv
  <1> QED
    BY <1>4, <1>5, <1>7, <1>8, <1>9 DEF PoolInv

LEMMA StaysPool ==
  ASSUME PoolInv, TypeOK', UNCHANGED poolVars, UNCHANGED <<stream, done, got>>,
         \A s \in Sockets : peer[s] = "up" => peer'[s] = "up"
  PROVE  PoolInv'
  <1> USE PoolTypes
  <1>1. UNCHANGED <<fd, next, pc, client, packet, buffer, outcome>>
    BY DEF poolVars
  <1>2. NumbersInv' /\ DoneInv' /\ (\A t \in Sockets : Settled(t)' = Settled(t))
        /\ \A k : Ran(k)' = Ran(k)
    BY <1>1, QuietSteps
  <1>3. PoolTypeOK'
    BY <1>1 DEF PoolInv, PoolTypeOK
  <1>4. ClientInv'
    <2>1. ASSUME NEW c \in Clients, fd'[c] # NoSocket
          PROVE  /\ peer'[fd'[c]] = "up"
                 /\ ~(pc' = "read" /\ c = client') => got'[fd'[c]] = stream'[fd'[c]]
      BY <1>1, <2>1 DEF PoolInv, ClientInv, Settled
    <2> QED
      BY <2>1 DEF ClientInv, Settled
  <1>5. ReadInv'
    BY <1>1 DEF PoolInv, ReadInv, Asked, Settled
  <1>6. CallInv'
    BY <1>1, <1>2 DEF PoolInv, CallInv
  <1> QED
    BY <1>2, <1>3, <1>4, <1>5, <1>6 DEF PoolInv
-----------------------------------------------------------------------------
(* Writing a request                                                       *)

\* What WritePacket makes of the stream of its connection.
LEMMA Written ==
  ASSUME DataInv, PoolInv, pc = "write", NEW s \in Sockets, PeerWrites(s, Halves(<<packet>>))
  PROVE  LET q == stream[s] IN
         /\ Len(q) \in Nat /\ Len(stream'[s]) = Len(q) + 2
         /\ \A i \in 1..Len(q) : stream'[s][i] = q[i]
         /\ stream'[s][Len(q) + 1] = <<packet, "head">>
         /\ stream'[s][Len(q) + 2] = <<packet, "body">>
         /\ \A t \in Sockets \ {s} : stream'[t] = stream[t]
         /\ UNCHANGED <<peer, done, got>>
  <1> DEFINE q == stream[s]
             hs == <<<<packet, "head">>, <<packet, "body">>>>
  <1>1. packet \in Numbers /\ SentNext(q, Halves(<<packet>>))
    BY PacketIsNext
  <1>2. Halves(<<packet>>) = hs
    BY <1>1, OnePacket
  <1>3. q \in Seq(Half) /\ Proper(q)
    BY Typed DEF DataInv, FlowInv, SentInv
  <1>4. stream \in [Sockets -> Seq(Half)]
    BY DEF DataInv, TypeOK
  <1>5. stream' = [stream EXCEPT ![s] = q \o hs]
    BY <1>2, <1>4 DEF PeerWrites
  <1>6. stream'[s] = q \o hs /\ \A t \in Sockets \ {s} : stream'[t] = stream[t]
    BY <1>4, <1>5
  <1>7. UNCHANGED <<peer, done, got>>
    BY DEF PeerWrites
  <1>8. Len(hs) = 2 /\ hs[1] = <<packet, "head">> /\ hs[2] = <<packet, "body">>
    OBVIOUS
  <1>9. SentNext(q, hs)
    BY <1>1, <1>2
  <1> HIDE DEF q, hs
  <1>10. /\ Len(q) \in Nat /\ Len(q \o hs) = Len(q) + Len(hs)
         /\ \A i \in 1..Len(q) : (q \o hs)[i] = q[i]
         /\ \A i \in 1..Len(hs) : (q \o hs)[Len(q) + i] = hs[i]
    BY <1>3, <1>9, ProperNext
  <1>11. (q \o hs)[Len(q) + 1] = hs[1] /\ (q \o hs)[Len(q) + 2] = hs[2]
    BY <1>8, <1>10
  <1> QED
    BY <1>6, <1>7, <1>8, <1>10, <1>11 DEF q

\* The numbers after the request was written.
LEMMA WrittenNumbers ==
  ASSUME DataInv, PoolInv, pc = "write", NEW s \in Sockets, PeerWrites(s, Halves(<<packet>>)),
         packet' = packet, pc' = "read"
  PROVE  NumbersInv'
  <1> DEFINE l == Len(stream[s])
  <1>1. /\ l \in Nat /\ Len(stream'[s]) = l + 2
        /\ \A i \in 1..l : stream'[s][i] = stream[s][i]
        /\ stream'[s][l + 1] = <<packet, "head">> /\ stream'[s][l + 2] = <<packet, "body">>
        /\ \A t \in Sockets \ {s} : stream'[t] = stream[t]
    BY Written
  <1>2. packet \in Nat /\ packet # 0
    BY PoolTypes DEF PoolInv, CallInv
  <1>3. \A t \in Sockets : \A j \in 1..Len(stream[t]) :
          /\ stream[t][j] # Junk
          /\ Number(stream[t][j]) <= packet /\ Number(stream[t][j]) # packet
          /\ \A u \in Sockets \ {t} : \A i \in 1..Len(stream[u]) :
               Number(stream[u][i]) # Number(stream[t][j])
    BY DEF PoolInv, NumbersInv
  <1>4. ASSUME NEW j \in 1..(l + 2)
        PROVE  \/ j \in 1..l /\ stream'[s][j] = stream[s][j]
               \/ stream'[s][j] # Junk /\ Number(stream'[s][j]) = packet
    <2>1. CASE j \in 1..l
      BY <1>1, <2>1
    <2>2. CASE j = l + 1
      BY <1>1, <1>2, <2>2 DEF Junk, Number
    <2>3. CASE j = l + 2
      BY <1>1, <1>2, <2>3 DEF Junk, Number
    <2> QED
      BY <1>1, <2>1, <2>2, <2>3
  <1> HIDE DEF l
  <1>5. ASSUME NEW t \in Sockets, NEW j \in 1..Len(stream'[t])
        PROVE  \/ j \in 1..Len(stream[t]) /\ stream'[t][j] = stream[t][j]
               \/ t = s /\ stream'[t][j] # Junk /\ Number(stream'[t][j]) = packet
    <2>1. CASE t = s
      BY <1>1, <1>4, <2>1 DEF l
    <2>2. CASE t # s
      BY <1>1, <2>2
    <2> QED
      BY <2>1, <2>2
  <1>6. ASSUME NEW t \in Sockets, NEW j \in 1..Len(stream'[t])
        PROVE  /\ stream'[t][j] # Junk
               /\ Number(stream'[t][j]) <= packet'
               /\ pc' \in {"connect", "write"} => Number(stream'[t][j]) # packet'
               /\ \A u \in Sockets \ {t} : \A i \in 1..Len(stream'[u]) :
                    Number(stream'[u][i]) # Number(stream'[t][j])
    <2>1. stream'[t][j] # Junk
      BY <1>3, <1>5
    <2>2. Number(stream'[t][j]) <= packet
      <3>1. CASE j \in 1..Len(stream[t]) /\ stream'[t][j] = stream[t][j]
        BY <1>3, <3>1
      <3>2. CASE Number(stream'[t][j]) = packet
        BY <1>2, <3>2
      <3> QED
        BY <1>5, <3>1, <3>2
    <2>3. ASSUME NEW u \in Sockets \ {t}, NEW i \in 1..Len(stream'[u])
          PROVE  Number(stream'[u][i]) # Number(stream'[t][j])
      <3>1. \/ j \in 1..Len(stream[t]) /\ stream'[t][j] = stream[t][j]
            \/ t = s /\ Number(stream'[t][j]) = packet
        BY <1>5
      <3>2. \/ i \in 1..Len(stream[u]) /\ stream'[u][i] = stream[u][i]
            \/ u = s /\ Number(stream'[u][i]) = packet
        BY <1>5
      <3> QED
        BY <1>3, <3>1, <3>2
    <2> QED
      BY <2>1, <2>2, <2>3
  <1> QED
    BY <1>6 DEF NumbersInv

\* A connection on which nothing is left to be answered has handled all it was sent.
LEMMA SettledIsDone ==
  ASSUME DataInv, PoolInv, NEW s \in Sockets, Settled(s)
  PROVE  Len(stream[s]) <= 2 * Len(done[s])
  <1> DEFINE g == Len(got[s])
             m == 2 * Len(done[s])
             o == Len(out[s])
  <1>1. g + o <= m
    BY AnswersAreMine DEF PoolInv
  <1>2. g \in Nat /\ o \in Nat /\ m \in Nat
    BY Typed DEF DataInv
  <1>3. Len(stream[s]) = g
    BY DEF Settled
  <1> HIDE DEF g, m, o
  <1>4. g <= m
    BY <1>1, <1>2
  <1> QED
    BY <1>3, <1>4 DEF m

LEMMA WritePool ==
  ASSUME DataInv, PoolInv, TypeOK', WritePacket
  PROVE  PoolInv'
  <1> USE PoolTypes
  <1> DEFINE s == fd[client]
  <1>1. /\ pc = "write" /\ pc' = "read" /\ s \in Sockets /\ s # NoSocket /\ client \in Clients
        /\ UNCHANGED <<fd, next, client, packet, buffer, outcome>>
    BY PoolAssumption DEF WritePacket
  <1>2. PoolTypeOK'
    BY <1>1 DEF PoolInv, PoolTypeOK
  <1>3. buffer' = <<>> /\ Settled(s)
    BY <1>1 DEF PoolInv, ReadInv, ClientInv
  <1>4. CASE UNCHANGED vars
    <2>1. UNCHANGED <<peer, stream, done, got>>
      BY <1>4 DEF vars, kernelVars, historyVars
    <2>2. NumbersInv' /\ DoneInv' /\ (\A t \in Sockets : Settled(t)' = Settled(t))
          /\ \A k : Ran(k)' = Ran(k)
      BY <1>1, <2>1, QuietSteps
    <2>3. ClientInv'
      <3>1. ASSUME NEW c \in Clients, fd'[c] # NoSocket
            PROVE  /\ peer'[fd'[c]] = "up"
                   /\ ~(pc' = "read" /\ c = client') => got'[fd'[c]] = stream'[fd'[c]]
        BY <1>1, <2>1, <3>1 DEF PoolInv, ClientInv, Settled
      <3> QED
        BY <3>1 DEF ClientInv, Settled
    <2>4. ReadInv'
      BY <1>1, <1>3, <2>1 DEF ReadInv, Settled
    <2>5. CallInv'
      BY <1>1, <2>2 DEF PoolInv, CallInv
    <2> QED
      BY <1>2, <2>2, <2>3, <2>4, <2>5 DEF PoolInv
  <1>5. CASE PeerWrites(s, Halves(<<packet>>))
    <2> DEFINE l == Len(stream[s])
    <2>1. /\ l \in Nat /\ Len(stream'[s]) = l + 2
          /\ \A i \in 1..l : stream'[s][i] = stream[s][i]
          /\ stream'[s][l + 1] = <<packet, "head">> /\ stream'[s][l + 2] = <<packet, "body">>
          /\ \A t \in Sockets \ {s} : stream'[t] = stream[t]
          /\ UNCHANGED <<peer, done, got>>
      BY <1>1, <1>5, Written
    <2>2. NumbersInv'
      BY <1>1, <1>5, WrittenNumbers
    <2>3. DoneInv'
      <3>1. ASSUME NEW t \in Sockets
            PROVE  /\ 2 * Len(done[t]) <= Len(stream'[t]) /\ Len(stream'[t]) <= 2 * Len(done[t]) + 2
                   /\ \A i \in 1..(2 * Len(done[t])) : Halves(done[t])[i] = stream'[t][i]
        <4>1. /\ 2 * Len(done[t]) <= Len(stream[t]) /\ Len(stream[t]) <= 2 * Len(done[t]) + 2
              /\ \A i \in 1..(2 * Len(done[t])) : Halves(done[t])[i] = stream[t][i]
          BY DEF PoolInv, DoneInv
        <4>2. CASE t # s
          BY <2>1, <4>1, <4>2
        <4>3. CASE t = s
          <5>1. l <= 2 * Len(done[s]) /\ 2 * Len(done[s]) <= l
            BY <1>1, <1>3, <4>1, <4>3, SettledIsDone
          <5>2. Len(done[s]) \in Nat
            BY <1>1, Typed DEF DataInv
          <5> HIDE DEF l
          <5>3. 2 * Len(done[s]) = l
            <6> DEFINE n == Len(done[s])
            <6>1. n \in Nat /\ l \in Nat /\ l <= 2 * n /\ 2 * n <= l
              BY <2>1, <5>1, <5>2
            <6> HIDE DEF n
            <6>2. 2 * n = l
              BY <6>1
            <6> QED
              BY <6>2 DEF n
          <5>4. 2 * Len(done[t]) <= Len(stream'[t]) /\ Len(stream'[t]) <= 2 * Len(done[t]) + 2
            BY <2>1, <4>3, <5>3
          <5>5. \A i \in 1..(2 * Len(done[t])) : Halves(done[t])[i] = stream'[t][i]
            BY <2>1, <4>1, <4>3, <5>3
          <5> QED
            BY <5>4, <5>5
        <4> QED
          BY <4>2, <4>3
      <3> QED
        BY <2>1, <3>1 DEF DoneInv
    <2>4. ClientInv'
      <3>1. ASSUME NEW c \in Clients, fd'[c] # NoSocket
            PROVE  /\ peer'[fd'[c]] = "up"
                   /\ ~(pc' = "read" /\ c = client') => got'[fd'[c]] = stream'[fd'[c]]
        <4>1. peer[fd[c]] = "up" /\ got[fd[c]] = stream[fd[c]]
          BY <1>1, <3>1 DEF PoolInv, ClientInv, Settled
        <4>2. c # client => fd[c] \in Sockets \ {s}
          BY <1>1, <3>1
        <4> QED
          BY <1>1, <2>1, <4>1, <4>2
      <3> QED
        BY <3>1 DEF ClientInv, Settled
    <2>5. ReadInv'
      <3>1. got'[s] = stream[s] /\ Len(buffer') = 0
        BY <1>1, <1>3, <2>1 DEF Settled
      <3> DEFINE lp == Len(stream'[s])
      <3>2. lp = l + 2 /\ lp > 1 /\ lp - 1 = l + 1
        BY <2>1
      <3>3. Len(got'[s]) = lp - 2 + Len(buffer')
        BY <2>1, <3>1, <3>2
      <3>4. stream'[s][lp - 1] = <<packet, "head">> /\ stream'[s][lp] = <<packet, "body">>
        BY <2>1, <3>2
      <3> HIDE DEF l, lp
      <3> QED
        BY <1>1, <1>3, <3>2, <3>3, <3>4 DEF ReadInv, Asked, lp
    <2>6. CallInv'
      BY <1>1, <2>1 DEF PoolInv, CallInv, Ran
    <2> QED
      BY <1>2, <2>2, <2>3, <2>4, <2>5, <2>6 DEF PoolInv
  <1> QED
    BY <1>1, <1>4, <1>5 DEF WritePacket
-----------------------------------------------------------------------------
(* The server                                                              *)

\* What the server may do to what the pool knows of it.
LEMMA ServerDone ==
  ASSUME IInv, DataInv, DataInv', ServerNext
  PROVE  /\ UNCHANGED <<stream, got>> /\ \A s \in Sockets : peer[s] = "up" => peer'[s] = "up"
         /\ \/ done' = done
            \/ \E s \in Sockets : \E ps \in Seq(Numbers) :
                 /\ Open(s)' /\ done' = [done EXCEPT ![s] = @ \o ps]
  <1>1. CASE EpollWait \/ Accept \/ Failure \/ Restart
    BY <1>1 DEF EpollWait, Accept, Failure, AcceptFails, Crash, Restart, kernelVars, historyVars
  <1>2. ASSUME NEW s \in Sockets, Hangup(s) PROVE UNCHANGED <<peer, stream, done, got>>
    BY <1>2 DEF Hangup, kernelVars, historyVars
  <1>3. ASSUME NEW s \in Sockets, HandleWrite(s)
        PROVE  /\ UNCHANGED <<stream, done, got>>
               /\ \A t \in Sockets : peer[t] = "up" => peer'[t] = "up"
    <2>1. UNCHANGED <<stream, done, got>> /\ (peer' = peer \/
            (peer[s] = "fin" /\ peer' = [peer EXCEPT ![s] = "rst"]))
      BY <1>3 DEF HandleWrite, historyVars
    <2>2. peer \in [Sockets -> {"none", "up", "closing", "fin", "rst"}]
      BY DEF DataInv, TypeOK
    <2> QED
      BY <2>1, <2>2
  <1>4. ASSUME NEW s \in Sockets, HandleRead(s)
        PROVE  /\ UNCHANGED <<peer, stream, got>>
               /\ \/ done' = done
                  \/ \E ps \in Seq(Numbers) : Open(s)' /\ done' = [done EXCEPT ![s] = @ \o ps]
    <2>1. UNCHANGED <<peer, stream, got>> /\ batch[s] # {}
      BY <1>4 DEF HandleRead
    <2>2. Open(s)
      BY <2>1 DEF IInv, LoopInv
    <2>3. CASE Gone(s)
      BY <1>4, <2>1, <2>3 DEF HandleRead
    <2>4. CASE ~Gone(s)
      <3>1. PICK n \in 1..Len(in[s]) :
              /\ conn' = [conn EXCEPT ![s] =
                            QueueResponses([conn[s] EXCEPT !.buf = Rest(Received(s, n))],
                                           Packets(Received(s, n)))]
              /\ done' = [done EXCEPT ![s] = @ \o Packets(Received(s, n))]
        BY <1>4, <2>4 DEF HandleRead, Received
      <3>2. Packets(Received(s, n)) \in Seq(Numbers)
        BY <2>2, ReadHandles DEF DataInv
      <3>3. Open(s)'
        <4>1. conn \in [Sockets -> Conn]
          BY DEF DataInv, TypeOK
        <4>2. conn'[s] = QueueResponses([conn[s] EXCEPT !.buf = Rest(Received(s, n))],
                                        Packets(Received(s, n)))
          BY <3>1, <4>1
        <4>3. conn[s] \in Conn
          BY <4>1
        <4> QED
          BY <2>2, <4>2, <4>3 DEF QueueResponses, Open, Conn
      <3> QED
        BY <2>1, <3>1, <3>2, <3>3
    <2> QED
      BY <2>3, <2>4
  <1> QED
    BY <1>1, <1>2, <1>3, <1>4 DEF ServerNext, Loop, ConnectionEvent

\* The server hands over what was sent to it, in order, and at most one packet at once.
LEMMA HandedOver ==
  ASSUME DataInv, DataInv', PoolInv, NEW s \in Sockets, NEW ps \in Seq(Numbers), Open(s)',
         done' = [done EXCEPT ![s] = @ \o ps], stream' = stream
  PROVE  /\ DoneInv' /\ Len(ps) \in {0, 1}
         /\ \A t \in Sockets \ {s} : done'[t] = done[t]
         /\ done'[s] = done[s] \o ps /\ done[s] \in Seq(Numbers)
         /\ Len(done'[s]) = Len(done[s]) + Len(ps)
         /\ \A i \in 1..Len(done[s]) : done'[s][i] = done[s][i]
         /\ Len(ps) = 1 => done'[s][Len(done[s]) + 1] = ps[1]
  <1> DEFINE d == done[s]
             e == done'[s]
             q == stream[s]
             hb == Halves(done'[s]) \o conn'[s].buf
             m == Len(conn'[s].buf)
             n == Len(in'[s])
  <1>1. d \in Seq(Numbers) /\ Len(d) \in Nat
    <2>1. d \in Seq(Numbers)
      BY HandledNumbers DEF DataInv
    <2> QED
      BY <2>1
  <1>2. done \in [Sockets -> Seq(0..MaxPackets)]
    BY DEF DataInv, TypeOK
  <1>3. e = d \o ps /\ \A t \in Sockets \ {s} : done'[t] = done[t]
    BY <1>2
  <1>4. e \in Seq(Numbers) /\ Len(e) = Len(d) + Len(ps) /\ Len(ps) \in Nat
        /\ (\A i \in 1..Len(d) : e[i] = d[i]) /\ \A i \in 1..Len(ps) : e[Len(d) + i] = ps[i]
    <2> HIDE DEF d, e
    <2> QED
      BY <1>1, <1>3, ConcatProperties
  <1>5. hb \o in'[s] = q
    <2>1. InputInv(s)'
      BY DEF DataInv, FlowInv
    <2>2. ~HasJunk(s)'
      BY DEF PoolInv, NumbersInv, HasJunk
    <2> QED
      BY <2>1, <2>2 DEF InputInv
  <1>6. conn'[s].buf \in Seq(Half) /\ in'[s] \in Seq(Half) /\ m \in Nat /\ n \in Nat
    <2>1. conn' \in [Sockets -> Conn] /\ in' \in [Sockets -> Seq(Half)]
      BY DEF DataInv, TypeOK
    <2>2. conn'[s] \in Conn /\ in'[s] \in Seq(Half)
      BY <2>1
    <2>3. conn'[s].buf \in Seq(Half)
      BY <2>2 DEF Conn
    <2> QED
      BY <2>2, <2>3
  <1>7. Halves(e) \in Seq(Half) /\ Len(Halves(e)) = 2 * Len(e)
    BY <1>4, HalvesAreHalf
  <1>8. /\ Len(hb) = 2 * Len(e) + m /\ hb \in Seq(Half)
        /\ \A i \in 1..(2 * Len(e)) : hb[i] = Halves(e)[i]
    <2> DEFINE h == Halves(e)
               b == conn'[s].buf
    <2>1. h \in Seq(Half) /\ b \in Seq(Half) /\ Len(h) = 2 * Len(e) /\ Len(b) = m
      BY <1>6, <1>7
    <2> HIDE DEF h, b, m, hb
    <2>5. h \in Seq(Half) /\ b \in Seq(Half)
      BY <2>1
    <2>2. h \o b \in Seq(Half) /\ Len(h \o b) = Len(h) + Len(b)
          /\ \A i \in 1..Len(h) : (h \o b)[i] = h[i]
      BY <2>5, ConcatProperties
    <2>3. hb = h \o b
      BY DEF h, b, hb
    <2>4. \A i \in 1..(2 * Len(e)) : (h \o b)[i] = h[i]
      BY <2>1, <2>2
    <2> QED
      BY <2>1, <2>2, <2>3, <2>4 DEF h
  <1>9. /\ Len(q) = Len(hb) + n
        /\ \A i \in 1..Len(hb) : q[i] = hb[i]
    <2> DEFINE b == in'[s]
    <2>1. b \in Seq(Half) /\ hb \in Seq(Half) /\ hb \o b = q /\ Len(b) = n
      BY <1>5, <1>6, <1>8
    <2> HIDE DEF hb, b, q, n
    <2>2. Len(hb \o b) = Len(hb) + Len(b) /\ \A i \in 1..Len(hb) : (hb \o b)[i] = hb[i]
      BY <2>1, ConcatProperties
    <2> QED
      BY <2>1, <2>2
  <1>10. /\ 2 * Len(d) <= Len(q) /\ Len(q) <= 2 * Len(d) + 2
    BY DEF PoolInv, DoneInv
  <1> HIDE DEF d, e, hb, m, n, q
  <1>11. 2 * Len(e) <= Len(q) /\ Len(q) <= 2 * Len(e) + 2 /\ Len(ps) \in {0, 1}
    <2>1. Len(q) = 2 * Len(e) + m + n
      BY <1>8, <1>9
    <2> DEFINE ld == Len(d)
               le == Len(e)
               lp == Len(ps)
               lq == Len(q)
    <2>2. /\ ld \in Nat /\ lp \in Nat /\ le = ld + lp /\ m \in Nat /\ n \in Nat
          /\ lq = 2 * le + m + n /\ lq <= 2 * ld + 2
      BY <1>1, <1>4, <1>6, <1>10, <2>1
    <2> HIDE DEF ld, le, lp, lq
    <2>3. 2 * le <= lq /\ lq <= 2 * le + 2 /\ lp \in {0, 1}
      BY <2>2
    <2> QED
      BY <2>3 DEF lp, le, lq
  <1>12. \A i \in 1..(2 * Len(e)) : Halves(e)[i] = q[i]
    <2>1. \A i \in 1..(2 * Len(e)) : i \in 1..Len(hb)
      <3> DEFINE le == 2 * Len(e)
      <3>1. le \in Nat /\ Len(hb) = le + m /\ m \in Nat
        BY <1>1, <1>4, <1>6, <1>8
      <3> HIDE DEF le
      <3>2. \A i \in 1..le : i \in 1..Len(hb)
        BY <3>1
      <3> QED
        BY <3>2 DEF le
    <2> QED
      BY <1>8, <1>9, <2>1
  <1>13. DoneInv'
    <2>1. ASSUME NEW t \in Sockets
          PROVE  /\ 2 * Len(done'[t]) <= Len(stream[t]) /\ Len(stream[t]) <= 2 * Len(done'[t]) + 2
                 /\ \A i \in 1..(2 * Len(done'[t])) : Halves(done'[t])[i] = stream[t][i]
      <3>1. CASE t = s
        BY <1>11, <1>12, <3>1 DEF e, q
      <3>2. CASE t # s
        BY <1>3, <3>2 DEF PoolInv, DoneInv
      <3> QED
        BY <3>1, <3>2
    <2> QED
      BY <2>1 DEF DoneInv
  <1>14. Len(ps) = 1 => e[Len(d) + 1] = ps[1]
    BY <1>4
  <1> QED
    BY <1>1, <1>3, <1>4, <1>11, <1>13, <1>14 DEF d, e

LEMMA ServerPool ==
  ASSUME IInv, DataInv, DataInv', PoolInv, ServerNext, UNCHANGED poolVars
  PROVE  PoolInv'
  <1> USE PoolTypes
  <1>1. /\ UNCHANGED <<stream, got>> /\ \A s \in Sockets : peer[s] = "up" => peer'[s] = "up"
        /\ \/ done' = done
           \/ \E s \in Sockets : \E ps \in Seq(Numbers) :
                /\ Open(s)' /\ done' = [done EXCEPT ![s] = @ \o ps]
    BY ServerDone
  <1>2. TypeOK'
    BY DEF DataInv
  <1>3. CASE done' = done
    BY <1>1, <1>2, <1>3, StaysPool
  <1>4. ASSUME NEW s \in Sockets, NEW ps \in Seq(Numbers), Open(s)',
               done' = [done EXCEPT ![s] = @ \o ps]
        PROVE  PoolInv'
    <2>1. UNCHANGED <<fd, next, pc, client, packet, buffer, outcome>>
      BY DEF poolVars
    <2>2. /\ DoneInv'
          /\ \A t \in Sockets \ {s} : done'[t] = done[t]
          /\ Len(done'[s]) = Len(done[s]) + Len(ps)
          /\ \A i \in 1..Len(done[s]) : done'[s][i] = done[s][i]
      BY <1>1, <1>4, HandedOver
    <2>3. ASSUME NEW k, Ran(k) PROVE Ran(k)'
      <3>1. PICK t \in Sockets : \E i \in 1..Len(done[t]) : done[t][i] = k
        BY <2>3 DEF Ran
      <3>2. PICK i \in 1..Len(done[t]) : done[t][i] = k
        BY <3>1
      <3>3. CASE t # s
        BY <2>2, <3>1, <3>3 DEF Ran
      <3>4. CASE t = s
        <4>1. Len(done[s]) \in Nat /\ Len(ps) \in Nat
          BY Typed DEF DataInv
        <4>2. i \in 1..Len(done'[s])
          BY <2>2, <3>2, <3>4, <4>1
        <4>3. done'[s][i] = k
          BY <2>2, <3>2, <3>4
        <4> QED
          BY <4>2, <4>3 DEF Ran
      <3> QED
        BY <3>3, <3>4
    <2>4. NumbersInv'
      BY <1>1, <2>1 DEF PoolInv, NumbersInv
    <2>5. PoolTypeOK'
      BY <1>2, <2>1 DEF PoolInv, PoolTypeOK
    <2>6. ClientInv'
      <3>1. ASSUME NEW c \in Clients, fd'[c] # NoSocket
            PROVE  /\ peer'[fd'[c]] = "up"
                   /\ ~(pc' = "read" /\ c = client') => got'[fd'[c]] = stream'[fd'[c]]
        BY <1>1, <2>1, <3>1 DEF PoolInv, ClientInv, Settled
      <3> QED
        BY <3>1 DEF ClientInv, Settled
    <2>7. ReadInv'
      BY <1>1, <2>1 DEF PoolInv, ReadInv, Asked, Settled
    <2>8. CallInv'
      BY <2>1, <2>3 DEF PoolInv, CallInv
    <2> QED
      BY <2>2, <2>4, <2>5, <2>6, <2>7, <2>8 DEF PoolInv
  <1> QED
    BY <1>1, <1>3, <1>4

LEMMA CloseArrivesPool ==
  ASSUME PoolInv, TypeOK', TypeOK, NEW s \in Sockets, CloseArrives(s), UNCHANGED poolVars
  PROVE  PoolInv'
  <1>1. UNCHANGED <<stream, done, got>>
    BY DEF CloseArrives, historyVars
  <1>2. \A t \in Sockets : peer[t] = "up" => peer'[t] = "up"
    BY DEF CloseArrives, TypeOK
  <1> QED
    BY <1>1, <1>2, StaysPool
-----------------------------------------------------------------------------
(* Reading the answer                                                      *)

\* TryExtractPacket on what ReadPacket may have received.
LEMMA ExtractPart ==
  ASSUME NEW k \in Numbers
  PROVE  LET b == <<<<k, "head">>>> IN Packets(b) = <<>> /\ Rest(b) = b
  <1> DEFINE h == <<k, "head">>
             b == <<h>>
  <1>1. h \in Half /\ IsHead(h)
    BY DEF Half, Numbers, IsHead
  <1> HIDE DEF h
  <1>2. b \in Seq(Half) /\ Len(b) = 1 /\ b[1] = h
    BY <1>1
  <1> HIDE DEF b
  <1>3. Whole(b) = 0
    <2>1. Whole(b) \in Nat /\ 2 * Whole(b) <= Len(b)
      BY <1>2, WholeIs
    <2> QED
      BY <1>2, <2>1
  <1>4. Packets(b) = <<>>
    BY <1>3 DEF Packets
  <1>5. SubSeq(b, 1, 1) = b
    <2>1. SubSeq(b, 1, Len(b)) = b
      BY <1>2, SubSeqFull
    <2> QED
      BY <1>2, <2>1
  <1>6. Rest(b) = b
    BY <1>1, <1>2, <1>3, <1>5 DEF Rest
  <1> QED
    BY <1>4, <1>6 DEF b, h

LEMMA ExtractWhole ==
  ASSUME NEW k \in Numbers
  PROVE  LET b == <<<<k, "head">>, <<k, "body">>>> IN Packets(b) # <<>> /\ Packets(b)[1] = k
  <1> DEFINE h == <<k, "head">>
             y == <<k, "body">>
             b == <<h, y>>
  <1>1. h \in Half /\ IsHead(h) /\ y \in Half /\ Number(h) = k /\ Number(y) = k
    BY DEF Half, Numbers, IsHead, Number
  <1> HIDE DEF h, y
  <1>2. b \in Seq(Half) /\ Len(b) = 2 /\ b[1] = h /\ b[2] = y
    BY <1>1
  <1> HIDE DEF b
  <1>3. Whole(b) = 1
    <2>1. /\ Whole(b) \in Nat /\ 2 * Whole(b) <= 2
          /\ Whole(b) = Len(b) \div 2 \/ ~IsHead(b[2 * Whole(b) + 1])
      BY <1>2, WholeIs
    <2>2. Whole(b) # 0
      <3>1. Len(b) \div 2 = 1
        BY <1>2
      <3> QED
        BY <1>1, <1>2, <2>1, <3>1
    <2> QED
      BY <2>1, <2>2
  <1>4. Packets(b) = [i \in 1..1 |-> Packet(b[2 * i - 1], b[2 * i])]
    BY <1>3 DEF Packets
  <1>5. Packets(b)[1] = Packet(b[1], b[2]) /\ DOMAIN Packets(b) = 1..1
    BY <1>4
  <1>6. Packets(b)[1] = k
    BY <1>1, <1>2, <1>5 DEF Packet
  <1>7. Packets(b) # <<>>
    BY <1>5
  <1> QED
    BY <1>6, <1>7 DEF b, h, y

\* What the peer has read after PeerRecv.
LEMMA Taken ==
  ASSUME DataInv, DoneInv, NEW s \in Sockets, NEW n \in 1..Len(out[s]), PeerRecv(s, n)
  PROVE  LET g == Len(got[s]) IN
         /\ g \in Nat /\ g + n \in Nat /\ n \in Nat \ {0} /\ Len(got'[s]) = g + n
         /\ g + n <= 2 * Len(done[s]) /\ g + n <= Len(stream[s])
         /\ \A i \in 1..(g + n) : got'[s][i] = stream[s][i]
         /\ Len(SubSeq(out[s], 1, n)) = n
         /\ \A i \in 1..n : SubSeq(out[s], 1, n)[i] = stream[s][g + i]
         /\ got'[s] \in Seq(Half) /\ stream[s] \in Seq(Half) /\ Len(stream[s]) \in Nat
         /\ done[s] \in Seq(0..MaxPackets) /\ Len(done[s]) \in Nat
         /\ SubSeq(out[s], 1, n) \in Seq(Half)
         /\ \A t \in Sockets \ {s} : got'[t] = got[t]
  <1> DEFINE x == got[s]
             y == SubSeq(out[s], 1, n)
             z == SubSeq(out[s], n + 1, Len(out[s]))
             q == stream[s]
             d == 2 * Len(done[s])
             o == out[s]
  <1>1. /\ x \in Seq(Half) /\ o \in Seq(Half) /\ q \in Seq(Half) /\ done[s] \in Seq(0..MaxPackets)
        /\ Len(x) \in Nat /\ Len(o) \in Nat /\ Len(q) \in Nat /\ d \in Nat /\ Len(done[s]) \in Nat
    BY Typed DEF DataInv
  <1>2. /\ Len(x) + Len(o) <= d /\ Len(x) + Len(o) <= Len(q)
        /\ \A i \in 1..(Len(x) + Len(o)) : (x \o o)[i] = q[i]
    BY AnswersAreMine
  <1>3. got \in [Sockets -> Seq(Half)]
    BY DEF DataInv, TypeOK
  <1>4. got' = [got EXCEPT ![s] = x \o y]
    BY <1>3 DEF PeerRecv
  <1>5. got'[s] = x \o y /\ \A t \in Sockets \ {s} : got'[t] = got[t]
    BY <1>3, <1>4
  <1>6. n \in 1..Len(o) /\ n \in 0..Len(o)
    BY <1>1
  <1> HIDE DEF x, q, d, o
  <1>7. /\ y \in Seq(Half) /\ Len(y) = n /\ \A i \in 1..n : y[i] = o[i]
    BY <1>1, <1>6, Cut DEF o
  <1> HIDE DEF y
  <1>8. /\ x \o y \in Seq(Half) /\ Len(x \o y) = Len(x) + Len(y)
        /\ \A i \in 1..Len(x) : (x \o y)[i] = x[i]
        /\ \A i \in 1..Len(y) : (x \o y)[Len(x) + i] = y[i]
    <2>1. x \in Seq(Half) /\ y \in Seq(Half)
      BY <1>1, <1>7
    <2> QED
      BY <2>1, ConcatProperties
  <1>9. /\ \A i \in 1..Len(x) : (x \o o)[i] = x[i]
        /\ \A i \in 1..Len(o) : (x \o o)[Len(x) + i] = o[i]
    <2>1. x \in Seq(Half) /\ o \in Seq(Half)
      BY <1>1
    <2> QED
      BY <2>1, ConcatProperties
  <1> DEFINE g == Len(x)
             lo == Len(o)
             lq == Len(q)
  <1>10. /\ g \in Nat /\ lo \in Nat /\ lq \in Nat /\ d \in Nat
         /\ n \in 1..lo /\ g + lo <= d /\ g + lo <= lq
    BY <1>1, <1>2, <1>6
  <1>11. \A i \in 1..g : (x \o y)[i] = q[i]
    <2>1. \A i \in 1..g : i \in 1..(g + lo)
      <3> HIDE DEF g, lo
      <3> QED
        BY <1>10
    <2> QED
      BY <1>2, <1>8, <1>9, <2>1
  <1>12. \A i \in 1..n : y[i] = q[g + i]
    <2>1. \A i \in 1..n : g + i \in 1..(g + lo) /\ i \in 1..lo
      <3> HIDE DEF g, lo
      <3> QED
        BY <1>10
    <2> QED
      BY <1>2, <1>7, <1>9, <2>1
  <1>13. \A i \in 1..(g + n) : (x \o y)[i] = q[i]
    <2> SUFFICES ASSUME NEW i \in 1..(g + n) PROVE (x \o y)[i] = q[i]
      OBVIOUS
    <2>1. i \in 1..g \/ \E j \in 1..n : i = g + j
      <3> HIDE DEF g, lo
      <3>1. i \in 1..g \/ (i - g \in 1..n /\ i = g + (i - g))
        BY <1>10
      <3> QED
        BY <3>1
    <2> QED
      BY <1>7, <1>8, <1>11, <1>12, <2>1
  <1>14. g + n \in Nat /\ n \in Nat \ {0} /\ g + n <= d /\ g + n <= lq
    <2> HIDE DEF g, lo, lq
    <2> QED
      BY <1>10
  <1> QED
    BY <1>1, <1>5, <1>7, <1>8, <1>12, <1>13, <1>14 DEF x, y, q, d

\* A call that reads gets the first half of its answer, or its end.
LEMMA AnswerComes ==
  ASSUME DataInv, PoolInv, pc = "read", NEW s \in Sockets, s = fd[client],
         NEW n \in 1..Len(out[s]), PeerRecv(s, n)
  PROVE  LET b == buffer \o SubSeq(out[s], 1, n)
             l == Len(stream[s])
         IN  /\ packet \in Numbers
             /\ \/ /\ b = <<<<packet, "head">>>>
                   /\ l > 1 /\ stream[s][l - 1] = <<packet, "head">>
                   /\ stream[s][l] = <<packet, "body">>
                   /\ Len(got'[s]) = l - 2 + 1
                \/ /\ b = <<<<packet, "head">>, <<packet, "body">>>>
                   /\ got'[s] = stream[s] /\ Ran(packet)
  <1> DEFINE y == SubSeq(out[s], 1, n)
             b == buffer \o y
             q == stream[s]
             l == Len(q)
             g == Len(got[s])
             h == <<packet, "head">>
             w == <<packet, "body">>
             d == done[s]
  <1>1. packet \in Numbers
    BY PoolTypes, BoundsAssumption DEF PoolInv, CallInv, Numbers
  <1>2. /\ g \in Nat /\ g + n \in Nat /\ n \in Nat \ {0} /\ Len(got'[s]) = g + n
        /\ g + n <= 2 * Len(d) /\ g + n <= l
        /\ \A i \in 1..(g + n) : got'[s][i] = q[i]
        /\ Len(y) = n
        /\ \A i \in 1..n : y[i] = q[g + i]
        /\ got'[s] \in Seq(Half) /\ q \in Seq(Half) /\ l \in Nat
        /\ d \in Seq(0..MaxPackets) /\ Len(d) \in Nat /\ y \in Seq(Half)
    BY Taken DEF PoolInv
  <1>3. /\ l > 1 /\ q[l - 1] = h /\ q[l] = w /\ g = l - 2 + Len(buffer)
        /\ buffer \in {<<>>, <<h>>}
    <2>1. got[s] # q
      <3>1. g < l
        BY <1>2
      <3> QED
        BY <3>1, <1>2
    <2>2. Asked(s)
      BY <2>1 DEF PoolInv, ReadInv, Settled
    <2> QED
      BY <2>2 DEF Asked
  <1>4. 2 * Len(d) <= l /\ \A i \in 1..(2 * Len(d)) : Halves(d)[i] = q[i]
    BY DEF PoolInv, DoneInv
  <1>5. h \in Half /\ w \in Half
    BY <1>1 DEF Half, Numbers
  <1>6. ASSUME g + n = l PROVE got'[s] = q /\ Ran(packet)
    <2>1. Len(got'[s]) = l /\ \A i \in 1..l : got'[s][i] = q[i]
      BY <1>2, <1>6
    <2>2. got'[s] = q
      <3> DEFINE x == got'[s]
      <3>1. /\ x \in Seq(Half) /\ q \in Seq(Half) /\ Len(x) = Len(q)
            /\ \A i \in 1..Len(x) : x[i] = q[i]
        BY <1>2, <2>1
      <3> HIDE DEF x, q
      <3>2. x = q
        BY <3>1, SeqEqual
      <3> QED
        BY <3>2 DEF x
    <2> DEFINE m == Len(d)
    <2>3. l = 2 * m /\ m \in Nat \ {0}
      <3>1. m \in Nat /\ l \in Nat /\ l <= 2 * m /\ 2 * m <= l /\ l > 1
        BY <1>2, <1>3, <1>4, <1>6
      <3> HIDE DEF m, l
      <3> QED
        BY <3>1
    <2>4. m \in 1..m /\ 2 * m \in 1..(2 * m)
      <3> HIDE DEF m
      <3> QED
        BY <2>3
    <2>5. Halves(d)[2 * m] = <<d[m], "body">>
      BY <1>2, <2>4, HalvesAt
    <2>6. Halves(d)[2 * m] = w
      BY <1>3, <1>4, <2>3, <2>4
    <2>7. d[m] = packet
      BY <2>5, <2>6
    <2> QED
      BY <2>2, <2>4, <2>7 DEF Ran
  <1> HIDE DEF q, d, h, w, y, g, l
  <1>7. CASE buffer = <<>>
    <2>1. g = l - 2 /\ n \in {1, 2}
      BY <1>2, <1>3, <1>7
    <2>2. b = y
      BY <1>2, <1>7
    <2>3. CASE n = 1
      <3>1. y[1] = h /\ Len(y) = 1
        BY <1>2, <1>3, <2>1, <2>3
      <3>2. y = <<h>>
        <4>1. <<h>> \in Seq(Half) /\ Len(<<h>>) = 1 /\ <<h>>[1] = h
          BY <1>5
        <4> QED
          BY <1>2, <3>1, <4>1, SeqEqual
      <3>3. Len(got'[s]) = l - 2 + 1
        BY <1>2, <2>1, <2>3
      <3> QED
        BY <1>1, <1>3, <2>2, <3>2, <3>3 DEF q, h, w, y, l
    <2>4. CASE n = 2
      <3>1. y[1] = h /\ y[2] = w /\ Len(y) = 2 /\ g + n = l
        BY <1>2, <1>3, <2>1, <2>4
      <3>2. y = <<h, w>>
        <4>1. <<h, w>> \in Seq(Half) /\ Len(<<h, w>>) = 2 /\ <<h, w>>[1] = h /\ <<h, w>>[2] = w
          BY <1>5
        <4> QED
          BY <1>2, <3>1, <4>1, SeqEqual
      <3> QED
        BY <1>1, <1>6, <2>2, <3>1, <3>2 DEF q, h, w, y
    <2> QED
      BY <2>1, <2>3, <2>4
  <1>8. CASE buffer = <<h>>
    <2>1. g = l - 1 /\ n = 1
      BY <1>2, <1>3, <1>8
    <2>2. y[1] = w /\ Len(y) = 1 /\ g + n = l
      BY <1>2, <1>3, <2>1
    <2>3. y = <<w>>
      <3>1. <<w>> \in Seq(Half) /\ Len(<<w>>) = 1 /\ <<w>>[1] = w
        BY <1>5
      <3> QED
        BY <1>2, <2>2, <3>1, SeqEqual
    <2>4. <<h>> \o <<w>> = <<h, w>>
      <3> DEFINE u == <<h>>
                 v == <<w>>
                 z == <<h, w>>
      <3>1. u \in Seq(Half) /\ v \in Seq(Half) /\ z \in Seq(Half)
        BY <1>5
      <3>2. Len(u) = 1 /\ Len(v) = 1 /\ Len(z) = 2 /\ u[1] = h /\ v[1] = w /\ z[1] = h /\ z[2] = w
        OBVIOUS
      <3> HIDE DEF u, v, z
      <3>3. /\ u \o v \in Seq(Half) /\ Len(u \o v) = Len(u) + Len(v)
            /\ \A i \in 1..Len(u) : (u \o v)[i] = u[i]
            /\ \A i \in 1..Len(v) : (u \o v)[Len(u) + i] = v[i]
        BY <3>1, ConcatProperties
      <3>4. Len(u \o v) = 2 /\ (u \o v)[1] = z[1] /\ (u \o v)[2] = z[2]
        BY <3>2, <3>3
      <3>5. u \o v = z
        BY <3>1, <3>2, <3>3, <3>4, SeqEqual
      <3> QED
        BY <3>5 DEF u, v, z
    <2> QED
      BY <1>1, <1>6, <1>8, <2>2, <2>3, <2>4 DEF q, h, w, y
  <1> QED
    BY <1>3, <1>7, <1>8

LEMMA ReadPool ==
  ASSUME DataInv, PoolInv, TypeOK', ReadPacket
  PROVE  PoolInv'
  <1> USE PoolTypes
  <1> DEFINE s == fd[client]
             h == <<packet, "head">>
             w == <<packet, "body">>
  <1>1. pc = "read" /\ s \in Sockets /\ fd' = fd
    BY DEF ReadPacket
  <1>2. PICK n \in 1..Room :
          LET b == buffer \o SubSeq(out[s], 1, n) IN
          /\ PeerRecv(s, n)
          /\ IF Packets(b) = <<>>
               THEN buffer' = Rest(b) /\ UNCHANGED <<pc, next, client, packet, outcome>>
               ELSE Return("ok", Packets(b)[1])
    BY DEF ReadPacket
  <1> DEFINE b == buffer \o SubSeq(out[s], 1, n)
             l == Len(stream[s])
  <1>3. n \in 1..Len(out[s]) /\ UNCHANGED <<peer, stream, done>>
    BY <1>2 DEF PeerRecv
  <1>4. /\ packet \in Numbers
        /\ \/ /\ b = <<h>>
              /\ l > 1 /\ stream[s][l - 1] = h /\ stream[s][l] = w
              /\ Len(got'[s]) = l - 2 + 1
           \/ b = <<h, w>> /\ got'[s] = stream[s] /\ Ran(packet)
    BY <1>1, <1>2, <1>3, AnswerComes
  <1>5. \A t \in Sockets \ {s} : got'[t] = got[t]
    BY <1>1, <1>2, <1>3, Taken DEF PoolInv
  <1>6. h \in Half
    BY <1>4 DEF Half, Numbers
  <1>7. ASSUME UNCHANGED <<client, packet>>, pc' \in {"idle", "read"},
               pc' # "read" => got'[s] = stream[s]
        PROVE  NumbersInv' /\ DoneInv' /\ ClientInv' /\ \A k : Ran(k)' = Ran(k)
    <2>1. NumbersInv' /\ DoneInv' /\ \A k : Ran(k)' = Ran(k)
      BY <1>3, <1>7, QuietSteps
    <2>2. ASSUME NEW c \in Clients, fd'[c] # NoSocket
          PROVE  /\ peer'[fd'[c]] = "up"
                 /\ ~(pc' = "read" /\ c = client') => got'[fd'[c]] = stream'[fd'[c]]
      <3>1. peer'[fd'[c]] = "up" /\ (c # client => got[fd[c]] = stream[fd[c]])
        BY <1>1, <1>3, <2>2 DEF PoolInv, ClientInv, Settled
      <3>2. c # client => fd[c] \in Sockets \ {s}
        BY <1>1, <2>2
      <3> QED
        BY <1>1, <1>3, <1>5, <1>7, <3>1, <3>2
    <2>3. ClientInv'
      BY <2>2 DEF ClientInv, Settled
    <2> QED
      BY <2>1, <2>3
  <1>8. CASE b = <<h>> /\ l > 1 /\ stream[s][l - 1] = h /\ stream[s][l] = w
             /\ Len(got'[s]) = l - 2 + 1
    <2>1. Packets(b) = <<>> /\ Rest(b) = <<h>>
      <3> HIDE DEF b
      <3> QED
        BY <1>4, <1>8, ExtractPart
    <2>2. buffer' = <<h>> /\ UNCHANGED <<pc, next, client, packet, outcome>>
      BY <1>2, <2>1
    <2>3. NumbersInv' /\ DoneInv' /\ ClientInv' /\ \A k : Ran(k)' = Ran(k)
      BY <1>1, <1>7, <2>2
    <2>4. ReadInv'
      <3>1. Len(<<h>>) = 1
        OBVIOUS
      <3>2. Len(got'[s]) = l - 2 + Len(buffer')
        BY <1>8, <2>2, <3>1
      <3> QED
        BY <1>1, <1>3, <1>8, <2>2, <3>2 DEF ReadInv, Asked
    <2>5. CallInv'
      BY <2>2, <2>3 DEF PoolInv, CallInv
    <2>6. PoolTypeOK'
      <3>1. buffer' \in Seq(Half)
        BY <1>6, <2>2
      <3> QED
        BY <1>1, <2>2, <3>1 DEF PoolInv, PoolTypeOK
    <2> QED
      BY <2>3, <2>4, <2>5, <2>6 DEF PoolInv
  <1>9. CASE b = <<h, w>> /\ got'[s] = stream[s] /\ Ran(packet)
    <2>1. Packets(b) # <<>> /\ Packets(b)[1] = packet
      <3> HIDE DEF b
      <3> QED
        BY <1>4, <1>9, ExtractWhole
    <2>2. Return("ok", packet)
      BY <1>2, <2>1
    <2>3. pc' = "idle" /\ UNCHANGED <<client, packet>>
      BY <2>2 DEF Return
    <2>4. NumbersInv' /\ DoneInv' /\ ClientInv' /\ \A k : Ran(k)' = Ran(k)
      BY <1>7, <1>9, <2>3
    <2>5. /\ CallInv' /\ buffer' = <<>> /\ UNCHANGED <<next, client, packet>>
          /\ outcome' \in [Calls -> [is : {"none", "open", "failed", "ok"}, answer : 0..MaxPackets]]
      <3>1. Ran(packet)' /\ (\A k : Ran(k) => Ran(k)') /\ packet \in 0..MaxPackets
        BY <1>3, <1>9, <2>3 DEF Ran
      <3>2. pc # "idle"
        BY <1>1
      <3> QED
        BY <2>2, <2>3, <3>1, <3>2, CallReturns
    <2>6. ReadInv'
      BY <2>3, <2>5 DEF ReadInv
    <2>7. PoolTypeOK'
      BY <1>1, <2>3, <2>5 DEF PoolTypeOK
    <2> QED
      BY <2>4, <2>5, <2>6, <2>7 DEF PoolInv
  <1> QED
    BY <1>4, <1>8, <1>9
-----------------------------------------------------------------------------
(* The invariant                                                           *)

\* The invariant of the pool over its event loop.
PInv == IInv /\ DataInv /\ PoolInv

LEMMA PoolNextKeeps ==
  ASSUME PInv, [PoolNext]_allVars
  PROVE  PInv'
  <1> USE DEF PInv
  <1>1. IInv' /\ DataInv'
    BY LoopKeeps
  <1>2. TypeOK /\ TypeOK'
    BY <1>1 DEF DataInv
  <1>3. CASE UNCHANGED allVars
    <2>1. UNCHANGED poolVars /\ UNCHANGED <<peer, stream, done, got>>
      BY <1>3 DEF allVars, vars, kernelVars, historyVars
    <2> QED
      BY <1>1, <1>2, <2>1, StaysPool
  <1>4. CASE Environment
    BY <1>1, <1>2, <1>4, ServerPool, CloseArrivesPool DEF Environment
  <1>5. CASE PoolStep
    BY <1>1, <1>2, <1>5, CallPool, ConnectPool, ConnectFailsPool, WritePool, ReadPool, FailPool
       DEF PoolStep
  <1> QED
    BY <1>3, <1>4, <1>5 DEF PoolNext

LEMMA PoolStarts == PoolInit => PInv
  <1> SUFFICES ASSUME PoolInit PROVE PInv
    OBVIOUS
  <1>1. IInv /\ DataInv /\ TypeOK
    BY InitIInv, InitData DEF PoolInit, DataInv
  <1>2. /\ fd = [c \in Clients |-> NoSocket] /\ next = 0 /\ client = 0
        /\ pc = "idle" /\ packet = 0 /\ buffer = <<>>
        /\ outcome = [k \in Calls |-> Result("none", 0)]
    BY DEF PoolInit
  <1>3. \A s \in Sockets : stream[s] = <<>> /\ done[s] = <<>>
    BY DEF PoolInit, Init
  <1>4. 0 \in 0..MaxPackets /\ 0 \in Clients
    BY BoundsAssumption, PoolAssumption DEF Clients
  <1>5. outcome \in [Calls -> [is : {"none", "open", "failed", "ok"}, answer : 0..MaxPackets]]
    BY <1>2, <1>4 DEF Result
  <1>6. PoolTypeOK
    BY <1>1, <1>2, <1>4, <1>5 DEF PoolTypeOK
  <1>7. NumbersInv
    BY <1>3 DEF NumbersInv
  <1>8. DoneInv
    BY <1>3 DEF DoneInv
  <1>9. ClientInv /\ ReadInv
    BY <1>2 DEF ClientInv, ReadInv
  <1>10. CallInv
    <2>1. \A k \in Calls : k > 0 /\ outcome[k].is = "none"
      BY <1>2, BoundsAssumption DEF Calls, Result
    <2> QED
      BY <1>2, <2>1 DEF CallInv
  <1> QED
    BY <1>1, <1>6, <1>7, <1>8, <1>9, <1>10 DEF PInv, PoolInv

\* The pool's connections and calls, for every number of clients, sockets and calls:
\* what the pool keeps is settled, and what the server has handled are its requests.
THEOREM PoolInvariance == PoolSpec => []PInv
<1>1. PInv /\ [PoolNext]_allVars => PInv'
  BY PoolNextKeeps
<1> QED
  BY <1>1, PoolStarts, PTL DEF PoolSpec

\* No two clients of the pool share a socket, and a call that writes or reads has one.
THEOREM PoolTypeCorrect == PoolSpec => []PoolTypeOK
<1>1. PInv => PoolTypeOK
  BY DEF PInv, PoolInv
<1> QED
  BY <1>1, PoolInvariance, PTL

\* SendAndReceive returns the answer to the request it was given, although requests
\* before it timed out and were answered late.
THEOREM AnswersMatchCalls == PoolSpec => []AnswerIsMine
<1>1. PInv => AnswerIsMine
  BY DEF PInv, PoolInv, CallInv, AnswerIsMine
<1> QED
  BY <1>1, PoolInvariance, PTL
-----------------------------------------------------------------------------
(* No request is executed twice                                            *)

\* Increasing positive numbers are at least as large as their positions.
LEMMA PositionsAreSmall ==
  ASSUME NEW d \in Seq(Numbers), \A i \in 1..Len(d) : i > 1 => d[i - 1] < d[i]
  PROVE  \A i \in 1..Len(d) : i <= d[i]
  <1> SUFFICES ASSUME NEW k \in 1..Len(d), ~(k <= d[k]) PROVE FALSE
    OBVIOUS
  <1>1. Len(d) \in Nat /\ \A j \in 1..Len(d) : d[j] \in Nat /\ d[j] > 0
    <2>1. \A j \in 1..Len(d) : d[j] \in Numbers
      BY ElementOfSeq
    <2>2. \A m \in Numbers : m \in Nat /\ m > 0
      BY BoundsAssumption DEF Numbers
    <2>3. Len(d) \in Nat
      OBVIOUS
    <2> QED
      BY <2>1, <2>2, <2>3
  <1> DEFINE T == {i \in 1..Len(d) : ~(i <= d[i])}
  <1>2. T \in SUBSET Nat /\ T # {}
    <2>1. k \in T
      OBVIOUS
    <2>2. \A i \in 1..Len(d) : i \in Nat
      BY <1>1
    <2> QED
      BY <2>1, <2>2
  <1> HIDE DEF T
  <1>3. PICK n \in T : \A m \in T : n <= m
    BY <1>2, LeastNumber
  <1>4. n \in 1..Len(d) /\ ~(n <= d[n])
    BY <1>3 DEF T
  <1>5. n > 1
    BY <1>1, <1>4
  <1>6. n - 1 \in 1..Len(d) /\ n - 1 \notin T
    BY <1>1, <1>3, <1>4, <1>5
  <1>7. n - 1 <= d[n - 1]
    BY <1>6 DEF T
  <1>8. d[n - 1] < d[n]
    BY <1>4, <1>5
  <1> QED
    BY <1>1, <1>4, <1>6, <1>7, <1>8

LEMMA RunsAre == PInv => RanInv
  <1> SUFFICES ASSUME PInv, NEW k \in Calls PROVE RunsOf(k) = IF Ran(k) THEN 1 ELSE 0
    BY DEF RanInv
  <1> DEFINE R == {x \in Sockets \X (1..MaxPackets) :
                     x[2] <= Len(done[x[1]]) /\ done[x[1]][x[2]] = k}
  <1>1. TypeOK /\ NumbersInv /\ \A s \in Sockets : FlowInv(s)
    BY DEF PInv, PoolInv, DataInv
  <1>2. RunsOf(k) = Cardinality(R)
    BY DEF RunsOf
  <1>3. ASSUME NEW s \in Sockets
        PROVE  /\ done[s] \in Seq(Numbers) /\ Len(done[s]) \in Nat
               /\ \A i \in 1..Len(done[s]) : i > 1 => done[s][i - 1] < done[s][i]
    <2>1. done[s] \in Seq(Numbers) /\ Len(done[s]) \in Nat
      BY <1>1, HandledNumbers, Typed
    <2>2. HandledInv(s)
      BY <1>1 DEF FlowInv
    <2> QED
      BY <2>1, <2>2 DEF HandledInv
  <1>4. ASSUME NEW x \in R
        PROVE  x = <<x[1], x[2]>> /\ x[1] \in Sockets /\ x[2] \in 1..Len(done[x[1]])
               /\ done[x[1]][x[2]] = k
    <2>1. x = <<x[1], x[2]>> /\ x[1] \in Sockets /\ x[2] \in 1..MaxPackets
          /\ x[2] <= Len(done[x[1]]) /\ done[x[1]][x[2]] = k
      OBVIOUS
    <2> DEFINE l == Len(done[x[1]])
               y == x[2]
    <2>2. l \in Nat /\ y \in 1..MaxPackets /\ y <= l
      BY <1>3, <2>1
    <2> HIDE DEF l, y
    <2>3. y \in 1..l
      BY <2>2, BoundsAssumption
    <2> QED
      BY <2>1, <2>3 DEF l, y
  <1>5. CASE ~Ran(k)
    <2>1. R = {}
      BY <1>4, <1>5 DEF Ran
    <2> QED
      BY <1>2, <1>5, <2>1, FS_EmptySet
  <1>6. CASE Ran(k)
    <2>1. PICK s \in Sockets : \E i \in 1..Len(done[s]) : done[s][i] = k
      BY <1>6 DEF Ran
    <2>2. PICK i \in 1..Len(done[s]) : done[s][i] = k
      BY <2>1
    <2>3. <<s, i>> \in R
      <3>1. i <= k
        BY <1>3, <2>2, PositionsAreSmall
      <3>2. i \in 1..MaxPackets /\ i <= Len(done[s])
        <4> DEFINE l == Len(done[s])
        <4>1. l \in Nat /\ i \in 1..l /\ i <= k /\ k \in 1..MaxPackets
          BY <1>3, <2>2, <3>1 DEF Calls
        <4> HIDE DEF l
        <4>2. i \in 1..MaxPackets /\ i <= l
          BY <4>1, BoundsAssumption
        <4> QED
          BY <4>2 DEF l
      <3> QED
        BY <2>2, <3>2
    <2>4. ASSUME NEW x \in R PROVE x = <<s, i>>
      <3> DEFINE t == x[1]
                 j == x[2]
      <3>1. x = <<t, j>> /\ t \in Sockets /\ j \in 1..Len(done[t]) /\ done[t][j] = k
        BY <1>4
      <3>2. t = s
        <4>1. PICK a \in 1..(Len(stream[s]) - 1) : stream[s][a] = <<k, "head">>
          BY <1>1, <2>2 DEF FlowInv, HandledInv
        <4>2. PICK c \in 1..(Len(stream[t]) - 1) : stream[t][c] = <<k, "head">>
          BY <1>1, <3>1 DEF FlowInv, HandledInv
        <4>3. Len(stream[s]) \in Nat /\ Len(stream[t]) \in Nat
          BY <1>1, <3>1, Typed
        <4>4. a \in 1..Len(stream[s]) /\ c \in 1..Len(stream[t])
          BY <4>3
        <4>5. Number(stream[s][a]) = k /\ Number(stream[t][c]) = k
          BY <4>1, <4>2 DEF Number
        <4> QED
          BY <1>1, <3>1, <4>4, <4>5 DEF NumbersInv
      <3> HIDE DEF t, j
      <3>3. j = i
        <4>1. \A m, n \in 1..Len(done[s]) : m < n => done[s][m] < done[s][n]
          BY <1>3, Increasing
        <4>2. j \in 1..Len(done[s]) /\ done[s][j] = k /\ k \in Nat /\ j \in Nat /\ i \in Nat
          BY <1>3, <2>2, <3>1, <3>2, BoundsAssumption DEF Calls
        <4>3. ~(j < i) /\ ~(i < j)
          BY <2>2, <4>1, <4>2
        <4> QED
          BY <4>2, <4>3
      <3> QED
        BY <3>1, <3>2, <3>3
    <2>5. R = {<<s, i>>}
      BY <2>3, <2>4
    <2> HIDE DEF R
    <2>6. Cardinality(R) = 1
      BY <2>5, FS_Singleton
    <2> QED
      BY <1>2, <1>6, <2>6
  <1> QED
    BY <1>5, <1>6
-----------------------------------------------------------------------------
(* The pool keeps what CallPromise says                                    *)

\* The outcomes as CallPromise sees them.
LEMMA PromisedCalls ==
  ASSUME PoolInv, NEW k \in Calls, NEW is \in {"none", "open", "failed", "ok"},
         NEW a \in 0..MaxPackets, outcome' = [outcome EXCEPT ![k] = Result(is, a)]
  PROVE  [j \in Calls |-> outcome'[j].is] =
           [[j \in Calls |-> outcome[j].is] EXCEPT ![k] = is]
  <1>1. /\ outcome'[k].is = is
        /\ \A j \in Calls \ {k} : outcome'[j] = outcome[j]
    BY OutcomeSet
  <1>2. \A j \in Calls : outcome'[j].is = IF j = k THEN is ELSE outcome[j].is
    BY <1>1
  <1> QED
    BY <1>2

\* The steps of the server: one request is run, or none.
LEMMA ServerRuns ==
  ASSUME PInv, PInv', RanInv, RanInv', ServerNext, UNCHANGED poolVars
  PROVE  [Promise!Next]_<<[k \in Calls |-> outcome[k].is], [k \in Calls |-> RunsOf(k)]>>
  <1> USE DEF PInv
  <1> DEFINE call == [k \in Calls |-> outcome[k].is]
             ran == [k \in Calls |-> RunsOf(k)]
  <1>1. outcome' = outcome /\ packet' = packet /\ pc' = pc
    BY DEF poolVars
  <1>2. call' = call
    BY <1>1
  <1>3. /\ UNCHANGED <<stream, got>>
        /\ \/ done' = done
           \/ \E s \in Sockets : \E ps \in Seq(Numbers) :
                /\ Open(s)' /\ done' = [done EXCEPT ![s] = @ \o ps]
    BY ServerDone
  <1>4. ASSUME \A k \in Calls : Ran(k)' <=> Ran(k)
        PROVE  UNCHANGED <<call, ran>>
    <2>1. \A k \in Calls : RunsOf(k)' = RunsOf(k)
      BY <1>4 DEF RanInv
    <2> QED
      BY <1>2, <2>1
  <1>5. CASE done' = done
    BY <1>4, <1>5 DEF Ran
  <1>6. ASSUME NEW s \in Sockets, NEW ps \in Seq(Numbers), Open(s)',
               done' = [done EXCEPT ![s] = @ \o ps]
        PROVE  [Promise!Next]_<<call, ran>>
    <2> DEFINE d == done[s]
               e == done'[s]
    <2>1. /\ Len(ps) \in {0, 1}
          /\ \A t \in Sockets \ {s} : done'[t] = done[t]
          /\ d \in Seq(Numbers) /\ Len(e) = Len(d) + Len(ps)
          /\ \A i \in 1..Len(d) : e[i] = d[i]
          /\ Len(ps) = 1 => e[Len(d) + 1] = ps[1]
      BY <1>3, <1>6, HandedOver
    <2>2. Len(d) \in Nat
      BY <2>1
    <2>3. ASSUME NEW k, Ran(k) PROVE Ran(k)'
      <3>1. PICK t \in Sockets : \E i \in 1..Len(done[t]) : done[t][i] = k
        BY <2>3 DEF Ran
      <3>2. PICK i \in 1..Len(done[t]) : done[t][i] = k
        BY <3>1
      <3>3. CASE t # s
        BY <2>1, <3>1, <3>3 DEF Ran
      <3>4. CASE t = s
        <4>1. i \in 1..Len(e) /\ e[i] = k
          BY <2>1, <2>2, <3>2, <3>4
        <4> QED
          BY <4>1 DEF Ran
      <3> QED
        BY <3>3, <3>4
    <2>4. ASSUME NEW k, Ran(k)' PROVE Ran(k) \/ (Len(ps) = 1 /\ k = ps[1])
      <3>1. PICK t \in Sockets : \E i \in 1..Len(done'[t]) : done'[t][i] = k
        BY <2>4 DEF Ran
      <3>2. PICK i \in 1..Len(done'[t]) : done'[t][i] = k
        BY <3>1
      <3>3. CASE t # s
        BY <2>1, <3>1, <3>3 DEF Ran
      <3>4. CASE t = s
        <4>1. i \in 1..Len(d) \/ (Len(ps) = 1 /\ i = Len(d) + 1)
          <5>1. i \in 1..Len(e)
            BY <3>2, <3>4
          <5> DEFINE ld == Len(d)
                     le == Len(e)
                     lp == Len(ps)
          <5>2. lp \in {0, 1} /\ ld \in Nat /\ le = ld + lp /\ i \in 1..le
            BY <2>1, <2>2, <5>1
          <5> HIDE DEF ld, le, lp
          <5>3. i \in 1..ld \/ (lp = 1 /\ i = ld + 1)
            BY <5>2
          <5> QED
            BY <5>3 DEF ld, lp
        <4>2. CASE i \in 1..Len(d)
          <5>1. d[i] = k
            BY <2>1, <3>2, <3>4, <4>2
          <5> QED
            BY <4>2, <5>1 DEF Ran
        <4>3. CASE Len(ps) = 1 /\ i = Len(d) + 1
          BY <2>1, <3>2, <3>4, <4>3
        <4> QED
          BY <4>1, <4>2, <4>3
      <3> QED
        BY <3>3, <3>4
    <2>5. CASE Len(ps) = 0
      <3>1. \A k \in Calls : Ran(k)' <=> Ran(k)
        BY <2>3, <2>4, <2>5
      <3> QED
        BY <1>4, <3>1
    <2>6. CASE Len(ps) = 1
      <3> DEFINE p == ps[1]
      <3>1. p \in Calls
        <4>1. 1 \in 1..Len(ps)
          BY <2>6
        <4> QED
          BY <4>1, ElementOfSeq DEF Numbers, Calls
      <3> HIDE DEF p
      <3>2. CASE Ran(p)
        <4>1. \A k \in Calls : Ran(k)' <=> Ran(k)
          BY <2>3, <2>4, <2>6, <3>2 DEF p
        <4> QED
          BY <1>4, <4>1
      <3>3. CASE ~Ran(p)
        <4>1. Ran(p)' /\ \A k \in Calls \ {p} : Ran(k)' <=> Ran(k)
          <5>1. Len(e) = Len(d) + 1 /\ e[Len(d) + 1] = p
            BY <2>1, <2>6 DEF p
          <5>2. Len(d) + 1 \in 1..Len(e)
            <6> HIDE DEF d, e
            <6> QED
              BY <2>2, <5>1
          <5>3. Ran(p)'
            <6>1. \E i \in 1..Len(done'[s]) : done'[s][i] = p
              BY <5>1, <5>2
            <6> QED
              BY <6>1 DEF Ran
          <5> QED
            BY <2>3, <2>4, <5>3 DEF p
        <4>2. ran[p] = 0 /\ ran' = [ran EXCEPT ![p] = 1]
          <5>1. /\ RunsOf(p) = 0 /\ RunsOf(p)' = 1
                /\ \A k \in Calls \ {p} : RunsOf(k)' = RunsOf(k)
            BY <3>1, <3>3, <4>1 DEF RanInv
          <5> QED
            BY <3>1, <5>1
        <4>3. call[p] \in {"open", "failed"}
          <5>1. p <= packet
            <6>1. PICK t \in Sockets : \E i \in 1..Len(done'[t]) : done'[t][i] = p
              BY <4>1 DEF Ran
            <6>2. PICK i \in 1..Len(done'[t]) : done'[t][i] = p
              BY <6>1
            <6>3. PICK j \in 1..(Len(stream[t]) - 1) : stream[t][j] = <<p, "head">>
              <7>1. HandledInv(t)'
                BY DEF DataInv, FlowInv
              <7> QED
                BY <1>3, <6>2, <7>1 DEF HandledInv
            <6>4. j \in 1..Len(stream[t]) /\ Number(stream[t][j]) = p
              <7>1. Len(stream[t]) \in Nat
                BY Typed DEF DataInv
              <7> QED
                BY <6>3, <7>1 DEF Number
            <6> QED
              BY <6>4 DEF PoolInv, NumbersInv
          <5>2. p \in Nat /\ packet \in Nat
            BY <3>1, PoolTypes, BoundsAssumption DEF Calls
          <5>3. outcome[p].is # "none"
            BY <3>1, <5>1, <5>2 DEF PoolInv, CallInv
          <5>4. outcome[p].is # "ok"
            BY <3>1, <3>3 DEF PoolInv, CallInv
          <5>5. outcome[p].is \in {"none", "open", "failed", "ok"}
            BY <3>1, PoolTypes
          <5> QED
            BY <3>1, <5>3, <5>4, <5>5
        <4>4. Promise!Run(p)
          BY <1>2, <4>2, <4>3 DEF Promise!Run
        <4> QED
          BY <3>1, <4>4 DEF Promise!Next
      <3> QED
        BY <3>2, <3>3
    <2> QED
      BY <2>1, <2>5, <2>6
  <1> QED
    BY <1>3, <1>4, <1>5, <1>6 DEF Ran

\* Every step of the pool, of its server and of the network is one of CallPromise
\* or changes nothing that CallPromise speaks of.
LEMMA StepsKeepPromise ==
  ASSUME PInv, PInv', RanInv, RanInv', [PoolNext]_allVars
  PROVE  [Promise!Next]_<<[k \in Calls |-> outcome[k].is], [k \in Calls |-> RunsOf(k)]>>
  <1> USE DEF PInv
  <1> USE PoolTypes
  <1> DEFINE call == [k \in Calls |-> outcome[k].is]
             ran == [k \in Calls |-> RunsOf(k)]
  <1>1. ASSUME done' = done PROVE ran' = ran
    BY <1>1 DEF RunsOf
  <1>2. CASE UNCHANGED allVars
    <2>1. done' = done /\ outcome' = outcome
      BY <1>2 DEF allVars, vars, historyVars, poolVars
    <2> QED
      BY <1>1, <2>1
  <1>3. CASE Environment
    <2>1. CASE ServerNext
      BY <1>3, <2>1, ServerRuns DEF Environment
    <2>2. ASSUME NEW s \in Sockets, CloseArrives(s)
          PROVE  UNCHANGED <<call, ran>>
      <3>1. done' = done /\ outcome' = outcome
        BY <1>3, <2>2 DEF Environment, poolVars, CloseArrives, historyVars
      <3> QED
        BY <1>1, <3>1
    <2> QED
      BY <1>3, <2>1, <2>2 DEF Environment
  <1>4. ASSUME NEW k \in Calls, Call(k) PROVE Promise!Next
    <2>1. ran' = ran
      BY <1>1, <1>4 DEF Call, vars, historyVars
    <2>2. 0 \in 0..MaxPackets
      BY BoundsAssumption
    <2>3. call' = [call EXCEPT ![k] = "open"]
      <3>1. outcome' = [outcome EXCEPT ![k] = Result("open", 0)]
        BY <1>4 DEF Call
      <3> QED
        BY <2>2, <3>1, PromisedCalls
    <2>4. call[k] = "none" /\ \A j \in Calls : call[j] # "open"
      <3>1. k > packet /\ pc = "idle"
        BY <1>4 DEF Call
      <3> QED
        BY <3>1 DEF PoolInv, CallInv
    <2>5. Promise!Begin(k)
      BY <2>1, <2>3, <2>4 DEF Promise!Begin
    <2> QED
      BY <2>5 DEF Promise!Next
  <1>5. ASSUME NEW is \in {"failed", "ok"}, NEW a \in 0..MaxPackets, Return(is, a), done' = done,
               pc # "idle", is = "ok" => Ran(packet)
        PROVE  Promise!Next
    <2>1. packet \in Calls
      BY <1>5, BoundsAssumption DEF PoolInv, CallInv, Calls
    <2>2. PICK k \in Calls : k = packet
      BY <2>1
    <2>3. ran' = ran
      BY <1>1, <1>5
    <2>4. call' = [call EXCEPT ![k] = is]
      <3>1. outcome' = [outcome EXCEPT ![k] = Result(is, a)]
        BY <1>5, <2>2 DEF Return
      <3> QED
        BY <3>1, PromisedCalls
    <2>5. call[k] = "open"
      BY <1>5, <2>2 DEF PoolInv, CallInv
    <2>6. CASE is = "failed"
      <3>1. Promise!Fail(k)
        BY <2>3, <2>4, <2>5, <2>6 DEF Promise!Fail
      <3> QED
        BY <3>1 DEF Promise!Next
    <2>7. CASE is = "ok"
      <3>1. ran[k] = 1
        BY <1>5, <2>2, <2>7 DEF RanInv
      <3>2. Promise!Succeed(k)
        BY <2>3, <2>4, <2>5, <2>7, <3>1 DEF Promise!Succeed
      <3> QED
        BY <3>2 DEF Promise!Next
    <2> QED
      BY <2>6, <2>7
  <1>6. 0 \in 0..MaxPackets
    BY BoundsAssumption
  <1>7. CASE Connect
    <2>1. done' = done /\ outcome' = outcome
      BY <1>7 DEF Connect, PeerConnect, historyVars
    <2> QED
      BY <1>1, <2>1
  <1>8. CASE ConnectFails
    <2>1. done' = done /\ Return("failed", 0) /\ pc # "idle"
      BY <1>8 DEF ConnectFails, vars, historyVars
    <2> QED
      BY <1>5, <1>6, <2>1
  <1>9. CASE WritePacket
    <2>1. done' = done /\ outcome' = outcome
      BY <1>9 DEF WritePacket, PeerWrites, vars, historyVars
    <2> QED
      BY <1>1, <2>1
  <1>10. CASE ReadPacket
    <2> DEFINE s == fd[client]
    <2>1. pc = "read" /\ s \in Sockets
      BY <1>10 DEF ReadPacket
    <2>2. PICK n \in 1..Room :
            LET b == buffer \o SubSeq(out[s], 1, n) IN
            /\ PeerRecv(s, n)
            /\ IF Packets(b) = <<>>
                 THEN buffer' = Rest(b) /\ UNCHANGED <<pc, next, client, packet, outcome>>
                 ELSE Return("ok", Packets(b)[1])
      BY <1>10 DEF ReadPacket
    <2> DEFINE b == buffer \o SubSeq(out[s], 1, n)
    <2>3. n \in 1..Len(out[s]) /\ done' = done
      BY <2>2 DEF PeerRecv
    <2>4. /\ packet \in Numbers
          /\ \/ b = <<<<packet, "head">>>>
             \/ b = <<<<packet, "head">>, <<packet, "body">>>> /\ Ran(packet)
      BY <2>1, <2>2, <2>3, AnswerComes
    <2>5. CASE b = <<<<packet, "head">>>>
      <3>1. Packets(b) = <<>>
        <4> HIDE DEF b
        <4> QED
          BY <2>4, <2>5, ExtractPart
      <3>2. outcome' = outcome
        BY <2>2, <3>1
      <3> QED
        BY <1>1, <2>3, <3>2
    <2>6. CASE b = <<<<packet, "head">>, <<packet, "body">>>> /\ Ran(packet)
      <3>1. Packets(b) # <<>> /\ Packets(b)[1] = packet
        <4> HIDE DEF b
        <4> QED
          BY <2>4, <2>6, ExtractWhole
      <3>2. Return("ok", packet)
        BY <2>2, <3>1
      <3> QED
        BY <1>5, <2>1, <2>3, <2>6, <3>2
    <2> QED
      BY <2>4, <2>5, <2>6
  <1>11. CASE Fail
    <2>1. done' = done /\ Return("failed", 0) /\ pc # "idle"
      BY <1>11 DEF Fail, PeerClose, historyVars
    <2> QED
      BY <1>5, <1>6, <2>1
  <1> QED
    BY <1>2, <1>3, <1>4, <1>7, <1>8, <1>9, <1>10, <1>11 DEF PoolNext, PoolStep

\* UpstreamClientPool keeps what its callers rely on: SendAndReceive never makes the
\* upstream execute a request twice, and it succeeds only if the request was executed.
THEOREM PoolKeepsItsPromise == PoolSpec => ImplementsCallPromise
<1>1. PoolInit => Promise!Init
  <2> SUFFICES ASSUME PoolInit PROVE Promise!Init
    OBVIOUS
  <2>1. \A k \in Calls : outcome[k].is = "none"
    BY DEF PoolInit, Result
  <2>2. PInv /\ RanInv
    BY PoolStarts, RunsAre
  <2>3. \A k \in Calls : RunsOf(k) = 0
    BY <2>2 DEF RanInv, Ran, PoolInit, Init
  <2> QED
    BY <2>1, <2>3 DEF Promise!Init
<1>2. /\ PInv /\ PInv' /\ RanInv /\ RanInv' /\ [PoolNext]_allVars
      => [Promise!Next]_<<[k \in Calls |-> outcome[k].is], [k \in Calls |-> RunsOf(k)]>>
  BY StepsKeepPromise
<1>3. PoolSpec => []RanInv
  BY RunsAre, PoolInvariance, PTL
<1> QED
  BY <1>1, <1>2, <1>3, PoolInvariance, PTL DEF PoolSpec, ImplementsCallPromise, Promise!Spec
=============================================================================
