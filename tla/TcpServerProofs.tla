--------------------------- MODULE TcpServerProofs ---------------------------
(***************************************************************************)
(* The event loop, for any number of connections, packets and faults.      *)
(* First the connection ids it tells the disconnect handler: what the      *)
(* buffers hold plays no part there.  Then the byte streams: where every   *)
(* half that was sent is, and what a peer may have read.                   *)
(***************************************************************************)
EXTENDS TcpServer, TLAPS, SequenceTheorems, WellFoundedInduction, FiniteSetTheorems


Fds == Sockets \union {Listener}

\* A connection record, whatever is in its buffers.
Shape(c) ==
  c \in [st : {"none", "queued", "open", "closed"}, id : Nat,
         buf : {c.buf}, queue : {c.queue}, armed : {c.armed}]

ShapeInv ==
  /\ peer \in [Sockets -> {"none", "up", "closing", "fin", "rst"}]
  /\ conn = [s \in Sockets |-> conn[s]] /\ \A s \in Sockets : Shape(conn[s])
  /\ batch \in [Fds -> SUBSET {"in", "out", "hup"}]
  /\ backlog \in Seq(Sockets) /\ told \in Seq(Nat) /\ nextId \in Nat \ {0}
  /\ process \in {"up", "down", "killed"}

\* A descriptor is accepted once, and events are those of open connections, also
\* after earlier events of the same epoll_wait have closed some.
LoopInv ==
  /\ \A s \in Sockets : conn[s].st # "none" => peer[s] # "none"
  /\ \A s \in Sockets : batch[s] # {} => Open(s)
  /\ \A i \in 1..Len(backlog) : conn[backlog[i]].st = "queued"
  /\ \A i, j \in 1..Len(backlog) : i # j => backlog[i] # backlog[j]
  /\ ~Alive => /\ backlog = <<>>
               /\ \A s \in Sockets : ~Open(s)
               /\ \A f \in Fds : batch[f] = {}

\* The ids below nextId are divided among the open connections and told.
IdInv ==
  /\ \A s, t \in Sockets : Open(s) /\ Open(t) /\ s # t => conn[s].id # conn[t].id
  /\ \A i, j \in 1..Len(told) : i # j => told[i] # told[j]
  /\ \A s \in Sockets : Open(s) =>
       conn[s].id \in 1..(nextId - 1) /\ \A i \in 1..Len(told) : told[i] # conn[s].id
  /\ \A i \in 1..Len(told) : told[i] \in 1..(nextId - 1)
  /\ \A n \in 1..(nextId - 1) : \/ \E s \in Sockets : Open(s) /\ conn[s].id = n
                                \/ \E i \in 1..Len(told) : told[i] = n

IInv == ShapeInv /\ LoopInv /\ (Alive => IdInv)

LEMMA InitIInv == Init => IInv
  <1> SUFFICES ASSUME Init PROVE IInv
    OBVIOUS
  <1> USE DEF Init, NoConn
  <1>1. ShapeInv
    <2>1. conn = [s \in Sockets |-> conn[s]] /\ \A s \in Sockets : conn[s] = NoConn
      OBVIOUS
    <2>2. Shape(NoConn)
      BY DEF Shape
    <2> QED
      BY <2>1, <2>2 DEF ShapeInv, Fds
  <1>2. LoopInv
    BY ListenerAssumption DEF LoopInv, Open, Alive, Fds
  <1>3. IdInv
    BY DEF IdInv, Open
  <1> QED
    BY <1>1, <1>2, <1>3 DEF IInv
-----------------------------------------------------------------------------
(* The three ways a step can change the open connections.                  *)

\* They and their ids stay.
LEMMA IdsStay ==
  ASSUME IdInv, told' = told, nextId' = nextId,
         \A s \in Sockets : Open(s)' = Open(s) /\ (Open(s) => conn'[s].id = conn[s].id)
  PROVE  IdInv'
  BY DEF IdInv

\* One is accepted.
LEMMA IdTaken ==
  ASSUME IdInv, nextId \in Nat \ {0}, NEW s \in Sockets, ~Open(s), Open(s)',
         conn'[s].id = nextId, nextId' = nextId + 1, told' = told,
         \A t \in Sockets \ {s} : conn'[t] = conn[t]
  PROVE  IdInv'
  <1>1. \A t \in Sockets \ {s} : Open(t)' = Open(t) /\ conn'[t].id = conn[t].id
    BY DEF Open
  <1>2. \A n : n \in 1..(nextId' - 1) <=> n \in 1..(nextId - 1) \/ n = nextId
    OBVIOUS
  <1>3. \A n \in 1..(nextId - 1) : n # nextId
    OBVIOUS
  <1>4. \A t, u \in Sockets : Open(t)' /\ Open(u)' /\ t # u => conn'[t].id # conn'[u].id
    BY <1>1, <1>3 DEF IdInv
  <1>5. \A t \in Sockets : Open(t)' =>
          conn'[t].id \in 1..(nextId' - 1) /\ \A i \in 1..Len(told') : told'[i] # conn'[t].id
    <2>1. nextId \in 1..(nextId' - 1) /\ \A i \in 1..Len(told) : told[i] # nextId
      BY <1>2, <1>3 DEF IdInv
    <2>2. \A t \in Sockets \ {s} : Open(t)' =>
            conn'[t].id \in 1..(nextId' - 1) /\ \A i \in 1..Len(told) : told[i] # conn'[t].id
      BY <1>1, <1>2 DEF IdInv
    <2> QED
      BY <2>1, <2>2
  <1>6. \A i \in 1..Len(told') : told'[i] \in 1..(nextId' - 1)
    BY <1>2 DEF IdInv
  <1>7. \A n \in 1..(nextId' - 1) : \/ \E t \in Sockets : Open(t)' /\ conn'[t].id = n
                                    \/ \E i \in 1..Len(told') : told'[i] = n
    <2> SUFFICES ASSUME NEW n \in 1..(nextId - 1)
                 PROVE  \/ \E t \in Sockets : Open(t)' /\ conn'[t].id = n
                        \/ \E i \in 1..Len(told) : told[i] = n
      BY <1>2
    <2>1. CASE \E t \in Sockets : Open(t) /\ conn[t].id = n
      BY <1>1, <2>1
    <2> QED
      BY <2>1 DEF IdInv
  <1> QED
    BY <1>4, <1>5, <1>6, <1>7 DEF IdInv

\* One is closed, and its id told.
LEMMA IdTold ==
  ASSUME IdInv, told \in Seq(Nat), NEW s \in Sockets, Open(s), ~Open(s)',
         conn[s].id \in Nat, nextId' = nextId, told' = Append(told, conn[s].id),
         \A t \in Sockets \ {s} : conn'[t] = conn[t]
  PROVE  IdInv'
  <1>1. \A t \in Sockets \ {s} : Open(t)' = Open(t) /\ conn'[t].id = conn[t].id
    BY DEF Open
  <1>2. /\ Len(told) \in Nat /\ Len(told') = Len(told) + 1
        /\ told'[Len(told) + 1] = conn[s].id
        /\ \A i \in 1..Len(told) : told'[i] = told[i]
    OBVIOUS
  <1>3. /\ \A i \in 1..Len(told') : i \in 1..Len(told) \/ i = Len(told) + 1
        /\ \A i \in 1..Len(told) : i \in 1..Len(told') /\ i # Len(told) + 1
        /\ Len(told) + 1 \in 1..Len(told')
    BY <1>2
  <1>4. \A i, j \in 1..Len(told') : i # j => told'[i] # told'[j]
    BY <1>2, <1>3 DEF IdInv
  <1>5. \A t \in Sockets : Open(t)' =>
          /\ conn'[t].id \in 1..(nextId' - 1)
          /\ \A i \in 1..Len(told') : told'[i] # conn'[t].id
    BY <1>1, <1>2, <1>3 DEF IdInv
  <1>6. \A i \in 1..Len(told') : told'[i] \in 1..(nextId' - 1)
    BY <1>2, <1>3 DEF IdInv
  <1>7. \A n \in 1..(nextId' - 1) : \/ \E t \in Sockets : Open(t)' /\ conn'[t].id = n
                                    \/ \E i \in 1..Len(told') : told'[i] = n
    <2> SUFFICES ASSUME NEW n \in 1..(nextId - 1)
                 PROVE  \/ \E t \in Sockets : Open(t)' /\ conn'[t].id = n
                        \/ \E i \in 1..Len(told') : told'[i] = n
      OBVIOUS
    <2>1. CASE n = conn[s].id
      BY <1>2, <1>3, <2>1
    <2>2. CASE \E i \in 1..Len(told) : told[i] = n
      BY <1>2, <1>3, <2>2
    <2>3. CASE \E t \in Sockets \ {s} : Open(t) /\ conn[t].id = n
      BY <1>1, <2>3
    <2> QED
      BY <2>1, <2>2, <2>3 DEF IdInv
  <1>8. \A t, u \in Sockets : Open(t)' /\ Open(u)' /\ t # u => conn'[t].id # conn'[u].id
    BY <1>1 DEF IdInv
  <1> QED
    BY <1>4, <1>5, <1>6, <1>7, <1>8 DEF IdInv
-----------------------------------------------------------------------------
(* Steps                                                                   *)

\* The record of one connection is replaced.
LEMMA ConnSet ==
  ASSUME ShapeInv, NEW s \in Sockets, NEW c, Shape(c), conn' = [conn EXCEPT ![s] = c]
  PROVE  /\ conn' = [t \in Sockets |-> conn'[t]] /\ \A t \in Sockets : Shape(conn'[t])
         /\ conn'[s] = c
         /\ \A t \in Sockets \ {s} : conn'[t] = conn[t]
  <1>1. /\ conn'[s] = c /\ \A t \in Sockets \ {s} : conn'[t] = conn[t]
        /\ conn' = [t \in Sockets |-> conn'[t]]
    BY DEF ShapeInv
  <1> QED
    BY <1>1 DEF ShapeInv

\* Peers write, read and leave.
LEMMA PeerKeeps ==
  ASSUME IInv, serverVars' = serverVars,
         peer' \in [Sockets -> {"none", "up", "closing", "fin", "rst"}],
         \A s \in Sockets : peer[s] # "none" => peer'[s] # "none"
  PROVE  IInv'
  <1> USE DEF IInv, serverVars
  <1>1. ShapeInv'
    BY DEF ShapeInv, Shape
  <1>2. LoopInv'
    BY DEF LoopInv, Open, Alive
  <1>3. Alive' => IdInv'
    BY IdsStay DEF Alive, Open
  <1> QED
    BY <1>1, <1>2, <1>3

LEMMA ConnectKeeps ==
  ASSUME IInv, NEW s \in Sockets, PeerConnect(s)
  PROVE  IInv'
  <1> DEFINE c == [conn[s] EXCEPT !.st = "queued"]
  <1>1. ShapeInv /\ LoopInv /\ IdInv /\ Shape(conn[s])
    BY DEF IInv, PeerConnect, ShapeInv
  <1>2. Shape(c) /\ c.st = "queued" /\ c.id = conn[s].id /\ conn' = [conn EXCEPT ![s] = c]
    BY <1>1 DEF PeerConnect, Shape, ShapeInv
  <1> HIDE DEF c
  <1>3. /\ conn' = [t \in Sockets |-> conn'[t]] /\ \A t \in Sockets : Shape(conn'[t])
        /\ conn'[s] = c /\ \A t \in Sockets \ {s} : conn'[t] = conn[t]
    BY <1>1, <1>2, ConnSet
  <1>4. conn[s].st = "none" /\ ~Open(s) /\ ~Open(s)'
    BY <1>1, <1>2, <1>3 DEF PeerConnect, LoopInv, Open
  <1>5. ShapeInv'
    <2>1. backlog' \in Seq(Sockets)
      BY <1>1 DEF ShapeInv, PeerConnect
    <2>2. peer' \in [Sockets -> {"none", "up", "closing", "fin", "rst"}]
      BY <1>1 DEF ShapeInv, PeerConnect
    <2>3. UNCHANGED <<batch, nextId, process, told>>
      BY DEF PeerConnect
    <2> QED
      BY <1>1, <1>3, <2>1, <2>2, <2>3 DEF ShapeInv
  <1>6. /\ Len(backlog) \in Nat /\ Len(backlog') = Len(backlog) + 1
        /\ backlog'[Len(backlog) + 1] = s
        /\ \A i \in 1..Len(backlog) : backlog'[i] = backlog[i] /\ backlog[i] \in Sockets \ {s}
    <2>1. \A i \in 1..Len(backlog) : backlog[i] \in Sockets /\ backlog[i] # s
      BY <1>1, <1>4 DEF ShapeInv, LoopInv
    <2> QED
      BY <1>1, <2>1 DEF ShapeInv, PeerConnect
  <1>7. LoopInv'
    <2>1. \A t \in Sockets : conn'[t].st # "none" => peer'[t] # "none"
      BY <1>1, <1>3 DEF LoopInv, ShapeInv, PeerConnect
    <2>2. \A t \in Sockets : Open(t)' = Open(t)
      BY <1>3, <1>4 DEF Open
    <2>3. \A i \in 1..Len(backlog') : conn'[backlog'[i]].st = "queued"
      BY <1>1, <1>2, <1>3, <1>6 DEF LoopInv
    <2>4. \A i, j \in 1..Len(backlog') : i # j => backlog'[i] # backlog'[j]
      BY <1>1, <1>6 DEF LoopInv
    <2> QED
      BY <1>1, <2>1, <2>2, <2>3, <2>4 DEF LoopInv, PeerConnect, Alive
  <1>8. IdInv'
    BY <1>1, <1>3, <1>4, IdsStay DEF PeerConnect, Open
  <1> QED
    BY <1>5, <1>7, <1>8 DEF IInv

LEMMA WaitKeeps ==
  ASSUME IInv, EpollWait
  PROVE  IInv'
  <1> USE DEF IInv
  <1>1. DOMAIN batch = Fds
    BY DEF ShapeInv
  <1>2. \A f \in Fds : Events(f) \in SUBSET {"in", "out", "hup"}
    BY DEF Events
  <1>3. \A s \in Sockets : Events(s) # {} => Open(s)
    BY ListenerAssumption DEF Events
  <1>4. batch' = [f \in Fds |-> Events(f)]
    BY <1>1 DEF EpollWait
  <1>5. ShapeInv'
    BY <1>2, <1>4 DEF EpollWait, ShapeInv, kernelVars, Shape
  <1>6. LoopInv'
    BY <1>3, <1>4 DEF EpollWait, LoopInv, kernelVars, Open, Alive, Fds
  <1>7. IdInv'
    BY IdsStay DEF EpollWait, Open
  <1> QED
    BY <1>5, <1>6, <1>7

LEMMA AcceptKeeps ==
  ASSUME IInv, Accept
  PROVE  IInv'
  <1> DEFINE c == [NoConn EXCEPT !.st = "open", !.id = nextId]
  <1>1. ShapeInv /\ LoopInv /\ backlog # <<>> /\ backlog \in Seq(Sockets)
    BY DEF IInv, Accept, ShapeInv
  <1>s. PICK s \in Sockets : s = Head(backlog)
    BY <1>1
  <1>2. Alive /\ IdInv
    BY <1>1 DEF IInv, LoopInv
  <1>3. /\ s = backlog[1] /\ Len(backlog) \in Nat \ {0}
        /\ Tail(backlog) \in Seq(Sockets) /\ Len(Tail(backlog)) = Len(backlog) - 1
        /\ \A i \in 1..Len(Tail(backlog)) : Tail(backlog)[i] = backlog[i + 1]
    BY <1>1, <1>s
  <1>4. Shape(c) /\ c.st = "open" /\ c.id = nextId /\ conn' = [conn EXCEPT ![s] = c]
    BY <1>1, <1>s DEF Accept, Shape, NoConn, ShapeInv
  <1>5. backlog' = Tail(backlog) /\ nextId' = nextId + 1
        /\ UNCHANGED <<peer, process, told>>
    BY DEF Accept, kernelVars
  <1>6. /\ batch' \in [Fds -> SUBSET {"in", "out", "hup"}]
        /\ \A t \in Sockets : batch'[t] = batch[t]
    BY <1>1, ListenerAssumption DEF Accept, ShapeInv, Fds
  <1> HIDE DEF c
  <1>7. /\ conn' = [t \in Sockets |-> conn'[t]] /\ \A t \in Sockets : Shape(conn'[t])
        /\ conn'[s] = c /\ \A t \in Sockets \ {s} : conn'[t] = conn[t]
    BY <1>1, <1>3, <1>4, ConnSet
  <1>8. conn[s].st = "queued" /\ ~Open(s) /\ Open(s)' /\ peer[s] # "none"
    <2>1. 1 \in 1..Len(backlog)
      BY <1>3
    <2>2. conn[s].st = "queued"
      BY <1>1, <1>3, <2>1 DEF LoopInv
    <2>3. peer[s] # "none"
      BY <1>1, <1>3, <2>2 DEF LoopInv
    <2>4. ~Open(s) /\ Open(s)'
      BY <1>4, <1>7, <2>2 DEF Open
    <2> QED
      BY <2>2, <2>3, <2>4
  <1>9. ShapeInv'
    BY <1>1, <1>3, <1>5, <1>6, <1>7 DEF ShapeInv
  <1>10. LoopInv'
    <2>1. \A i \in 1..Len(backlog') : i + 1 \in 1..Len(backlog) /\ backlog'[i] = backlog[i + 1]
      BY <1>3, <1>5
    <2>2. \A i \in 1..Len(backlog') : conn'[backlog'[i]].st = "queued"
      <3> SUFFICES ASSUME NEW i \in 1..Len(backlog') PROVE conn'[backlog'[i]].st = "queued"
        OBVIOUS
      <3>1. backlog'[i] # s /\ backlog'[i] \in Sockets
        BY <1>1, <1>3, <2>1 DEF LoopInv
      <3> QED
        BY <1>1, <1>7, <2>1, <3>1 DEF LoopInv
    <2>3. \A i, j \in 1..Len(backlog') : i # j => backlog'[i] # backlog'[j]
      BY <1>1, <2>1 DEF LoopInv
    <2>4. \A t \in Sockets : batch'[t] # {} => Open(t)'
      BY <1>1, <1>6, <1>7, <1>8 DEF LoopInv, Open
    <2>5. \A t \in Sockets : conn'[t].st # "none" => peer'[t] # "none"
      BY <1>1, <1>5, <1>7, <1>8 DEF LoopInv
    <2> QED
      BY <1>2, <1>5, <2>2, <2>3, <2>4, <2>5 DEF LoopInv, Alive
  <1>11. IdInv'
    <2>1. nextId \in Nat \ {0}
      BY <1>1 DEF ShapeInv
    <2>2. conn'[s].id = nextId
      BY <1>4, <1>7
    <2>3. nextId' = nextId + 1 /\ told' = told
      BY <1>5
    <2>4. s \in Sockets /\ ~Open(s) /\ Open(s)'
      BY <1>3, <1>8
    <2>5. \A t \in Sockets \ {s} : conn'[t] = conn[t]
      BY <1>7
    <2> QED
      BY <1>2, <2>1, <2>2, <2>3, <2>4, <2>5, IdTaken
  <1> QED
    BY <1>9, <1>10, <1>11 DEF IInv

\* An open connection reads or writes and stays.
LEMMA TrafficKeeps ==
  ASSUME IInv, NEW s \in Sockets, Open(s), NEW c, Shape(c), c.st = "open", c.id = conn[s].id,
         conn' = [conn EXCEPT ![s] = c],
         NEW left \in SUBSET {"in", "out", "hup"}, batch' = [batch EXCEPT ![s] = left],
         peer' \in [Sockets -> {"none", "up", "closing", "fin", "rst"}],
         \A t \in Sockets : peer[t] # "none" => peer'[t] # "none",
         UNCHANGED <<backlog, nextId, process, told>>
  PROVE  IInv'
  <1>1. ShapeInv /\ LoopInv
    BY DEF IInv
  <1>2. /\ conn' = [t \in Sockets |-> conn'[t]] /\ \A t \in Sockets : Shape(conn'[t])
        /\ conn'[s] = c /\ \A t \in Sockets \ {s} : conn'[t] = conn[t]
    BY <1>1, ConnSet
  <1>3. /\ batch' \in [Fds -> SUBSET {"in", "out", "hup"}]
        /\ \A f \in Fds \ {s} : batch'[f] = batch[f]
    BY <1>1 DEF ShapeInv, Fds
  <1>4. \A t \in Sockets : Open(t)' = Open(t) /\ conn'[t].st = conn[t].st
                           /\ conn'[t].id = conn[t].id
    BY <1>2 DEF Open
  <1>5. Alive
    BY <1>1 DEF LoopInv
  <1>6. ShapeInv'
    BY <1>1, <1>2, <1>3 DEF ShapeInv
  <1>7. LoopInv'
    <2>1. \A i \in 1..Len(backlog) : backlog[i] \in Sockets
      BY <1>1 DEF ShapeInv
    <2>2. \A t \in Sockets : batch'[t] # {} => Open(t)'
      BY <1>1, <1>3, <1>4 DEF LoopInv, Fds
    <2> QED
      BY <1>1, <1>4, <1>5, <2>1, <2>2 DEF LoopInv, Alive
  <1>8. IdInv'
    BY <1>4, <1>5, IdsStay DEF IInv
  <1> QED
    BY <1>6, <1>7, <1>8 DEF IInv

LEMMA CloseKeeps ==
  ASSUME IInv, NEW s \in Sockets, Open(s), CloseConnection(s),
         UNCHANGED <<peer, backlog, nextId, process>>
  PROVE  IInv'
  <1>1. ShapeInv /\ LoopInv /\ Alive /\ IdInv
    BY DEF IInv, LoopInv
  <1>2. Shape(Closed) /\ Closed.st = "closed" /\ conn' = [conn EXCEPT ![s] = Closed]
    BY DEF Closed, NoConn, Shape, CloseConnection
  <1>3. /\ conn' = [t \in Sockets |-> conn'[t]] /\ \A t \in Sockets : Shape(conn'[t])
        /\ conn'[s] = Closed /\ \A t \in Sockets \ {s} : conn'[t] = conn[t]
    BY <1>1, <1>2, ConnSet
  <1>4. /\ batch' \in [Fds -> SUBSET {"in", "out", "hup"}] /\ batch'[s] = {}
        /\ \A f \in Fds \ {s} : batch'[f] = batch[f]
    BY <1>1 DEF ShapeInv, Fds, CloseConnection
  <1>5. ~Open(s)' /\ conn[s].id \in Nat /\ told' = Append(told, conn[s].id)
    BY <1>1, <1>2, <1>3 DEF Open, ShapeInv, Shape, CloseConnection
  <1>6. ShapeInv'
    BY <1>1, <1>3, <1>4, <1>5 DEF ShapeInv
  <1>7. LoopInv'
    <2>1. \A i \in 1..Len(backlog) : backlog[i] \in Sockets \ {s}
      BY <1>1 DEF ShapeInv, LoopInv, Open
    <2>2. \A t \in Sockets : batch'[t] # {} => Open(t)'
      BY <1>1, <1>3, <1>4 DEF LoopInv, Fds, Open
    <2>3. \A t \in Sockets : conn'[t].st # "none" => peer'[t] # "none"
      BY <1>1, <1>3 DEF LoopInv, Open
    <2> QED
      BY <1>1, <1>3, <2>1, <2>2, <2>3 DEF LoopInv, Alive
  <1>8. IdInv'
    BY <1>1, <1>3, <1>5, IdTold DEF ShapeInv
  <1> QED
    BY <1>6, <1>7, <1>8 DEF IInv

LEMMA DieKeeps ==
  ASSUME IInv, NEW how \in {"down", "killed"}, Die(how), UNCHANGED <<peer, nextId, told>>
  PROVE  IInv'
  <1>1. ShapeInv /\ LoopInv
    BY DEF IInv
  <1>2. conn' = [s \in Sockets |-> IF conn[s].st = "none" THEN NoConn ELSE Closed]
    BY DEF Die
  <1>3. /\ conn' = [s \in Sockets |-> conn'[s]]
        /\ \A s \in Sockets : conn'[s] \in {NoConn, Closed}
        /\ \A s \in Sockets : conn[s].st = "none" => conn'[s] = NoConn
    BY <1>2
  <1>4. Shape(NoConn) /\ Shape(Closed) /\ NoConn.st = "none" /\ Closed.st = "closed"
    BY DEF NoConn, Closed, Shape
  <1>5. batch' = [f \in Fds |-> {}] /\ backlog' = <<>> /\ process' = how
    BY <1>1 DEF Die, ShapeInv
  <1>6. ShapeInv'
    BY <1>1, <1>3, <1>4, <1>5 DEF ShapeInv
  <1>7. LoopInv'
    BY <1>1, <1>3, <1>4, <1>5 DEF LoopInv, Open, Fds
  <1> QED
    BY <1>5, <1>6, <1>7 DEF IInv, Alive

\* A new process counts from 1, with no connection and nothing told.
LEMMA RestartKeeps ==
  ASSUME IInv, Restart
  PROVE  IInv'
  <1>1. ShapeInv /\ LoopInv /\ \A s \in Sockets : ~Open(s)
    BY DEF IInv, LoopInv, Restart
  <1>2. /\ UNCHANGED <<peer, conn, batch, backlog>>
        /\ process' = "up" /\ nextId' = 1 /\ told' = <<>>
    BY DEF Restart, kernelVars
  <1>3. ShapeInv'
    BY <1>1, <1>2 DEF ShapeInv
  <1>4. LoopInv'
    BY <1>1, <1>2 DEF LoopInv, Open, Alive
  <1>5. IdInv'
    <2>1. \A s \in Sockets : ~Open(s)'
      BY <1>1, <1>2 DEF Open
    <2> QED
      BY <1>2, <2>1 DEF IdInv
  <1> QED
    BY <1>3, <1>4, <1>5 DEF IInv
-----------------------------------------------------------------------------
(* The whole                                                               *)

LEMMA ReadKeeps ==
  ASSUME IInv, NEW s \in Sockets, HandleRead(s)
  PROVE  IInv'
  <1>1. ShapeInv /\ Open(s)
    BY DEF IInv, LoopInv, HandleRead
  <1>2. UNCHANGED <<peer, backlog, nextId, process>>
    BY DEF HandleRead
  <1>3. CASE Gone(s) /\ CloseConnection(s)
    BY <1>1, <1>2, <1>3, CloseKeeps
  <1>4. CASE ~Gone(s)
    <2>1. PICK n \in 1..Len(in[s]) :
            LET b == conn[s].buf \o SubSeq(in[s], 1, n) IN
            conn' = [conn EXCEPT ![s] =
                       QueueResponses([conn[s] EXCEPT !.buf = Rest(b)], Packets(b))]
      BY <1>4 DEF HandleRead
    <2> DEFINE b == conn[s].buf \o SubSeq(in[s], 1, n)
               c == QueueResponses([conn[s] EXCEPT !.buf = Rest(b)], Packets(b))
    <2>2. conn' = [conn EXCEPT ![s] = c]
      BY <2>1
    <2> HIDE DEF b
    <2>3. Shape(c) /\ c.st = "open" /\ c.id = conn[s].id
      BY <1>1 DEF ShapeInv, Shape, Open, QueueResponses
    <2> HIDE DEF c
    <2> DEFINE left == batch[s] \ {"in"}
    <2>4. batch' = [batch EXCEPT ![s] = left] /\ told' = told
      BY <1>4 DEF HandleRead
    <2>5. left \in SUBSET {"in", "out", "hup"}
      BY <1>1 DEF ShapeInv, Fds
    <2> HIDE DEF left
    <2>6. /\ peer' \in [Sockets -> {"none", "up", "closing", "fin", "rst"}]
          /\ \A t \in Sockets : peer[t] # "none" => peer'[t] # "none"
      BY <1>1, <1>2 DEF ShapeInv
    <2> QED
      BY <1>1, <1>2, <2>2, <2>3, <2>4, <2>5, <2>6, TrafficKeeps
  <1> QED
    BY <1>3, <1>4 DEF HandleRead

LEMMA SendKeeps ==
  ASSUME IInv, NEW s \in Sockets, Open(s), NEW n, Send(s, n),
         batch' = [batch EXCEPT ![s] = {}],
         peer' \in [Sockets -> {"none", "up", "closing", "fin", "rst"}],
         \A t \in Sockets : peer[t] # "none" => peer'[t] # "none",
         UNCHANGED <<backlog, nextId, process, told>>
  PROVE  IInv'
  <1> DEFINE rest == SubSeq(conn[s].queue, n + 1, Len(conn[s].queue))
             c == [conn[s] EXCEPT !.queue = rest, !.armed = rest # <<>>]
  <1>1. ShapeInv
    BY DEF IInv
  <1>2. conn' = [conn EXCEPT ![s] = c]
    BY <1>1 DEF Send, ShapeInv
  <1> HIDE DEF rest
  <1>3. Shape(c) /\ c.st = "open" /\ c.id = conn[s].id
    BY <1>1 DEF ShapeInv, Shape, Open
  <1> HIDE DEF c
  <1> QED
    BY <1>2, <1>3, TrafficKeeps

LEMMA WriteKeeps ==
  ASSUME IInv, NEW s \in Sockets, HandleWrite(s)
  PROVE  IInv'
  <1>1. ShapeInv /\ Open(s) /\ nextId' = nextId
    BY DEF IInv, LoopInv, HandleWrite
  <1>2. CASE /\ ~Gone(s) /\ Send(s, Sendable(s)) /\ batch' = [batch EXCEPT ![s] = {}]
             /\ UNCHANGED <<peer, backlog, process, told>>
    <2>1. /\ peer' \in [Sockets -> {"none", "up", "closing", "fin", "rst"}]
          /\ \A t \in Sockets : peer[t] # "none" => peer'[t] # "none"
      BY <1>1, <1>2 DEF ShapeInv
    <2> QED
      BY <1>1, <1>2, <2>1, SendKeeps
  <1>3. CASE /\ Send(s, Sendable(s)) /\ peer' = [peer EXCEPT ![s] = "rst"]
             /\ batch' = [batch EXCEPT ![s] = {}]
             /\ UNCHANGED <<backlog, process, told>>
    <2>1. /\ peer' \in [Sockets -> {"none", "up", "closing", "fin", "rst"}]
          /\ \A t \in Sockets : peer[t] # "none" => peer'[t] # "none"
      BY <1>1, <1>3 DEF ShapeInv
    <2> QED
      BY <1>1, <1>3, <2>1, SendKeeps
  <1>4. CASE Die("killed") /\ UNCHANGED <<peer, told>>
    BY <1>1, <1>4, DieKeeps
  <1>5. CASE CloseConnection(s) /\ UNCHANGED <<peer, backlog, process>>
    BY <1>1, <1>5, CloseKeeps
  <1> QED
    BY <1>2, <1>3, <1>4, <1>5 DEF HandleWrite

LEMMA PeerStepKeeps ==
  ASSUME IInv, NEW s \in Sockets, PeerStep(s)
  PROVE  IInv'
  <1>1. ShapeInv
    BY DEF IInv
  <1>2. CASE PeerConnect(s)
    BY <1>2, ConnectKeeps
  <1>3. CASE UNCHANGED <<peer, serverVars>>
    <2>1. /\ peer' \in [Sockets -> {"none", "up", "closing", "fin", "rst"}]
          /\ \A t \in Sockets : peer[t] # "none" => peer'[t] # "none"
      BY <1>1, <1>3 DEF ShapeInv
    <2> QED
      BY <1>3, <2>1, PeerKeeps
  <1>4. CASE PeerClose(s) \/ CloseArrives(s)
    <2>1. /\ peer' \in [Sockets -> {"none", "up", "closing", "fin", "rst"}]
          /\ \A t \in Sockets : peer[t] # "none" => peer'[t] # "none"
      BY <1>1, <1>4 DEF ShapeInv, PeerClose, CloseArrives
    <2>2. serverVars' = serverVars
      BY <1>4 DEF PeerClose, CloseArrives
    <2> QED
      BY <2>1, <2>2, PeerKeeps
  <1> QED
    BY <1>2, <1>3, <1>4 DEF PeerStep, PeerJunk, PeerSend, PeerWrites, PeerRecv

LEMMA NextKeeps == IInv /\ [Next]_vars => IInv'
  <1> SUFFICES ASSUME IInv, [Next]_vars PROVE IInv'
    OBVIOUS
  <1>1. CASE EpollWait
    BY <1>1, WaitKeeps
  <1>2. CASE Accept
    BY <1>2, AcceptKeeps
  <1>3. CASE \E s \in Sockets : Hangup(s)
    <2>1. PICK s \in Sockets : Hangup(s)
      BY <1>3
    <2>2. Open(s) /\ CloseConnection(s) /\ UNCHANGED <<peer, backlog, nextId, process>>
      BY <2>1 DEF IInv, LoopInv, Hangup, kernelVars
    <2> QED
      BY <2>2, CloseKeeps
  <1>4. CASE \E s \in Sockets : HandleRead(s)
    BY <1>4, ReadKeeps
  <1>5. CASE \E s \in Sockets : HandleWrite(s)
    BY <1>5, WriteKeeps
  <1>6. CASE Failure
    <2>1. Die("down") /\ UNCHANGED <<peer, nextId, told>>
      BY <1>6 DEF Failure, AcceptFails, Crash, kernelVars
    <2> QED
      BY <2>1, DieKeeps
  <1>7. CASE Restart
    BY <1>7, RestartKeeps
  <1>8. CASE \E s \in Sockets : PeerStep(s)
    BY <1>8, PeerStepKeeps
  <1>9. CASE UNCHANGED vars
    <2>1. serverVars' = serverVars /\ peer' = peer
      BY <1>9 DEF vars, kernelVars
    <2>2. peer \in [Sockets -> {"none", "up", "closing", "fin", "rst"}]
      BY DEF IInv, ShapeInv
    <2> QED
      BY <2>1, <2>2, PeerKeeps
  <1> QED
    BY <1>1, <1>2, <1>3, <1>4, <1>5, <1>6, <1>7, <1>8, <1>9
    DEF Next, ServerNext, Loop, ConnectionEvent

LEMMA IInvGives == IInv => DisconnectToldOnce
  <1> SUFFICES ASSUME IInv, Alive PROVE DisconnectToldOnce
    BY DEF DisconnectToldOnce
  <1> DEFINE open == {s \in Sockets : Open(s)}
             ids == {conn[s].id : s \in open}
             ended == {told[i] : i \in 1..Len(told)}
  <1>1. IdInv
    BY DEF IInv
  <1>2. ids \intersect ended = {}
    BY <1>1 DEF IdInv
  <1>3. ids \union ended \subseteq 1..(nextId - 1)
    BY <1>1 DEF IdInv
  <1>4. 1..(nextId - 1) \subseteq ids \union ended
    BY <1>1 DEF IdInv
  <1>5. /\ \A s, t \in open : s # t => conn[s].id # conn[t].id
        /\ \A i, j \in 1..Len(told) : i # j => told[i] # told[j]
    BY <1>1 DEF IdInv
  <1> QED
    BY <1>2, <1>3, <1>4, <1>5 DEF DisconnectToldOnce

\* While a process runs, each connection it accepted is open or its end was told
\* to the disconnect handler, once, and no id is used for two: however the peers
\* connect, send and leave, and wherever in a round of events a connection ends.
THEOREM ConnectionsEndOnce == Spec => []DisconnectToldOnce
  <1>1. Spec => []IInv
    BY InitIInv, NextKeeps, PTL DEF Spec
  <1> QED
    BY <1>1, IInvGives, PTL

-----------------------------------------------------------------------------
(* Sequences and packets                                                   *)

\* What induction is here: a set of numbers that is not empty has a least one.
LEMMA LeastNumber ==
  ASSUME NEW T \in SUBSET Nat, T # {}
  PROVE  \E n \in T : \A m \in T : n <= m
  <1>1. \E x \in T : \A y \in T : ~ (<<y, x>> \in OpToRel(<, Nat))
    BY WFMin, NatLessThanWellFounded
  <1>2. \A x, y \in T : <<y, x>> \in OpToRel(<, Nat) <=> y < x
    BY DEF OpToRel
  <1>3. \E x \in T : \A y \in T : ~ (y < x)
    BY <1>1, <1>2, Zenon
  <1>4. \A x, y \in T : ~(y < x) => x <= y
    OBVIOUS
  <1> QED
    BY <1>3, <1>4, Zenon

\* What is taken from the front of a queue and what stays there.
LEMMA Cut ==
  ASSUME NEW S, NEW q \in Seq(S), NEW n \in 0..Len(q)
  PROVE  /\ SubSeq(q, 1, n) \in Seq(S) /\ SubSeq(q, n + 1, Len(q)) \in Seq(S)
         /\ Len(SubSeq(q, 1, n)) = n /\ Len(SubSeq(q, n + 1, Len(q))) = Len(q) - n
         /\ \A i \in 1..n : SubSeq(q, 1, n)[i] = q[i]
         /\ \A i \in 1..(Len(q) - n) : SubSeq(q, n + 1, Len(q))[i] = q[n + i]
         /\ SubSeq(q, 1, n) \o SubSeq(q, n + 1, Len(q)) = q
  <1>1. Len(q) \in Nat /\ \A i \in 1..Len(q) : q[i] \in S
    BY ElementOfSeq, LenProperties
  <1>2. /\ SubSeq(q, 1, n) \in Seq(S) /\ Len(SubSeq(q, 1, n)) = n
        /\ \A i \in 1..n : SubSeq(q, 1, n)[i] = q[i]
    BY <1>1, SubSeqProperties
  <1>3. /\ SubSeq(q, n + 1, Len(q)) \in Seq(S) /\ Len(SubSeq(q, n + 1, Len(q))) = Len(q) - n
        /\ \A i \in 1..(Len(q) - n) : SubSeq(q, n + 1, Len(q))[i] = q[n + i]
    BY <1>1, SubSeqProperties
  <1>4. SubSeq(q, 1, n) \o SubSeq(q, n + 1, Len(q)) = q
    <2>1. 1 \in 1..(Len(q) + 1) /\ n \in (1 - 1)..Len(q) /\ Len(q) \in n..Len(q)
      BY <1>1
    <2>2. SubSeq(q, 1, n) \o SubSeq(q, n + 1, Len(q)) = SubSeq(q, 1, Len(q))
      BY <2>1, ConcatAdjacentSubSeq
    <2> QED
      BY <2>2, SubSeqFull
  <1> QED
    BY <1>2, <1>3, <1>4

\* The two halves of packet k are at 2k - 1 and 2k.
LEMMA PairedIndex ==
  ASSUME NEW n \in Nat, NEW i \in 1..(2 * n)
  PROVE  /\ (i + 1) \div 2 \in 1..n
         /\ i % 2 = 1 => i = 2 * ((i + 1) \div 2) - 1
         /\ i % 2 # 1 => i = 2 * ((i + 1) \div 2)
  OBVIOUS

LEMMA PairedShift ==
  ASSUME NEW n \in Nat, NEW i \in Nat
  PROVE  (i + 2 * n + 1) \div 2 = (i + 1) \div 2 + n /\ (i + 2 * n) % 2 = i % 2
  OBVIOUS

\* EncodePacket, at the two halves of each packet.
LEMMA HalvesAt ==
  ASSUME NEW S, NEW ps \in Seq(S)
  PROVE  /\ Halves(ps) \in Seq(S \X {"head", "body"})
         /\ Len(Halves(ps)) = 2 * Len(ps)
         /\ \A i \in 1..Len(ps) : /\ Halves(ps)[2 * i - 1] = <<ps[i], "head">>
                                  /\ Halves(ps)[2 * i] = <<ps[i], "body">>
         /\ \A i \in 1..(2 * Len(ps)) :
              Halves(ps)[i] = <<ps[(i + 1) \div 2], IF i % 2 = 1 THEN "head" ELSE "body">>
  <1>1. Len(ps) \in Nat /\ \A i \in 1..Len(ps) : ps[i] \in S
    BY ElementOfSeq, LenProperties
  <1>2. \A i \in 1..(2 * Len(ps)) : (i + 1) \div 2 \in 1..Len(ps)
    BY <1>1, PairedIndex
  <1>3. Halves(ps) \in Seq(S \X {"head", "body"})
    BY <1>1, <1>2 DEF Halves
  <1>4. Len(Halves(ps)) = 2 * Len(ps)
    BY <1>1 DEF Halves
  <1>5. \A i \in 1..(2 * Len(ps)) :
          Halves(ps)[i] = <<ps[(i + 1) \div 2], IF i % 2 = 1 THEN "head" ELSE "body">>
    BY DEF Halves
  <1>6. \A i \in 1..Len(ps) : /\ 2 * i \in 1..(2 * Len(ps)) /\ 2 * i - 1 \in 1..(2 * Len(ps))
                              /\ (2 * i + 1) \div 2 = i /\ (2 * i - 1 + 1) \div 2 = i
                              /\ (2 * i) % 2 # 1 /\ (2 * i - 1) % 2 = 1
    BY <1>1
  <1> QED
    BY <1>3, <1>4, <1>5, <1>6

\* Packets encoded together or one after the other.
LEMMA HalvesOfConcat ==
  ASSUME NEW S, NEW ps \in Seq(S), NEW qs \in Seq(S)
  PROVE  Halves(ps \o qs) = Halves(ps) \o Halves(qs)
  <1> DEFINE T == S \X {"head", "body"}
             l == Halves(ps \o qs)
             r == Halves(ps) \o Halves(qs)
  <1>1. /\ Len(ps) \in Nat /\ Len(qs) \in Nat
        /\ ps \o qs \in Seq(S) /\ Len(ps \o qs) = Len(ps) + Len(qs)
        /\ \A i \in 1..(Len(ps) + Len(qs)) :
             (ps \o qs)[i] = IF i <= Len(ps) THEN ps[i] ELSE qs[i - Len(ps)]
    BY ConcatProperties, LenProperties
  <1>2. /\ l \in Seq(T) /\ Len(l) = 2 * (Len(ps) + Len(qs))
        /\ \A i \in 1..(2 * (Len(ps) + Len(qs))) :
             l[i] = <<(ps \o qs)[(i + 1) \div 2], IF i % 2 = 1 THEN "head" ELSE "body">>
    BY <1>1, HalvesAt
  <1>3. /\ Halves(ps) \in Seq(T) /\ Len(Halves(ps)) = 2 * Len(ps)
        /\ Halves(qs) \in Seq(T) /\ Len(Halves(qs)) = 2 * Len(qs)
    BY HalvesAt
  <1>4. /\ r \in Seq(T) /\ Len(r) = 2 * Len(ps) + 2 * Len(qs)
        /\ \A i \in 1..(2 * Len(ps) + 2 * Len(qs)) :
             r[i] = IF i <= 2 * Len(ps) THEN Halves(ps)[i] ELSE Halves(qs)[i - 2 * Len(ps)]
    <2> DEFINE a == Halves(ps)
               b == Halves(qs)
    <2>1. a \in Seq(T) /\ b \in Seq(T) /\ Len(a) = 2 * Len(ps) /\ Len(b) = 2 * Len(qs)
      BY <1>3
    <2> HIDE DEF T, a, b
    <2>2. /\ a \o b \in Seq(T) /\ Len(a \o b) = Len(a) + Len(b)
          /\ \A i \in 1..(Len(a) + Len(b)) :
               (a \o b)[i] = IF i <= Len(a) THEN a[i] ELSE b[i - Len(a)]
      BY <2>1, ConcatProperties
    <2>3. /\ a \o b \in Seq(T) /\ Len(a \o b) = 2 * Len(ps) + 2 * Len(qs)
          /\ \A i \in 1..(2 * Len(ps) + 2 * Len(qs)) :
               (a \o b)[i] = IF i <= 2 * Len(ps) THEN a[i] ELSE b[i - 2 * Len(ps)]
      BY <2>1, <2>2
    <2> QED
      BY <2>3 DEF a, b
  <1>5. ASSUME NEW i \in 1..(2 * (Len(ps) + Len(qs))) PROVE l[i] = r[i]
    <2>1. CASE i <= 2 * Len(ps)
      <3>1. i \in 1..(2 * Len(ps)) /\ (i + 1) \div 2 \in 1..Len(ps)
        BY <1>1, <2>1, PairedIndex
      <3>2. Halves(ps)[i] = <<ps[(i + 1) \div 2], IF i % 2 = 1 THEN "head" ELSE "body">>
        BY <3>1, HalvesAt
      <3>3. r[i] = Halves(ps)[i]
        BY <1>1, <1>4, <2>1
      <3>4. (ps \o qs)[(i + 1) \div 2] = ps[(i + 1) \div 2]
        BY <1>1, <3>1
      <3> QED
        BY <1>2, <3>2, <3>3, <3>4
    <2>2. CASE i > 2 * Len(ps)
      <3> DEFINE j == i - 2 * Len(ps)
      <3>1. j \in 1..(2 * Len(qs)) /\ (j + 1) \div 2 \in 1..Len(qs)
        BY <1>1, <2>2, PairedIndex
      <3>2. (i + 1) \div 2 = (j + 1) \div 2 + Len(ps) /\ i % 2 = j % 2
        <4>1. j \in Nat /\ i = j + 2 * Len(ps)
          BY <1>1, <2>2
        <4> HIDE DEF j
        <4> QED
          BY <1>1, <4>1, PairedShift
      <3>3. Halves(qs)[j] = <<qs[(j + 1) \div 2], IF j % 2 = 1 THEN "head" ELSE "body">>
        BY <3>1, HalvesAt
      <3>4. r[i] = Halves(qs)[j]
        BY <1>1, <1>4, <2>2
      <3>5. (ps \o qs)[(i + 1) \div 2] = qs[(j + 1) \div 2]
        BY <1>1, <3>1, <3>2
      <3> QED
        BY <1>2, <3>2, <3>3, <3>4, <3>5
    <2>3. i <= 2 * Len(ps) \/ i > 2 * Len(ps)
      BY <1>1
    <2> QED
      BY <2>1, <2>2, <2>3
  <1> HIDE DEF l, r
  <1>6. Len(l) = Len(r) /\ \A i \in 1..Len(l) : l[i] = r[i]
    BY <1>1, <1>2, <1>4, <1>5
  <1>7. l = r
    BY <1>2, <1>4, <1>6, SeqEqual
  <1> QED
    BY <1>7 DEF l, r

\* TryExtractPacket stops at a header with a bad magic or when less than a packet is left.
LEMMA WholeIs ==
  ASSUME NEW b \in Seq(Half)
  PROVE  /\ Whole(b) \in Nat /\ 2 * Whole(b) <= Len(b)
         /\ \A i \in 1..Whole(b) : IsHead(b[2 * i - 1])
         /\ Whole(b) = Len(b) \div 2 \/ ~IsHead(b[2 * Whole(b) + 1])
  <1> DEFINE top == Len(b) \div 2
             T == {n \in 0..top : n = top \/ ~IsHead(b[2 * n + 1])}
  <1>1. Len(b) \in Nat /\ top \in Nat /\ 2 * top <= Len(b)
    BY LenProperties
  <1>2. T \in SUBSET Nat /\ top \in T
    BY <1>1
  <1>3. PICK n \in T : \A m \in T : n <= m
    BY <1>2, LeastNumber
  <1>4. \A i \in 1..n : IsHead(b[2 * i - 1])
    <2> SUFFICES ASSUME NEW i \in 1..n PROVE IsHead(b[2 * i - 1])
      OBVIOUS
    <2>1. i - 1 \in 0..top /\ ~(n <= i - 1) /\ 2 * (i - 1) + 1 = 2 * i - 1
      BY <1>1
    <2>2. i - 1 \notin T
      BY <1>3, <2>1
    <2> QED
      BY <2>1, <2>2
  <1>5. \E k \in 0..(Len(b) \div 2) : /\ \A i \in 1..k : IsHead(b[2 * i - 1])
                                      /\ k = Len(b) \div 2 \/ ~IsHead(b[2 * k + 1])
    BY <1>3, <1>4
  <1>6. /\ Whole(b) \in 0..top /\ \A i \in 1..Whole(b) : IsHead(b[2 * i - 1])
        /\ Whole(b) = Len(b) \div 2 \/ ~IsHead(b[2 * Whole(b) + 1])
    BY <1>5 DEF Whole
  <1> QED
    BY <1>1, <1>6

Numbers == 1..MaxPackets

\* What a peer sends: whole packets with growing numbers, and junk between them.
Paired(q) ==
  /\ Len(q) = 2 * (Len(q) \div 2)
  /\ \A i \in 1..(Len(q) \div 2) : IsHead(q[2 * i - 1])
Proper(q) ==
  /\ \A j \in 1..Len(q) :
       IsHead(q[j]) => j < Len(q) /\ q[j + 1] = <<Number(q[j]), "body">>
  /\ \A i, j \in 1..Len(q) :
       i < j /\ IsHead(q[i]) /\ IsHead(q[j]) => Number(q[i]) < Number(q[j])
  /\ Paired(q) \/ \E j \in 1..Len(q) : q[j] = Junk
SentInv(s) == Proper(stream[s])

\* What is received or on the way is the end of what was sent: a bad magic may
\* drop halves, but only of the front.
Live(s) == conn[s].st \in {"queued", "open"}
Ahead(s) == conn[s].buf \o in[s]
Behind(s) == Len(stream[s]) - Len(Ahead(s))
ArrivedInv(s) ==
  Live(s) => /\ Len(Ahead(s)) <= Len(stream[s])
             /\ \A i \in 1..Len(Ahead(s)) : Ahead(s)[i] = stream[s][Behind(s) + i]

\* A handled packet was sent, in that order, and is behind.
HandledInv(s) ==
  \A i \in 1..Len(done[s]) :
    /\ done[s][i] \in Numbers
    /\ \E j \in 1..(Len(stream[s]) - 1) :
         /\ stream[s][j] = <<done[s][i], "head">> /\ stream[s][j + 1] = <<done[s][i], "body">>
         /\ Live(s) => j < Behind(s)
    /\ i > 1 => done[s][i - 1] < done[s][i]

InputInv(s) ==
  Open(s) /\ ~HasJunk(s) => Halves(done[s]) \o conn[s].buf \o in[s] = stream[s]

\* Until the first response is sent to a peer that is gone, none is lost.
OutputInv(s) ==
  Open(s) /\ peer[s] # "rst" => got[s] \o out[s] \o conn[s].queue = Halves(done[s])

\* What a peer can read is answers, however the connection ended.
AnswersInv(s) ==
  /\ Len(got[s]) + Len(out[s]) <= 2 * Len(done[s])
  /\ \A i \in 1..(Len(got[s]) + Len(out[s])) : (got[s] \o out[s])[i] = Halves(done[s])[i]

\* A connection that was not accepted.
NewInv(s) ==
  /\ conn[s].st = "none" => in[s] = <<>> /\ stream[s] = <<>>
  /\ conn[s].st = "queued" => in[s] = stream[s]
  /\ conn[s].st \in {"none", "queued"} =>
       /\ conn[s].buf = <<>> /\ conn[s].queue = <<>>
       /\ out[s] = <<>> /\ got[s] = <<>> /\ done[s] = <<>>

RoomInv(s) == Len(out[s]) <= Room

\* Packets are numbered without a gap.
UsedInv == \A k \in Numbers : Used(k) => \A j \in 1..k : Used(j)

FlowInv(s) ==
  /\ SentInv(s) /\ ArrivedInv(s) /\ HandledInv(s) /\ InputInv(s)
  /\ OutputInv(s) /\ AnswersInv(s) /\ NewInv(s) /\ RoomInv(s)
DataInv == TypeOK /\ \A s \in Sockets : FlowInv(s)
-----------------------------------------------------------------------------
(* Framing                                                                 *)

\* A half is junk, or the head or body of a packet.
LEMMA HalfIs ==
  ASSUME NEW h \in Half
  PROVE  /\ Number(h) \in 0..MaxPackets
         /\ IsHead(h) => /\ h = <<Number(h), "head">> /\ h # Junk /\ Number(h) \in Numbers
         /\ ~IsHead(h) /\ h # Junk => h = <<Number(h), "body">>
  BY BoundsAssumption DEF Half, Junk, Number, IsHead, Numbers

\* The packets of a piece of a proper stream that starts where p halves end.
LEMMA PacketsOf ==
  ASSUME NEW q \in Seq(Half), Proper(q), NEW b \in Seq(Half), NEW p \in Nat,
         p + Len(b) <= Len(q), \A i \in 1..Len(b) : b[i] = q[p + i]
  PROVE  /\ Packets(b) \in Seq(Numbers) /\ Len(Packets(b)) = Whole(b)
         /\ \A i \in 1..Whole(b) : /\ q[p + 2 * i - 1] = <<Packets(b)[i], "head">>
                                   /\ q[p + 2 * i] = <<Packets(b)[i], "body">>
         /\ Halves(Packets(b)) = SubSeq(b, 1, 2 * Whole(b))
  <1> DEFINE w == Whole(b)
             ps == Packets(b)
  <1>1. /\ w \in Nat /\ 2 * w <= Len(b) /\ Len(b) \in Nat /\ Len(q) \in Nat
        /\ \A i \in 1..w : IsHead(b[2 * i - 1])
    BY WholeIs, LenProperties
  <1>2. ASSUME NEW i \in 1..w
        PROVE  /\ 2 * i - 1 \in 1..Len(b) /\ 2 * i \in 1..Len(b)
               /\ b[2 * i - 1] = <<Number(b[2 * i - 1]), "head">>
               /\ b[2 * i] = <<Number(b[2 * i - 1]), "body">>
               /\ Number(b[2 * i - 1]) \in Numbers
    <2>1. /\ 2 * i - 1 \in 1..Len(b) /\ 2 * i \in 1..Len(b)
          /\ p + (2 * i - 1) \in 1..Len(q) /\ p + (2 * i - 1) + 1 = p + 2 * i
      BY <1>1
    <2>2. b[2 * i - 1] \in Half /\ IsHead(b[2 * i - 1])
      BY <1>1, <2>1, ElementOfSeq
    <2>3. q[p + (2 * i - 1)] = b[2 * i - 1] /\ q[p + 2 * i] = b[2 * i]
      BY <2>1
    <2>4. q[p + 2 * i] = <<Number(b[2 * i - 1]), "body">>
      BY <2>1, <2>2, <2>3 DEF Proper
    <2> QED
      BY <2>1, <2>2, <2>3, <2>4, HalfIs
  <1>3. \A i \in 1..w : Packet(b[2 * i - 1], b[2 * i]) = Number(b[2 * i - 1])
    BY <1>2 DEF Packet, Number
  <1>4. ps = [i \in 1..w |-> Number(b[2 * i - 1])]
    BY <1>3 DEF Packets
  <1>5. ps \in Seq(Numbers) /\ Len(ps) = w /\ \A i \in 1..w : ps[i] = Number(b[2 * i - 1])
    <2> HIDE DEF ps, w
    <2> QED
      BY <1>1, <1>2, <1>4
  <1>6. \A i \in 1..w : /\ q[p + 2 * i - 1] = <<ps[i], "head">>
                        /\ q[p + 2 * i] = <<ps[i], "body">>
    <2> SUFFICES ASSUME NEW i \in 1..w PROVE /\ q[p + 2 * i - 1] = <<ps[i], "head">>
                                             /\ q[p + 2 * i] = <<ps[i], "body">>
      OBVIOUS
    <2> HIDE DEF ps, w
    <2>1. p + 2 * i - 1 = p + (2 * i - 1)
      BY <1>1
    <2>2. q[p + (2 * i - 1)] = b[2 * i - 1] /\ q[p + 2 * i] = b[2 * i]
      BY <1>2
    <2> QED
      BY <1>2, <1>5, <2>1, <2>2
  <1>7. Halves(ps) = SubSeq(b, 1, 2 * w)
    <2> DEFINE T == Nat \X {"head", "body"}
               c == SubSeq(b, 1, 2 * w)
    <2>1. /\ Halves(ps) \in Seq(Numbers \X {"head", "body"}) /\ Len(Halves(ps)) = 2 * w
          /\ \A i \in 1..(2 * w) :
               Halves(ps)[i] = <<ps[(i + 1) \div 2], IF i % 2 = 1 THEN "head" ELSE "body">>
      BY <1>5, HalvesAt
    <2>2. c \in Seq(Half) /\ Len(c) = 2 * w /\ \A i \in 1..(2 * w) : c[i] = b[i]
      BY <1>1, Cut
    <2>3. ASSUME NEW i \in 1..(2 * w) PROVE Halves(ps)[i] = c[i]
      <3> DEFINE k == (i + 1) \div 2
      <3> HIDE DEF ps, w
      <3>1. /\ k \in 1..w
            /\ i % 2 = 1 => i = 2 * k - 1
            /\ i % 2 # 1 => i = 2 * k
        BY <1>1, PairedIndex
      <3> HIDE DEF k
      <3>2. Halves(ps)[i] = <<ps[k], IF i % 2 = 1 THEN "head" ELSE "body">>
        BY <2>1 DEF k
      <3>3. b[i] = <<ps[k], IF i % 2 = 1 THEN "head" ELSE "body">>
        BY <1>2, <1>5, <3>1
      <3> QED
        BY <2>2, <3>2, <3>3
    <2>4. Halves(ps) \in Seq(Half)
      BY <2>1, SeqMonotonic DEF Half, Numbers
    <2> HIDE DEF ps, w, c
    <2> QED
      BY <2>1, <2>2, <2>3, <2>4, SeqEqual DEF c
  <1> QED
    BY <1>5, <1>6, <1>7

\* What is left in the buffer is the end of it, behind the packets.
LEMMA RestOf ==
  ASSUME NEW b \in Seq(Half)
  PROVE  /\ Rest(b) \in Seq(Half) /\ Len(Rest(b)) \in Nat /\ 2 * Whole(b) + Len(Rest(b)) <= Len(b)
         /\ \A i \in 1..Len(Rest(b)) : Rest(b)[i] = b[(Len(b) - Len(Rest(b))) + i]
         /\ (\A i \in 1..Len(b) : i % 2 = 1 => IsHead(b[i])) =>
              Rest(b) = SubSeq(b, 2 * Whole(b) + 1, Len(b))
  <1> DEFINE w == Whole(b)
             r == SubSeq(b, 2 * w + 1, Len(b))
  <1>1. w \in Nat /\ 2 * w <= Len(b) /\ Len(b) \in Nat
    BY WholeIs, LenProperties
  <1> HIDE DEF w
  <1>2. /\ r \in Seq(Half) /\ Len(r) = Len(b) - 2 * w
        /\ \A i \in 1..(Len(b) - 2 * w) : r[i] = b[2 * w + i]
    <2>1. 2 * w \in 0..Len(b)
      BY <1>1
    <2> QED
      BY <2>1, Cut
  <1>3. Rest(b) = IF r # <<>> /\ ~IsHead(r[1]) THEN <<>> ELSE r
    BY DEF Rest, w
  <1> HIDE DEF r
  <1>4. Rest(b) = r \/ Rest(b) = <<>>
    BY <1>3
  <1>5. /\ Rest(b) \in Seq(Half) /\ Len(Rest(b)) \in Nat /\ 2 * w + Len(Rest(b)) <= Len(b)
        /\ \A i \in 1..Len(Rest(b)) : Rest(b)[i] = b[(Len(b) - Len(Rest(b))) + i]
    <2>1. CASE Rest(b) = r
      <3>0. Len(Rest(b)) = Len(r) /\ Len(r) = Len(b) - 2 * w
        BY <1>2, <2>1, Zenon
      <3>1. Len(Rest(b)) = Len(b) - 2 * w /\ Len(b) - Len(Rest(b)) = 2 * w
        BY <1>1, <3>0
      <3>2. Len(Rest(b)) \in Nat /\ 2 * w + Len(Rest(b)) <= Len(b)
        <4> DEFINE l == Len(Rest(b))
                   n == Len(b)
        <4>1. l = n - 2 * w /\ w \in Nat /\ n \in Nat /\ 2 * w <= n
          BY <1>1, <3>1
        <4> HIDE DEF l, n
        <4>2. l \in Nat /\ 2 * w + l <= n
          BY <4>1
        <4> QED
          BY <4>2 DEF l, n
      <3>3. \A i \in 1..Len(Rest(b)) : Rest(b)[i] = b[(Len(b) - Len(Rest(b))) + i]
        BY <1>2, <2>1, <3>1
      <3> QED
        BY <1>2, <2>1, <3>2, <3>3
    <2>2. CASE Rest(b) = <<>>
      BY <1>1, <2>2
    <2> QED
      BY <1>4, <2>1, <2>2
  <1>6. ASSUME \A i \in 1..Len(b) : i % 2 = 1 => IsHead(b[i])
        PROVE  Rest(b) = r
    <2>1. CASE r = <<>>
      BY <1>3, <2>1
    <2>2. CASE r # <<>>
      <3>1. Len(b) - 2 * w # 0
        BY <1>2, <2>2, EmptySeq
      <3>2. 2 * w + 1 \in 1..Len(b) /\ 1 \in 1..(Len(b) - 2 * w)
        BY <1>1, <3>1
      <3>3. (2 * w + 1) % 2 = 1
        BY <1>1
      <3>4. IsHead(b[2 * w + 1]) /\ r[1] = b[2 * w + 1]
        BY <1>2, <1>6, <3>2, <3>3
      <3> QED
        BY <1>3, <3>4
    <2> QED
      BY <2>1, <2>2
  <1> QED
    BY <1>5, <1>6 DEF w, r

-----------------------------------------------------------------------------
(* What one step does to the streams of one connection                     *)

\* The types of one connection.
LEMMA Typed ==
  ASSUME TypeOK, NEW s \in Sockets
  PROVE  /\ in[s] \in Seq(Half) /\ out[s] \in Seq(Half)
         /\ stream[s] \in Seq(Half) /\ got[s] \in Seq(Half)
         /\ done[s] \in Seq(0..MaxPackets)
         /\ conn[s] \in Conn
         /\ conn[s].buf \in Seq(Half) /\ conn[s].queue \in Seq(Half) /\ conn[s].id \in Nat
         /\ Len(in[s]) \in Nat /\ Len(out[s]) \in Nat /\ Len(stream[s]) \in Nat
         /\ Len(got[s]) \in Nat /\ Len(done[s]) \in Nat
         /\ Len(conn[s].buf) \in Nat /\ Len(conn[s].queue) \in Nat
  <1>1. /\ in[s] \in Seq(Half) /\ out[s] \in Seq(Half)
        /\ stream[s] \in Seq(Half) /\ got[s] \in Seq(Half)
        /\ done[s] \in Seq(0..MaxPackets)
        /\ conn[s] \in Conn
    BY DEF TypeOK
  <1>2. conn[s].buf \in Seq(Half) /\ conn[s].queue \in Seq(Half) /\ conn[s].id \in Nat
    BY <1>1 DEF Conn
  <1> QED
    BY <1>1, <1>2, LenProperties

\* A step of another connection, or one that moves no data.
LEMMA FlowStays ==
  ASSUME NEW s \in Sockets, FlowInv(s), conn'[s] = conn[s],
         in'[s] = in[s], out'[s] = out[s], stream'[s] = stream[s],
         done'[s] = done[s], got'[s] = got[s],
         peer[s] = "rst" => peer'[s] = "rst"
  PROVE  FlowInv(s)'
  <1> USE DEF FlowInv, Open, Live, Ahead, Behind
  <1>1. SentInv(s)' /\ ArrivedInv(s)'
    BY DEF SentInv, ArrivedInv
  <1>2. HandledInv(s)'
    BY DEF HandledInv
  <1>3. InputInv(s)'
    BY DEF InputInv, HasJunk
  <1>4. OutputInv(s)' /\ AnswersInv(s)'
    BY DEF OutputInv, AnswersInv
  <1>5. NewInv(s)' /\ RoomInv(s)'
    BY DEF NewInv, RoomInv
  <1> QED
    BY <1>1, <1>2, <1>3, <1>4, <1>5

\* A connection that is closed keeps only what its peer was sent.
LEMMA FlowEnds ==
  ASSUME NEW s \in Sockets, FlowInv(s), conn'[s].st = "closed",
         in'[s] = in[s], out'[s] = out[s], stream'[s] = stream[s],
         done'[s] = done[s], got'[s] = got[s]
  PROVE  FlowInv(s)'
  <1> USE DEF FlowInv, Open, Live
  <1>1. SentInv(s)' /\ ArrivedInv(s)'
    BY DEF SentInv, ArrivedInv
  <1>2. HandledInv(s)'
    BY DEF HandledInv
  <1>3. InputInv(s)' /\ OutputInv(s)' /\ NewInv(s)'
    BY DEF InputInv, OutputInv, NewInv
  <1>4. AnswersInv(s)' /\ RoomInv(s)'
    BY DEF AnswersInv, RoomInv
  <1> QED
    BY <1>1, <1>2, <1>3, <1>4

\* Nothing has moved yet on a connection that is made or accepted.
LEMMA FlowBegins ==
  ASSUME NEW s \in Sockets, TypeOK, FlowInv(s), conn[s].st \in {"none", "queued"},
         conn'[s].st = "queued" \/ (conn'[s].st = "open" /\ conn[s].st = "queued"),
         conn'[s].buf = <<>>, conn'[s].queue = <<>>,
         in'[s] = in[s], out'[s] = out[s], stream'[s] = stream[s],
         done'[s] = done[s], got'[s] = got[s]
  PROVE  FlowInv(s)'
  <1>1. /\ in[s] = stream[s]
        /\ conn[s].buf = <<>> /\ conn[s].queue = <<>>
        /\ out[s] = <<>> /\ got[s] = <<>> /\ done[s] = <<>>
    BY DEF FlowInv, NewInv
  <1>2. in[s] \in Seq(Half) /\ Len(in[s]) \in Nat
    BY Typed
  <1>3. <<>> \o in[s] = in[s] /\ Halves(<<>>) = <<>> /\ <<>> \o <<>> = <<>>
    BY <1>2, ConcatEmptySeq DEF Halves
  <1>4. SentInv(s)'
    BY DEF FlowInv, SentInv
  <1>5. ArrivedInv(s)'
    <2>1. Ahead(s)' = in[s] /\ Behind(s)' = 0
      BY <1>1, <1>2, <1>3 DEF Ahead, Behind
    <2> QED
      BY <1>1, <1>2, <2>1 DEF ArrivedInv
  <1>6. HandledInv(s)'
    BY <1>1 DEF HandledInv
  <1>7. InputInv(s)'
    BY <1>1, <1>3 DEF InputInv
  <1>8. OutputInv(s)' /\ AnswersInv(s)'
    BY <1>1, <1>3 DEF OutputInv, AnswersInv
  <1>9. NewInv(s)' /\ RoomInv(s)'
    BY <1>1, BoundsAssumption DEF FlowInv, NewInv, RoomInv
  <1> QED
    BY <1>4, <1>5, <1>6, <1>7, <1>8, <1>9 DEF FlowInv

\* A packet or junk is sent behind what was sent before.
SentNext(q, hs) ==
  \/ hs = <<Junk>>
  \/ \E k \in Numbers : /\ hs = <<<<k, "head">>, <<k, "body">>>>
                        /\ \A j \in 1..Len(q) : Number(q[j]) < k

\* EncodePacket of one packet.
LEMMA OnePacket ==
  ASSUME NEW k \in Numbers
  PROVE  Halves(<<k>>) = <<<<k, "head">>, <<k, "body">>>>
  <1> DEFINE S == Numbers \X {"head", "body"}
             r == <<<<k, "head">>, <<k, "body">>>>
  <1>1. <<k>> \in Seq(Numbers) /\ Len(<<k>>) = 1 /\ <<k>>[1] = k
    OBVIOUS
  <1>2. /\ Halves(<<k>>) \in Seq(S) /\ Len(Halves(<<k>>)) = 2
        /\ Halves(<<k>>)[1] = <<k, "head">> /\ Halves(<<k>>)[2] = <<k, "body">>
    <2> DEFINE ps == <<k>>
    <2>1. ps \in Seq(Numbers) /\ Len(ps) = 1 /\ ps[1] = k
      BY <1>1
    <2> HIDE DEF ps
    <2>2. /\ Halves(ps) \in Seq(S) /\ Len(Halves(ps)) = 2 * Len(ps)
          /\ \A i \in 1..Len(ps) : /\ Halves(ps)[2 * i - 1] = <<ps[i], "head">>
                                   /\ Halves(ps)[2 * i] = <<ps[i], "body">>
      BY <2>1, HalvesAt
    <2>3. 1 \in 1..Len(ps) /\ 2 * 1 - 1 = 1 /\ 2 * 1 = 2
      BY <2>1
    <2>4. Halves(ps)[2 * 1 - 1] = <<ps[1], "head">> /\ Halves(ps)[2 * 1] = <<ps[1], "body">>
      BY <2>2, <2>3
    <2>5. /\ Halves(ps) \in Seq(S) /\ Len(Halves(ps)) = 2
          /\ Halves(ps)[1] = <<k, "head">> /\ Halves(ps)[2] = <<k, "body">>
      BY <2>1, <2>2, <2>3, <2>4
    <2> QED
      BY <2>5 DEF ps
  <1>3. r \in Seq(S) /\ Len(r) = 2 /\ r[1] = <<k, "head">> /\ r[2] = <<k, "body">>
    OBVIOUS
  <1> DEFINE h == Halves(<<k>>)
  <1>4. h \in Seq(S) /\ Len(h) = 2 /\ \A i \in 1..2 : h[i] = r[i]
    BY <1>2, <1>3
  <1> HIDE DEF h, r, S
  <1>5. h = r
    BY <1>3, <1>4, SeqEqual
  <1> QED
    BY <1>5 DEF h, r

\* A stream stays proper as its peer sends on.
LEMMA ProperNext ==
  ASSUME NEW q \in Seq(Half), Proper(q), NEW hs, SentNext(q, hs)
  PROVE  /\ hs \in Seq(Half) /\ Len(hs) \in Nat /\ Len(q) \in Nat
         /\ q \o hs \in Seq(Half) /\ Len(q \o hs) = Len(q) + Len(hs)
         /\ \A i \in 1..Len(q) : (q \o hs)[i] = q[i]
         /\ \A i \in 1..Len(hs) : (q \o hs)[Len(q) + i] = hs[i]
         /\ Proper(q \o hs)
  <1> DEFINE r == q \o hs
             n == Len(q)
  <1>1. n \in Nat /\ \A i \in 1..n : q[i] \in Half
    BY LenProperties, ElementOfSeq
  <1>2. hs \in Seq(Half) /\ Len(hs) \in Nat
    <2>1. CASE hs = <<Junk>>
      BY <2>1 DEF Half
    <2>2. CASE hs # <<Junk>>
      <3>1. PICK k \in Numbers : hs = <<<<k, "head">>, <<k, "body">>>>
        BY <2>2 DEF SentNext
      <3>2. <<k, "head">> \in Half /\ <<k, "body">> \in Half
        BY DEF Half, Numbers
      <3> QED
        BY <3>1, <3>2
    <2> QED
      BY <2>1, <2>2
  <1>3. /\ r \in Seq(Half) /\ Len(r) = n + Len(hs)
        /\ \A i \in 1..(n + Len(hs)) : r[i] = IF i <= n THEN q[i] ELSE hs[i - n]
    BY <1>2, ConcatProperties
  <1> HIDE DEF r, n
  <1>4. /\ \A i \in 1..n : r[i] = q[i]
        /\ \A i \in 1..Len(hs) : r[n + i] = hs[i]
    BY <1>1, <1>2, <1>3
  <1>5. Proper(q) /\ Len(q) = n
    BY DEF n
  <1>6. CASE hs = <<Junk>>
    <2>1. Len(r) = n + 1 /\ r[n + 1] = Junk /\ ~IsHead(Junk)
      BY <1>3, <1>4, <1>6 DEF IsHead, Junk
    <2>2. \A j \in 1..Len(r) : j \in 1..n \/ j = n + 1
      BY <1>1, <2>1
    <2>3. \A j \in 1..Len(r) : IsHead(r[j]) => j \in 1..n /\ IsHead(q[j]) /\ q[j] = r[j]
      BY <1>4, <2>1, <2>2
    <2>4. \A j \in 1..n : j < n => j + 1 \in 1..n /\ j < Len(r) /\ r[j + 1] = q[j + 1]
      BY <1>1, <1>4, <2>1
    <2>5. \A j \in 1..Len(r) : IsHead(r[j]) => j < Len(r) /\ r[j + 1] = <<Number(r[j]), "body">>
      BY <1>5, <2>3, <2>4 DEF Proper
    <2>6. \A i, j \in 1..Len(r) :
            i < j /\ IsHead(r[i]) /\ IsHead(r[j]) => Number(r[i]) < Number(r[j])
      BY <1>5, <2>3 DEF Proper
    <2>7. n + 1 \in 1..Len(r)
      BY <1>1, <2>1
    <2> QED
      BY <1>2, <1>3, <1>4, <1>1, <2>1, <2>5, <2>6, <2>7 DEF Proper, r, n
  <1>7. CASE hs # <<Junk>>
    <2>1. PICK k \in Numbers : /\ hs = <<<<k, "head">>, <<k, "body">>>>
                               /\ \A j \in 1..n : Number(q[j]) < k
      BY <1>7 DEF SentNext, n
    <2>2. /\ Len(r) = n + 2 /\ r[n + 1] = <<k, "head">> /\ r[n + 2] = <<k, "body">>
      BY <1>3, <1>4, <2>1
    <2>3. IsHead(r[n + 1]) /\ ~IsHead(r[n + 2]) /\ Number(r[n + 1]) = k
      BY <2>2 DEF IsHead, Number
    <2>4. \A j \in 1..Len(r) : j \in 1..n \/ j = n + 1 \/ j = n + 2
      BY <1>1, <2>2
    <2>5. \A j \in 1..Len(r) :
            IsHead(r[j]) => (j \in 1..n /\ IsHead(q[j]) /\ q[j] = r[j]) \/ j = n + 1
      BY <1>4, <2>3, <2>4
    <2>6. \A j \in 1..n : j < n => j + 1 \in 1..n /\ j < Len(r) /\ r[j + 1] = q[j + 1]
      BY <1>1, <1>4, <2>2
    <2>7. \A j \in 1..Len(r) : IsHead(r[j]) => j < Len(r) /\ r[j + 1] = <<Number(r[j]), "body">>
      <3> SUFFICES ASSUME NEW j \in 1..Len(r), IsHead(r[j])
                   PROVE  j < Len(r) /\ r[j + 1] = <<Number(r[j]), "body">>
        OBVIOUS
      <3>1. CASE j \in 1..n /\ IsHead(q[j]) /\ q[j] = r[j]
        BY <1>5, <2>6, <3>1 DEF Proper
      <3>2. CASE j = n + 1
        <4>1. j < Len(r) /\ j + 1 = n + 2
          BY <1>1, <2>2, <3>2
        <4> QED
          BY <2>2, <2>3, <3>2, <4>1
      <3> QED
        BY <2>5, <3>1, <3>2
    <2>8. \A i, j \in 1..Len(r) :
            i < j /\ IsHead(r[i]) /\ IsHead(r[j]) => Number(r[i]) < Number(r[j])
      <3> SUFFICES ASSUME NEW i \in 1..Len(r), NEW j \in 1..Len(r), i < j,
                          IsHead(r[i]), IsHead(r[j])
                   PROVE  Number(r[i]) < Number(r[j])
        OBVIOUS
      <3>1. i # n + 1
        BY <1>1, <2>4, <2>5
      <3>2. i \in 1..n /\ IsHead(q[i]) /\ q[i] = r[i]
        BY <2>5, <3>1
      <3>3. CASE j = n + 1
        BY <2>1, <2>3, <3>2, <3>3
      <3>4. CASE j \in 1..n /\ IsHead(q[j]) /\ q[j] = r[j]
        BY <1>5, <3>2, <3>4 DEF Proper
      <3> QED
        BY <2>5, <3>3, <3>4
    <2>9. ASSUME Paired(q) PROVE Paired(r)
      <3> DEFINE m == n \div 2
      <3>1. n = 2 * m /\ m \in Nat /\ \A i \in 1..m : IsHead(q[2 * i - 1])
        BY <1>1, <1>5, <2>9 DEF Paired
      <3> HIDE DEF m
      <3>2. Len(r) = 2 * (m + 1) /\ Len(r) \div 2 = m + 1
        BY <2>2, <3>1
      <3>3. ASSUME NEW i \in 1..(m + 1) PROVE IsHead(r[2 * i - 1])
        <4>1. CASE i = m + 1
          <5>1. 2 * i - 1 = n + 1
            BY <3>1, <4>1
          <5> QED
            BY <2>3, <5>1
        <4>2. CASE i # m + 1
          <5>1. i \in 1..m /\ 2 * i - 1 \in 1..n
            BY <3>1, <4>2
          <5> QED
            BY <1>4, <3>1, <5>1
        <4> QED
          BY <4>1, <4>2
      <3> QED
        BY <3>2, <3>3 DEF Paired
    <2>10. Paired(r) \/ \E j \in 1..Len(r) : r[j] = Junk
      <3>1. CASE Paired(q)
        BY <2>9, <3>1
      <3>2. CASE ~Paired(q)
        <4>1. PICK j \in 1..n : q[j] = Junk
          BY <1>5, <3>2 DEF Proper
        <4>2. j \in 1..Len(r) /\ r[j] = Junk
          BY <1>1, <1>4, <2>2, <4>1
        <4> QED
          BY <4>2
      <3> QED
        BY <3>1, <3>2
    <2> QED
      BY <1>1, <1>2, <1>3, <1>4, <2>7, <2>8, <2>10 DEF Proper, r, n
  <1> QED
    BY <1>6, <1>7

\* Concatenation, with its three sequences as variables.
LEMMA Regroup == \A S : \A x, y, z \in Seq(S) : (x \o y) \o z = x \o (y \o z)
  <1> SUFFICES ASSUME NEW S, NEW x \in Seq(S), NEW y \in Seq(S), NEW z \in Seq(S)
               PROVE  (x \o y) \o z = x \o (y \o z)
    OBVIOUS
  <1> QED
    BY ConcatAssociative

\* What is handed to the handler has a number.
LEMMA HandledNumbers ==
  ASSUME TypeOK, NEW s \in Sockets, FlowInv(s)
  PROVE  done[s] \in Seq(Numbers)
  <1> DEFINE d == done[s]
  <1>1. d \in Seq(0..MaxPackets) /\ Len(d) \in Nat /\ \A i \in 1..Len(d) : d[i] \in Numbers
    BY Typed DEF FlowInv, HandledInv
  <1> HIDE DEF d
  <1>2. SubSeq(d, 1, Len(d)) \in Seq(Numbers) /\ SubSeq(d, 1, Len(d)) = d
    BY <1>1, SubSeqProperties, SubSeqFull
  <1> QED
    BY <1>2 DEF d

\* A peer sends.
LEMMA WriteFlows ==
  ASSUME TypeOK, NEW s \in Sockets, FlowInv(s), NEW hs, SentNext(stream[s], hs), PeerWrites(s, hs)
  PROVE  FlowInv(s)' /\ stream'[s] \in Seq(Half) /\ in'[s] \in Seq(Half)
  <1> DEFINE q == stream[s]
             r == q \o hs
             u == Ahead(s)
  <1>1. /\ q \in Seq(Half) /\ in[s] \in Seq(Half) /\ conn[s].buf \in Seq(Half)
        /\ Len(q) \in Nat /\ Len(in[s]) \in Nat /\ Len(conn[s].buf) \in Nat
        /\ done[s] \in Seq(0..MaxPackets)
    BY Typed
  <1>2. /\ stream'[s] = r /\ in'[s] = in[s] \o hs /\ conn' = conn /\ peer' = peer
        /\ out' = out /\ got' = got /\ done' = done /\ conn[s].st \in {"queued", "open"}
    BY DEF PeerWrites, serverVars, TypeOK
  <1>3. /\ hs \in Seq(Half) /\ Len(hs) \in Nat
        /\ r \in Seq(Half) /\ Len(r) = Len(q) + Len(hs)
        /\ \A i \in 1..Len(q) : r[i] = q[i]
        /\ \A i \in 1..Len(hs) : r[Len(q) + i] = hs[i]
        /\ Proper(r)
    BY <1>1, ProperNext DEF FlowInv, SentInv
  <1>4. /\ in[s] \o hs \in Seq(Half) /\ u \in Seq(Half) /\ Len(u) \in Nat
        /\ Len(u) <= Len(q) /\ \A i \in 1..Len(u) : u[i] = q[(Len(q) - Len(u)) + i]
    <2>1. u \in Seq(Half) /\ in[s] \o hs \in Seq(Half)
      BY <1>1, <1>3, ConcatProperties DEF Ahead
    <2> QED
      BY <1>2, <2>1, LenProperties DEF FlowInv, ArrivedInv, Live, Behind
  <1>5. conn[s].buf \o (in[s] \o hs) = u \o hs
    <2> DEFINE b == conn[s].buf
               i == in[s]
    <2>1. b \in Seq(Half) /\ i \in Seq(Half) /\ hs \in Seq(Half)
      BY <1>1, <1>3
    <2> HIDE DEF b, i
    <2>2. (b \o i) \o hs = b \o (i \o hs)
      BY <2>1, Regroup, SMTT(30)
    <2> QED
      BY <2>2 DEF b, i, Ahead
  <1>6. /\ Len(u \o hs) = Len(u) + Len(hs)
        /\ \A i \in 1..(Len(u) + Len(hs)) :
             (u \o hs)[i] = IF i <= Len(u) THEN u[i] ELSE hs[i - Len(u)]
    BY <1>3, <1>4, ConcatProperties
  <1>7. Ahead(s)' = u \o hs /\ Behind(s)' = Len(q) - Len(u) /\ Behind(s) = Len(q) - Len(u)
    <2>1. Ahead(s)' = u \o hs
      BY <1>2, <1>5 DEF Ahead
    <2>2. Len(r) - Len(u \o hs) = Len(q) - Len(u)
      BY <1>1, <1>3, <1>4, <1>6
    <2> QED
      BY <1>2, <2>1, <2>2 DEF Behind
  <1> HIDE DEF r, u
  <1>8. SentInv(s)'
    BY <1>2, <1>3 DEF SentInv
  <1>9. ArrivedInv(s)'
    <2>1. Len(u \o hs) <= Len(r)
      BY <1>1, <1>3, <1>4, <1>6
    <2>2. ASSUME NEW i \in 1..(Len(u) + Len(hs))
          PROVE  (u \o hs)[i] = r[(Len(q) - Len(u)) + i]
      <3>1. CASE i <= Len(u)
        <4>1. i \in 1..Len(u) /\ (Len(q) - Len(u)) + i \in 1..Len(q)
          BY <1>1, <1>4, <3>1
        <4> QED
          BY <1>3, <1>4, <1>6, <3>1, <4>1
      <3>2. CASE ~(i <= Len(u))
        <4>1. i - Len(u) \in 1..Len(hs) /\ (Len(q) - Len(u)) + i = Len(q) + (i - Len(u))
          BY <1>1, <1>3, <1>4, <3>2
        <4> QED
          BY <1>3, <1>6, <3>2, <4>1
      <3> QED
        BY <3>1, <3>2
    <2> QED
      BY <1>2, <1>6, <1>7, <2>1, <2>2 DEF ArrivedInv
  <1>10. HandledInv(s)'
    <2>1. ASSUME NEW i \in 1..Len(done[s])
          PROVE  /\ done[s][i] \in Numbers
                 /\ \E j \in 1..(Len(r) - 1) :
                      /\ r[j] = <<done[s][i], "head">> /\ r[j + 1] = <<done[s][i], "body">>
                      /\ j < Len(q) - Len(u)
                 /\ i > 1 => done[s][i - 1] < done[s][i]
      <3>1. PICK j \in 1..(Len(q) - 1) :
              /\ q[j] = <<done[s][i], "head">> /\ q[j + 1] = <<done[s][i], "body">>
              /\ j < Len(q) - Len(u)
        BY <1>2, <1>7 DEF FlowInv, HandledInv, Live
      <3>2. j \in 1..(Len(r) - 1) /\ j \in 1..Len(q) /\ j + 1 \in 1..Len(q)
        BY <1>1, <1>3
      <3>3. r[j] = q[j] /\ r[j + 1] = q[j + 1]
        BY <1>3, <3>2
      <3> QED
        BY <3>1, <3>2, <3>3 DEF FlowInv, HandledInv
    <2> QED
      BY <1>2, <1>7, <2>1 DEF HandledInv
  <1>11. InputInv(s)'
    <2> SUFFICES ASSUME Open(s)', ~HasJunk(s)'
                 PROVE  (Halves(done[s]) \o conn[s].buf) \o (in[s] \o hs) = r
      BY <1>2 DEF InputInv
    <2>1. Open(s)
      BY <1>2 DEF Open
    <2>2. \A i \in 1..Len(q) : i \in 1..Len(r)
      BY <1>1, <1>3
    <2>3. ~HasJunk(s)
      BY <1>2, <1>3, <2>2 DEF HasJunk
    <2>4. (Halves(done[s]) \o conn[s].buf) \o in[s] = q
      BY <2>1, <2>3 DEF FlowInv, InputInv
    <2> DEFINE h == Halves(done[s])
               b == conn[s].buf
               i == in[s]
    <2>5. h \in Seq(Numbers \X {"head", "body"})
      <3>1. done[s] \in Seq(Numbers)
        BY <1>1, HandledNumbers
      <3> QED
        BY <3>1, HalvesAt
    <2>6. h \in Seq(Half)
      BY <2>5, SeqMonotonic DEF Half, Numbers
    <2>7. b \in Seq(Half) /\ i \in Seq(Half) /\ hs \in Seq(Half)
      BY <1>1, <1>3
    <2> HIDE DEF h, b, i
    <2>8. h \o b \in Seq(Half)
      BY <2>6, <2>7, ConcatProperties
    <2> DEFINE hb == h \o b
    <2>9. hb \in Seq(Half)
      BY <2>8
    <2> HIDE DEF hb
    <2>10. (hb \o i) \o hs = hb \o (i \o hs)
      BY <2>7, <2>9, Regroup, SMTT(30)
    <2> QED
      BY <2>4, <2>10 DEF h, hb, b, i, r
  <1>12. OutputInv(s)' /\ AnswersInv(s)' /\ RoomInv(s)'
    BY <1>2 DEF FlowInv, OutputInv, AnswersInv, RoomInv, Open
  <1>13. NewInv(s)'
    BY <1>2 DEF FlowInv, NewInv, r
  <1>14. stream'[s] \in Seq(Half) /\ in'[s] \in Seq(Half)
    BY <1>2, <1>3, <1>4
  <1> QED
    BY <1>8, <1>9, <1>10, <1>11, <1>12, <1>13, <1>14 DEF FlowInv

\* A peer reads what the kernel holds for it.
LEMMA RecvFlows ==
  ASSUME TypeOK, NEW s \in Sockets, FlowInv(s), NEW n \in 1..Len(out[s]), PeerRecv(s, n)
  PROVE  FlowInv(s)' /\ got'[s] \in Seq(Half) /\ out'[s] \in Seq(Half)
  <1> DEFINE o == out[s]
             g == got[s]
             front == SubSeq(o, 1, n)
             back == SubSeq(o, n + 1, Len(o))
  <1>1. /\ o \in Seq(Half) /\ g \in Seq(Half) /\ conn[s].queue \in Seq(Half)
        /\ Len(o) \in Nat /\ Len(g) \in Nat /\ n \in Nat
    BY Typed
  <1>2. /\ got'[s] = g \o front /\ out'[s] = back
        /\ peer' = peer /\ conn' = conn /\ in' = in /\ stream' = stream /\ done' = done
    BY DEF PeerRecv, serverVars, TypeOK
  <1>3. /\ front \in Seq(Half) /\ back \in Seq(Half)
        /\ Len(front) = n /\ Len(back) = Len(o) - n /\ front \o back = o
    <2>1. n \in 0..Len(o)
      BY <1>1
    <2> HIDE DEF o
    <2> QED
      BY <1>1, <2>1, Cut
  <1> HIDE DEF front, back
  <1>4. /\ g \o front \in Seq(Half) /\ Len(g \o front) = Len(g) + n
        /\ (g \o front) \o back = g \o o
    <2>1. /\ o \in Seq(Half) /\ g \in Seq(Half) /\ front \in Seq(Half) /\ back \in Seq(Half)
      BY <1>1, <1>3
    <2>4. Len(front) = n /\ front \o back = o
      BY <1>3
    <2> HIDE DEF o, g
    <2>2. g \o front \in Seq(Half) /\ Len(g \o front) = Len(g) + Len(front)
      BY <2>1, ConcatProperties
    <2>3. (g \o front) \o back = g \o (front \o back)
      BY <2>1, Regroup, SMTT(30)
    <2> QED
      BY <2>2, <2>3, <2>4
  <1>5. SentInv(s)' /\ ArrivedInv(s)'
    BY <1>2 DEF FlowInv, SentInv, ArrivedInv, Live, Ahead, Behind
  <1>6. HandledInv(s)' /\ InputInv(s)'
    BY <1>2 DEF FlowInv, HandledInv, InputInv, Live, Ahead, Behind, HasJunk, Open
  <1>7. OutputInv(s)'
    BY <1>2, <1>4 DEF FlowInv, OutputInv, Open
  <1>8. AnswersInv(s)'
    <2>1. Len(g \o front) + Len(back) = Len(g) + Len(o)
      <3> HIDE DEF o, g
      <3> QED
        BY <1>1, <1>3, <1>4
    <2> QED
      BY <1>2, <1>4, <2>1 DEF FlowInv, AnswersInv
  <1>9. NewInv(s)'
    <2>1. o # <<>>
      BY <1>1
    <2> QED
      BY <1>2, <2>1 DEF FlowInv, NewInv
  <1>10. RoomInv(s)'
    <2>1. Len(o) <= Room
      BY DEF FlowInv, RoomInv
    <2>2. Len(o) - n <= Room
      BY <1>1, <2>1, BoundsAssumption
    <2> QED
      BY <1>2, <1>3, <2>2 DEF RoomInv
  <1> QED
    BY <1>2, <1>3, <1>4, <1>5, <1>6, <1>7, <1>8, <1>9, <1>10 DEF FlowInv

\* Encoded packets are twice as many halves.
LEMMA HalvesAreHalf ==
  ASSUME NEW ps \in Seq(Numbers)
  PROVE  Halves(ps) \in Seq(Half) /\ Len(Halves(ps)) = 2 * Len(ps)
  <1>1. Halves(ps) \in Seq(Numbers \X {"head", "body"}) /\ Len(Halves(ps)) = 2 * Len(ps)
    BY HalvesAt
  <1> QED
    BY <1>1, SeqMonotonic DEF Half, Numbers

\* In a stream without junk, at the beginning of a packet, every other half is a head.
LEMMA HeadsAlternate ==
  ASSUME NEW q \in Seq(Half), Proper(q), \A j \in 1..Len(q) : q[j] # Junk,
         NEW m \in Nat, NEW i \in Nat \ {0}, 2 * m + i <= Len(q), i % 2 = 1
  PROVE  IsHead(q[2 * m + i])
  <1> DEFINE half == Len(q) \div 2
             k == m + ((i + 1) \div 2)
  <1>1. Paired(q) /\ Len(q) \in Nat
    BY LenProperties DEF Proper
  <1>2. Len(q) = 2 * half /\ half \in Nat /\ \A j \in 1..half : IsHead(q[2 * j - 1])
    BY <1>1 DEF Paired
  <1> HIDE DEF half
  <1>3. i = 2 * ((i + 1) \div 2) - 1 /\ (i + 1) \div 2 \in Nat \ {0}
    OBVIOUS
  <1>4. Len(q) = 2 * half /\ half \in Nat
    BY <1>2
  <1>5. 2 * m + i = 2 * k - 1 /\ k \in 1..half
    BY <1>3, <1>4
  <1> HIDE DEF k
  <1> QED
    BY <1>2, <1>5

\* Moving the front of a queue behind another sequence changes nothing of the two.
LEMMA Move ==
  ASSUME NEW S, NEW x \in Seq(S), NEW y \in Seq(S), NEW n \in 0..Len(y)
  PROVE  (x \o SubSeq(y, 1, n)) \o SubSeq(y, n + 1, Len(y)) = x \o y
  <1> DEFINE f == SubSeq(y, 1, n)
             k == SubSeq(y, n + 1, Len(y))
  <1>1. f \o k = y
    BY Cut
  <1>2. f \in Seq(S)
    BY Cut
  <1>3. k \in Seq(S)
    BY Cut
  <1> HIDE DEF f, k
  <1>4. (x \o f) \o k = x \o (f \o k)
    BY <1>2, <1>3, ConcatAssociative, SMTT(30)
  <1>5. (x \o f) \o k = x \o y
    BY <1>1, <1>4
  <1> QED
    BY <1>5 DEF f, k

\* The buffer once n more halves are received, and what is still on the way then.
Received(s, n) == conn[s].buf \o SubSeq(in[s], 1, n)
Coming(s, n) == SubSeq(in[s], n + 1, Len(in[s]))

\* What a read takes and what it leaves are the next halves of the stream.
LEMMA ReadAhead ==
  ASSUME TypeOK, NEW s \in Sockets, FlowInv(s), Open(s), NEW n \in 1..Len(in[s])
  PROVE  LET b == Received(s, n)
             back == Coming(s, n)
         IN
         /\ b \in Seq(Half) /\ back \in Seq(Half) /\ Len(b) \in Nat /\ Len(back) \in Nat
         /\ b \o back = Ahead(s)
         /\ Behind(s) \in Nat /\ Behind(s) + Len(b) + Len(back) = Len(stream[s])
         /\ \A i \in 1..Len(b) : b[i] = stream[s][Behind(s) + i]
         /\ \A i \in 1..Len(back) : back[i] = stream[s][Behind(s) + Len(b) + i]
  <1> DEFINE b == Received(s, n)
             back == Coming(s, n)
             c == conn[s].buf
             a == in[s]
             front == SubSeq(a, 1, n)
             q == stream[s]
             p == Behind(s)
  <1>1. c \in Seq(Half) /\ a \in Seq(Half) /\ q \in Seq(Half) /\ Len(q) \in Nat /\ n \in 0..Len(a)
    BY Typed
  <1>2. /\ Len(c \o a) <= Len(q) /\ p = Len(q) - Len(c \o a)
        /\ \A i \in 1..Len(c \o a) : (c \o a)[i] = q[p + i]
    BY DEF FlowInv, ArrivedInv, Live, Open, Ahead, Behind
  <1>3. b = c \o front /\ back = SubSeq(a, n + 1, Len(a))
    BY DEF Received, Coming
  <1> HIDE DEF b, back, c, a, q, p
  <1>4. front \in Seq(Half) /\ back \in Seq(Half) /\ front \o back = a
    BY <1>1, <1>3, Cut
  <1>5. b = c \o front
    BY <1>3
  <1> HIDE DEF front
  <1>6. b \in Seq(Half) /\ Len(b) \in Nat /\ Len(back) \in Nat
    BY <1>1, <1>5, <1>4, ConcatProperties, LenProperties
  <1>7. b \o back = c \o a
    <2>1. (c \o front) \o back = c \o a
      BY <1>1, <1>3, Move DEF front
    <2> QED
      BY <1>5, <2>1
  <1>8. /\ Len(b \o back) = Len(b) + Len(back)
        /\ \A i \in 1..(Len(b) + Len(back)) :
             (b \o back)[i] = IF i <= Len(b) THEN b[i] ELSE back[i - Len(b)]
    BY <1>4, <1>6, ConcatProperties
  <1>9. p \in Nat /\ p + Len(b) + Len(back) = Len(q)
    BY <1>1, <1>2, <1>6, <1>7, <1>8
  <1>10. \A i \in 1..(Len(b) + Len(back)) :
          q[p + i] = IF i <= Len(b) THEN b[i] ELSE back[i - Len(b)]
    BY <1>2, <1>7, <1>8
  <1>11. \A i \in 1..Len(b) : b[i] = q[p + i]
    <2>1. \A i \in 1..Len(b) : i \in 1..(Len(b) + Len(back)) /\ i <= Len(b)
      BY <1>6
    <2> QED
      BY <1>10, <2>1
  <1>12. \A i \in 1..Len(back) : back[i] = q[p + Len(b) + i]
    <2>1. \A i \in 1..Len(back) : /\ Len(b) + i \in 1..(Len(b) + Len(back)) /\ ~(Len(b) + i <= Len(b))
                                  /\ Len(b) + i - Len(b) = i /\ p + (Len(b) + i) = p + Len(b) + i
      BY <1>6, <1>9
    <2> QED
      BY <1>10, <2>1
  <1> QED
    BY <1>4, <1>6, <1>7, <1>9, <1>11, <1>12 DEF b, back, c, a, q, p, Ahead

\* Three steps of one connection's read, for b, its buffer with the halves received:
\* what is ahead then is still the end of the stream,
LEMMA ReadArrives ==
  ASSUME TypeOK, NEW s \in Sockets, FlowInv(s), Open(s), NEW n \in 1..Len(in[s])
  PROVE  LET b == Received(s, n)
             v == Rest(b) \o Coming(s, n)
             q == stream[s]
         IN  /\ v \in Seq(Half) /\ Len(v) \in Nat /\ Len(v) <= Len(q)
             /\ \A i \in 1..Len(v) : v[i] = q[Len(q) - Len(v) + i]
             /\ Behind(s) + 2 * Whole(b) <= Len(q) - Len(v)
  <1> DEFINE b == Received(s, n)
             back == Coming(s, n)
             r == Rest(b)
             v == r \o back
             q == stream[s]
             p == Behind(s)
             w == Whole(b)
  <1>1. /\ b \in Seq(Half) /\ back \in Seq(Half) /\ Len(b) \in Nat /\ Len(back) \in Nat
        /\ p \in Nat /\ p + Len(b) + Len(back) = Len(q)
        /\ \A i \in 1..Len(b) : b[i] = q[p + i]
        /\ \A i \in 1..Len(back) : back[i] = q[p + Len(b) + i]
    BY ReadAhead
  <1> HIDE DEF b, back, q, p
  <1>2. /\ r \in Seq(Half) /\ Len(r) \in Nat /\ 2 * w + Len(r) <= Len(b) /\ w \in Nat
        /\ \A i \in 1..Len(r) : r[i] = b[(Len(b) - Len(r)) + i]
    BY <1>1, RestOf, WholeIs
  <1> HIDE DEF r, w
  <1>3. /\ v \in Seq(Half) /\ Len(v) = Len(r) + Len(back)
        /\ \A i \in 1..(Len(r) + Len(back)) : v[i] = IF i <= Len(r) THEN r[i] ELSE back[i - Len(r)]
    BY <1>1, <1>2, ConcatProperties
  <1> HIDE DEF v
  <1>4. Len(q) \in Nat /\ Len(q) - Len(v) = p + (Len(b) - Len(r))
    BY <1>1, <1>2, <1>3
  <1>0. /\ Len(b) \in Nat /\ Len(r) \in Nat /\ Len(back) \in Nat /\ p \in Nat
        /\ Len(v) = Len(r) + Len(back) /\ Len(r) <= Len(b)
        /\ Len(q) - Len(v) = p + (Len(b) - Len(r))
    BY <1>1, <1>2, <1>3, <1>4
  <1>5. Len(v) \in Nat /\ Len(v) <= Len(q) /\ p + 2 * w <= Len(q) - Len(v)
    BY <1>1, <1>2, <1>3, <1>4
  <1>6. ASSUME NEW i \in 1..Len(v) PROVE v[i] = q[Len(q) - Len(v) + i]
    <2>1. CASE i <= Len(r)
      <3>1. /\ i \in 1..Len(r) /\ i \in 1..(Len(r) + Len(back))
            /\ (Len(b) - Len(r)) + i \in 1..Len(b)
            /\ Len(q) - Len(v) + i = p + ((Len(b) - Len(r)) + i)
        BY <1>0, <2>1
      <3> QED
        BY <1>1, <1>2, <1>3, <2>1, <3>1
    <2>2. CASE ~(i <= Len(r))
      <3>1. /\ i - Len(r) \in 1..Len(back) /\ i \in 1..(Len(r) + Len(back))
            /\ Len(q) - Len(v) + i = p + Len(b) + (i - Len(r))
        BY <1>0, <2>2
      <3> QED
        BY <1>1, <1>3, <2>2, <3>1
    <2> QED
      BY <2>1, <2>2
  <1> QED
    BY <1>3, <1>5, <1>6 DEF b, back, r, v, q, p, w

\* the packets found there are the next that were sent,
LEMMA ReadHandles ==
  ASSUME TypeOK, NEW s \in Sockets, FlowInv(s), Open(s), NEW n \in 1..Len(in[s])
  PROVE  LET b == Received(s, n)
             ps == Packets(b)
             d == done[s] \o ps
             q == stream[s]
         IN  /\ ps \in Seq(Numbers) /\ d \in Seq(Numbers) /\ Len(d) = Len(done[s]) + Whole(b)
             /\ \A i \in 1..Len(d) :
                  /\ d[i] \in Numbers
                  /\ \E j \in 1..(Len(q) - 1) :
                       /\ q[j] = <<d[i], "head">> /\ q[j + 1] = <<d[i], "body">>
                       /\ j < Behind(s) + 2 * Whole(b)
                  /\ i > 1 => d[i - 1] < d[i]
  <1> DEFINE b == Received(s, n)
             ps == Packets(b)
             e == done[s]
             d == e \o ps
             q == stream[s]
             p == Behind(s)
             w == Whole(b)
  <1>1. /\ b \in Seq(Half) /\ Len(b) \in Nat /\ p \in Nat /\ p + Len(b) <= Len(q)
        /\ \A i \in 1..Len(b) : b[i] = q[p + i]
    <2>1. /\ b \in Seq(Half) /\ Len(b) \in Nat /\ p \in Nat
          /\ Len(Coming(s, n)) \in Nat /\ p + Len(b) + Len(Coming(s, n)) = Len(q)
          /\ \A i \in 1..Len(b) : b[i] = q[p + i]
      BY ReadAhead
    <2> HIDE DEF b, q, p
    <2> QED
      BY <2>1
  <1>2. q \in Seq(Half) /\ Proper(q) /\ Len(q) \in Nat
    BY Typed DEF FlowInv, SentInv
  <1>3. e \in Seq(Numbers) /\ Len(e) \in Nat
    BY HandledNumbers, LenProperties
  <1>4. \A i \in 1..Len(e) :
          /\ e[i] \in Numbers
          /\ \E j \in 1..(Len(q) - 1) :
               /\ q[j] = <<e[i], "head">> /\ q[j + 1] = <<e[i], "body">> /\ j < p
          /\ i > 1 => e[i - 1] < e[i]
    BY DEF FlowInv, HandledInv, Live, Open
  <1> HIDE DEF b, e, q, p
  <1>5. w \in Nat /\ 2 * w <= Len(b)
    BY <1>1, WholeIs
  <1>6. /\ ps \in Seq(Numbers) /\ Len(ps) = w
        /\ \A i \in 1..w : /\ q[p + 2 * i - 1] = <<ps[i], "head">>
                           /\ q[p + 2 * i] = <<ps[i], "body">>
    BY <1>1, <1>2, PacketsOf
  <1> HIDE DEF ps, w
  <1>7. /\ d \in Seq(Numbers) /\ Len(d) = Len(e) + w
        /\ \A i \in 1..(Len(e) + w) : d[i] = IF i <= Len(e) THEN e[i] ELSE ps[i - Len(e)]
    BY <1>3, <1>6, ConcatProperties
  <1> HIDE DEF d
  <1>8. \A j \in 1..Len(q) : \A k : q[j] = <<k, "head">> => IsHead(q[j]) /\ Number(q[j]) = k
    BY DEF IsHead, Number
  <1>9. ASSUME NEW i \in 1..Len(d)
        PROVE  /\ d[i] \in Numbers
               /\ \E j \in 1..(Len(q) - 1) :
                    /\ q[j] = <<d[i], "head">> /\ q[j + 1] = <<d[i], "body">> /\ j < p + 2 * w
               /\ i > 1 => d[i - 1] < d[i]
    <2>1. CASE i <= Len(e)
      <3>1. i \in 1..Len(e) /\ d[i] = e[i] /\ (i > 1 => d[i - 1] = e[i - 1])
        BY <1>3, <1>5, <1>7, <2>1
      <3>2. PICK j \in 1..(Len(q) - 1) :
              q[j] = <<e[i], "head">> /\ q[j + 1] = <<e[i], "body">> /\ j < p
        BY <1>4, <3>1
      <3>3. j < p + 2 * w
        BY <1>1, <1>2, <1>5, <3>2
      <3> QED
        BY <1>4, <3>1, <3>2, <3>3
    <2>2. CASE ~(i <= Len(e))
      <3> DEFINE k == i - Len(e)
                 j == p + 2 * k - 1
      <3>1. k \in 1..w /\ d[i] = ps[k] /\ k \in Nat
        BY <1>3, <1>5, <1>7, <2>2
      <3>2. k > 1 => k - 1 \in 1..w /\ i - 1 \in 1..(Len(e) + w) /\ ~(i - 1 <= Len(e))
                     /\ (i - 1) - Len(e) = k - 1
        BY <1>3, <1>5, <1>7, <2>2
      <3>3. k > 1 => d[i - 1] = ps[k - 1]
        BY <1>7, <3>2
      <3>4. k = 1 /\ i > 1 => i - 1 = Len(e) /\ i - 1 \in 1..Len(e) /\ d[i - 1] = e[Len(e)]
        BY <1>3, <1>5, <1>7, <2>2
      <3>5. i > 1 => k > 1 \/ k = 1
        BY <3>1
      <3> HIDE DEF k
      <3>6. j \in 1..(Len(q) - 1) /\ j < p + 2 * w /\ j + 1 = p + 2 * k
        BY <1>1, <1>2, <1>5, <3>1
      <3>7. q[j] = <<d[i], "head">> /\ q[j + 1] = <<d[i], "body">>
        BY <1>6, <3>1, <3>6
      <3> HIDE DEF j
      <3>8. j \in 1..Len(q) /\ IsHead(q[j]) /\ Number(q[j]) = d[i]
        <4>1. j \in 1..Len(q)
          BY <1>2, <3>6
        <4> QED
          BY <1>8, <3>7, <4>1
      <3>9. ASSUME k > 1 PROVE d[i - 1] < d[i]
        <4> DEFINE l == p + 2 * (k - 1) - 1
        <4>1. l \in 1..Len(q) /\ l < j
          BY <1>1, <1>2, <1>5, <3>1, <3>9 DEF j
        <4>2. q[l] = <<d[i - 1], "head">>
          BY <1>6, <3>2, <3>3, <3>9
        <4> HIDE DEF l
        <4> QED
          BY <1>2, <1>8, <3>8, <4>1, <4>2 DEF Proper
      <3>10. ASSUME k = 1, i > 1 PROVE d[i - 1] < d[i]
        <4>1. PICK l \in 1..(Len(q) - 1) : q[l] = <<d[i - 1], "head">> /\ l < p
          BY <1>4, <3>4, <3>10
        <4>2. l \in 1..Len(q) /\ l < j
          BY <1>1, <1>2, <3>10, <4>1 DEF j
        <4> QED
          BY <1>2, <1>8, <3>8, <4>1, <4>2 DEF Proper
      <3> QED
        <4>1. d[i] \in Numbers
          BY <1>7, ElementOfSeq
        <4>2. i > 1 => d[i - 1] < d[i]
          BY <3>5, <3>9, <3>10
        <4> QED
          BY <3>6, <3>7, <4>1, <4>2
    <2> QED
      BY <2>1, <2>2
  <1> QED
    BY <1>6, <1>7, <1>9 DEF b, ps, e, d, q, p, w

\* HasJunk, said of each half.
LEMMA NoJunk ==
  ASSUME NEW s \in Sockets, ~HasJunk(s)
  PROVE  \A j \in 1..Len(stream[s]) : stream[s][j] # Junk
  BY DEF HasJunk

\* Of a stream without junk a read drops nothing.
LEMMA ReadConserves ==
  ASSUME TypeOK, NEW s \in Sockets, FlowInv(s), Open(s), NEW n \in 1..Len(in[s]), ~HasJunk(s)
  PROVE  LET b == Received(s, n)
         IN  (Halves(done[s] \o Packets(b)) \o Rest(b)) \o Coming(s, n) = stream[s]
  <1> DEFINE b == Received(s, n)
             back == Coming(s, n)
             e == done[s]
             q == stream[s]
             p == Behind(s)
             w == Whole(b)
             he == Halves(e)
             hp == Halves(Packets(b))
             r == Rest(b)
             c == conn[s].buf
             a == in[s]
  <1>1. /\ b \in Seq(Half) /\ Len(b) \in Nat /\ back \in Seq(Half) /\ Len(back) \in Nat
        /\ p \in Nat /\ p + Len(b) + Len(back) = Len(q)
        /\ \A i \in 1..Len(b) : b[i] = q[p + i]
    BY ReadAhead
  <1>2. b \o back = c \o a /\ p = Len(q) - Len(c \o a)
    BY ReadAhead DEF Ahead, Behind
  <1>3. q \in Seq(Half) /\ Proper(q) /\ Len(q) \in Nat /\ \A j \in 1..Len(q) : q[j] # Junk
    BY Typed, NoJunk DEF FlowInv, SentInv
  <1>4. e \in Seq(Numbers) /\ Len(e) \in Nat
    BY HandledNumbers, LenProperties
  <1>5. (he \o c) \o a = q /\ c \in Seq(Half) /\ a \in Seq(Half)
    BY Typed DEF FlowInv, InputInv
  <1>6. Packets(b) \in Seq(Numbers)
    BY ReadHandles
  <1>7. Halves(e \o Packets(b)) = he \o hp
    BY <1>4, <1>6, HalvesOfConcat
  <1>8. /\ he \in Seq(Half) /\ Len(he) = 2 * Len(e) /\ hp \in Seq(Half)
    BY <1>4, <1>6, HalvesAreHalf
  <1> HIDE DEF b, back, e, q, p, he, c, a
  <1>9. w \in Nat /\ 2 * w <= Len(b)
    BY <1>1, WholeIs
  <1>10. hp = SubSeq(b, 1, 2 * w)
    <2>1. p + Len(b) <= Len(q)
      BY <1>1, <1>3
    <2> QED
      BY <1>1, <1>3, <2>1, PacketsOf
  <1>11. he \o (c \o a) = q
    <2>0. he \in Seq(Half) /\ c \in Seq(Half) /\ a \in Seq(Half)
      BY <1>5, <1>8
    <2>1. (he \o c) \o a = he \o (c \o a)
      BY <2>0, Regroup, SMTT(30)
    <2> QED
      BY <1>5, <2>1
  <1>12. p = 2 * Len(e)
    <2>1. c \o a \in Seq(Half)
      BY <1>5, ConcatProperties
    <2>2. Len(he \o (c \o a)) = Len(he) + Len(c \o a) /\ Len(c \o a) \in Nat
      BY <1>8, <2>1, ConcatProperties, LenProperties
    <2> QED
      BY <1>2, <1>4, <1>8, <1>11, <2>2
  <1>13. r = SubSeq(b, 2 * w + 1, Len(b))
    <2>1. ASSUME NEW i \in 1..Len(b), i % 2 = 1 PROVE IsHead(b[i])
      <3>1. i \in Nat \ {0} /\ 2 * Len(e) + i <= Len(q)
        BY <1>1, <1>3, <1>4, <1>12
      <3>2. IsHead(q[2 * Len(e) + i])
        BY <1>3, <1>4, <2>1, <3>1, HeadsAlternate
      <3> QED
        BY <1>1, <1>12, <3>2
    <2> QED
      BY <1>1, <2>1, RestOf
  <1>14. r \in Seq(Half)
    BY <1>1, RestOf
  <1>15. hp \o r = b
    <2>1. 2 * w \in 0..Len(b)
      BY <1>1, <1>9
    <2> HIDE DEF w, hp, r
    <2>2. b \in Seq(Half)
      BY <1>1
    <2>3. SubSeq(b, 1, 2 * w) \o SubSeq(b, 2 * w + 1, Len(b)) = b
      BY <2>1, <2>2, Cut
    <2> QED
      BY <1>10, <1>13, <2>3
  <1> HIDE DEF hp, r
  <1>16. ((he \o hp) \o r) \o back = q
    <2>1. (he \o hp) \o r = he \o b
      <3>1. (he \o hp) \o r = he \o (hp \o r)
        BY <1>8, <1>14, Regroup, SMTT(30)
      <3> QED
        BY <1>15, <3>1
    <2>0. he \in Seq(Half) /\ b \in Seq(Half) /\ back \in Seq(Half)
      BY <1>1, <1>8
    <2>2. (he \o b) \o back = he \o (b \o back)
      BY <2>0, ConcatAssociative, SMTT(30)
    <2> QED
      BY <1>2, <1>11, <2>1, <2>2
  <1> QED
    BY <1>7, <1>16 DEF b, back, e, q, he, hp, r

LEMMA AnsweredIsNat ==
  ASSUME TypeOK, NEW s \in Sockets
  PROVE  Len(got[s]) + Len(out[s]) \in Nat
  <1> DEFINE m == Len(got[s])
             n == Len(out[s])
  <1>1. m \in Nat /\ n \in Nat
    BY Typed
  <1> HIDE DEF m, n
  <1>2. m + n \in Nat
    BY <1>1
  <1> QED
    BY <1>2 DEF m, n

\* HandleRead, after the packets were answered.
LEMMA ReadFlows ==
  ASSUME TypeOK, NEW s \in Sockets, FlowInv(s), Open(s), NEW n \in 1..Len(in[s]),
         conn'[s] = QueueResponses([conn[s] EXCEPT !.buf = Rest(Received(s, n))],
                                   Packets(Received(s, n))),
         done'[s] = done[s] \o Packets(Received(s, n)), in'[s] = Coming(s, n),
         peer'[s] = peer[s], out'[s] = out[s], stream'[s] = stream[s], got'[s] = got[s]
  PROVE  FlowInv(s)' /\ conn'[s] \in Conn /\ in'[s] \in Seq(Half) /\ done'[s] \in Seq(Numbers)
  <1> DEFINE b == Received(s, n)
             ps == Packets(b)
             e == done[s]
             k == conn[s].queue
             g == got[s] \o out[s]
  <1>1. /\ conn[s] \in Conn /\ k \in Seq(Half) /\ got[s] \in Seq(Half) /\ out[s] \in Seq(Half)
        /\ Len(got[s]) \in Nat /\ Len(out[s]) \in Nat
    BY Typed
  <1>2. ps \in Seq(Numbers) /\ e \in Seq(Numbers) /\ e \o ps \in Seq(Numbers)
    BY HandledNumbers, ReadHandles
  <1>3. Rest(b) \in Seq(Half) /\ Coming(s, n) \in Seq(Half)
    BY ReadAhead, RestOf
  <1>4. /\ Halves(ps) \in Seq(Half) /\ Halves(e) \in Seq(Half)
        /\ Len(Halves(e)) = 2 * Len(e) /\ Len(e) \in Nat
        /\ Halves(e \o ps) = Halves(e) \o Halves(ps)
    BY <1>2, HalvesAreHalf, HalvesOfConcat, LenProperties
  <1> HIDE DEF b, ps, e, k
  <1>5. k \o Halves(ps) \in Seq(Half)
    BY <1>1, <1>4, ConcatProperties
  <1>6. /\ conn'[s] = [conn[s] EXCEPT !.buf = Rest(b), !.queue = k \o Halves(ps),
                                      !.armed = conn[s].armed \/ ps # <<>>]
        /\ done'[s] = e \o ps
    BY <1>1 DEF QueueResponses, Conn, b, ps, e, k
  <1>7. /\ conn'[s].st = "open" /\ conn'[s].buf = Rest(b) /\ conn'[s].queue = k \o Halves(ps)
        /\ conn'[s] \in Conn
    <2> DEFINE f == Rest(b)
               h == k \o Halves(ps)
               x == conn[s].armed \/ ps # <<>>
    <2>1. f \in Seq(Half) /\ h \in Seq(Half) /\ x \in BOOLEAN
      BY <1>1, <1>3, <1>5 DEF b
    <2>2. conn'[s] = [conn[s] EXCEPT !.buf = f, !.queue = h, !.armed = x]
      BY <1>6
    <2> HIDE DEF f, h, x
    <2>3. conn'[s].st = "open" /\ conn'[s].buf = f /\ conn'[s].queue = h /\ conn'[s] \in Conn
      BY <1>1, <2>1, <2>2 DEF Open, Conn
    <2> QED
      BY <2>3 DEF f, h
  <1>8. Ahead(s)' = Rest(b) \o Coming(s, n)
    BY <1>7 DEF Ahead
  <1>9. SentInv(s)'
    BY DEF FlowInv, SentInv
  <1>10. ArrivedInv(s)'
    BY <1>8, ReadArrives DEF ArrivedInv, Behind, b
  <1>11. HandledInv(s)'
    <2> DEFINE q == stream[s]
               v == Rest(b) \o Coming(s, n)
               w == Whole(b)
               p == Behind(s)
               d == e \o ps
    <2>1. p + 2 * w <= Len(q) - Len(v) /\ Behind(s)' = Len(q) - Len(v) /\ Len(v) \in Nat
      BY <1>8, ReadArrives DEF Behind, b
    <2>2. \A i \in 1..Len(d) :
            /\ d[i] \in Numbers
            /\ \E j \in 1..(Len(q) - 1) :
                 /\ q[j] = <<d[i], "head">> /\ q[j + 1] = <<d[i], "body">> /\ j < p + 2 * w
            /\ i > 1 => d[i - 1] < d[i]
      BY ReadHandles DEF b, ps, e
    <2>3. done'[s] = d
      BY <1>6
    <2>4. p \in Nat /\ w \in Nat /\ Len(q) \in Nat
      BY ReadAhead, WholeIs, Typed DEF b
    <2> HIDE DEF q, v, w, p, d
    <2>5. \A j \in 1..(Len(q) - 1) : j < p + 2 * w => j < Len(q) - Len(v)
      BY <2>1, <2>4
    <2>6. stream'[s] = q
      BY DEF q
    <2> QED
      BY <2>1, <2>2, <2>3, <2>5, <2>6 DEF HandledInv
  <1>12. InputInv(s)'
    <2> SUFFICES ASSUME ~HasJunk(s)'
                 PROVE  (Halves(e \o ps) \o Rest(b)) \o Coming(s, n) = stream[s]
      BY <1>6, <1>7 DEF InputInv
    <2>1. ~HasJunk(s)
      BY DEF HasJunk
    <2> QED
      BY <2>1, ReadConserves DEF b, ps, e
  <1>13. OutputInv(s)'
    <2> SUFFICES ASSUME peer[s] # "rst"
                 PROVE  g \o (k \o Halves(ps)) = Halves(e) \o Halves(ps)
      BY <1>4, <1>6, <1>7 DEF OutputInv
    <2>1. g \o k = Halves(e)
      BY DEF FlowInv, OutputInv, k, e
    <2>2. g \in Seq(Half)
      BY <1>1, ConcatProperties
    <2> DEFINE hp == Halves(ps)
    <2>4. g \in Seq(Half) /\ k \in Seq(Half) /\ hp \in Seq(Half)
      BY <1>1, <1>4, <2>2
    <2> HIDE DEF g, hp
    <2>5. (g \o k) \o hp = g \o (k \o hp)
      BY <2>4, Regroup, SMTT(30)
    <2>3. (g \o k) \o Halves(ps) = g \o (k \o Halves(ps))
      BY <2>5 DEF hp
    <2> QED
      BY <2>1, <2>3
  <1>14. AnswersInv(s)'
    <2> DEFINE m == Len(got[s]) + Len(out[s])
    <2>1. /\ m <= 2 * Len(e) /\ m \in Nat /\ \A i \in 1..m : g[i] = Halves(e)[i]
      <3>1. m <= 2 * Len(e) /\ \A i \in 1..m : g[i] = Halves(e)[i]
        BY DEF FlowInv, AnswersInv, e
      <3>2. m \in Nat
        BY AnsweredIsNat
      <3> HIDE DEF m, g
      <3> QED
        BY <3>1, <3>2
    <2>2. /\ Len(e \o ps) = Len(e) + Len(ps) /\ Len(ps) \in Nat
      BY <1>2, ConcatProperties, LenProperties
    <2> HIDE DEF m, g
    <2>3. \A i \in 1..m : Halves(e \o ps)[i] = Halves(e)[i]
      <3>1. \A i \in 1..(Len(Halves(e)) + Len(Halves(ps))) :
              (Halves(e) \o Halves(ps))[i] =
                IF i <= Len(Halves(e)) THEN Halves(e)[i] ELSE Halves(ps)[i - Len(Halves(e))]
        BY <1>4, ConcatProperties
      <3>2. Len(Halves(ps)) \in Nat
        BY <1>4, LenProperties
      <3>3. \A i \in 1..m : i \in 1..(Len(Halves(e)) + Len(Halves(ps))) /\ i <= Len(Halves(e))
        BY <1>4, <2>1, <3>2
      <3> QED
        BY <1>4, <3>1, <3>3
    <2>4. m <= 2 * Len(e \o ps)
      BY <1>4, <2>1, <2>2
    <2>5. Len(got'[s]) + Len(out'[s]) = m /\ got'[s] \o out'[s] = g
      BY DEF m, g
    <2>6. done'[s] = e \o ps
      BY <1>6
    <2>7. \A i \in 1..m : g[i] = Halves(e \o ps)[i]
      BY <2>1, <2>3
    <2> QED
      BY <2>4, <2>5, <2>6, <2>7 DEF AnswersInv
  <1>15. NewInv(s)' /\ RoomInv(s)'
    BY <1>7 DEF FlowInv, NewInv, RoomInv
  <1>16. in'[s] \in Seq(Half) /\ done'[s] \in Seq(Numbers)
    BY <1>2, <1>3, <1>6 DEF ps, e
  <1> QED
    BY <1>7, <1>9, <1>10, <1>11, <1>12, <1>13, <1>14, <1>15, <1>16 DEF FlowInv

\* A send takes no more than is queued or than there is room for.
LEMMA SendableIs ==
  ASSUME TypeOK, NEW s \in Sockets, FlowInv(s)
  PROVE  Sendable(s) \in 0..Len(conn[s].queue) /\ Len(out[s]) + Sendable(s) <= Room
  <1> DEFINE l == Len(conn[s].queue)
             m == Len(out[s])
  <1>1. l \in Nat /\ m \in Nat
    BY Typed
  <1>2. m <= Room
    BY DEF FlowInv, RoomInv
  <1>3. Sendable(s) = IF l < Room - m THEN l ELSE Room - m
    BY DEF Sendable
  <1>4. Room \in Nat
    BY BoundsAssumption
  <1> HIDE DEF l, m
  <1>5. Sendable(s) \in 0..l /\ m + Sendable(s) <= Room
    BY <1>1, <1>2, <1>3, <1>4
  <1> QED
    BY <1>5 DEF l, m

\* What a send leaves of a connection.
LEMMA SendLeaves ==
  ASSUME TypeOK, NEW s \in Sockets, NEW n \in 0..Len(conn[s].queue), Send(s, n)
  PROVE  /\ conn'[s].st = conn[s].st /\ conn'[s].buf = conn[s].buf
         /\ conn'[s].queue = SubSeq(conn[s].queue, n + 1, Len(conn[s].queue))
         /\ conn' \in [Sockets -> Conn] /\ \A t \in Sockets \ {s} : conn'[t] = conn[t]
  <1> DEFINE k == conn[s].queue
             r == SubSeq(k, n + 1, Len(k))
             x == r # <<>>
  <1>1. k \in Seq(Half) /\ conn[s] \in Conn /\ x \in BOOLEAN
    BY Typed
  <1>2. conn' = [conn EXCEPT ![s] = [conn[s] EXCEPT !.queue = r, !.armed = x]]
    BY DEF Send
  <1>3. conn \in [Sockets -> Conn]
    BY DEF TypeOK
  <1>4. r \in Seq(Half)
    <2> HIDE DEF k
    <2> QED
      BY <1>1, Cut
  <1> HIDE DEF k, r, x
  <1>5. /\ [conn[s] EXCEPT !.queue = r, !.armed = x] \in Conn
        /\ [conn[s] EXCEPT !.queue = r, !.armed = x].st = conn[s].st
        /\ [conn[s] EXCEPT !.queue = r, !.armed = x].buf = conn[s].buf
        /\ [conn[s] EXCEPT !.queue = r, !.armed = x].queue = r
    BY <1>1, <1>4 DEF Conn
  <1> QED
    BY <1>2, <1>3, <1>5 DEF k, r

\* The kernel takes the front of the queue.
LEMMA SendFlows ==
  ASSUME TypeOK, NEW s \in Sockets, FlowInv(s), Open(s), Send(s, Sendable(s)),
         out'[s] = out[s] \o SubSeq(conn[s].queue, 1, Sendable(s)),
         in'[s] = in[s], peer'[s] = peer[s], stream'[s] = stream[s],
         done'[s] = done[s], got'[s] = got[s], peer[s] # "rst"
  PROVE  FlowInv(s)' /\ out'[s] \in Seq(Half)
  <1> DEFINE n == Sendable(s)
             k == conn[s].queue
             o == out[s]
             g == got[s]
             h == Halves(done[s])
             front == SubSeq(k, 1, n)
             back == SubSeq(k, n + 1, Len(k))
  <1>1. /\ o \in Seq(Half) /\ g \in Seq(Half) /\ k \in Seq(Half)
        /\ Len(o) \in Nat /\ Len(g) \in Nat /\ Len(k) \in Nat
    BY Typed
  <1>2. n \in 0..Len(k) /\ Len(o) + n <= Room
    BY SendableIs
  <1>3. /\ conn'[s].st = conn[s].st /\ conn'[s].buf = conn[s].buf /\ conn'[s].queue = back
    BY <1>2, SendLeaves
  <1>4. (g \o o) \o k = h
    BY DEF FlowInv, OutputInv
  <1>5. Len(h) = 2 * Len(done[s]) /\ Len(done[s]) \in Nat
    <2>1. done[s] \in Seq(Numbers)
      BY HandledNumbers
    <2> QED
      BY <2>1, HalvesAreHalf, LenProperties
  <1>6. out'[s] = o \o front
    OBVIOUS
  <1> HIDE DEF n, k, o, g, h
  <1>7. front \in Seq(Half) /\ back \in Seq(Half) /\ Len(front) = n /\ front \o back = k
    BY <1>1, <1>2, Cut
  <1> HIDE DEF front, back
  <1>8. o \o front \in Seq(Half) /\ Len(o \o front) = Len(o) + n
    <2>1. Len(o \o front) = Len(o) + Len(front) /\ o \o front \in Seq(Half)
      BY <1>1, <1>7, ConcatProperties
    <2> QED
      BY <1>7, <2>1
  <1> DEFINE f == o \o front
             go == g \o o
             gf == g \o f
  <1>9. /\ go \in Seq(Half) /\ gf \in Seq(Half) /\ Len(gf) = Len(g) + Len(f)
    BY <1>1, <1>8, ConcatProperties
  <1>10. gf = go \o front
    <2>1. g \in Seq(Half) /\ o \in Seq(Half) /\ front \in Seq(Half)
      BY <1>1, <1>7
    <2>2. (g \o o) \o front = g \o (o \o front)
      BY <2>1, Regroup, SMTT(30)
    <2> QED
      BY <2>2
  <1>11. gf \o back = h
    <2>1. go \in Seq(Half) /\ back \in Seq(Half) /\ front \in Seq(Half)
      BY <1>7, <1>9
    <2> HIDE DEF go, gf
    <2>2. (go \o front) \o back = go \o (front \o back)
      BY <2>1, Regroup, SMTT(30)
    <2>3. go \o k = h
      BY <1>4 DEF go
    <2> QED
      BY <1>7, <1>10, <2>2, <2>3
  <1> HIDE DEF f, go, gf
  <1>12. Len(gf) \in Nat /\ Len(gf) <= Len(h) /\ \A i \in 1..Len(gf) : gf[i] = h[i]
    <2>0. gf \in Seq(Half) /\ back \in Seq(Half)
      BY <1>7, <1>9
    <2>1. Len(gf \o back) = Len(gf) + Len(back)
      BY <2>0, ConcatProperties
    <2>2. \A i \in 1..(Len(gf) + Len(back)) :
            (gf \o back)[i] = IF i <= Len(gf) THEN gf[i] ELSE back[i - Len(gf)]
      BY <2>0, ConcatProperties
    <2>3. Len(gf) \in Nat /\ Len(back) \in Nat
      BY <1>7, <1>9, LenProperties
    <2>4. \A i \in 1..Len(gf) : i \in 1..(Len(gf) + Len(back)) /\ i <= Len(gf)
      BY <2>3
    <2>5. Len(gf) <= Len(gf) + Len(back)
      BY <2>3
    <2>6. Len(h) = Len(gf) + Len(back)
      BY <1>11, <2>1
    <2>7. \A i \in 1..Len(gf) : gf[i] = h[i]
      BY <1>11, <2>2, <2>4
    <2> QED
      BY <2>3, <2>5, <2>6, <2>7
  <1>13. /\ out'[s] = f /\ got'[s] = g /\ got'[s] \o out'[s] = gf
         /\ Len(got'[s]) + Len(out'[s]) = Len(gf) /\ h = Halves(done'[s])
    BY <1>6, <1>9 DEF f, g, gf, h
  <1>14. SentInv(s)' /\ ArrivedInv(s)'
    BY <1>3 DEF FlowInv, SentInv, ArrivedInv, Live, Ahead, Behind
  <1>15. HandledInv(s)' /\ InputInv(s)'
    BY <1>3 DEF FlowInv, HandledInv, InputInv, Live, Ahead, Behind, HasJunk, Open
  <1>16. OutputInv(s)'
    BY <1>3, <1>11, <1>13 DEF OutputInv
  <1>17. AnswersInv(s)'
    <2>1. Len(gf) <= 2 * Len(done'[s])
      BY <1>5, <1>12
    <2> QED
      BY <1>12, <1>13, <2>1 DEF AnswersInv
  <1>18. NewInv(s)'
    BY <1>3 DEF NewInv, Open
  <1>19. RoomInv(s)'
    BY <1>2, <1>8, <1>13 DEF RoomInv, f
  <1>20. out'[s] \in Seq(Half)
    BY <1>8, <1>13 DEF f
  <1> QED
    BY <1>14, <1>15, <1>16, <1>17, <1>18, <1>19, <1>20 DEF FlowInv

\* Sent to nobody: a RST comes back.
LEMMA SendLost ==
  ASSUME TypeOK, NEW s \in Sockets, FlowInv(s), Open(s), Send(s, Sendable(s)), peer'[s] = "rst",
         in'[s] = in[s], out'[s] = out[s], stream'[s] = stream[s],
         done'[s] = done[s], got'[s] = got[s]
  PROVE  FlowInv(s)'
  <1>1. conn'[s].st = conn[s].st /\ conn'[s].buf = conn[s].buf
    BY SendableIs, SendLeaves
  <1>2. SentInv(s)' /\ ArrivedInv(s)'
    BY <1>1 DEF FlowInv, SentInv, ArrivedInv, Live, Ahead, Behind
  <1>3. HandledInv(s)' /\ InputInv(s)'
    BY <1>1 DEF FlowInv, HandledInv, InputInv, Live, Ahead, Behind, HasJunk, Open
  <1>4. OutputInv(s)' /\ AnswersInv(s)' /\ RoomInv(s)'
    BY DEF FlowInv, OutputInv, AnswersInv, RoomInv
  <1>5. NewInv(s)'
    BY <1>1 DEF NewInv, Open
  <1> QED
    BY <1>2, <1>3, <1>4, <1>5 DEF FlowInv

-----------------------------------------------------------------------------
(* The streams of all connections                                          *)

\* The types of what ShapeInv leaves out.
DataTyped ==
  /\ in \in [Sockets -> Seq(Half)] /\ out \in [Sockets -> Seq(Half)]
  /\ conn \in [Sockets -> Conn]
  /\ stream \in [Sockets -> Seq(Half)] /\ got \in [Sockets -> Seq(Half)]
  /\ done \in [Sockets -> Seq(0..MaxPackets)]

\* A step that leaves the data of a connection alone, and what another one does to it.
Untouched(s) ==
  /\ conn'[s] = conn[s] /\ in'[s] = in[s] /\ out'[s] = out[s]
  /\ stream'[s] = stream[s] /\ done'[s] = done[s] /\ got'[s] = got[s]
  /\ peer[s] = "rst" => peer'[s] = "rst"

LEMMA NewTyped == <<>> \in Seq(Half)
  OBVIOUS

LEMMA TypesGive == TypeOK => DataTyped
  BY DEF TypeOK, DataTyped

LEMMA BlankTyped ==
  /\ NoConn \in Conn /\ NoConn.st = "none" /\ NoConn.buf = <<>> /\ NoConn.queue = <<>>
  /\ Closed \in Conn /\ Closed.st = "closed"
  <1>1. NoConn \in Conn /\ NoConn.st = "none" /\ NoConn.buf = <<>> /\ NoConn.queue = <<>>
    BY NewTyped DEF NoConn, Conn
  <1>2. Closed \in Conn /\ Closed.st = "closed"
    BY <1>1 DEF Closed, Conn
  <1> QED
    BY <1>1, <1>2

\* A step that keeps the streams of each connection keeps all.
LEMMA DataNext ==
  ASSUME DataInv, IInv', DataTyped',
         \A s \in Sockets : Untouched(s) \/ FlowInv(s)'
  PROVE  DataInv'
  <1>1. TypeOK'
    BY DEF IInv, ShapeInv, DataTyped, TypeOK, Fds
  <1>2. ASSUME NEW s \in Sockets, Untouched(s) PROVE FlowInv(s)'
    BY <1>2, FlowStays DEF Untouched, DataInv
  <1> QED
    BY <1>1, <1>2 DEF DataInv

\* A step that leaves all data alone.
LEMMA DataStays ==
  ASSUME DataInv, IInv', UNCHANGED <<conn, in, out, stream, done, got>>,
         \A s \in Sockets : peer[s] = "rst" => peer'[s] = "rst"
  PROVE  DataInv'
  <1>1. DataTyped'
    BY TypesGive DEF DataInv, DataTyped
  <1>2. \A s \in Sockets : Untouched(s)
    BY DEF Untouched
  <1> QED
    BY <1>1, <1>2, DataNext

\* One lemma for each action follows.
LEMMA ConnectData ==
  ASSUME IInv, IInv', DataInv, NEW s \in Sockets, PeerConnect(s)
  PROVE  DataInv'
  <1> DEFINE c == [conn[s] EXCEPT !.st = "queued"]
  <1>1. conn[s].st = "none" /\ conn[s] \in Conn /\ TypeOK /\ FlowInv(s) /\ DataTyped
    BY TypesGive DEF IInv, LoopInv, PeerConnect, DataInv, DataTyped
  <1>2. conn[s].buf = <<>> /\ conn[s].queue = <<>>
    BY <1>1 DEF FlowInv, NewInv
  <1>3. c \in Conn /\ c.st = "queued" /\ c.buf = <<>> /\ c.queue = <<>>
    BY <1>1, <1>2 DEF Conn
  <1>4. conn' = [conn EXCEPT ![s] = c]
    BY DEF PeerConnect
  <1> HIDE DEF c
  <1>5. UNCHANGED <<in, out, stream, done, got>>
    BY DEF PeerConnect, historyVars
  <1>6. /\ conn' \in [Sockets -> Conn] /\ conn'[s] = c
        /\ \A t \in Sockets \ {s} : conn'[t] = conn[t]
    BY <1>1, <1>3, <1>4 DEF DataTyped
  <1>7. FlowInv(s)'
    <2>1. /\ conn[s].st \in {"none", "queued"} /\ conn'[s].st = "queued"
          /\ conn'[s].buf = <<>> /\ conn'[s].queue = <<>>
      BY <1>1, <1>3, <1>6
    <2>2. /\ in'[s] = in[s] /\ out'[s] = out[s] /\ stream'[s] = stream[s]
          /\ done'[s] = done[s] /\ got'[s] = got[s] /\ TypeOK /\ FlowInv(s)
      BY <1>1, <1>5
    <2> QED
      BY <2>1, <2>2, FlowBegins
  <1>8. \A t \in Sockets \ {s} : Untouched(t)
    BY <1>5, <1>6 DEF Untouched, PeerConnect, TypeOK, DataInv
  <1>9. DataTyped'
    BY <1>1, <1>5, <1>6 DEF DataTyped
  <1> QED
    BY <1>7, <1>8, <1>9, DataNext

LEMMA WriteData ==
  ASSUME IInv', DataInv, NEW s \in Sockets, NEW hs, SentNext(stream[s], hs), PeerWrites(s, hs)
  PROVE  DataInv'
  <1>1. TypeOK /\ FlowInv(s) /\ DataTyped
    BY TypesGive DEF DataInv
  <1>2. FlowInv(s)' /\ stream'[s] \in Seq(Half) /\ in'[s] \in Seq(Half)
    BY <1>1, WriteFlows
  <1> DEFINE v == stream[s] \o hs
             w == in[s] \o hs
  <1>3. /\ UNCHANGED <<peer, conn, out, done, got>>
        /\ in' = [in EXCEPT ![s] = w] /\ stream' = [stream EXCEPT ![s] = v]
    BY DEF PeerWrites, serverVars
  <1> HIDE DEF v, w
  <1>4. \A t \in Sockets \ {s} : Untouched(t)
    BY <1>1, <1>3 DEF Untouched, DataTyped
  <1>5. DataTyped'
    BY <1>1, <1>2, <1>3 DEF DataTyped
  <1> QED
    BY <1>2, <1>4, <1>5, DataNext

LEMMA RecvData ==
  ASSUME IInv', DataInv, NEW s \in Sockets, NEW n \in Nat, PeerRecv(s, n)
  PROVE  DataInv'
  <1>1. TypeOK /\ FlowInv(s) /\ DataTyped /\ n \in 1..Len(out[s])
    BY TypesGive DEF DataInv, PeerRecv
  <1>2. FlowInv(s)' /\ got'[s] \in Seq(Half) /\ out'[s] \in Seq(Half)
    BY <1>1, RecvFlows
  <1> DEFINE v == got[s] \o SubSeq(out[s], 1, n)
             w == SubSeq(out[s], n + 1, Len(out[s]))
  <1>3. /\ UNCHANGED <<peer, conn, in, done, stream>>
        /\ got' = [got EXCEPT ![s] = v] /\ out' = [out EXCEPT ![s] = w]
    BY DEF PeerRecv, serverVars
  <1> HIDE DEF v, w
  <1>4. \A t \in Sockets \ {s} : Untouched(t)
    BY <1>1, <1>3 DEF Untouched, DataTyped
  <1>5. DataTyped'
    BY <1>1, <1>2, <1>3 DEF DataTyped
  <1> QED
    BY <1>2, <1>4, <1>5, DataNext

LEMMA AcceptData ==
  ASSUME IInv, IInv', DataInv, Accept
  PROVE  DataInv'
  <1> DEFINE c == [NoConn EXCEPT !.st = "open", !.id = nextId]
  <1>1. backlog \in Seq(Sockets) /\ backlog # <<>> /\ LoopInv /\ nextId \in Nat
    BY DEF IInv, ShapeInv, Accept
  <1>2. PICK s \in Sockets : s = Head(backlog)
    BY <1>1
  <1>3. conn[s].st = "queued"
    BY <1>1, <1>2 DEF LoopInv
  <1>4. conn' = [conn EXCEPT ![s] = c] /\ UNCHANGED <<peer, in, out, stream, done, got>>
    BY <1>2 DEF Accept, kernelVars, historyVars
  <1>5. c \in Conn /\ c.st = "open" /\ c.buf = <<>> /\ c.queue = <<>>
    BY <1>1, BlankTyped DEF Conn
  <1> HIDE DEF c
  <1>6. TypeOK /\ FlowInv(s) /\ DataTyped
    BY TypesGive DEF DataInv
  <1>7. /\ conn' \in [Sockets -> Conn] /\ conn'[s] = c
        /\ \A t \in Sockets \ {s} : conn'[t] = conn[t]
    BY <1>4, <1>5, <1>6 DEF DataTyped
  <1>8. FlowInv(s)'
    BY <1>3, <1>4, <1>5, <1>6, <1>7, FlowBegins
  <1>9. \A t \in Sockets \ {s} : Untouched(t)
    BY <1>4, <1>7 DEF Untouched
  <1>10. DataTyped'
    BY <1>4, <1>6, <1>7 DEF DataTyped
  <1> QED
    BY <1>8, <1>9, <1>10, DataNext

LEMMA CloseData ==
  ASSUME IInv', DataInv, NEW s \in Sockets, CloseConnection(s),
         UNCHANGED <<peer, in, out, stream, done, got>>
  PROVE  DataInv'
  <1>1. TypeOK /\ FlowInv(s) /\ DataTyped
    BY TypesGive DEF DataInv
  <1>2. Closed \in Conn /\ Closed.st = "closed"
    BY BlankTyped
  <1>3. /\ conn' \in [Sockets -> Conn] /\ conn'[s] = Closed
        /\ \A t \in Sockets \ {s} : conn'[t] = conn[t]
    BY <1>1, <1>2 DEF DataTyped, CloseConnection
  <1>4. FlowInv(s)'
    BY <1>1, <1>2, <1>3, FlowEnds
  <1>5. \A t \in Sockets \ {s} : Untouched(t)
    BY <1>3 DEF Untouched
  <1>6. DataTyped'
    BY <1>1, <1>3 DEF DataTyped
  <1> QED
    BY <1>4, <1>5, <1>6, DataNext

LEMMA DieData ==
  ASSUME IInv', DataInv, NEW how, Die(how), UNCHANGED <<in, out, stream, done, got>>
  PROVE  DataInv'
  <1>1. TypeOK /\ DataTyped /\ \A s \in Sockets : FlowInv(s)
    BY TypesGive DEF DataInv
  <1>2. conn' = [s \in Sockets |-> IF conn[s].st = "none" THEN NoConn ELSE Closed]
    BY DEF Die
  <1>3. /\ Closed \in Conn /\ Closed.st = "closed"
        /\ NoConn \in Conn /\ NoConn.st = "none" /\ NoConn.buf = <<>> /\ NoConn.queue = <<>>
    BY BlankTyped
  <1>4. conn' \in [Sockets -> Conn]
    BY <1>2, <1>3
  <1>5. ASSUME NEW s \in Sockets, conn[s].st # "none" PROVE FlowInv(s)'
    BY <1>1, <1>2, <1>3, <1>5, FlowEnds
  <1>6. ASSUME NEW s \in Sockets, conn[s].st = "none" PROVE FlowInv(s)'
    <2>1. conn'[s] = NoConn
      BY <1>2, <1>6
    <2> USE <1>1, <1>3, <1>6, <2>1 DEF FlowInv, Live, Open
    <2>2. SentInv(s)' /\ ArrivedInv(s)' /\ HandledInv(s)'
      BY DEF SentInv, ArrivedInv, HandledInv
    <2>3. InputInv(s)' /\ OutputInv(s)' /\ AnswersInv(s)' /\ RoomInv(s)'
      BY DEF InputInv, OutputInv, AnswersInv, RoomInv
    <2>4. NewInv(s)'
      BY DEF NewInv
    <2> QED
      BY <2>2, <2>3, <2>4
  <1>7. DataTyped'
    BY <1>1, <1>4 DEF DataTyped
  <1> QED
    BY <1>5, <1>6, <1>7, DataNext

LEMMA ReadData ==
  ASSUME IInv, IInv', DataInv, NEW s \in Sockets, HandleRead(s)
  PROVE  DataInv'
  <1>1. Open(s)
    BY DEF IInv, LoopInv, HandleRead
  <1>2. UNCHANGED <<peer, out, stream, got>>
    BY DEF HandleRead
  <1>3. TypeOK /\ FlowInv(s) /\ DataTyped
    BY TypesGive DEF DataInv
  <1>4. CASE CloseConnection(s) /\ UNCHANGED <<in, done>>
    BY <1>2, <1>4, CloseData
  <1>5. CASE ~Gone(s)
    <2>1. PICK n \in 1..Len(in[s]) :
            LET b == Received(s, n) IN
            /\ conn' = [conn EXCEPT ![s] =
                          QueueResponses([conn[s] EXCEPT !.buf = Rest(b)], Packets(b))]
            /\ done' = [done EXCEPT ![s] = @ \o Packets(b)]
            /\ in' = [in EXCEPT ![s] = SubSeq(@, n + 1, Len(@))]
      BY <1>5 DEF HandleRead, Received
    <2> DEFINE c == QueueResponses([conn[s] EXCEPT !.buf = Rest(Received(s, n))],
                                   Packets(Received(s, n)))
               d == done[s] \o Packets(Received(s, n))
               i == Coming(s, n)
    <2>2. /\ conn' = [conn EXCEPT ![s] = c] /\ done' = [done EXCEPT ![s] = d]
          /\ in' = [in EXCEPT ![s] = i]
      BY <2>1 DEF Coming
    <2> HIDE DEF c, d, i
    <2>3. conn'[s] = c /\ done'[s] = d /\ in'[s] = i
      BY <1>3, <2>2 DEF DataTyped
    <2>4. FlowInv(s)' /\ conn'[s] \in Conn /\ in'[s] \in Seq(Half) /\ done'[s] \in Seq(Numbers)
      BY <1>1, <1>2, <1>3, <2>3, ReadFlows DEF c, d, i
    <2>5. Seq(Numbers) \subseteq Seq(0..MaxPackets)
      BY SeqMonotonic, BoundsAssumption DEF Numbers
    <2>6. DataTyped'
      BY <1>2, <1>3, <2>2, <2>3, <2>4, <2>5 DEF DataTyped
    <2>7. \A t \in Sockets \ {s} : Untouched(t)
      BY <1>2, <1>3, <2>2 DEF Untouched, DataTyped
    <2> QED
      BY <2>4, <2>6, <2>7, DataNext
  <1> QED
    BY <1>4, <1>5 DEF HandleRead

LEMMA SendData ==
  ASSUME IInv, IInv', DataInv, NEW s \in Sockets, HandleWrite(s)
  PROVE  DataInv'
  <1>1. Open(s) /\ UNCHANGED <<in, stream, done, got>>
    BY DEF IInv, LoopInv, HandleWrite, historyVars
  <1>2. TypeOK /\ FlowInv(s) /\ DataTyped
    BY TypesGive DEF DataInv
  <1>3. Sendable(s) \in 0..Len(conn[s].queue)
    BY <1>2, SendableIs
  <1> DEFINE w == out[s] \o SubSeq(conn[s].queue, 1, Sendable(s))
  <1>4. CASE ~Gone(s) /\ Send(s, Sendable(s)) /\ out' = [out EXCEPT ![s] = w] /\ peer' = peer
    <2>1. conn' \in [Sockets -> Conn] /\ \A t \in Sockets \ {s} : conn'[t] = conn[t]
      BY <1>2, <1>3, <1>4, SendLeaves
    <2>2. out'[s] = w /\ \A t \in Sockets \ {s} : out'[t] = out[t]
      <3> HIDE DEF w
      <3> QED
        BY <1>2, <1>4 DEF DataTyped
    <2>3. FlowInv(s)' /\ out'[s] \in Seq(Half)
      BY <1>1, <1>2, <1>4, <2>2, SendFlows DEF Gone
    <2>4. \A t \in Sockets \ {s} : Untouched(t)
      BY <1>1, <1>4, <2>1, <2>2 DEF Untouched
    <2> HIDE DEF w
    <2>5. DataTyped'
      BY <1>1, <1>2, <1>4, <2>1, <2>2, <2>3 DEF DataTyped
    <2> QED
      BY <2>3, <2>4, <2>5, DataNext
  <1>5. CASE Send(s, Sendable(s)) /\ peer' = [peer EXCEPT ![s] = "rst"] /\ out' = out
    <2>1. conn' \in [Sockets -> Conn] /\ \A t \in Sockets \ {s} : conn'[t] = conn[t]
      BY <1>2, <1>3, <1>5, SendLeaves
    <2>2. peer'[s] = "rst" /\ \A t \in Sockets \ {s} : peer'[t] = peer[t]
      BY <1>2, <1>5 DEF TypeOK
    <2>3. FlowInv(s)'
      BY <1>1, <1>2, <1>5, <2>2, SendLost
    <2>4. \A t \in Sockets \ {s} : Untouched(t)
      BY <1>1, <1>5, <2>1, <2>2 DEF Untouched
    <2>5. DataTyped'
      BY <1>1, <1>2, <1>5, <2>1 DEF DataTyped
    <2> QED
      BY <2>3, <2>4, <2>5, DataNext
  <1>6. CASE Die("killed") /\ out' = out
    BY <1>1, <1>6, DieData
  <1>7. CASE CloseConnection(s) /\ UNCHANGED <<peer, out>>
    BY <1>1, <1>7, CloseData
  <1> QED
    BY <1>4, <1>5, <1>6, <1>7 DEF HandleWrite

\* Whatever the server does.
LEMMA ServerData ==
  ASSUME IInv, IInv', DataInv, ServerNext
  PROVE  DataInv'
  <1>1. CASE EpollWait \/ Restart
    BY <1>1, DataStays DEF EpollWait, Restart, kernelVars, historyVars
  <1>2. CASE Accept
    BY <1>2, AcceptData
  <1>3. ASSUME NEW s \in Sockets, ConnectionEvent(s) PROVE DataInv'
    <2>1. CASE Hangup(s)
      <3>1. CloseConnection(s) /\ UNCHANGED <<peer, in, out, stream, done, got>>
        BY <2>1 DEF Hangup, kernelVars, historyVars
      <3> QED
        BY <3>1, CloseData
    <2>2. CASE HandleRead(s)
      BY <2>2, ReadData
    <2>3. CASE HandleWrite(s)
      BY <2>3, SendData
    <2> QED
      BY <1>3, <2>1, <2>2, <2>3 DEF ConnectionEvent
  <1>4. CASE AcceptFails \/ Crash
    BY <1>4, DieData DEF AcceptFails, Crash, kernelVars, historyVars
  <1> QED
    BY <1>1, <1>2, <1>3, <1>4 DEF ServerNext, Loop, Failure

-----------------------------------------------------------------------------
(* Packets are numbered in the order in which they are sent                *)

\* A half that is sent has a number, and no other number is in use.
LEMMA UsedGrows ==
  ASSUME TypeOK, NEW s \in Sockets, NEW hs \in Seq(Half), PeerWrites(s, hs)
  PROVE  \A k : Used(k)' <=> Used(k) \/ \E i \in 1..Len(hs) : Number(hs[i]) = k
  <1> DEFINE q == stream[s]
             r == q \o hs
  <1>1. q \in Seq(Half) /\ Len(q) \in Nat /\ Len(hs) \in Nat
    BY Typed, LenProperties
  <1>2. stream' = [stream EXCEPT ![s] = r] /\ stream \in [Sockets -> Seq(Half)]
    BY DEF PeerWrites, TypeOK
  <1> HIDE DEF q
  <1>3. /\ Len(r) = Len(q) + Len(hs)
        /\ \A i \in 1..(Len(q) + Len(hs)) : r[i] = IF i <= Len(q) THEN q[i] ELSE hs[i - Len(q)]
    BY <1>1, ConcatProperties
  <1> HIDE DEF r
  <1>4. \A i \in 1..Len(q) : i \in 1..Len(r) /\ r[i] = q[i]
    BY <1>1, <1>3
  <1>5. ASSUME NEW i \in 1..Len(hs) PROVE Len(q) + i \in 1..Len(r) /\ r[Len(q) + i] = hs[i]
    <2>1. /\ Len(q) + i \in 1..(Len(q) + Len(hs)) /\ ~(Len(q) + i <= Len(q))
          /\ Len(q) + i - Len(q) = i
      BY <1>1
    <2> QED
      BY <1>3, <2>1
  <1>6. ASSUME NEW i \in 1..Len(r)
        PROVE  \/ i \in 1..Len(q) /\ r[i] = q[i]
               \/ \E j \in 1..Len(hs) : r[i] = hs[j]
    <2>1. CASE i <= Len(q)
      BY <1>1, <1>3, <2>1
    <2>2. CASE ~(i <= Len(q))
      <3>1. i - Len(q) \in 1..Len(hs) /\ i \in 1..(Len(q) + Len(hs))
        BY <1>1, <1>3, <2>2
      <3> QED
        BY <1>3, <2>2, <3>1
    <2> QED
      BY <2>1, <2>2
  <1>7. stream'[s] = r /\ \A t \in Sockets \ {s} : stream'[t] = stream[t]
    BY <1>2
  <1>8. ASSUME NEW k, Used(k)' PROVE Used(k) \/ \E i \in 1..Len(hs) : Number(hs[i]) = k
    <2>1. PICK t \in Sockets : \E i \in 1..Len(stream'[t]) : Number(stream'[t][i]) = k
      BY <1>8 DEF Used
    <2>2. CASE t = s
      <3>1. PICK i \in 1..Len(r) : Number(r[i]) = k
        BY <1>7, <2>1, <2>2
      <3>2. CASE i \in 1..Len(q) /\ r[i] = q[i]
        BY <3>1, <3>2 DEF Used, q
      <3>3. CASE \E j \in 1..Len(hs) : r[i] = hs[j]
        BY <3>1, <3>3
      <3> QED
        BY <1>6, <3>2, <3>3
    <2>3. CASE t # s
      BY <1>7, <2>1, <2>3 DEF Used
    <2> QED
      BY <2>2, <2>3
  <1>9. ASSUME NEW k, Used(k) PROVE Used(k)'
    <2>1. PICK t \in Sockets : \E i \in 1..Len(stream[t]) : Number(stream[t][i]) = k
      BY <1>9 DEF Used
    <2>2. CASE t = s
      <3>1. PICK i \in 1..Len(q) : Number(q[i]) = k
        BY <2>1, <2>2 DEF q
      <3>2. i \in 1..Len(r) /\ Number(r[i]) = k
        BY <1>4, <3>1
      <3> QED
        BY <1>7, <3>2 DEF Used
    <2>3. CASE t # s
      BY <1>7, <2>1, <2>3 DEF Used
    <2> QED
      BY <2>2, <2>3
  <1>10. ASSUME NEW k, NEW i \in 1..Len(hs), Number(hs[i]) = k PROVE Used(k)'
    BY <1>5, <1>7, <1>10 DEF Used
  <1> QED
    BY <1>8, <1>9, <1>10

\* A fresh number is larger than those in use, and the next one.
LEMMA FreshIsNext ==
  ASSUME TypeOK, UsedInv, NEW k \in Numbers, Fresh(k), NEW s \in Sockets
  PROVE  SentNext(stream[s], Halves(<<k>>))
  <1>1. ASSUME NEW j \in 1..Len(stream[s]) PROVE Number(stream[s][j]) < k
    <2> DEFINE m == Number(stream[s][j])
    <2>1. stream[s][j] \in Half
      BY Typed, ElementOfSeq
    <2>2. m \in 0..MaxPackets
      BY <2>1, BoundsAssumption DEF Half, Junk, Number
    <2>3. Used(m)
      BY DEF Used
    <2> HIDE DEF m
    <2>4. CASE m >= k
      <3>1. m \in Numbers /\ k \in 1..m
        BY <2>2, <2>4 DEF Numbers
      <3>2. Used(k)
        BY <2>3, <3>1 DEF UsedInv
      <3> QED
        BY <3>2 DEF Fresh
    <2>5. CASE ~(m >= k)
      BY <2>2, <2>5 DEF Numbers, m
    <2> QED
      BY <2>4, <2>5
  <1> QED
    BY <1>1, OnePacket DEF SentNext

\* So numbers stay without a gap when a packet is sent,
LEMMA FreshKeepsUsed ==
  ASSUME TypeOK, UsedInv, NEW k \in Numbers, NEW s \in Sockets, PeerSend(s, k)
  PROVE  UsedInv'
  <1> DEFINE hs == <<<<k, "head">>, <<k, "body">>>>
  <1>1. hs \in Seq(Half) /\ Len(hs) = 2 /\ Number(hs[1]) = k /\ Number(hs[2]) = k
    BY DEF Half, Numbers, Number
  <1>2. PeerWrites(s, hs) /\ Fresh(k)
    BY OnePacket DEF PeerSend
  <1> HIDE DEF hs
  <1>3. \A m : Used(m)' <=> Used(m) \/ \E i \in 1..Len(hs) : Number(hs[i]) = m
    BY <1>1, <1>2, UsedGrows
  <1>4. \A m : Used(m)' <=> Used(m) \/ m = k
    <2>1. \A i \in 1..2 : i = 1 \/ i = 2
      OBVIOUS
    <2> QED
      BY <1>1, <1>3, <2>1
  <1>5. ASSUME NEW m \in Numbers, Used(m)', NEW j \in 1..m PROVE Used(j)'
    <2>1. CASE Used(m)
      BY <1>4, <2>1 DEF UsedInv
    <2>2. CASE m = k
      <3>1. j \in 1..(k - 1) \/ j = k
        BY <2>2 DEF Numbers
      <3> QED
        BY <1>2, <1>4, <3>1 DEF Fresh
    <2> QED
      BY <1>4, <1>5, <2>1, <2>2
  <1> QED
    BY <1>5 DEF UsedInv

\* and when junk is.
LEMMA JunkKeepsUsed ==
  ASSUME TypeOK, UsedInv, NEW s \in Sockets, PeerWrites(s, <<Junk>>)
  PROVE  UsedInv'
  <1> DEFINE hs == <<Junk>>
  <1>1. hs \in Seq(Half) /\ \A i \in 1..Len(hs) : Number(hs[i]) = 0
    BY DEF Half, Junk, Number
  <1>2. PeerWrites(s, hs)
    OBVIOUS
  <1> HIDE DEF hs
  <1>3. \A m : Used(m)' <=> Used(m) \/ \E i \in 1..Len(hs) : Number(hs[i]) = m
    BY <1>1, <1>2, UsedGrows
  <1>4. \A m \in Numbers : Used(m)' <=> Used(m)
    BY <1>1, <1>3 DEF Numbers
  <1>5. \A m \in Numbers : \A j \in 1..m : j \in Numbers
    BY BoundsAssumption DEF Numbers
  <1> QED
    BY <1>4, <1>5 DEF UsedInv

LEMMA UsedStays == UsedInv /\ stream' = stream => UsedInv'
  BY DEF UsedInv, Used

\* Whatever a peer does.
LEMMA PeerData ==
  ASSUME IInv, IInv', DataInv, UsedInv, NEW s \in Sockets, PeerStep(s)
  PROVE  DataInv' /\ UsedInv'
  <1>1. TypeOK
    BY DEF DataInv
  <1>2. CASE PeerConnect(s)
    BY <1>2, ConnectData, UsedStays DEF PeerConnect, historyVars
  <1>3. CASE PeerJunk(s)
    <2>1. PeerWrites(s, <<Junk>>) /\ SentNext(stream[s], <<Junk>>)
      BY <1>3 DEF PeerJunk, SentNext
    <2> QED
      BY <1>1, <2>1, WriteData, JunkKeepsUsed
  <1>4. ASSUME NEW k \in Numbers, PeerSend(s, k) PROVE DataInv' /\ UsedInv'
    <2>1. SentNext(stream[s], Halves(<<k>>)) /\ PeerWrites(s, Halves(<<k>>))
      BY <1>1, <1>4, FreshIsNext DEF PeerSend
    <2> QED
      BY <1>1, <1>4, <2>1, WriteData, FreshKeepsUsed
  <1>5. ASSUME NEW n \in 1..Room, PeerRecv(s, n) PROVE DataInv' /\ UsedInv'
    <2>1. n \in Nat
      BY BoundsAssumption
    <2> QED
      BY <1>5, <2>1, RecvData, UsedStays DEF PeerRecv
  <1>6. CASE PeerClose(s) \/ CloseArrives(s)
    <2>1. UNCHANGED <<conn, in, out, stream, done, got>>
      BY <1>6 DEF PeerClose, CloseArrives, serverVars, historyVars
    <2>2. \A t \in Sockets : peer[t] = "rst" => peer'[t] = "rst"
      BY <1>1, <1>6 DEF PeerClose, CloseArrives, TypeOK
    <2> QED
      BY <2>1, <2>2, DataStays, UsedStays
  <1> QED
    BY <1>2, <1>3, <1>4, <1>5, <1>6 DEF PeerStep, Numbers

\* The invariant is inductive,
LEMMA NextData ==
  ASSUME IInv, DataInv, UsedInv, [Next]_vars
  PROVE  IInv' /\ DataInv' /\ UsedInv'
  <1>1. IInv'
    BY NextKeeps
  <1>2. CASE ServerNext
    <2>1. stream' = stream
      BY <1>2 DEF ServerNext, Loop, Failure, ConnectionEvent, EpollWait, Accept, Hangup,
         HandleRead, HandleWrite, AcceptFails, Crash, Restart, historyVars
    <2> QED
      BY <1>1, <1>2, <2>1, ServerData, UsedStays
  <1>3. ASSUME NEW s \in Sockets, PeerStep(s) PROVE DataInv' /\ UsedInv'
    BY <1>1, <1>3, PeerData
  <1>4. CASE UNCHANGED vars
    BY <1>1, <1>4, DataStays, UsedStays DEF vars, kernelVars, serverVars, historyVars
  <1> QED
    BY <1>1, <1>2, <1>3, <1>4 DEF Next

\* and holds at first.
LEMMA InitData == Init => DataInv /\ UsedInv
  <1> SUFFICES ASSUME Init PROVE DataInv /\ UsedInv
    OBVIOUS
  <1>1. DataTyped
    BY BlankTyped, NewTyped DEF Init, DataTyped
  <1>2. TypeOK
    BY <1>1, InitIInv DEF IInv, ShapeInv, DataTyped, TypeOK, Fds
  <1>3. ASSUME NEW s \in Sockets PROVE FlowInv(s)
    <2>1. /\ conn[s] = NoConn /\ in[s] = <<>> /\ out[s] = <<>> /\ stream[s] = <<>>
          /\ got[s] = <<>> /\ done[s] = <<>> /\ conn[s].st = "none"
          /\ conn[s].buf = <<>> /\ conn[s].queue = <<>>
      BY BlankTyped DEF Init
    <2>2. SentInv(s)
      BY <2>1 DEF SentInv, Proper, Paired
    <2>3. ArrivedInv(s) /\ HandledInv(s) /\ InputInv(s) /\ OutputInv(s)
      BY <2>1 DEF ArrivedInv, HandledInv, InputInv, OutputInv, Live, Open
    <2>4. AnswersInv(s) /\ NewInv(s) /\ RoomInv(s)
      BY <2>1, BoundsAssumption DEF AnswersInv, NewInv, RoomInv
    <2> QED
      BY <2>2, <2>3, <2>4 DEF FlowInv
  <1>4. UsedInv
    BY DEF Init, UsedInv, Used
  <1> QED
    BY <1>2, <1>3, <1>4 DEF DataInv

\* The inductive invariant holds: ids are divided (IInv), every half that was
\* sent is where it should be, whatever was dropped with a bad magic (DataInv),
\* and packets are numbered as they are sent (UsedInv).
THEOREM StreamsFlow == Spec => [](IInv /\ DataInv /\ UsedInv)
  <1>1. Init => IInv /\ DataInv /\ UsedInv
    BY InitIInv, InitData
  <1>2. (IInv /\ DataInv /\ UsedInv) /\ [Next]_vars => (IInv /\ DataInv /\ UsedInv)'
    BY NextData
  <1> QED
    BY <1>1, <1>2, PTL DEF Spec

\* The types of the event loop, its buffers included.
THEOREM TypeCorrect == Spec => []TypeOK
  BY StreamsFlow, PTL DEF DataInv

\* TryExtractPacket and the loop around recv lose, repeat and reorder no byte of
\* a well-formed stream, wherever the reads end.
THEOREM NoByteLost == Spec => []InputConserved
  <1>1. DataInv => InputConserved
    BY DEF DataInv, FlowInv, InputInv, InputConserved
  <1> QED
    BY <1>1, StreamsFlow, PTL

\* HandleWrite, which sends as much of the queue as the kernel takes, puts every
\* response on the wire whole, once and in the order of the requests.
THEOREM AnswersInOrder == Spec => []OutputConserved
  <1>1. DataInv => OutputConserved
    BY DEF DataInv, FlowInv, OutputInv, OutputConserved
  <1> QED
    BY <1>1, StreamsFlow, PTL

\* Also with bytes that are no packet in between, the handler is given only what
\* was sent as a whole, in that order.
THEOREM OnlyWholePackets == Spec => []HandledWasSent
  <1>1. DataInv => HandledWasSent
    BY DEF DataInv, FlowInv, HandledInv, HandledWasSent
  <1> QED
    BY <1>1, StreamsFlow, PTL

-----------------------------------------------------------------------------
(* Whom a SIGPIPE needs                                                    *)

\* Packet numbers are naturals.
LEMMA NumbersOf ==
  ASSUME NEW d \in Seq(Numbers)
  PROVE  Len(d) \in Nat /\ \A j \in 1..Len(d) : d[j] \in Nat
  <1>1. Len(d) \in Nat /\ \A j \in 1..Len(d) : d[j] \in Numbers
    BY ElementOfSeq, LenProperties
  <1>2. \A m \in Numbers : m \in Nat
    BY BoundsAssumption DEF Numbers
  <1> QED
    BY <1>1, <1>2

\* Numbers that grow from one to the next grow throughout.
LEMMA Increasing ==
  ASSUME NEW d \in Seq(Numbers), \A i \in 1..Len(d) : i > 1 => d[i - 1] < d[i]
  PROVE  \A i, j \in 1..Len(d) : i < j => d[i] < d[j]
  <1> SUFFICES ASSUME NEW i \in 1..Len(d), NEW k \in 1..Len(d), i < k, ~(d[i] < d[k])
               PROVE  FALSE
    OBVIOUS
  <1> DEFINE T == {j \in 1..Len(d) : i < j /\ ~(d[i] < d[j])}
  <1>1. Len(d) \in Nat /\ \A j \in 1..Len(d) : d[j] \in Nat
    BY NumbersOf
  <1>2. T \in SUBSET Nat /\ k \in T
    BY <1>1
  <1>3. PICK j \in T : \A m \in T : j <= m
    BY <1>2, LeastNumber
  <1>4. j \in 1..Len(d) /\ i < j /\ ~(d[i] < d[j])
    OBVIOUS
  <1>5. j - 1 \notin T
    BY <1>3, <1>4
  <1>6. d[j - 1] < d[j] /\ (j - 1 = i \/ (j - 1 \in 1..Len(d) /\ i < j - 1))
    BY <1>1, <1>4
  <1>7. j - 1 = i \/ d[i] < d[j - 1]
    BY <1>5, <1>6
  <1>8. d[i] \in Nat /\ d[j] \in Nat /\ (j - 1 = i \/ d[j - 1] \in Nat)
    BY <1>1, <1>6
  <1> QED
    BY <1>4, <1>6, <1>7, <1>8

\* Two responses, or a part of one and another, are at least three halves.
LEMMA TwoStrings ==
  ASSUME NEW d \in Seq(Numbers), NEW g \in Seq(Half), NEW k \in Seq(Half),
         g \o k = Halves(d), Cardinality({Number(k[i]) : i \in 1..Len(k)}) > 1
  PROVE  /\ Len(k) > 2 /\ Len(g) + Len(k) = 2 * Len(d)
         /\ Len(g) \in Nat /\ Len(k) \in Nat /\ Len(d) \in Nat
         /\ \A i \in 1..Len(g) : g[i] = Halves(d)[i]
  <1> DEFINE h == Halves(d)
             a == {Number(k[i]) : i \in 1..Len(k)}
             n == Len(d)
  <1>1. Len(g) \in Nat /\ Len(k) \in Nat /\ n \in Nat
    BY LenProperties
  <1>2. Len(h) = 2 * n
    BY HalvesAreHalf
  <1>3. \A i \in 1..n : h[2 * i - 1] = <<d[i], "head">> /\ h[2 * i] = <<d[i], "body">>
    BY HalvesAt
  <1>4. /\ Len(h) = Len(g) + Len(k)
        /\ \A i \in 1..(Len(g) + Len(k)) : h[i] = IF i <= Len(g) THEN g[i] ELSE k[i - Len(g)]
    BY ConcatProperties
  <1> HIDE DEF h, n
  <1>0. Cardinality(a) > 1
    OBVIOUS
  <1>5. Len(k) # 0
    <2> SUFFICES ASSUME Len(k) = 0 PROVE FALSE
      OBVIOUS
    <2>1. a = {}
      OBVIOUS
    <2> HIDE DEF a
    <2>2. Cardinality(a) = 0
      BY <2>1, FS_EmptySet
    <2> QED
      BY <1>0, <2>2
  <1>6. Len(k) # 1
    <2> SUFFICES ASSUME Len(k) = 1 PROVE FALSE
      OBVIOUS
    <2>1. a = {Number(k[1])}
      OBVIOUS
    <2> HIDE DEF a
    <2>2. Cardinality(a) = 1
      BY <2>1, FS_Singleton
    <2> QED
      BY <1>0, <2>2
  <1>7. Len(k) # 2
    <2> SUFFICES ASSUME Len(k) = 2 PROVE FALSE
      OBVIOUS
    <2>1. n \in 1..n /\ Len(g) = 2 * n - 2
      BY <1>1, <1>2, <1>4
    <2>2. /\ 2 * n - 1 \in 1..(Len(g) + Len(k)) /\ ~(2 * n - 1 <= Len(g)) /\ 2 * n - 1 - Len(g) = 1
          /\ 2 * n \in 1..(Len(g) + Len(k)) /\ ~(2 * n <= Len(g)) /\ 2 * n - Len(g) = 2
      BY <1>1, <2>1
    <2>3. k[1] = <<d[n], "head">> /\ k[2] = <<d[n], "body">>
      BY <1>3, <1>4, <2>1, <2>2
    <2>4. \A i \in 1..Len(k) : i = 1 \/ i = 2
      OBVIOUS
    <2>5. 1 \in 1..Len(k)
      OBVIOUS
    <2>6. a = {d[n]}
      BY <2>3, <2>4, <2>5 DEF Number
    <2> HIDE DEF a
    <2>7. Cardinality(a) = 1
      BY <2>6, FS_Singleton
    <2> QED
      BY <1>0, <2>7
  <1>8. Len(k) > 2
    <2> DEFINE l == Len(k)
    <2>1. l \in Nat /\ l # 0 /\ l # 1 /\ l # 2
      BY <1>1, <1>5, <1>6, <1>7
    <2> HIDE DEF l
    <2>2. l > 2
      BY <2>1
    <2> QED
      BY <2>2 DEF l
  <1>9. \A i \in 1..Len(g) : i \in 1..(Len(g) + Len(k)) /\ i <= Len(g)
    BY <1>1
  <1> QED
    BY <1>1, <1>2, <1>4, <1>8, <1>9 DEF h, n

LEMMA HalfIsFinite == IsFiniteSet(Half)
  <1>1. IsFiniteSet(1..MaxPackets)
    BY BoundsAssumption, FS_Interval
  <1>2. IsFiniteSet({"head", "body"})
    <2>1. IsFiniteSet({"head"})
      BY FS_Singleton
    <2>2. {"head", "body"} = {"head"} \union {"body"}
      OBVIOUS
    <2> QED
      BY <2>1, <2>2, FS_AddElement
  <1>3. IsFiniteSet((1..MaxPackets) \X {"head", "body"})
    BY <1>1, <1>2, FS_Product
  <1>4. Half = ((1..MaxPackets) \X {"head", "body"}) \union {Junk}
    BY DEF Half
  <1> QED
    BY <1>3, <1>4, FS_AddElement

\* Three elements that differ.
LEMMA ThreeOf ==
  ASSUME NEW S, IsFiniteSet(S), NEW x \in S, NEW y \in S, NEW z \in S, x # y, x # z, y # z
  PROVE  Cardinality(S) > 2
  <1> DEFINE T == ({x} \union {y}) \union {z}
  <1>1. IsFiniteSet({x}) /\ Cardinality({x}) = 1
    BY FS_Singleton
  <1>2. IsFiniteSet({x} \union {y}) /\ Cardinality({x} \union {y}) = 2
    <2>1. y \notin {x}
      OBVIOUS
    <2> DEFINE X == {x}
    <2>2. IsFiniteSet(X) /\ Cardinality(X) = 1 /\ y \notin X
      BY <1>1, <2>1
    <2> HIDE DEF X
    <2>3. IsFiniteSet(X \union {y}) /\ Cardinality(X \union {y}) = 2
      BY <2>2, FS_AddElement
    <2> QED
      BY <2>3 DEF X
  <1>3. Cardinality(T) = 3
    <2>1. z \notin {x} \union {y}
      OBVIOUS
    <2> QED
      BY <1>2, <2>1, FS_AddElement
  <1>4. T \in SUBSET S
    OBVIOUS
  <1>5. Cardinality(T) <= Cardinality(S) /\ Cardinality(S) \in Nat
    BY <1>4, FS_Subset, FS_CardinalityType
  <1> HIDE DEF T
  <1> QED
    BY <1>3, <1>5

\* The last three halves that a peer was to be sent are on its stream, and it
\* has read none of them.
LEMMA ThreeOutstanding ==
  ASSUME TypeOK, NEW s \in Sockets, FlowInv(s), Open(s), peer[s] # "rst",
         Cardinality(Strings(s)) > 1
  PROVE  Cardinality(Outstanding(s)) > 2
  <1> DEFINE d == done[s]
             q == stream[s]
             k == conn[s].queue
             r == got[s]
             o == out[s]
             g == r \o o
             n == Len(d)
             sent == {q[i] : i \in 1..Len(q)}
             read == {r[i] : i \in 1..Len(r)}
  <1>1. d \in Seq(Numbers)
    BY HandledNumbers
  <1>2. /\ q \in Seq(Half) /\ k \in Seq(Half) /\ r \in Seq(Half) /\ o \in Seq(Half)
        /\ Len(r) \in Nat /\ Len(o) \in Nat /\ Len(q) \in Nat
    BY Typed
  <1>3. g \in Seq(Half) /\ Len(g) = Len(r) + Len(o) /\ \A i \in 1..Len(r) : g[i] = r[i]
    <2> HIDE DEF r, o, g
    <2>1. /\ r \o o \in Seq(Half) /\ Len(r \o o) = Len(r) + Len(o)
          /\ \A i \in 1..(Len(r) + Len(o)) :
               (r \o o)[i] = IF i <= Len(r) THEN r[i] ELSE o[i - Len(r)]
      BY <1>2, ConcatProperties
    <2>2. \A i \in 1..Len(r) : i \in 1..(Len(r) + Len(o)) /\ i <= Len(r)
      BY <1>2
    <2> QED
      BY <2>1, <2>2 DEF g
  <1>4. g \o k = Halves(d)
    BY DEF FlowInv, OutputInv
  <1>5. Cardinality({Number(k[i]) : i \in 1..Len(k)}) > 1
    BY DEF Strings
  <1>6. \A i \in 1..Len(d) :
          /\ \E j \in 1..(Len(q) - 1) :
               q[j] = <<d[i], "head">> /\ q[j + 1] = <<d[i], "body">>
          /\ i > 1 => d[i - 1] < d[i]
    BY DEF FlowInv, HandledInv
  <1>7. Outstanding(s) = sent \ read
    BY DEF Outstanding
  <1> HIDE DEF d, q, k, r, o, g
  <1>8. /\ Len(k) > 2 /\ Len(g) + Len(k) = 2 * n
        /\ Len(g) \in Nat /\ Len(k) \in Nat /\ n \in Nat
        /\ \A i \in 1..Len(g) : g[i] = Halves(d)[i]
    BY <1>1, <1>2, <1>3, <1>4, <1>5, TwoStrings
  <1>9. \A i \in 1..(2 * n) :
          Halves(d)[i] = <<d[(i + 1) \div 2], IF i % 2 = 1 THEN "head" ELSE "body">>
    BY <1>1, HalvesAt
  <1>10. \A i, j \in 1..n : i < j => d[i] < d[j]
    BY <1>1, <1>6, Increasing
  <1>11. \A i \in 1..n : d[i] \in Nat
    BY <1>1, NumbersOf DEF n
  <1>12. n - 1 \in 1..n /\ n \in 1..n /\ Len(r) <= 2 * n - 3
    BY <1>2, <1>3, <1>8
  <1> HIDE DEF n
  <1> DEFINE x == <<d[n - 1], "body">>
             y == <<d[n], "head">>
             z == <<d[n], "body">>
  <1>13. x \in sent /\ y \in sent /\ z \in sent
    <2>1. ASSUME NEW i \in 1..Len(d)
          PROVE  <<d[i], "head">> \in sent /\ <<d[i], "body">> \in sent
      <3>1. PICK j \in 1..(Len(q) - 1) : q[j] = <<d[i], "head">> /\ q[j + 1] = <<d[i], "body">>
        BY <1>6
      <3>2. j \in 1..Len(q) /\ j + 1 \in 1..Len(q)
        BY <1>2
      <3> QED
        BY <3>1, <3>2
    <2>2. n - 1 \in 1..Len(d) /\ n \in 1..Len(d)
      BY <1>12 DEF n
    <2> HIDE DEF sent
    <2> QED
      BY <2>1, <2>2
  <1>14. ASSUME NEW i \in 1..Len(r)
         PROVE  r[i] # x /\ r[i] # y /\ r[i] # z
    <2> DEFINE m == (i + 1) \div 2
               w == IF i % 2 = 1 THEN "head" ELSE "body"
    <2>1. i \in 1..Len(g) /\ i \in 1..(2 * n) /\ i <= 2 * n - 3
      BY <1>2, <1>3, <1>8, <1>12, SMTT(30)
    <2>2. r[i] = <<d[m], w>>
      BY <1>3, <1>8, <1>9, <2>1
    <2>3. m \in 1..n /\ m < n /\ (m < n - 1 \/ (m = n - 1 /\ i % 2 = 1))
      <3>1. 2 * m = i \/ 2 * m = i + 1
        OBVIOUS
      <3>2. 2 * m = i => i % 2 # 1
        OBVIOUS
      <3>3. m \in Nat
        OBVIOUS
      <3> HIDE DEF m
      <3>4. m \in 1..n /\ m <= n - 1
        BY <1>8, <1>12, <2>1, <3>1, <3>3
      <3>5. i % 2 = 1 \/ i % 2 = 0
        OBVIOUS
      <3>6. m = n - 1 => 2 * m # i
        BY <1>8, <1>12, <2>1, <3>3
      <3>7. 2 * m = i + 1 => i % 2 = 1
        BY <3>3
      <3>8. m = n - 1 => i % 2 = 1
        BY <3>1, <3>6, <3>7
      <3>9. m < n /\ (m < n - 1 \/ m = n - 1)
        BY <1>8, <3>3, <3>4
      <3> QED
        BY <3>4, <3>8, <3>9, Zenon
    <2> HIDE DEF m
    <2>4. d[m] < d[n]
      BY <1>10, <1>12, <2>3
    <2>5. d[m] \in Nat /\ d[n] \in Nat /\ d[n - 1] \in Nat
      BY <1>11, <1>12, <2>3
    <2>6. d[m] # d[n]
      BY <2>4, <2>5
    <2>7. r[i] # y /\ r[i] # z
      BY <2>2, <2>6
    <2>8. CASE m < n - 1
      <3>1. d[m] < d[n - 1]
        BY <1>10, <1>12, <2>3, <2>8
      <3>2. d[m] # d[n - 1]
        BY <2>5, <3>1
      <3> QED
        BY <2>2, <2>7, <3>2
    <2>9. CASE i % 2 = 1
      <3>1. w = "head"
        BY <2>9
      <3> QED
        BY <2>2, <2>7, <3>1
    <2> QED
      BY <2>3, <2>8, <2>9
  <1>15. x # y /\ x # z /\ y # z
    <2>1. d[n - 1] < d[n] /\ d[n - 1] \in Nat /\ d[n] \in Nat
      <3>1. n - 1 < n
        BY <1>8, <1>12
      <3> QED
        BY <1>10, <1>11, <1>12, <3>1
    <2>2. d[n - 1] # d[n]
      BY <2>1
    <2> QED
      BY <2>2
  <1>16. IsFiniteSet(sent \ read)
    <2>1. sent \in SUBSET Half
      BY <1>2, ElementOfSeq
    <2>2. sent \ read \in SUBSET Half
      BY <2>1
    <2> QED
      BY <2>2, HalfIsFinite, FS_Subset
  <1>17. x \in sent \ read /\ y \in sent \ read /\ z \in sent \ read
    BY <1>13, <1>14
  <1> HIDE DEF sent, read, x, y, z
  <1> QED
    BY <1>7, <1>15, <1>16, <1>17, ThreeOf

\* Only a peer that went away with more than one request unanswered can end the
\* process by the SIGPIPE of a second send.
THEOREM OnlyImpatientPeersKill == Spec => PatientPeersHarmless
  <1>1. ASSUME IInv, DataInv, [Next]_vars, process' = "killed", Alive
        PROVE  \E s \in Sockets : Cardinality(Outstanding(s)) > 2
    <2>1. process = "up" /\ process' # "up" /\ process' # "down"
      BY <1>1 DEF Alive
    <2>2. PICK s \in Sockets : HandleWrite(s)
      BY <1>1, <2>1 DEF Next, ServerNext, Loop, Failure, ConnectionEvent, EpollWait, Accept,
         Hangup, HandleRead, AcceptFails, Crash, Restart, Die, PeerStep, PeerConnect, PeerJunk,
         PeerRecv, PeerSend, PeerWrites, PeerClose, CloseArrives, vars, serverVars
    <2>3. peer[s] = "fin" /\ Cardinality(Strings(s)) > 1
      BY <2>1, <2>2 DEF HandleWrite
    <2>4. Open(s)
      BY <1>1, <2>2 DEF IInv, LoopInv, HandleWrite
    <2>5. TypeOK /\ FlowInv(s) /\ peer[s] # "rst"
      BY <1>1, <2>3 DEF DataInv
    <2> QED
      BY <2>3, <2>4, <2>5, ThreeOutstanding
  <1>2. IInv /\ DataInv /\ [Next]_vars
          => [process' = "killed" /\ Alive => \E s \in Sockets : Cardinality(Outstanding(s)) > 2]_vars
    BY <1>1
  <1> QED
    BY <1>2, StreamsFlow, PTL DEF Spec, PatientPeersHarmless
=============================================================================
