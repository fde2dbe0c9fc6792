--------------------------- MODULE DbClientsProofs ---------------------------
(***************************************************************************)
(* What DbClients promises, for any number of calls, commands and faults.  *)
(***************************************************************************)
EXTENDS DbClients, TLAPS

\* A transaction is open only on a live connection, between BEGIN and the end of the
\* call that began it, and it holds what this call has written so far.
TxInv ==
  /\ mode = "transaction" => /\ handle = "live"
                             /\ pc \notin {"idle", "begin"}
                             /\ pc = "select" => kind = "enter"
  /\ mode = "autocommit" => tx = None
  /\ handle = "live" /\ (pc \in {"write", "commit"} \/ (pc = "select" /\ kind = "enter"))
       => mode = "transaction"
  /\ \A k \in Calls : k # call => tx[k] = 0
  /\ mode = "transaction" /\ pc \in {"select", "write", "commit"} => tx[call] + left = size[call]

\* Where a running call is.
CallInv ==
  /\ pc # "idle" => call \in Calls /\ outcome[call] = "running"
  /\ pc \in {"begin", "select"} => left = size[call]
  /\ pc \in {"begin", "select", "write"} => left > 0
  /\ pc = "commit" => left = 0
  /\ \A k \in Calls : outcome[k] = "running" => k = call /\ pc # "idle"
  /\ \A k \in Calls : k > call => outcome[k] = "none"

\* What is committed while a call runs.
DurableInv ==
  /\ AllOrNothing
  /\ pc # "idle" /\ (pc = "rollback" => left > 0) => durable[call] = 0

\* A settle that could not read is still without a connection, or over.
UnreadInv ==
  /\ LostReadPaysNothing
  /\ \A k \in unread : k <= call /\ (k = call /\ pc # "idle" => handle = "lost")

\* After a failure the next call finds no broken connection it takes for a sound one.
LateInv ==
  /\ OneFailurePerFault
  /\ late = 1 => context # "stale" /\ redis = "up"
  /\ since = "quiet" => redis = "up"
  /\ rpc \in {"ping", "command"} => context \in {"ok", "stale"}

IInv == TypeOK /\ TxInv /\ CallInv /\ DurableInv /\ UnreadInv /\ LateInv
MySqlInv == MySqlTypeOK /\ TxInv /\ CallInv /\ DurableInv /\ UnreadInv
-----------------------------------------------------------------------------

LEMMA InitIInv == Init => IInv
<1>. SUFFICES ASSUME Init PROVE IInv
  OBVIOUS
<1>1. MySqlTypeOK
  BY CallsAssumption DEF Init, MySqlTypeOK, None, MaxWrites
<1>2. RedisTypeOK /\ ProcessTypeOK
  BY CommandsAssumption, FaultsAssumption DEF Init, RedisTypeOK, ProcessTypeOK
<1>3. TxInv /\ CallInv
  BY CallsAssumption DEF Init, TxInv, CallInv, None, Calls
<1>4. DurableInv /\ UnreadInv /\ LateInv
  BY DEF Init, DurableInv, UnreadInv, LateInv, AllOrNothing, LostReadPaysNothing,
         OneFailurePerFault, None
<1>. QED
  BY <1>1, <1>2, <1>3, <1>4 DEF IInv, TypeOK

\* Whatever leaves the variables of one client alone keeps what is known of it.
LEMMA RedisUntouched == LateInv /\ UNCHANGED redisVars => LateInv'
  BY DEF LateInv, OneFailurePerFault, redisVars

LEMMA MySqlUntouched == MySqlInv /\ UNCHANGED mysqlVars => MySqlInv'
  BY DEF MySqlInv, MySqlTypeOK, TxInv, CallInv, DurableInv, UnreadInv, AllOrNothing, LostReadPaysNothing,
         mysqlVars, Calls, None

\* A running call has a handle, so Ping never opens a connection under it.
LEMMA PingKeeps ==
  ASSUME TypeOK, pc # "idle"
  PROVE  /\ Ping(handle) = handle /\ (Reaches <=> handle = "live") /\ handle # "null"
         /\ process = "up" /\ rpc = "idle"
  BY DEF TypeOK, MySqlTypeOK, ProcessTypeOK, Ping, Reaches
-----------------------------------------------------------------------------
(* RedisClient                                                             *)

LEMMA RedisActions ==
  ASSUME IInv, (\E n \in 1..MaxCommands : RedisCall(n)) \/ RedisStep
  PROVE  IInv'
<1>1. CASE \E n \in 1..MaxCommands : RedisCall(n)
  <2>1. PICK n \in 1..MaxCommands : RedisCall(n)
    BY <1>1
  <2>2. RedisTypeOK' /\ ProcessTypeOK'
    BY <2>1, CommandsAssumption DEF IInv, TypeOK, RedisTypeOK, ProcessTypeOK, RedisCall, IsConnected, Idle, mysqlVars
  <2>3. LateInv'
    BY <2>1 DEF IInv, TypeOK, RedisTypeOK, ProcessTypeOK, LateInv, OneFailurePerFault, RedisCall, IsConnected
  <2>. QED
    BY <2>1, <2>2, <2>3, MySqlUntouched DEF IInv, TypeOK, MySqlInv, RedisCall
<1>2. CASE Connect
  <2>1. RedisTypeOK' /\ ProcessTypeOK'
    BY <1>2, CommandsAssumption DEF IInv, TypeOK, RedisTypeOK, ProcessTypeOK, Connect, RedisReturn, mysqlVars
  <2>2. LateInv'
    BY <1>2 DEF IInv, TypeOK, RedisTypeOK, ProcessTypeOK, LateInv, OneFailurePerFault, Connect, RedisReturn
  <2>. QED
    BY <1>2, <2>1, <2>2, MySqlUntouched DEF IInv, TypeOK, MySqlInv, Connect
<1>3. CASE Refused
  <2>1. RedisTypeOK' /\ ProcessTypeOK'
    BY <1>3, CommandsAssumption, FaultsAssumption DEF IInv, TypeOK, RedisTypeOK, ProcessTypeOK, Refused, Fault, mysqlVars
  <2>2. LateInv'
    BY <1>3 DEF IInv, TypeOK, RedisTypeOK, ProcessTypeOK, LateInv, OneFailurePerFault, Refused
  <2>. QED
    BY <1>3, <2>1, <2>2, MySqlUntouched DEF IInv, TypeOK, MySqlInv, Refused
<1>4. CASE Command
  <2>1. RedisTypeOK' /\ ProcessTypeOK'
    BY <1>4, CommandsAssumption DEF IInv, TypeOK, RedisTypeOK, ProcessTypeOK, Command, RedisReturn, mysqlVars
  <2>2. LateInv'
    BY <1>4 DEF IInv, TypeOK, RedisTypeOK, ProcessTypeOK, LateInv, OneFailurePerFault, Command, RedisReturn
  <2>. QED
    BY <1>4, <2>1, <2>2, MySqlUntouched DEF IInv, TypeOK, MySqlInv, Command
<1>. QED
  BY <1>1, <1>2, <1>3, <1>4 DEF RedisStep

LEMMA RedisServer ==
  ASSUME IInv, RedisBreaks \/ RedisStops \/ RedisStarts
  PROVE  IInv'
<1>1. RedisTypeOK' /\ ProcessTypeOK'
  BY FaultsAssumption
  DEF IInv, TypeOK, RedisTypeOK, ProcessTypeOK, RedisBreaks, RedisStops, RedisStarts, Befallen, Fault, mysqlVars
<1>2. LateInv'
  BY DEF IInv, TypeOK, RedisTypeOK, LateInv, OneFailurePerFault, RedisBreaks, RedisStops,
         RedisStarts, Befallen
<1>. QED
  BY <1>1, <1>2, MySqlUntouched DEF IInv, TypeOK, MySqlInv, RedisBreaks, RedisStops, RedisStarts
-----------------------------------------------------------------------------
(* MySqlClient                                                             *)

\* What each statement does on the server, one by one.
LEMMA Statements ==
  /\ Committed("begin") = [k \in Calls |-> durable[k] + tx[k]] /\ Open("begin") = None
  /\ Committed("commit") = [k \in Calls |-> durable[k] + tx[k]] /\ Open("commit") = None
  /\ Committed("select") = [k \in Calls |-> durable[k]] /\ Open("select") = tx
  /\ Committed("rollback") = [k \in Calls |-> durable[k]] /\ Open("rollback") = None
  /\ mode = "transaction" => /\ Committed("write") = [k \in Calls |-> durable[k]]
                             /\ Open("write") = [tx EXCEPT ![call] = tx[call] + 1]
  BY DEF Committed, Open

\* What is known before each statement of a running call.
Running ==
  /\ MySqlInv
  /\ pc # "idle" /\ call \in Calls
  /\ handle # "null" /\ Ping(handle) = handle /\ (Reaches <=> handle = "live")

LEMMA IsRunning == IInv /\ pc # "idle" => Running
  BY PingKeeps DEF Running, MySqlInv, IInv, TypeOK, CallInv

\* The order in which the proofs of the steps go: the conjuncts of MySqlInv, then the
\* variables a step of this client leaves alone.
LEMMA SelectKeeps ==
  ASSUME IInv, Select
  PROVE  IInv'
<1>. USE DEF MySqlTypeOK, TxInv, CallInv, DurableInv, UnreadInv, AllOrNothing,
             LostReadPaysNothing, None, MaxWrites
<1>1. Running
  BY IsRunning DEF Select
<1>2. MySqlTypeOK'
  BY <1>1, Statements, CallsAssumption DEF Running, MySqlInv, Select, Performed, NoRow, AfterSelect
<1>3. TxInv'
  BY <1>1, Statements, CallsAssumption DEF Running, MySqlInv, Select, Performed, NoRow, AfterSelect
<1>4. CallInv'
  BY <1>1, Statements, CallsAssumption DEF Running, MySqlInv, Select, Performed, NoRow, AfterSelect
<1>5. DurableInv'
  BY <1>1, Statements, CallsAssumption DEF Running, MySqlInv, Select, Performed, NoRow, AfterSelect
<1>6. UnreadInv'
  BY <1>1, Statements, CallsAssumption DEF Running, MySqlInv, Select, Performed, NoRow, AfterSelect
<1>7. RedisTypeOK' /\ ProcessTypeOK'
  BY <1>1, PingKeeps, FaultsAssumption
  DEF IInv, TypeOK, RedisTypeOK, ProcessTypeOK, Running, redisVars, Select, Performed, NoRow, AfterSelect
<1>8. LateInv'
  BY RedisUntouched DEF IInv, Select, Performed, NoRow, AfterSelect
<1>. QED
  BY <1>2, <1>3, <1>4, <1>5, <1>6, <1>7, <1>8 DEF IInv, TypeOK

LEMMA SelectFailsKeeps ==
  ASSUME IInv, SelectFails
  PROVE  IInv'
<1>. USE DEF MySqlTypeOK, TxInv, CallInv, DurableInv, UnreadInv, AllOrNothing,
             LostReadPaysNothing, None, MaxWrites
<1>1. Running
  BY IsRunning DEF SelectFails
<1>2. MySqlTypeOK'
  BY <1>1, Statements, CallsAssumption DEF Running, MySqlInv, SelectFails, Performed, NoRow, AfterSelect, Fault
<1>3. TxInv'
  BY <1>1, Statements, CallsAssumption DEF Running, MySqlInv, SelectFails, Performed, NoRow, AfterSelect, Fault
<1>4. CallInv'
  BY <1>1, Statements, CallsAssumption DEF Running, MySqlInv, SelectFails, Performed, NoRow, AfterSelect, Fault
<1>5. DurableInv'
  BY <1>1, Statements, CallsAssumption DEF Running, MySqlInv, SelectFails, Performed, NoRow, AfterSelect, Fault
<1>6. UnreadInv'
  BY <1>1, Statements, CallsAssumption DEF Running, MySqlInv, SelectFails, Performed, NoRow, AfterSelect, Fault
<1>7. RedisTypeOK' /\ ProcessTypeOK'
  BY <1>1, PingKeeps, FaultsAssumption
  DEF IInv, TypeOK, RedisTypeOK, ProcessTypeOK, Running, redisVars, SelectFails, Performed, NoRow, AfterSelect, Fault
<1>8. LateInv'
  BY RedisUntouched DEF IInv, SelectFails, Performed, NoRow, AfterSelect, Fault
<1>. QED
  BY <1>2, <1>3, <1>4, <1>5, <1>6, <1>7, <1>8 DEF IInv, TypeOK

LEMMA BeginKeeps ==
  ASSUME IInv, Begin
  PROVE  IInv'
<1>. USE DEF MySqlTypeOK, TxInv, CallInv, DurableInv, UnreadInv, AllOrNothing,
             LostReadPaysNothing, None, MaxWrites
<1>1. Running
  BY IsRunning DEF Begin
<1>2. MySqlTypeOK'
  BY <1>1, Statements, CallsAssumption DEF Running, MySqlInv, Begin, Performed, Goto, AfterBegin
<1>3. TxInv'
  BY <1>1, Statements, CallsAssumption DEF Running, MySqlInv, Begin, Performed, Goto, AfterBegin
<1>4. CallInv'
  BY <1>1, Statements, CallsAssumption DEF Running, MySqlInv, Begin, Performed, Goto, AfterBegin
<1>5. DurableInv'
  BY <1>1, Statements, CallsAssumption DEF Running, MySqlInv, Begin, Performed, Goto, AfterBegin
<1>6. UnreadInv'
  BY <1>1, Statements, CallsAssumption DEF Running, MySqlInv, Begin, Performed, Goto, AfterBegin
<1>7. RedisTypeOK' /\ ProcessTypeOK'
  BY <1>1, PingKeeps, FaultsAssumption
  DEF IInv, TypeOK, RedisTypeOK, ProcessTypeOK, Running, redisVars, Begin, Performed, Goto, AfterBegin
<1>8. LateInv'
  BY RedisUntouched DEF IInv, Begin, Performed, Goto, AfterBegin
<1>. QED
  BY <1>2, <1>3, <1>4, <1>5, <1>6, <1>7, <1>8 DEF IInv, TypeOK

LEMMA WriteKeeps ==
  ASSUME IInv, Write
  PROVE  IInv'
<1>. USE DEF MySqlTypeOK, TxInv, CallInv, DurableInv, UnreadInv, AllOrNothing,
             LostReadPaysNothing, None, MaxWrites
<1>1. Running
  BY IsRunning DEF Write
<1>2. MySqlTypeOK'
  BY <1>1, Statements, CallsAssumption DEF Running, MySqlInv, Write, Performed, Goto
<1>3. TxInv'
  BY <1>1, Statements, CallsAssumption DEF Running, MySqlInv, Write, Performed, Goto
<1>4. CallInv'
  BY <1>1, Statements, CallsAssumption DEF Running, MySqlInv, Write, Performed, Goto
<1>5. DurableInv'
  BY <1>1, Statements, CallsAssumption DEF Running, MySqlInv, Write, Performed, Goto
<1>6. UnreadInv'
  BY <1>1, Statements, CallsAssumption DEF Running, MySqlInv, Write, Performed, Goto
<1>7. RedisTypeOK' /\ ProcessTypeOK'
  BY <1>1, PingKeeps, FaultsAssumption
  DEF IInv, TypeOK, RedisTypeOK, ProcessTypeOK, Running, redisVars, Write, Performed, Goto
<1>8. LateInv'
  BY RedisUntouched DEF IInv, Write, Performed, Goto
<1>. QED
  BY <1>2, <1>3, <1>4, <1>5, <1>6, <1>7, <1>8 DEF IInv, TypeOK

LEMMA CommitKeeps ==
  ASSUME IInv, Commit
  PROVE  IInv'
<1>. USE DEF MySqlTypeOK, TxInv, CallInv, DurableInv, UnreadInv, AllOrNothing,
             LostReadPaysNothing, None, MaxWrites
<1>1. Running
  BY IsRunning DEF Commit
<1>2. MySqlTypeOK'
  BY <1>1, Statements, CallsAssumption DEF Running, MySqlInv, Commit, Performed, Return
<1>3. TxInv'
  BY <1>1, Statements, CallsAssumption DEF Running, MySqlInv, Commit, Performed, Return
<1>4. CallInv'
  BY <1>1, Statements, CallsAssumption DEF Running, MySqlInv, Commit, Performed, Return
<1>5. DurableInv'
  BY <1>1, Statements, CallsAssumption DEF Running, MySqlInv, Commit, Performed, Return
<1>6. UnreadInv'
  BY <1>1, Statements, CallsAssumption DEF Running, MySqlInv, Commit, Performed, Return
<1>7. RedisTypeOK' /\ ProcessTypeOK'
  BY <1>1, PingKeeps, FaultsAssumption
  DEF IInv, TypeOK, RedisTypeOK, ProcessTypeOK, Running, redisVars, Commit, Performed, Return
<1>8. LateInv'
  BY RedisUntouched DEF IInv, Commit, Performed, Return
<1>. QED
  BY <1>2, <1>3, <1>4, <1>5, <1>6, <1>7, <1>8 DEF IInv, TypeOK

LEMMA StatementFailsKeeps ==
  ASSUME IInv, StatementFails
  PROVE  IInv'
<1>. USE DEF MySqlTypeOK, TxInv, CallInv, DurableInv, UnreadInv, AllOrNothing,
             LostReadPaysNothing, None, MaxWrites
<1>1. Running
  BY IsRunning DEF StatementFails
<1>2. MySqlTypeOK'
  BY <1>1, Statements, CallsAssumption DEF Running, MySqlInv, StatementFails, GiveUp, Goto, Return, Fault, Dropped
<1>3. TxInv'
  BY <1>1, Statements, CallsAssumption DEF Running, MySqlInv, StatementFails, GiveUp, Goto, Return, Fault, Dropped
<1>4. CallInv'
  BY <1>1, Statements, CallsAssumption DEF Running, MySqlInv, StatementFails, GiveUp, Goto, Return, Fault, Dropped
<1>5. DurableInv'
  BY <1>1, Statements, CallsAssumption DEF Running, MySqlInv, StatementFails, GiveUp, Goto, Return, Fault, Dropped
<1>6. UnreadInv'
  BY <1>1, Statements, CallsAssumption DEF Running, MySqlInv, StatementFails, GiveUp, Goto, Return, Fault, Dropped
<1>7. RedisTypeOK' /\ ProcessTypeOK'
  BY <1>1, PingKeeps, FaultsAssumption
  DEF IInv, TypeOK, RedisTypeOK, ProcessTypeOK, Running, redisVars, StatementFails, GiveUp, Goto, Return, Fault, Dropped
<1>8. LateInv'
  BY RedisUntouched DEF IInv, StatementFails, GiveUp, Goto, Return, Fault, Dropped
<1>. QED
  BY <1>2, <1>3, <1>4, <1>5, <1>6, <1>7, <1>8 DEF IInv, TypeOK

LEMMA ReplyLostKeeps ==
  ASSUME IInv, ReplyLost
  PROVE  IInv'
<1>. USE DEF MySqlTypeOK, TxInv, CallInv, DurableInv, UnreadInv, AllOrNothing,
             LostReadPaysNothing, None, MaxWrites
<1>1. Running
  BY IsRunning DEF ReplyLost
<1>2. MySqlTypeOK'
  BY <1>1, Statements, CallsAssumption DEF Running, MySqlInv, ReplyLost, GiveUp, Goto, Return, Fault, Dropped
<1>3. TxInv'
  BY <1>1, Statements, CallsAssumption DEF Running, MySqlInv, ReplyLost, GiveUp, Goto, Return, Fault, Dropped
<1>4. CallInv'
  BY <1>1, Statements, CallsAssumption DEF Running, MySqlInv, ReplyLost, GiveUp, Goto, Return, Fault, Dropped
<1>5. DurableInv'
  BY <1>1, Statements, CallsAssumption DEF Running, MySqlInv, ReplyLost, GiveUp, Goto, Return, Fault, Dropped
<1>6. UnreadInv'
  BY <1>1, Statements, CallsAssumption DEF Running, MySqlInv, ReplyLost, GiveUp, Goto, Return, Fault, Dropped
<1>7. RedisTypeOK' /\ ProcessTypeOK'
  BY <1>1, PingKeeps, FaultsAssumption
  DEF IInv, TypeOK, RedisTypeOK, ProcessTypeOK, Running, redisVars, ReplyLost, GiveUp, Goto, Return, Fault, Dropped
<1>8. LateInv'
  BY RedisUntouched DEF IInv, ReplyLost, GiveUp, Goto, Return, Fault, Dropped
<1>. QED
  BY <1>2, <1>3, <1>4, <1>5, <1>6, <1>7, <1>8 DEF IInv, TypeOK

LEMMA UnreachableKeeps ==
  ASSUME IInv, Unreachable
  PROVE  IInv'
<1>. USE DEF MySqlTypeOK, TxInv, CallInv, DurableInv, UnreadInv, AllOrNothing,
             LostReadPaysNothing, None, MaxWrites
<1>1. Running
  BY IsRunning DEF Unreachable
<1>2. MySqlTypeOK'
  BY <1>1, Statements, CallsAssumption DEF Running, MySqlInv, Unreachable, GiveUp, Goto, Return
<1>3. TxInv'
  BY <1>1, Statements, CallsAssumption DEF Running, MySqlInv, Unreachable, GiveUp, Goto, Return
<1>4. CallInv'
  BY <1>1, Statements, CallsAssumption DEF Running, MySqlInv, Unreachable, GiveUp, Goto, Return
<1>5. DurableInv'
  BY <1>1, Statements, CallsAssumption DEF Running, MySqlInv, Unreachable, GiveUp, Goto, Return
<1>6. UnreadInv'
  BY <1>1, Statements, CallsAssumption DEF Running, MySqlInv, Unreachable, GiveUp, Goto, Return
<1>7. RedisTypeOK' /\ ProcessTypeOK'
  BY <1>1, PingKeeps, FaultsAssumption
  DEF IInv, TypeOK, RedisTypeOK, ProcessTypeOK, Running, redisVars, Unreachable, GiveUp, Goto, Return
<1>8. LateInv'
  BY RedisUntouched DEF IInv, Unreachable, GiveUp, Goto, Return
<1>. QED
  BY <1>2, <1>3, <1>4, <1>5, <1>6, <1>7, <1>8 DEF IInv, TypeOK

LEMMA RollbackKeeps ==
  ASSUME IInv, Rollback
  PROVE  IInv'
<1>. USE DEF MySqlTypeOK, TxInv, CallInv, DurableInv, UnreadInv, AllOrNothing,
             LostReadPaysNothing, None, MaxWrites
<1>1. Running
  BY IsRunning DEF Rollback
<1>2. MySqlTypeOK'
  BY <1>1, Statements, CallsAssumption DEF Running, MySqlInv, Rollback, Performed, Return
<1>3. TxInv'
  BY <1>1, Statements, CallsAssumption DEF Running, MySqlInv, Rollback, Performed, Return
<1>4. CallInv'
  BY <1>1, Statements, CallsAssumption DEF Running, MySqlInv, Rollback, Performed, Return
<1>5. DurableInv'
  BY <1>1, Statements, CallsAssumption DEF Running, MySqlInv, Rollback, Performed, Return
<1>6. UnreadInv'
  BY <1>1, Statements, CallsAssumption DEF Running, MySqlInv, Rollback, Performed, Return
<1>7. RedisTypeOK' /\ ProcessTypeOK'
  BY <1>1, PingKeeps, FaultsAssumption
  DEF IInv, TypeOK, RedisTypeOK, ProcessTypeOK, Running, redisVars, Rollback, Performed, Return
<1>8. LateInv'
  BY RedisUntouched DEF IInv, Rollback, Performed, Return
<1>. QED
  BY <1>2, <1>3, <1>4, <1>5, <1>6, <1>7, <1>8 DEF IInv, TypeOK

LEMMA EnterDungeonKeeps ==
  ASSUME IInv, EnterDungeon
  PROVE  IInv'
<1>. USE DEF MySqlTypeOK, TxInv, CallInv, DurableInv, UnreadInv, AllOrNothing,
             LostReadPaysNothing, None, MaxWrites
<1>1. MySqlInv /\ call + 1 \in Calls
  BY CallsAssumption DEF IInv, TypeOK, MySqlInv, Calls, EnterDungeon
<1>2. MySqlTypeOK'
  BY <1>1, CallsAssumption DEF MySqlInv, Calls, EnterDungeon, Idle
<1>3. TxInv'
  BY <1>1, CallsAssumption DEF MySqlInv, Calls, EnterDungeon, Idle
<1>4. CallInv'
  BY <1>1, CallsAssumption DEF MySqlInv, Calls, EnterDungeon, Idle
<1>5. DurableInv'
  BY <1>1, CallsAssumption DEF MySqlInv, Calls, EnterDungeon, Idle
<1>6. UnreadInv'
  BY <1>1, CallsAssumption DEF MySqlInv, Calls, EnterDungeon, Idle
<1>7. RedisTypeOK' /\ ProcessTypeOK'
  BY <1>1, FaultsAssumption
  DEF IInv, TypeOK, RedisTypeOK, ProcessTypeOK, redisVars, EnterDungeon, Idle
<1>8. LateInv'
  BY RedisUntouched DEF IInv, EnterDungeon, Idle
<1>. QED
  BY <1>2, <1>3, <1>4, <1>5, <1>6, <1>7, <1>8 DEF IInv, TypeOK

LEMMA SettleDungeonKeeps ==
  ASSUME IInv, SettleDungeon
  PROVE  IInv'
<1>. USE DEF MySqlTypeOK, TxInv, CallInv, DurableInv, UnreadInv, AllOrNothing,
             LostReadPaysNothing, None, MaxWrites
<1>1. MySqlInv /\ call + 1 \in Calls
  BY CallsAssumption DEF IInv, TypeOK, MySqlInv, Calls, SettleDungeon
<1>2. MySqlTypeOK'
  BY <1>1, CallsAssumption DEF MySqlInv, Calls, SettleDungeon, Idle
<1>3. TxInv'
  BY <1>1, CallsAssumption DEF MySqlInv, Calls, SettleDungeon, Idle
<1>4. CallInv'
  BY <1>1, CallsAssumption DEF MySqlInv, Calls, SettleDungeon, Idle
<1>5. DurableInv'
  BY <1>1, CallsAssumption DEF MySqlInv, Calls, SettleDungeon, Idle
<1>6. UnreadInv'
  BY <1>1, CallsAssumption DEF MySqlInv, Calls, SettleDungeon, Idle
<1>7. RedisTypeOK' /\ ProcessTypeOK'
  BY <1>1, FaultsAssumption
  DEF IInv, TypeOK, RedisTypeOK, ProcessTypeOK, redisVars, SettleDungeon, Idle
<1>8. LateInv'
  BY RedisUntouched DEF IInv, SettleDungeon, Idle
<1>. QED
  BY <1>2, <1>3, <1>4, <1>5, <1>6, <1>7, <1>8 DEF IInv, TypeOK

LEMMA ConnectionLostKeeps ==
  ASSUME IInv, ConnectionLost
  PROVE  IInv'
<1>. USE DEF MySqlTypeOK, TxInv, CallInv, DurableInv, UnreadInv, AllOrNothing,
             LostReadPaysNothing, None, MaxWrites
<1>1. MySqlInv
  BY DEF IInv, TypeOK, MySqlInv
<1>2. MySqlTypeOK'
  BY <1>1 DEF MySqlInv, ConnectionLost, Fault, Dropped
<1>3. TxInv'
  BY <1>1 DEF MySqlInv, ConnectionLost, Fault, Dropped
<1>4. CallInv'
  BY <1>1 DEF MySqlInv, ConnectionLost, Fault, Dropped
<1>5. DurableInv'
  BY <1>1 DEF MySqlInv, ConnectionLost, Fault, Dropped
<1>6. UnreadInv'
  BY <1>1 DEF MySqlInv, ConnectionLost, Fault, Dropped
<1>7. RedisTypeOK' /\ ProcessTypeOK'
  BY <1>1, FaultsAssumption
  DEF IInv, TypeOK, RedisTypeOK, ProcessTypeOK, redisVars, ConnectionLost, Fault, Dropped
<1>8. LateInv'
  BY RedisUntouched DEF IInv, ConnectionLost, Fault, Dropped
<1>. QED
  BY <1>2, <1>3, <1>4, <1>5, <1>6, <1>7, <1>8 DEF IInv, TypeOK

LEMMA MySqlStopsKeeps ==
  ASSUME IInv, MySqlStops
  PROVE  IInv'
<1>. USE DEF MySqlTypeOK, TxInv, CallInv, DurableInv, UnreadInv, AllOrNothing,
             LostReadPaysNothing, None, MaxWrites
<1>1. MySqlInv
  BY DEF IInv, TypeOK, MySqlInv
<1>2. MySqlTypeOK'
  BY <1>1 DEF MySqlInv, MySqlStops, Fault, Dropped
<1>3. TxInv'
  BY <1>1 DEF MySqlInv, MySqlStops, Fault, Dropped
<1>4. CallInv'
  BY <1>1 DEF MySqlInv, MySqlStops, Fault, Dropped
<1>5. DurableInv'
  BY <1>1 DEF MySqlInv, MySqlStops, Fault, Dropped
<1>6. UnreadInv'
  BY <1>1 DEF MySqlInv, MySqlStops, Fault, Dropped
<1>7. RedisTypeOK' /\ ProcessTypeOK'
  BY <1>1, FaultsAssumption
  DEF IInv, TypeOK, RedisTypeOK, ProcessTypeOK, redisVars, MySqlStops, Fault, Dropped
<1>8. LateInv'
  BY RedisUntouched DEF IInv, MySqlStops, Fault, Dropped
<1>. QED
  BY <1>2, <1>3, <1>4, <1>5, <1>6, <1>7, <1>8 DEF IInv, TypeOK

LEMMA MySqlStartsKeeps ==
  ASSUME IInv, MySqlStarts
  PROVE  IInv'
<1>. USE DEF MySqlTypeOK, TxInv, CallInv, DurableInv, UnreadInv, AllOrNothing,
             LostReadPaysNothing, None, MaxWrites
<1>1. MySqlInv
  BY DEF IInv, TypeOK, MySqlInv
<1>2. MySqlTypeOK'
  BY <1>1 DEF MySqlInv, MySqlStarts
<1>3. TxInv'
  BY <1>1 DEF MySqlInv, MySqlStarts
<1>4. CallInv'
  BY <1>1 DEF MySqlInv, MySqlStarts
<1>5. DurableInv'
  BY <1>1 DEF MySqlInv, MySqlStarts
<1>6. UnreadInv'
  BY <1>1 DEF MySqlInv, MySqlStarts
<1>7. RedisTypeOK' /\ ProcessTypeOK'
  BY <1>1, FaultsAssumption
  DEF IInv, TypeOK, RedisTypeOK, ProcessTypeOK, redisVars, MySqlStarts
<1>8. LateInv'
  BY RedisUntouched DEF IInv, MySqlStarts
<1>. QED
  BY <1>2, <1>3, <1>4, <1>5, <1>6, <1>7, <1>8 DEF IInv, TypeOK

-----------------------------------------------------------------------------
(* The process, and the theorems                                           *)

LEMMA StartKeeps ==
  ASSUME IInv, Start
  PROVE  IInv'
<1>1. MySqlTypeOK' /\ RedisTypeOK' /\ ProcessTypeOK'
  BY DEF IInv, TypeOK, MySqlTypeOK, RedisTypeOK, ProcessTypeOK, Start
<1>2. TxInv' /\ CallInv'
  BY DEF IInv, TypeOK, ProcessTypeOK, TxInv, CallInv, Start, None, Calls
<1>3. DurableInv' /\ UnreadInv' /\ LateInv'
  BY DEF IInv, TypeOK, RedisTypeOK, ProcessTypeOK, DurableInv, UnreadInv, LateInv, AllOrNothing,
         LostReadPaysNothing, OneFailurePerFault, Start, Calls
<1>. QED
  BY <1>1, <1>2, <1>3 DEF IInv, TypeOK

\* The statement the process had sent may be a COMMIT.
LEMMA CrashKeeps ==
  ASSUME IInv, Crash
  PROVE  IInv'
<1>. USE DEF MySqlTypeOK, TxInv, CallInv, DurableInv, UnreadInv, AllOrNothing,
             LostReadPaysNothing, None, MaxWrites
<1>1. MySqlInv
  BY DEF IInv, TypeOK, MySqlInv
<1>2. /\ RedisTypeOK' /\ ProcessTypeOK' /\ LateInv'
  BY CommandsAssumption, FaultsAssumption
  DEF IInv, TypeOK, RedisTypeOK, ProcessTypeOK, LateInv, OneFailurePerFault, Crash, Fault, Return
<1>3. CASE pc = "idle"
  BY <1>1, <1>2, <1>3, CallsAssumption DEF IInv, TypeOK, MySqlInv, Crash, Dropped, Fault
<1>4. CASE pc # "idle"
  <2>1. Running
    BY <1>4, IsRunning
  <2>2. durable' = durable \/ (Reaches /\ durable' = Committed(pc))
    BY <1>4 DEF Crash
  <2>3. MySqlTypeOK'
    BY <1>4, <2>1, <2>2, Statements, CallsAssumption DEF Running, MySqlInv, Crash, Dropped, Return
  <2>4. TxInv' /\ CallInv'
    BY <1>4, <2>1, CallsAssumption DEF Running, MySqlInv, Crash, Dropped, Return
  <2>5. DurableInv'
    BY <1>4, <2>1, <2>2, Statements, CallsAssumption DEF Running, MySqlInv, Crash, Dropped, Return
  <2>6. UnreadInv'
    BY <1>4, <2>1, <2>2, Statements, CallsAssumption DEF Running, MySqlInv, Crash, Dropped, Return
  <2>. QED
    BY <1>2, <2>3, <2>4, <2>5, <2>6 DEF IInv, TypeOK
<1>. QED
  BY <1>3, <1>4

LEMMA StutterKeeps == IInv /\ UNCHANGED vars => IInv'
<1>. SUFFICES ASSUME IInv, UNCHANGED vars PROVE IInv'
  OBVIOUS
<1>1. MySqlInv' /\ LateInv'
  BY MySqlUntouched, RedisUntouched DEF IInv, TypeOK, MySqlInv, vars
<1>2. RedisTypeOK' /\ ProcessTypeOK'
  BY DEF IInv, TypeOK, RedisTypeOK, ProcessTypeOK, vars, mysqlVars, redisVars
<1>. QED
  BY <1>1, <1>2 DEF IInv, TypeOK, MySqlInv

LEMMA NextKeeps == IInv /\ [Next]_vars => IInv'
<1>. SUFFICES ASSUME IInv, [Next]_vars PROVE IInv'
  OBVIOUS
<1>1. CASE MySqlStep
  BY <1>1, SelectKeeps, SelectFailsKeeps, BeginKeeps, WriteKeeps, CommitKeeps, StatementFailsKeeps,
     ReplyLostKeeps, UnreachableKeeps, RollbackKeeps DEF MySqlStep
<1>2. CASE Servers
  BY <1>2, ConnectionLostKeeps, MySqlStopsKeeps, MySqlStartsKeeps, RedisServer DEF Servers
<1>3. CASE Request \/ RedisStep
  BY <1>3, EnterDungeonKeeps, SettleDungeonKeeps, RedisActions DEF Request
<1>. QED
  BY <1>1, <1>2, <1>3, StartKeeps, CrashKeeps, StutterKeeps DEF Next

\* The inductive invariant, which all of the following rest on.
THEOREM ClientsInvariance == Spec => []IInv
  BY InitIInv, NextKeeps, PTL DEF Spec

\* Every variable keeps its type, and connections exist only while the process runs
\* (Initialize and the destructors of both clients).
THEOREM ClientsTypeCorrect == Spec => []TypeOK
  BY ClientsInvariance, PTL DEF IInv

\* A repository call is committed whole or not at all, and its answer says so: the
\* transactions of MySqlDungeonRepository are atomic although MySqlClient may lose
\* its connection between any two statements.
THEOREM TransactionsAreAtomic == Spec => []AllOrNothing
<1>1. IInv => AllOrNothing
  BY DEF IInv, DurableInv
<1>. QED
  BY <1>1, ClientsInvariance, PTL

\* A settle that could not read the progress, because MySqlClient has no connection
\* any more, pays no first clear reward and no gold.
THEOREM NothingIsPaidUnread == Spec => []LostReadPaysNothing
<1>1. IInv => LostReadPaysNothing
  BY DEF IInv, UnreadInv
<1>. QED
  BY <1>1, ClientsInvariance, PTL

\* RedisClient fails at most one call that begins after the last fault.
THEOREM RedisFailsOnce == Spec => []OneFailurePerFault
<1>1. IInv => OneFailurePerFault
  BY DEF IInv, LateInv
<1>. QED
  BY <1>1, ClientsInvariance, PTL
=============================================================================
