------------------------------ MODULE DbClients ------------------------------
(***************************************************************************)
(* MySqlClient and RedisClient of one server process: a MySQL connection   *)
(* that is opened when the process starts and never again, and a Redis     *)
(* connection that is opened again when it broke.  The calls are those of  *)
(* MySqlDungeonRepository, statement by statement, and Redis calls of one  *)
(* or more commands; the process has one thread and makes one at a time.   *)
(*                                                                         *)
(* DungeonService takes a transaction to be atomic; this module asks what  *)
(* a lost connection makes of it.                                          *)
(***************************************************************************)
EXTENDS Naturals

CONSTANTS
  MaxCalls,    \* bound: repository calls
  MaxCommands, \* bound: commands of one Redis call
  MaxFaults    \* bound: connections lost, statements failed, processes and servers ended

ASSUME CallsAssumption == MaxCalls \in Nat
ASSUME CommandsAssumption == MaxCommands \in Nat \ {0}
ASSUME FaultsAssumption == MaxFaults \in Nat

VARIABLES
  process,  \* "up" or "down"
  faults,   \* how many there were
  mysql,    \* the MySQL server, "up" or "down"
  handle,   \* handle_: "null", "live", or "lost" (MySQL has closed the connection)
  mode, tx, \* of the connection: "autocommit" or "transaction", and its writes
  pc,       \* the running repository call: "idle" or its next statement
  kind,     \* "enter" or "settle"
  left,     \* statements that write and are still to come
  call,     \* number of the repository call
  durable,  \* writes of each call that are committed
  size,     \* writes of each call if it does all
  outcome,  \* how each call ended
  unread,   \* history: settles whose progress SELECT met a lost connection
  redis,    \* the Redis server: "up", "down", or "loading" its data set
  context,  \* context_: "null", "ok", "stale" (err = 0, the peer is gone) or "err"
  rpc,      \* the running Redis call: "idle" or its next step
  commands, \* its commands still to come
  since,    \* history: "quiet" or "fault", since the Redis call began
  late,     \* history: calls that failed although they began after the last fault
  answer    \* result of the last Redis call

mysqlVars == <<mysql, handle, mode, tx, pc, kind, left, call, durable, size, outcome, unread>>
redisVars == <<redis, context, rpc, commands, since, late, answer>>
vars == <<process, faults, mysqlVars, redisVars>>

Calls == 1..MaxCalls
None == [k \in Calls |-> 0]
MaxWrites == 5

MySqlTypeOK ==
  /\ mysql \in {"up", "down"} /\ handle \in {"null", "live", "lost"}
  /\ mode \in {"autocommit", "transaction"} /\ tx \in [Calls -> 0..MaxWrites]
  /\ pc \in {"idle", "begin", "select", "write", "commit", "rollback"}
  /\ kind \in {"enter", "settle"}
  /\ left \in 0..MaxWrites /\ call \in 0..MaxCalls
  /\ durable \in [Calls -> 0..MaxWrites] /\ size \in [Calls -> 0..MaxWrites]
  /\ outcome \in [Calls -> {"none", "running", "ok", "failed", "doubt", "died"}]
  /\ unread \subseteq Calls

RedisTypeOK ==
  /\ redis \in {"up", "down", "loading"} /\ context \in {"null", "ok", "stale", "err"}
  /\ rpc \in {"idle", "open", "ping", "command"}
  /\ commands \in 0..MaxCommands
  /\ since \in {"quiet", "fault"} /\ late \in 0..2
  /\ answer \in {"none", "ok", "failed"}

\* One thread; its connections exist only while the process runs.
ProcessTypeOK ==
  /\ process \in {"up", "down"} /\ faults \in 0..MaxFaults
  /\ pc = "idle" \/ rpc = "idle"
  /\ process = "down" => pc = "idle" /\ rpc = "idle" /\ handle = "null" /\ context = "null"
  /\ process = "up" => handle # "null"

TypeOK == MySqlTypeOK /\ RedisTypeOK /\ ProcessTypeOK

Init ==
  /\ process = "down" /\ faults = 0
  /\ mysql = "up" /\ handle = "null" /\ mode = "autocommit" /\ tx = None
  /\ pc = "idle" /\ kind = "enter" /\ left = 0 /\ call = 0
  /\ durable = None /\ size = None
  /\ outcome = [k \in Calls |-> "none"] /\ unread = {}
  /\ redis = "up" /\ context = "null" /\ rpc = "idle" /\ commands = 0
  /\ since = "fault" /\ late = 0 /\ answer = "none"

Fault == faults < MaxFaults /\ faults' = faults + 1
Idle == process = "up" /\ pc = "idle" /\ rpc = "idle"

\* Mutated form: the result of Connect is not looked at.
StartUnchecked ==
  /\ process = "down" /\ redis # "down"
  /\ process' = "up" /\ context' = "ok"
  /\ handle' = IF mysql = "up" THEN "live" ELSE "null"
  /\ UNCHANGED <<faults, mysql, mode, tx, pc, kind, left, call, durable, size, outcome,
                 unread, redis, rpc, commands, since, late, answer>>
\* Initialize: the server runs only if both connections could be opened.
Start ==
  /\ process = "down" /\ mysql = "up" /\ redis # "down"
  /\ process' = "up" /\ handle' = "live" /\ context' = "ok"
  /\ UNCHANGED <<faults, mysql, mode, tx, pc, kind, left, call, durable, size, outcome,
                 unread, redis, rpc, commands, since, late, answer>>
-----------------------------------------------------------------------------
(* MySqlClient                                                             *)

\* Mutated form: a client that has lost its connection opens another one.
PingReconnects(hd) == IF hd # "live" /\ mysql = "up" THEN "live" ELSE hd
\* Ping and Escape connect only if there is no handle; one that was lost remains.
Ping(hd) == IF hd = "null" /\ mysql = "up" THEN "live" ELSE hd

Reaches == Ping(handle) = "live"

\* What the server does with a statement: outside a transaction a write is
\* committed at once, and START TRANSACTION commits what is open.
Committed(stmt) ==
  [k \in Calls |->
     CASE stmt \in {"begin", "commit"} -> durable[k] + tx[k]
       [] stmt = "write" /\ mode = "autocommit" /\ k = call -> durable[k] + 1
       [] OTHER -> durable[k]]
Open(stmt) ==
  CASE stmt \in {"begin", "commit", "rollback"} -> None
    [] stmt = "write" /\ mode = "transaction" -> [tx EXCEPT ![call] = tx[call] + 1]
    [] OTHER -> tx
Performed(stmt) ==
  /\ durable' = Committed(stmt)
  /\ tx' = Open(stmt)
  /\ mode' = CASE stmt = "begin" -> "transaction"
               [] stmt \in {"commit", "rollback"} -> "autocommit"
               [] OTHER -> mode

\* The connection ends and with it an open transaction.
Dropped == tx' = None /\ mode' = "autocommit"

Goto(next) == pc' = next /\ UNCHANGED <<outcome, left>>
Return(result) ==
  /\ pc' = "idle" /\ left' = 0
  /\ outcome' = [outcome EXCEPT ![call] = result]

\* The order of the statements: an enter asks for an open battle in its
\* transaction, a settle asks for the progress before it.
AfterBegin == IF kind = "enter" THEN "select" ELSE "write"
AfterSelect == IF kind = "enter" THEN "write" ELSE "begin"

EnterDungeon ==
  /\ Idle /\ call < MaxCalls
  /\ call' = call + 1 /\ kind' = "enter" /\ pc' = "begin" /\ left' = 2
  /\ size' = [size EXCEPT ![call + 1] = 2]
  /\ outcome' = [outcome EXCEPT ![call + 1] = "running"]
  /\ UNCHANGED <<process, faults, mysql, handle, mode, tx, durable, unread, redisVars>>

SettleDungeon ==
  /\ Idle /\ call < MaxCalls
  /\ call' = call + 1 /\ kind' = "settle" /\ pc' = "select" /\ left' = 4
  /\ size' = [size EXCEPT ![call + 1] = 4]
  /\ outcome' = [outcome EXCEPT ![call + 1] = "running"]
  /\ UNCHANGED <<process, faults, mysql, handle, mode, tx, durable, unread, redisVars>>

\* A SELECT that returns no row makes a settle a first clear, with one more write.
NoRow ==
  IF kind = "settle"
    THEN left' = 5 /\ size' = [size EXCEPT ![call] = 5]
    ELSE UNCHANGED <<left, size>>

Select ==
  /\ pc = "select" /\ Reaches
  /\ handle' = Ping(handle)
  /\ Performed("select")
  /\ \/ NoRow /\ pc' = AfterSelect
     \/ /\ pc' = IF kind = "enter" THEN "rollback" ELSE "begin"
        /\ UNCHANGED <<left, size>>
  /\ UNCHANGED <<process, faults, mysql, kind, call, outcome, unread, redisVars>>

\* A failed SELECT is read as one without a row.
SelectFails ==
  /\ pc = "select"
  /\ \/ Reaches /\ Fault /\ handle' = Ping(handle) /\ unread' = unread
     \/ ~Reaches /\ handle' = Ping(handle) /\ faults' = faults
        /\ unread' = IF kind = "settle" THEN unread \union {call} ELSE unread
  /\ Performed("select")
  /\ NoRow /\ pc' = AfterSelect
  /\ UNCHANGED <<process, mysql, kind, call, outcome, redisVars>>

Begin ==
  /\ pc = "begin" /\ Reaches
  /\ handle' = Ping(handle)
  /\ Performed("begin")
  /\ Goto(AfterBegin)
  /\ UNCHANGED <<process, faults, mysql, kind, call, size, unread, redisVars>>

\* The last disjunct: an UPDATE that matches no row, the guard of the repository.
Write ==
  /\ pc = "write" /\ Reaches
  /\ handle' = Ping(handle)
  /\ \/ /\ Performed("write")
        /\ left' = left - 1
        /\ pc' = IF left = 1 THEN "commit" ELSE "write"
        /\ outcome' = outcome
     \/ left = size[call] /\ Goto("rollback") /\ UNCHANGED <<durable, tx, mode>>
  /\ UNCHANGED <<process, faults, mysql, kind, call, size, unread, redisVars>>

Commit ==
  /\ pc = "commit" /\ Reaches
  /\ handle' = Ping(handle)
  /\ Performed("commit")
  /\ Return("ok")
  /\ UNCHANGED <<process, faults, mysql, kind, call, size, unread, redisVars>>

\* Mutated form: the transaction of a failed write is left open.
GiveUpQuietly ==
  IF pc = "commit" THEN Goto("rollback") ELSE Return("failed")
\* What a statement that fails leads to: a failed BEGIN returns, anything later
\* rolls back; the caller of a failed COMMIT cannot know whether it was done.
GiveUp == IF pc = "begin" THEN Return("failed") ELSE Goto("rollback")

\* A statement fails on a sound connection, and InnoDB undoes it or the transaction.
StatementFails ==
  /\ pc \in {"begin", "write", "commit"} /\ Reaches /\ Fault
  /\ handle' = Ping(handle)
  /\ \/ UNCHANGED <<durable, tx, mode>>
     \/ Dropped /\ durable' = durable
  /\ GiveUp
  /\ UNCHANGED <<process, mysql, kind, call, size, unread, redisVars>>

\* The statement was performed, and its reply is lost with the connection.
ReplyLost ==
  /\ pc \in {"begin", "write", "commit"} /\ Reaches /\ Fault
  /\ durable' = Committed(pc)
  /\ handle' = "lost" /\ Dropped
  /\ GiveUp
  /\ UNCHANGED <<process, mysql, kind, call, size, unread, redisVars>>

Unreachable ==
  /\ pc \in {"begin", "write", "commit"} /\ ~Reaches
  /\ GiveUp
  /\ UNCHANGED <<process, faults, mysql, handle, mode, tx, kind, call, durable, size,
                 unread, redisVars>>

\* Rollback, whose result nobody looks at.
Rollback ==
  /\ pc = "rollback"
  /\ handle' = Ping(handle)
  /\ IF Reaches THEN Performed("rollback") ELSE UNCHANGED <<durable, tx, mode>>
  /\ Return(IF left = 0 THEN "doubt" ELSE "failed")
  /\ UNCHANGED <<process, faults, mysql, kind, call, size, unread, redisVars>>

\* wait_timeout, the network, or an administrator.
ConnectionLost ==
  /\ handle = "live" /\ Fault
  /\ handle' = "lost" /\ Dropped
  /\ UNCHANGED <<process, mysql, pc, kind, left, call, durable, size, outcome, unread, redisVars>>

MySqlStops ==
  /\ mysql = "up" /\ Fault /\ mysql' = "down"
  /\ Dropped
  /\ handle' = IF handle = "live" THEN "lost" ELSE handle
  /\ UNCHANGED <<process, pc, kind, left, call, durable, size, outcome, unread, redisVars>>

MySqlStarts ==
  /\ mysql = "down" /\ mysql' = "up"
  /\ UNCHANGED <<process, faults, handle, mode, tx, pc, kind, left, call, durable, size,
                 outcome, unread, redisVars>>

MySqlStep ==
  \/ Select \/ SelectFails \/ Begin \/ Write \/ Commit
  \/ StatementFails \/ ReplyLost \/ Unreachable \/ Rollback
-----------------------------------------------------------------------------
(* RedisClient                                                             *)

\* Mutated form: a context is taken for a connection whatever its error.
IsConnectedIfAny == context # "null"
IsConnected == context \notin {"null", "err"}

RedisCall(n) ==
  /\ Idle
  /\ rpc' = IF IsConnected THEN "ping" ELSE "open"
  /\ commands' = n
  /\ since' = IF redis = "up" THEN "quiet" ELSE "fault"
  /\ answer' = "none"
  /\ UNCHANGED <<process, faults, mysqlVars, redis, context, late>>

RedisReturn(result) ==
  /\ rpc' = "idle" /\ commands' = 0 /\ since' = "fault"
  /\ answer' = result
  /\ late' = IF result = "ok" THEN 0
             ELSE IF since = "quiet" /\ late < 2 THEN late + 1 ELSE late

\* Mutated form: Connect keeps the context it has.
ConnectOnce ==
  /\ rpc = "open"
  /\ IF redis = "down" \/ context = "err"
       THEN context' = context /\ RedisReturn("failed")
       ELSE context' = "ok" /\ rpc' = "ping" /\ UNCHANGED <<commands, since, late, answer>>
  /\ UNCHANGED <<process, faults, mysqlVars, redis>>
Connect ==
  /\ rpc = "open"
  /\ IF redis = "down"
       THEN context' = "null" /\ RedisReturn("failed")
       ELSE context' = "ok" /\ rpc' = "ping" /\ UNCHANGED <<commands, since, late, answer>>
  /\ UNCHANGED <<process, faults, mysqlVars, redis>>

\* What becomes of the client when something befalls Redis or the connection.
Befallen ==
  /\ context' = IF context = "ok" THEN "stale" ELSE context
  /\ since' = "fault" /\ late' = 0

\* Redis has too many clients: its error is the reply to AUTH, SELECT or PING, whose
\* caller returns and keeps a context without an error.
Refused ==
  /\ rpc = "open" /\ redis # "down" /\ Fault
  /\ context' = "stale"
  /\ rpc' = "idle" /\ commands' = 0 /\ since' = "fault"
  /\ answer' = "failed" /\ late' = 0
  /\ UNCHANGED <<process, mysqlVars, redis>>

\* A command, PING first: the connection is found broken, or Redis answers it, with
\* an error while it loads.
Command ==
  /\ rpc \in {"ping", "command"}
  /\ IF context = "ok" /\ redis = "up"
       THEN /\ context' = context
            /\ IF rpc = "ping"
                 THEN rpc' = "command" /\ UNCHANGED <<commands, since, late, answer>>
                 ELSE IF commands > 1
                   THEN commands' = commands - 1 /\ UNCHANGED <<rpc, since, late, answer>>
                   ELSE RedisReturn("ok")
       ELSE /\ context' = IF context = "ok" THEN "ok" ELSE "err"
            /\ RedisReturn("failed")
  /\ UNCHANGED <<process, faults, mysqlVars, redis>>

RedisBreaks ==
  /\ context = "ok" /\ Fault /\ Befallen
  /\ UNCHANGED <<process, mysqlVars, redis, rpc, commands, answer>>

RedisStops ==
  /\ redis # "down" /\ Fault
  /\ redis' = "down" /\ Befallen
  /\ UNCHANGED <<process, mysqlVars, rpc, commands, answer>>

RedisStarts ==
  /\ redis # "up"
  /\ redis' = IF redis = "down" THEN "loading" ELSE "up"
  /\ since' = "fault" /\ late' = 0
  /\ UNCHANGED <<process, faults, mysqlVars, context, rpc, commands, answer>>

RedisStep == Connect \/ Refused \/ Command
-----------------------------------------------------------------------------

\* A process that dies leaves its transaction to the server, and the statement it
\* has just sent.
Crash ==
  /\ process = "up" /\ Fault
  /\ process' = "down" /\ handle' = "null" /\ context' = "null"
  /\ durable' \in IF pc # "idle" /\ Reaches THEN {durable, Committed(pc)} ELSE {durable}
  /\ Dropped
  /\ IF pc = "idle" THEN UNCHANGED <<pc, left, outcome>> ELSE Return("died")
  /\ rpc' = "idle" /\ commands' = 0 /\ since' = "fault" /\ late' = 0
  /\ UNCHANGED <<mysql, kind, call, size, unread, redis, answer>>

Servers ==
  \/ ConnectionLost \/ MySqlStops \/ MySqlStarts
  \/ RedisBreaks \/ RedisStops \/ RedisStarts
Request == EnterDungeon \/ SettleDungeon \/ \E n \in 1..MaxCommands : RedisCall(n)
Next == Start \/ Request \/ MySqlStep \/ RedisStep \/ Crash \/ Servers
Spec == Init /\ [][Next]_vars

\* The container and the database servers are started again, the databases answer
\* or end the connection, and a request comes that uses Redis.
FairSpec ==
  /\ Spec
  /\ WF_vars(Start) /\ WF_vars(MySqlStarts) /\ WF_vars(RedisStarts)
  /\ WF_vars(MySqlStep) /\ WF_vars(RedisStep)
  /\ WF_vars(\E n \in 1..MaxCommands : RedisCall(n))
-----------------------------------------------------------------------------
(* Properties                                                              *)

\* Of a repository call everything is committed or nothing, although connections
\* are lost between any two statements: all of it if it was answered with success,
\* nothing if it failed before its COMMIT.
AllOrNothing == \A k \in Calls :
  /\ durable[k] \in {0, size[k]}
  /\ outcome[k] = "ok" => durable[k] = size[k]
  /\ outcome[k] \in {"none", "failed"} => durable[k] = 0

\* A settle that takes a player for one without progress, because the connection
\* is gone, pays nothing: the connection is not opened again under it.
LostReadPaysNothing == \A k \in unread : durable[k] = 0

\* Whatever befell Redis or the connection, it fails at most one of the calls that
\* begin when it is over.
OneFailurePerFault == late <= 1

\* When faults end, Redis calls succeed again and again, also after the process or
\* Redis was started again.
RedisRecovers == []<>(answer = "ok")
=============================================================================
