# Formal model of project_moon

project_moon is a small game back end: players log in, load their character,
enter a dungeon and settle the battle.  These modules model the parts of it
whose correctness depends on the order of steps of several processes, on calls
that fail and on processes that restart.

## 1. The system

```
client -> nginx (stream) -> gateway_1 / gateway_2 -> login_server    -> Redis, MySQL
                                                  -> game_server     -> Redis, MySQL
                                                  -> dungeon_server  -> Redis, MySQL
                                      tools/demo_flow (same services) -> Redis, MySQL
```

Every server is one thread around `EpollTcpServer::Run`; the handler of a
packet runs to its end before the next event is looked at.  No handler catches
exceptions, and every container is started with `restart: unless-stopped`.
All shared state is in Redis and MySQL; several processes use it at once, and a
process can stop between any two of its calls.

| component | source | state | operations | behaviours that are hard |
|---|---|---|---|---|
| dungeon flow | `dungeon_server/dungeon/*` | `sequence_`; Redis `player:lock`, `battle:ctx`; MySQL `player_asset`, `player_dungeon`, `dungeon_battle`, `reward_log` | `EnterDungeon`, `SettleDungeon` | lock expiry, check-then-act across calls, transactions that fail half way, lost COMMIT replies, restarts |
| player snapshot | `game_server/player/*` | Redis `player:snapshot` | `LoadPlayer`, `Invalidate` | a fill racing an invalidation, a read made of two SELECTs, a hash written field by field |
| sessions | `login_server/session/*`, `login_service.cpp` | `sequence_`; Redis `session:*`, `account:session:*` | `Login`/`Create`, `FindById` | four calls without a transaction, two concurrent logins, ids that restart |
| gateway | `gateway/*` | `client_bindings_` per connection | `HandlePacket`, `Bind`, `Unbind`, restore | a binding that outlives its session, answers that do not belong to the request |
| upstream client | `common/src/net/tcp_client.cpp` | one socket per pooled client, `next_index_` | `SendAndReceive` | time-outs while the upstream still executes, stale sockets after a restart |
| event loop | `common/src/net/tcp_server.cpp` | connections, read and write buffers | accept, read, write, close | requests dropped at close, partial writes, which events are armed |
| framing | `common/src/net/packet.cpp` | a byte buffer | `EncodePacket`, `TryExtractPacket` | a packet split over reads, a bad magic |
| database clients | `common/src/mysql`, `common/src/redis` | a connection | `Execute`, `Query`, `BeginTransaction`, ... | errors that look like empty results, reconnects |
| configuration, logging, hashing, codecs, tools, deployment | see PROJECT.json | - | - | no state shared between processes |

How the parts interact: the gateway forwards packets to the three servers over
pooled sockets and keeps a binding connection -> (session, player) that it
fills from login responses or restores from Redis.  The game and dungeon
servers check the session in Redis on every request.  The dungeon server
writes MySQL under the player lock, then deletes the player's snapshot, which
the game server fills without taking the lock.

What makes each part correct:

* dungeon flow: stamina is charged once per opened battle; a battle is settled
  and paid once; the first clear reward is paid once; a player has one open
  battle; what a reply says is true; a handler that waits for another's rows
  ends; open battles can be settled.
* player snapshot: a snapshot says what MySQL said at some moment, and not for
  longer than its TTL after MySQL changed; a damaged snapshot does not end the
  server.
* sessions: one valid session per account; a new login ends the old session;
  a session id belongs to one login.
* gateway: a request is forwarded only for the session bound to its
  connection; an answer goes to the request that asked for it.
* upstream client: a call returns the answer to its own request; a request is
  not executed twice; a call ends even if its upstream hangs.
* event loop and framing: the packets handled are the packets sent, the answers
  read are the answers given, however reads and writes split them; the end of
  every connection is reported once; every request is answered.
* database clients: a repository call is committed whole or not at all; Redis
  calls succeed again when the fault is over.

## 2. Plan

Done, in this order:

1. **DungeonLedger, DungeonService**: the most important behaviour of the
   system, with the abstract promise it implements and the proofs.
2. **SessionStore, SessionPromise**: `Login`, `Create` and `FindById` over
   Redis, and what those who only look sessions up may rely on.
3. **PlayerSnapshot**: `PlayerService::LoadPlayer` against the writes and
   invalidations of the dungeon flow.
4. **Gateway**: `SessionBindingAuthorizer` and `HandlePacket`, above
   SessionPromise and CallPromise, with the services' own session check.
5. **TcpServer, UpstreamPool, CallPromise**: the event loop, the framing and
   the pooled clients of the gateway.
6. **DbClients**: what the transactions and Redis calls of the other models
   become when a connection is lost.

The modules are composed by what they promise: DungeonService implements
DungeonLedger, SessionStore implements SessionPromise, UpstreamPool implements
CallPromise, and Gateway is written over the last two, so that a run of Gateway
need not interleave the steps of a login with those of a socket.

```
DungeonLedger <- DungeonService      SessionPromise <- SessionStore
                                           ^
PlayerSnapshot    DbClients             Gateway
                                           v
                                     CallPromise <- UpstreamPool, over TcpServer
```

The safety properties of every module are proved as well (section 9), and so is
the composition: GatewayProofs use of the sessions and the calls what
SessionPromise and CallPromise say, and those two refinements are theorems, that
of CallPromise for every set of faults and that of SessionPromise for one login
process whose store does not fail, which is when the code keeps it.

Left: a promise that PlayerSnapshot implements.

## 3. DungeonLedger and DungeonService

**DungeonLedger** is the promise about the durable state: two actions, `Enter`
and `Settle`, each atomic.  **DungeonService** is the code: each remote call of
`EnterDungeon` and `SettleDungeon` is an action of its own.

| in the model | in the code |
|---|---|
| `lock`, `ctx`, `cached` | the Redis keys `player:lock:*`, `battle:ctx:*` (absent, partly written, complete), `player:snapshot:*` |
| `stamina`, `gold`, `diamond` | the row of `player_asset` |
| `bestStar` | `player_dungeon.best_star`, 0 for no row |
| `battles`, `settled` | `dungeon_battle`, and its rows with `status = 1` |
| `rewardLog` | `reward_log`, keyed by its UNIQUE (player, battle, type) |
| `h[s]` | the handler process `s` is executing: its program counter and the locals later steps use |
| `sequence[s]` | `DungeonService::sequence_` |
| a battle id `<<p, n>>` | `battle-<p>-<dungeon>-<n>`; one dungeon is configured in the model |

A MySQL transaction is split where another process can act: the pending SELECT,
the UPDATE that takes the asset row's lock, the INSERT with the COMMIT; for a
settle the first-clear SELECT before the transaction, the UPDATE that takes the
battle row's lock, the rest with the COMMIT.  Uncommitted changes are not
visible to others, so they are applied at the commit; row locks are
`AssetRowBusy` and `BattleRowBusy`, derived from who is between the UPDATE and
the end of its transaction.  An enter takes the asset row and then asks for the
row of its battle id: an INSERT with an id already used (ids start at 1 in every
process) waits until nobody settles that battle, and is refused then.  A settle
takes the battle row first and the asset row second, so with a lock lost the two
can wait for each other; `Deadlocked` is that circle, and InnoDB rolls back
either of the two transactions.  Everything after a claim up to the COMMIT is one
action, because a rollback undoes all of it and no other process sees a part.

Requests refused before the lock, and requests that find it held, change
nothing and are stuttering steps.

`Faults` says which failures the environment may produce:

| fault | meaning |
|---|---|
| `crash` | a process dies between two calls; it restarts with `sequence_ = 1` |
| `slow` | a lock key vanishes (TTL, Redis restart) while its holder runs |
| `redis` | a Redis call fails, before or after it took effect |
| `mysql` | a statement of a transaction fails; the transaction is rolled back |
| `query` | a SELECT fails, which the code reads as "no row" |
| `commit` | a COMMIT takes effect and its reply is lost |

### Runs

All of them instantiate `MCDungeonService`.

| run | bounds | shows |
|---|---|---|
| `serial` (DungeonSerial.cfg) | 2 processes, 1 player, 2 ids, 2 stars; every fault but `slow` and `query` | MutualExclusion, OneOpenBattle, FirstClearOnce: handlers of a player exclude each other, at most one open battle, first clear paid once. EnterReplyTrue: `remain_stamina` is true, and a refused enter charged nothing or has paid for the battle it opened. SettleReplyTrue: a settle answers OK of a settled battle, BATTLE_NOT_FOUND of one that was not opened, and anything else of one that was. ImplementsLedger: the database is a DungeonLedger |
| `overlap` (DungeonOverlap.cfg) | 2 processes, every fault but `redis`, stamina for one battle and a half | BooksBalance: handlers of a player that overlap do not overdraw the stamina both saw; it is charged exactly for the battles opened, gold is paid once per settled battle, `reward_log` says what was paid |
| `liveness` (DungeonLiveness.cfg) | 2 processes, `slow`, 1 id, 2 players, one below the required level, a client that retries | AlreadySettledTruthful: of two settles of a battle at once, the second waits for the first and answers what that has committed. HandlerEnds: no transaction waits for ever, although the deadlock above happens. BattleSettles: an open battle is settled in the end, although contexts expire, locks vanish and settles are the victims of deadlocks |

Two processes are enough for every overlap of the code: a handler interacts
with others through one lock key, one row lock and one committed state, and a
third handler adds no new kind of step.  `MaxSeq` bounds the ids a process is
asked for (the guard of `EnterAcquire`); two ids give two battles of one
player, the reuse of the first id after a restart, and a first and a second
clear.  A process that has used its ids still settles.  In `liveness` both
processes use the one id, and the stamina pays for two battles, so an enter gets
to its INSERT while the battle of that id is settled; in `overlap` it never does.
BATTLE_MISMATCH needs a second player, which `serial` has not: of it
SettleReplyTrue is proved (section 9).

### Fairness

`WF_vars(HandlerStep(s))`: the epoll loop calls a handler synchronously, so a
process that started one goes on with it.  `SF_vars(RowWait(s))`: InnoDB grants
a row lock to its waiters in turn, and ends deadlocks; an UPDATE or INSERT that
waits is enabled again and again, not continuously.  `WF_vars(LockExpire(p))`: every
lock key has a TTL.
`FairClientSpec` adds a client that keeps asking to settle the battle it knows
until it gets the player lock (SF, because the lock is taken and freed by
others).  A crash ends the handler it hits, and failed statements end it sooner,
so the run of HandlerEnds leaves them out.

## 4. SessionStore

A login is split at the Redis calls of `RedisSessionRepository::Create`; the
HSET of several fields is two actions, because a hash can be seen, and left,
with only some of its fields.

| in the model | in the code |
|---|---|
| `sess[id]` | the hash `session:<id>`: absent, some fields, all fields |
| `current[a]` | `account:session:<a>` |
| `ttl[id]` | no expiry; EXPIRE was called ("armed"); the account key was SET after that EXPIRE ("ordered") |
| `h[s]` | the login process `s` is in: program counter, the new id, the old id GET found |
| `sequence[s]` | `RedisSessionRepository::sequence_` |
| an id `<<a, n>>` | `sess-<account>-<player>-<n>`, for the account's default player |
| `granted`, `superseded` | history: ids a client has received; of these, the ones an answered later login of the account replaced |
| `stray` | history: sessions that a failed call or a crash has left behind: the GET or DEL that should have ended them failed, or the EXPIRE or SET after their fields failed or was never reached; a login that writes the id again takes it out |
| `Valid(id)` | `FindById` returns a session |

Both keys of a login get the same TTL, and the account key is SET last, so it
goes last: `AccountExpire` is not enabled while the session it names is
"ordered" and still there.  `SessionExpire` does not hit a session between the
EXPIRE and the answer of the login that writes it: the TTL is an hour.  Nothing
else is assumed about time.

| run | bounds | shows |
|---|---|---|
| `session_single` (SessionSingle.cfg) | 1 process, 2 accounts, 4 logins, keys expire | LatestLoginWins: one valid session per account, superseded sessions invalid, the account key finds the valid one. ImplementsPromise: the store is a SessionPromise |
| `session_faults` (SessionFaults.cfg) | 1 process that restarts, 1 account, 3 logins per life of the process, every call may fail before or after it took effect | FailuresLeaveStrays: any valid session that no failure has left behind is the only one of its account and the next login finds it, although ids are given out again |

**SessionPromise** is the promise to those who call `FindById`: an account has
at most one valid session, the sessions of all accounts begin with growing
numbers, and an ended session is over.  The refinement maps `valid` to the ids
`FindById` finds, and `fresh` to the ids no login has taken: the numbers
`sequence_` has not reached, and the one of a login that has yet to write its
fields.

Logins of different accounts share only `sequence_`, so two accounts suffice; a
login, the login that ends it and one after that are three ids.  In
`session_faults` one account does: a login of another account only moves
`sequence_` on, like a login all of whose calls fail.  Deadlock is
not checked because nobody has to log in and the ids are bounded.

## 5. PlayerSnapshot

One player, because no state is shared between players.  A load is split at
HGETALL, the two SELECTs, each HSET and the EXPIRE; a write of the dungeon flow
at its COMMIT and its DEL.  What a write stores is DungeonService's subject:
here a column is the number of the last write to it.

| in the model | in the code |
|---|---|
| `db` | stamina (written by an enter), gold and dungeon progress (written by a settle, in one transaction) |
| `snap`, `ttl` | the fields of `player:snapshot:<id>`, and whether the key has a TTL |
| `r[p]` | the load process `p` is in: program counter, the `PlayerState` it read, the fields Save has still to write |
| `writing` | dungeon handlers between COMMIT and `Invalidate`; one at a time while the player lock holds, more under `slow` |
| `dead` | a load that ended its process: `values->at()` threw |
| `assets`, `floor` | history: the rows `player_asset` has had; the writes whose DEL found no load between its first SELECT and its last HSET |

`Save` iterates over an `unordered_map`, whose order depends on the build, so
`SaveField` writes the fields in any order.

| run | bounds | shows |
|---|---|---|
| `snapshot_reader` (SnapshotReader.cfg) | 1 reader, 2 writers that may overlap, 2 writes of each kind, fair | AnswerWasReal, PaidProgressShown: no answer mixes two asset rows or shows gold without its progress. StaleEnds: a stale field goes away |
| `snapshot_faults` (SnapshotFaults.cfg) | 2 readers, 1 write of each kind, every failure | WritesSeen: the snapshot is not older than a write no load overlapped |
| `snapshot_dies` (SnapshotDies.cfg) | nothing fails | violation of NoLoadDies: DEL between two HSETs leaves an incomplete hash |

A snapshot that is older than MySQL is possible and lasts up to its TTL: a load
reads, a write commits and deletes, the load saves.  WritesSeen says this race
is the only way to one (for the progress, apart from a failed SELECT, which is
cached as an empty progress), StaleEnds that it ends.  One write of each kind makes a
row stale and two make three different rows; with two readers every pair of
Saves interleaves.

Fairness: `WF_vars(LoadStep(p))`, because the event loop calls the handler
synchronously; `WF_vars(SnapExpire)`, because Redis expires keys.  No load has
to start and no write has to happen.

## 6. Gateway

A request is handled in the steps of `HandlePacket`: received, authorized (with
one look at Redis if the connection is not bound), forwarded, answered.  What
other processes do (sessions that begin and end, services that execute a call,
perhaps after the gateway gave up) is interleaved with them; other connections
are not, because the event loop waits for the upstream's answer.

| in the model | in the code |
|---|---|
| `valid`, `fresh` | the sessions, as SessionPromise has them |
| `call`, `ran` | the upstream calls, as CallPromise has them |
| `bindings` | `SessionBindingAuthorizer::client_bindings_` |
| `closed` | connections that have ended; ids are not used again |
| `pc`, `current`, `request` | `HandlePacket`, the request it handles and all it has received |
| a request's `session`, `player`, `body`, `plain` | session and player of the message context, the player of the message itself, whether the context has the request_id of the header |
| `result` | what the service did with a request: a session begun, a player served, nothing |
| `reply` | the answer of the gateway |
| `Receive`, `Authorize`, `Forward`, `Respond`, `Mismatch`, `UpstreamFails` | `HandlePacket`: the packet read, `ValidateOrRestore`, `SendAndReceive`, its answer passed on, BAD_GATEWAY, and UPSTREAM_ERROR or UPSTREAM_TIMEOUT |
| `Disconnect` | the disconnect handler, `Unbind` |
| `RunLogin`, `RunPlay` | the handlers of the three services, with their look at the session |
| `granted`, `late` | history: sessions of answered logins; whether a request came with a session superseded by then |

Faults: `crash`, the gateway dies, and the upstreams finish what they have of
its calls; `elsewhere`, accounts log in through other gateways.

| run | bounds | shows |
|---|---|---|
| `gateway` (Gateway.cfg) | 2 accounts, 2 connections, 2 requests, 2 sessions, both faults | ServedOnlyCurrent: no request that came with a superseded session is executed, although its connection stays bound. BindingEarned, LoginBinds, SwitchesByLogin: what a connection can be bound to, and when. RepliesTruthful: OK was executed, SESSION_INVALID was and will not be |

Two requests are a login and a request that uses its session, a request on a
bound connection and its successor, or two connections using one session; the
second session begins elsewhere or by the second request.  The ids a client may
present are all that have begun, its own or not.

## 7. The transport: TcpServer, UpstreamPool, CallPromise

**TcpServer** is `EpollTcpServer` with the kernel's socket queues and the peers.
A byte stream is a sequence of halves of packets, so that a read can end inside
a packet and a write can stop inside a response; `Room` is what the kernel takes
for a peer that does not read.  `EpollWait` notes the events of all descriptors,
and the loop handles them one after the other, though the world has moved on.

| in the model | in the code |
|---|---|
| `conn[s]` | `connections_`: the id, `read_buffer`, the write queue, whether EPOLLOUT is armed |
| `batch` | the events `epoll_wait` returned that `Run` has not looked at |
| `nextId`, `told` | `next_connection_id_`; the ids given to the disconnect handler |
| `peer`, `in`, `out`, `backlog` | the sockets as the kernel has them |
| `process` | "killed" is the end by SIGPIPE |
| `Packets`, `Rest` | `TryExtractPacket` as often as it finds one; a bad magic empties the buffer |
| `stream`, `done`, `got` | history: what the peer has sent, what was handed to the handler, what the peer has read |

Faults: `junk` (bytes that are no packet), `close` (peers go away), `crash`,
`accept` (accept(2) fails, which ends `Run`).

**UpstreamPool** adds `UpstreamClientPool` and `PersistentTcpClient` as peers of
that event loop: Connect, write, read, and the close after a failure.  The
gateway makes one call at a time.  **CallPromise** is what its caller may rely
on: each call is executed at most once, one that succeeds was executed, one that
fails may be executed now, later or never.

| run | bounds | shows |
|---|---|---|
| `tcp_server` (TcpServer.cfg) | 2 connections, 2 packets, `Room` = 1, every fault | InputConserved, OutputConserved: no byte lost, repeated or out of order. HandledWasSent: around junk, too, only packets that were sent are handled. DisconnectToldOnce: every id is that of an open connection or was reported, once. PatientPeersHarmless: a peer with one request outstanding does not end the process. Answered: a request on a connection that stays is answered |
| `upstream_pool` (UpstreamPool.cfg) | 2 clients, 3 calls, 3 sockets, an upstream that hangs, dies and restarts | AnswerIsMine: a call returns its own answer although the last call of its client timed out. ImplementsCallPromise. CallEnds |

Two packets on one connection are pipelined, on two connections they share an
`epoll_wait`; two halves of room would let every response go out at once.  The
third call uses a client again.

Fairness: `LoopFairness`, the loop goes on and looks at every event it has; for
Answered, a peer that stays reads what has come.  UpstreamPool assumes only that
the client's own calls return, `poll` after its time-out at the latest, and
nothing of the server.

## 8. DbClients

One process with its `MySqlClient`, opened when the process starts and never
again, and its `RedisClient`, opened again when hiredis has noted an error.

| in the model | in the code |
|---|---|
| `handle` | `MySqlClient::handle_`; "lost" is a handle whose connection MySQL has closed |
| `mode`, `tx`, `durable` | the server's side: autocommit, the writes of the open transaction, the committed ones |
| `pc`, `kind`, `left`, `size` | the repository call: `EnterDungeon` (2 writes) or `SettleDungeon` (4, or 5 for a first clear), statement by statement |
| `outcome` | how each call ended; "doubt" is a COMMIT that failed |
| `context` | `RedisClient::context_`; "stale" has no error yet although the peer is gone or has refused AUTH |
| `rpc`, `commands` | the running Redis call: Connect, PING, its commands |
| `Ping`, `IsConnected` | the two reconnect rules: a handle that exists is never replaced; a context with an error is |

| run | bounds | shows |
|---|---|---|
| `db_clients` (DbClients.cfg) | 2 repository calls, Redis calls of at most 2 commands, 3 faults | AllOrNothing: a call is committed whole or not at all, whatever is lost between its statements. LostReadPaysNothing: a settle that could not read the progress commits nothing, because the connection is not opened again under it. OneFailurePerFault: when a fault is over at most one Redis call fails. RedisRecovers: calls succeed again and again |

The second call meets what a failed first one left; three faults are a lost
connection, a server that stops and a process that dies, in any order.

Fairness: the container and the databases are started again, a statement or
command returns or its connection ends, and a request comes that uses Redis.
`MaxFaults` bounds the faults, so they end: RedisRecovers is about what comes
after the last one.

## 9. What is proved

All theorems hold for every value of the constants that satisfies the modules'
ASSUMEs; what they assume of `Faults` or of the number of processes is named.

**DungeonServiceProofs** proves for every set of faults, so also when locks
expire under running handlers: `Invariance`, `TypeCorrect`,
`StaminaIsConserved`, `StaminaIsNeverOverdrawn`, `GoldIsConserved`,
`RewardLogIsExact`, their conjunction `BooksAlwaysBalance`, and
`NothingIsUndone`.  The invariants are not inductive alone.  `IInv` adds
`HandlerInv`, what a handler at each program counter knows (a handler past the
claim has its own battle open, a handler past the asset UPDATE saw enough
stamina) and `RowLockInv`, that two handlers are never past the same UPDATE.
With them the guard of the UPDATE still holds at the COMMIT, which is the whole
reason stamina stays non-negative, and a claimed battle has no rows in
`reward_log`, which is why gold and the log agree.

`AlreadySettledIsTrue` assumes `"mysql"` is not a fault: a failed claim is
answered like a settled battle.  Its `TruthInv` says that a context exists only
for a battle that was opened, so that a claim that matches no row can only have
met a settled one, and one that waited for the row has met what was committed.

**DungeonSerialProofs** proves what needs the player lock.  Assuming `"slow"` is
not a fault: `PlayersAreSerialised`, and `EnterRepliesAreTrue`, whose `ReplyInv`
follows the stamina an enter has loaded to its reply.  Assuming also that SELECTs
do not fail (`"query"` excluded): `FirstClearIsPaidOnce`, `BattlesAreExclusive`,
`ServiceImplementsLedger`, the refinement, and `SettleRepliesAreTrue`, for which
`TruthInv` says that a settle works on an opened battle, and the exclusion that
nobody opens it between the look-up and the answer.  `SerialInv` adds that a handler
past the pending check has no open battle, and that a handler past the
first-clear question has the answer that still holds.

**SessionStoreProofs** proves `TypeCorrect` for every set of faults and number of
login processes and, for one login process: `OnlyFailuresLeaveStrays` (any call
may fail, any restart), whose `StrayInv` says that a complete session that is not
stray is named by its account key, which outlives it, with no login of its account
past the DEL that should end it (`Named`), or its login has yet to SET the key
(`Unnamed`); with one process not both happen in one account;
`EndedSessionsStayEnded` (Redis calls may fail, no restart), because a login
writes only an id no client has (`IdInv`); and, when nothing fails,
`SessionsAreExclusive` (LatestLoginWins) and `StoreKeepsItsPromise`, the
refinement of SessionPromise.
`SessInv` says that a hash that exists is either named by its account key,
expires before that key, and no login is past the DEL that should have ended it
(`Settled`), or is being written (`Writing`); the refinement needs `NumberInv`,
that no session has a number `sequence_` has yet to reach.

**PlayerSnapshotProofs** proves `TypeCorrect` and `UnoverlappedWritesAreSeen` for
every set of faults and any number of readers and writers.  For one reader whose
Redis calls do not fail it proves `AnswersAreReal`, although processes die,
SELECTs fail and writes overlap, and `PaidProgressIsShown` if no SELECT fails
either: a failed one is read as a player without progress.  For these two,
`RealInv` says that the hash holds only fields of the copy of the load that is
saving, that the assets of such a copy are a row the database has had, and that
its progress was read no earlier.

**GatewayProofs** proves all properties of Gateway for every set of faults and any number of
accounts, connections, requests and sessions: `GatewayTypeCorrect`,
`OnlyCurrentSessionsAreServed`, `BindingsAreEarned`, `LoginsBind`,
`RepliesAreTruthful`, `SwitchesOnlyByLogin`.  The heart of its invariant is that
logins take growing numbers: a valid session is the latest of its account, so
one that a granted session supersedes is not valid, and never will be.

**DbClientsProofs** proves `ClientsTypeCorrect`, `TransactionsAreAtomic`,
`NothingIsPaidUnread` and `RedisFailsOnce` for any number of calls, commands and
faults.  `TxInv` says that only the running call has uncommitted writes, as many
as it has done; `CallInv` and `DurableInv` what a call at each statement has
committed; `UnreadInv` that the handle of a settle that could not read stays
lost until the process ends; `LateInv` that a call that began in quiet fails
only by a stale context, which it turns into an error.

**TcpServerProofs** proves every safety property of TcpServer, for every set of
faults and any number of connections, packets and halves of room.

* `ConnectionsEndOnce` (DisconnectToldOnce): `IdInv` divides the ids below
  `nextId` among the open connections and `told`; `LoopInv` says that what is
  left of a round of events are events of open connections, so that none is
  closed twice, and that a descriptor waits once to be accepted.
* `NoByteLost`, `AnswersInOrder`, `OnlyWholePackets`, `TypeCorrect`: from
  `StreamsFlow`, the invariant `DataInv`.  On each connection `ArrivedInv` says
  that the read buffer and the kernel's queue are the end of the stream, so that
  `TryExtractPacket`, wherever recv cut, works on a stretch of it; `SentInv`
  that peers send packets with growing numbers (`Proper`), of which `PacketsOf`
  and `RestOf` conclude what is found in such a stretch; `HandledInv` that what
  was handled lies before it, which is why no junk makes a packet appear or come
  back; `InputInv` and `OutputInv` are the two conservation properties, the
  second for every peer that has not answered with a RST; `AnswersInv` keeps of
  them what holds when a connection is closed.  `UsedInv` is about the peers: the
  numbers are used in order.
* `OnlyImpatientPeersKill` (PatientPeersHarmless): the process ends by SIGPIPE
  with two strings queued; by `OutputInv` the peer has not read those answers,
  which are at least three halves it has sent.

These are facts about sequences of any length.  Where an induction would be
natural (growing numbers grow over any distance), the proof takes the least
counterexample instead (`LeastNumber`).

**UpstreamPoolProofs** proves the safety of the pool on top of that invariant,
for any number of clients, sockets and calls.  `PoolInv` says that the numbers
on one connection are on no other and the running call has the largest
(`NumbersInv`); that the upstream has handled all requests of a connection but
perhaps the last (`DoneInv`); that a connection the pool keeps has nothing left
to be answered (`ClientInv`), because a call that fails closes it; and that a
call that reads has had nothing or the first half of its own answer (`ReadInv`).
`PoolTypeCorrect` and `AnswersMatchCalls` (AnswerIsMine) follow.  `RunsAre`
counts the executions of a request: numbers are unique over the connections and
growing on each, so there is at most one.  With it `PoolKeepsItsPromise` shows
that the pool with its server and its network implements CallPromise: one event
of the server runs one request at most, and only one that is open or has failed.

Sections 5 and 11 show what happens without the assumptions.

Only model-checked: the liveness properties (HandlerEnds,
BattleSettles, StaleEnds, Answered, CallEnds, RedisRecovers), for which the
prover has no rules.  The modules use no RECURSIVE operator.

## 10. Not modelled

* Accounts and passwords, the dungeon configuration: read only.  A refused login
  changes nothing; one dungeon is DungeonService's constants.
* The conversions of the message codecs, and the fields the services copy from
  rows to messages: pure.  Gateway has what the gateway decides on, `plain`,
  `session`, `player`, `body`.
* Logging, configuration files, bootstrap: read once at start, or output.
* The in-memory repositories are used by unit tests only.
* `demo_client` and `service_check` are clients; `demo_flow` runs the same
  services on the same databases and is one more process of the models.
* nginx, Redis, MySQL and Docker are external: they appear as what the code
  relies on (keys with a TTL, row locks, transactions, restarts, connections
  that end).
* InnoDB's gap locks: only locks on rows that exist are modelled, with the one
  circle the transactions of the code can wait in.
* Time is not measured.  A TTL is an action that may happen; only its order with
  the TTL of another key is used, and `"slow"` is the lock that ends too early.

## 11. Where the code and its documents differ

One run is expected to find a violation, `snapshot_dies`.  The models contain
the other differences too; each can be seen by checking the named formula with
the named constants.

| difference | where | in the model |
|---|---|---|
| The Invalidate of a dungeon request between two HSETs of a Save leaves a snapshot without some fields; every load of the player then throws in `values->at()` and ends game_server, until the TTL. | `redis_player_cache_repository.cpp:52` | PlayerSnapshot, no fault: NoLoadDies (run `snapshot_dies`) |
| The progress SELECT of a settle fails, is read as "never cleared", and the diamonds are paid again. `spec.md` says the first clear reward is paid once. | `mysql_dungeon_repository.cpp:104` | DungeonService, `query`: FirstClearOnce |
| After a restart login_server gives out the ids of its earlier life: a superseded client's id becomes the new session. `spec.md` says older sessions are invalid. | `redis_session_repository.cpp:26` | SessionStore, `crash`: SupersededInvalid |
| A connection MySQL has closed is never opened again: all statements of the process fail until it is restarted, while service_check, which opens its own connections, reports the server ready. | `mysql_client.cpp:73` | DbClients: from `handle = "lost"` only Crash leads on |
| A Redis command has no time-out: a Redis that does not answer stops the event loop of the server, and with it all its clients. | `redis_client.cpp:37` | DbClients assumes WF of RedisStep instead |
| Any error of accept(2) but EAGAIN ends `Run`, and with it the server; a shortage of descriptors is such an error. | `tcp_server.cpp:169` | TcpServer, `accept`: AcceptFails |
| `send` without MSG_NOSIGNAL: a peer that closes with two responses queued ends the process by SIGPIPE. | `tcp_server.cpp:237` | TcpServer, `close`: `process = "killed"` |
| A restarted dungeon_server generates `battle-p-d-1` again. The INSERT fails, after waiting for a settle of that battle or as the victim of a deadlock with it; the player is charged nothing and gets STORAGE_ERROR until the sequence has passed the old ids. `spec.md` says every challenge gets a unique id. | `dungeon_service.cpp:128` | DungeonService, `crash`: at `"select"`, `h[s].battle` can be in `battles` |
| A process that dies inside `Save` leaves a context without some fields and without a TTL; every settle of that battle throws in `values->at()` and ends the process. | `redis_battle_context_repository.cpp:31` | DungeonService, `crash`: at `"find_ctx"`, `ctx[h[s].battle]` can be `"partial"` |
| A claim UPDATE that fails leaves `affected_rows = 0` and is answered BATTLE_ALREADY_SETTLED for an open battle. | `mysql_dungeon_repository.cpp:126` | DungeonService, `mysql`: AlreadySettledTruthful |
| The lock's TTL passes while a handler runs, and `Release` frees a lock it may not own. `proposal.md` says the player lock serialises a player's requests. | `redis_player_lock_repository.cpp:14` | DungeonService, `slow`: MutualExclusion |
| `Create` looks at no result of its Redis calls: a login whose session was not stored, or only with some fields, is answered with success; `FindById` throws on the latter. | `redis_session_repository.cpp:34`, `:51` | SessionStore, `redis`: at `"reply"`, `Valid(h[s].id)` can be false |
| Two login processes both GET the account key before either SETs it and leave two valid sessions. | `redis_session_repository.cpp:30` | SessionStore, two `Servers`: OneSessionPerAccount |
| `HSet` sets the TTL with a call of its own: a game_server that dies before it leaves a snapshot without TTL, and if it is stale it stays so until the next write. | `redis_client.cpp:192` | PlayerSnapshot, `crash`, FairSpec: StaleEnds |
| A failed progress SELECT is answered, and cached, as a player without progress. | `mysql_player_repository.cpp:35` | PlayerSnapshot, `query`: PaidProgressShown |
