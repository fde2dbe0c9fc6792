---------------------------- MODULE DungeonService ----------------------------
(***************************************************************************)
(* DungeonService::EnterDungeon and SettleDungeon, run by several processes*)
(* (dungeon_server and tools/demo_flow) against one Redis and one MySQL.   *)
(* Each process is single threaded and runs one handler at a time; a       *)
(* handler is split at its remote calls, so handlers of different          *)
(* processes interleave between any two of them.                           *)
(*                                                                         *)
(* Requests refused before the player lock is tried (bad session, unknown  *)
(* dungeon, result = false, star out of range) and requests that find the  *)
(* lock held change nothing here: they are stuttering steps.               *)
(***************************************************************************)
EXTENDS Integers, FiniteSets

CONSTANTS
  Servers,      \* processes that run a DungeonService
  Players,
  Unlocked,     \* players whose level reaches the dungeon's required_level
  None,
  MaxSeq,       \* bound: a process is sent no enter request after this many ids
  MaxStar, Cost, Gold, Diamond,   \* the configured dungeon
  InitStamina,
  Faults        \* the failures the environment may produce

(***************************************************************************)
(* "crash"  a process dies between two calls and is restarted              *)
(* "slow"   a lock key vanishes (TTL, Redis restart) while its holder runs *)
(* "redis"  a Redis call fails, before or after taking effect              *)
(* "mysql"  a statement of a transaction fails and rolls it back           *)
(* "query"  a SELECT fails, which the code reads as "no row"               *)
(* "commit" a COMMIT takes effect but its reply is lost                    *)
(***************************************************************************)
ASSUME FaultsAssumption ==
  Faults \subseteq {"crash", "slow", "redis", "mysql", "query", "commit"}
ASSUME PlayersAssumption == None \notin Players /\ Unlocked \subseteq Players
ASSUME NumbersAssumption ==
  /\ MaxSeq \in Nat /\ MaxStar \in Nat
  /\ Cost \in Nat /\ Gold \in Nat /\ Diamond \in Nat /\ InitStamina \in Nat

VARIABLES
  \* Redis
  lock,         \* players whose player:lock key exists (its value names nobody)
  ctx,          \* battle:ctx hashes: "none", "partial" (some fields) or "full"
  cached,       \* players whose player:snapshot key exists
  \* MySQL, committed
  stamina, gold, diamond, bestStar, battles, settled,
  rewardLog,    \* rows of reward_log, keyed by its UNIQUE (player, battle, type)
  \* the processes
  h,            \* the handler each process is in
  sequence      \* DungeonService::sequence_

redisVars == <<lock, ctx, cached>>
ledgerVars == <<stamina, gold, diamond, bestStar, battles, settled>>
vars == <<redisVars, ledgerVars, rewardLog, h, sequence>>

BattleId == Players \X (1..MaxSeq)
NoBattle == <<None, 0>>
Owner(b) == b[1]

Codes == {"OK", "PLAYER_NOT_FOUND", "DUNGEON_LOCKED", "STAMINA_NOT_ENOUGH",
          "PLAYER_BUSY", "BATTLE_NOT_FOUND", "BATTLE_MISMATCH",
          "BATTLE_ALREADY_SETTLED", "STORAGE_ERROR"}

EnterSteps == {"load", "select", "update", "insert", "save", "saving"}
SettleSteps == {"find_ctx", "find_db", "first", "claim", "reward", "delete"}
\* Between the Acquire that succeeded and the Release.
LockedSteps == EnterSteps \union SettleSteps \union {"invalidate", "release"}

Handler ==
  [op : {"none", "enter", "settle"}, pc : LockedSteps \union {"idle"},
   player : Players \union {None}, battle : BattleId \union {NoBattle},
   star : 0..MaxStar, stamina : Int, first : BOOLEAN, code : Codes]

Idle == [op |-> "none", pc |-> "idle", player |-> None, battle |-> NoBattle,
         star |-> 0, stamina |-> 0, first |-> FALSE, code |-> "OK"]

LogKeys == Players \X BattleId \X {"gold", "diamond"}

TypeOK ==
  /\ lock \subseteq Players
  /\ ctx \in [BattleId -> {"none", "partial", "full"}]
  /\ cached \subseteq Players
  /\ stamina \in [Players -> Int]
  /\ gold \in [Players -> Int]
  /\ diamond \in [Players -> Int]
  /\ bestStar \in [Players -> 0..MaxStar]
  /\ battles \subseteq BattleId
  /\ settled \subseteq battles
  /\ rewardLog \subseteq LogKeys
  /\ h \in [Servers -> Handler]
  /\ sequence \in [Servers -> Nat \ {0}]
-----------------------------------------------------------------------------
Init ==
  /\ lock = {}
  /\ ctx = [b \in BattleId |-> "none"]
  /\ cached = {}
  /\ stamina = [p \in Players |-> InitStamina]
  /\ gold = [p \in Players |-> 0]
  /\ diamond = [p \in Players |-> 0]
  /\ bestStar = [p \in Players |-> 0]
  /\ battles = {}
  /\ settled = {}
  /\ rewardLog = {}
  /\ h = [s \in Servers |-> Idle]
  /\ sequence = [s \in Servers |-> 1]

OpenBattles(p) == {b \in battles \ settled : Owner(b) = p}

At(s, pc) == h[s].pc = pc
Goto(s, pc) == h' = [h EXCEPT ![s].pc = pc]
\* The error path: the lock is released, then the code is returned.
Reject(s, code) == h' = [h EXCEPT ![s] = [@ EXCEPT !.pc = "release", !.code = code]]

Working(s, p) == h[s].player = p /\ h[s].pc \in LockedSteps

\* A transaction of another process holds the InnoDB lock on p's asset row.
AssetRowBusy(s, p) == \E t \in Servers \ {s} : At(t, "insert") /\ h[t].player = p
\* A transaction of another process holds the lock on the battle row.
BattleRowBusy(s, b) == \E t \in Servers \ {s} : At(t, "reward") /\ h[t].battle = b

\* An enter takes the asset row and then asks for the row of its battle id, a
\* settle takes the battle row and then asks for the asset row: with one id
\* they wait for each other, and InnoDB ends either of the two transactions.
Deadlocked(s) == \E t \in Servers :
  /\ h[t].battle = h[s].battle
  /\ \/ At(s, "insert") /\ At(t, "reward")
     \/ At(s, "reward") /\ At(t, "insert")
-----------------------------------------------------------------------------
(* The player lock: SET key 1 NX EX ttl, and an unconditional DEL.         *)

\* Mutated form: SET without NX.
SetNxAlways(p) == lock' = lock \union {p}
SetNx(p) ==
  /\ p \notin lock
  /\ lock' = lock \union {p}

\* The reply of a SET that took effect is lost: the caller answers
\* PLAYER_BUSY and nobody will release the key before its TTL.
AcquireReplyLost(s, p) ==
  /\ "redis" \in Faults
  /\ At(s, "idle")
  /\ SetNx(p)
  /\ UNCHANGED <<ctx, cached, ledgerVars, rewardLog, h, sequence>>

EnterAcquire(s, p) ==
  /\ At(s, "idle")
  /\ sequence[s] <= MaxSeq
  /\ SetNx(p)
  /\ h' = [h EXCEPT ![s] = [Idle EXCEPT !.op = "enter", !.pc = "load", !.player = p]]
  /\ UNCHANGED <<ctx, cached, ledgerVars, rewardLog, sequence>>

SettleAcquire(s, p, b, star) ==
  /\ At(s, "idle")
  /\ SetNx(p)
  /\ h' = [h EXCEPT ![s] = [Idle EXCEPT !.op = "settle", !.pc = "find_ctx",
                                        !.player = p, !.battle = b, !.star = star]]
  /\ UNCHANGED <<ctx, cached, ledgerVars, rewardLog, sequence>>

\* The DEL does not look at the value, so it also removes a key that another
\* handler has set meanwhile; when it fails the key stays until its TTL.
Release(s) ==
  /\ At(s, "release")
  /\ \/ lock' = lock \ {h[s].player}
     \/ "redis" \in Faults /\ lock' = lock
  /\ h' = [h EXCEPT ![s] = Idle]
  /\ UNCHANGED <<ctx, cached, ledgerVars, rewardLog, sequence>>
-----------------------------------------------------------------------------
(* EnterDungeon                                                            *)

\* LoadPlayerState, the level and stamina checks on what it read, and
\* GenerateBattleId, whose sequence is spent even if the battle never opens.
EnterLoad(s) ==
  LET p == h[s].player IN
  /\ At(s, "load")
  /\ \/ /\ "query" \in Faults
        /\ Reject(s, "PLAYER_NOT_FOUND")
        /\ UNCHANGED sequence
     \/ /\ p \notin Unlocked
        /\ Reject(s, "DUNGEON_LOCKED")
        /\ UNCHANGED sequence
     \/ /\ p \in Unlocked
        /\ stamina[p] < Cost
        /\ Reject(s, "STAMINA_NOT_ENOUGH")
        /\ UNCHANGED sequence
     \/ /\ p \in Unlocked
        /\ stamina[p] >= Cost
        /\ sequence' = [sequence EXCEPT ![s] = @ + 1]
        /\ h' = [h EXCEPT ![s] = [@ EXCEPT !.pc = "select", !.stamina = stamina[p],
                                            !.battle = <<p, sequence[s]>>]]
  /\ UNCHANGED <<redisVars, ledgerVars, rewardLog>>

\* Mutated form: the pending battle is not looked for.
EnterSelectNoCheck(s) ==
  /\ At(s, "select")
  /\ Goto(s, "update")
  /\ UNCHANGED <<redisVars, ledgerVars, rewardLog, sequence>>
\* START TRANSACTION and the SELECT of a battle with status = 0.
EnterSelect(s) ==
  /\ At(s, "select")
  /\ \/ OpenBattles(h[s].player) # {} /\ Reject(s, "PLAYER_BUSY")
     \/ OpenBattles(h[s].player) = {} /\ Goto(s, "update")
     \/ "query" \in Faults /\ Goto(s, "update")
     \/ "mysql" \in Faults /\ Reject(s, "STORAGE_ERROR")
  /\ UNCHANGED <<redisVars, ledgerVars, rewardLog, sequence>>

\* Mutated form: the UPDATE has no "AND stamina >= cost".
EnterUpdateNoGuard(s) ==
  /\ At(s, "update")
  /\ ~AssetRowBusy(s, h[s].player)
  /\ Goto(s, "insert")
  /\ UNCHANGED <<redisVars, ledgerVars, rewardLog, sequence>>
\* UPDATE player_asset ... AND stamina >= cost.  It takes the row lock, so the
\* stamina it saw is the stamina the commit decrements.  A failed statement
\* leaves affected_rows = 0 and is reported as STAMINA_NOT_ENOUGH too.
EnterUpdate(s) ==
  LET p == h[s].player IN
  /\ At(s, "update")
  /\ ~AssetRowBusy(s, p)
  /\ \/ stamina[p] >= Cost /\ Goto(s, "insert")
     \/ stamina[p] < Cost /\ Reject(s, "STAMINA_NOT_ENOUGH")
     \/ "mysql" \in Faults /\ Reject(s, "STAMINA_NOT_ENOUGH")
  /\ UNCHANGED <<redisVars, ledgerVars, rewardLog, sequence>>

OpenBattle(p, b) ==
  /\ stamina' = [stamina EXCEPT ![p] = @ - Cost]
  /\ battles' = battles \union {b}
  /\ UNCHANGED <<gold, diamond, bestStar, settled>>

\* Mutated form: a failed INSERT commits the stamina update.
EnterCommitNoRollback(s) ==
  LET p == h[s].player IN
  /\ At(s, "insert")
  /\ \/ h[s].battle \notin battles /\ OpenBattle(p, h[s].battle) /\ Goto(s, "save")
     \/ /\ h[s].battle \in battles \/ "mysql" \in Faults
        /\ stamina' = [stamina EXCEPT ![p] = @ - Cost]
        /\ Reject(s, "STORAGE_ERROR")
        /\ UNCHANGED <<gold, diamond, bestStar, battles, settled>>
  /\ UNCHANGED <<redisVars, rewardLog, sequence>>
\* Mutated form: a refused INSERT is tried again with the same id.
EnterCommitRetrying(s) ==
  LET p == h[s].player
      b == h[s].battle
      rollback == Reject(s, "STORAGE_ERROR") /\ UNCHANGED ledgerVars
  IN
  /\ At(s, "insert")
  /\ \/ ~BattleRowBusy(s, b) /\ b \notin battles /\ OpenBattle(p, b) /\ Goto(s, "save")
     \/ Deadlocked(s) /\ rollback
  /\ UNCHANGED <<redisVars, rewardLog, sequence>>
\* Mutated form: the caller goes on after a transaction that was rolled back.
EnterCommitUnchecked(s) ==
  LET p == h[s].player
      b == h[s].battle
  IN
  /\ At(s, "insert")
  /\ \/ b \notin battles /\ OpenBattle(p, b) /\ Goto(s, "save")
     \/ (b \in battles \/ "mysql" \in Faults) /\ Goto(s, "save") /\ UNCHANGED ledgerVars
  /\ UNCHANGED <<redisVars, rewardLog, sequence>>
\* INSERT INTO dungeon_battle, refused on an id already used once nobody
\* settles that battle, and COMMIT.
EnterCommit(s) ==
  LET p == h[s].player
      b == h[s].battle
      rollback == Reject(s, "STORAGE_ERROR") /\ UNCHANGED ledgerVars
  IN
  /\ At(s, "insert")
  /\ \/ /\ ~BattleRowBusy(s, b)
        /\ \/ b \notin battles /\ OpenBattle(p, b) /\ Goto(s, "save")
           \/ "commit" \in Faults /\ b \notin battles /\ OpenBattle(p, b) /\ Reject(s, "STORAGE_ERROR")
           \/ (b \in battles \/ "mysql" \in Faults) /\ rollback
     \/ Deadlocked(s) /\ rollback
  /\ UNCHANGED <<redisVars, rewardLog, sequence>>

\* BattleContextRepository::Save is one HSET per field: first some of the
\* fields exist, then all of them, unless a call fails in between.
SaveBegin(s) ==
  /\ At(s, "save")
  /\ \/ ctx' = [ctx EXCEPT ![h[s].battle] = "partial"] /\ Goto(s, "saving")
     \/ "redis" \in Faults /\ ctx' = ctx /\ Goto(s, "invalidate")
  /\ UNCHANGED <<lock, cached, ledgerVars, rewardLog, sequence>>

\* If the key was deleted meanwhile, the remaining fields recreate it without
\* the first ones.
SaveEnd(s) ==
  LET b == h[s].battle IN
  /\ At(s, "saving")
  /\ \/ ctx' = [ctx EXCEPT ![b] = IF @ = "none" THEN "partial" ELSE "full"]
     \/ "redis" \in Faults /\ ctx' = ctx
  /\ Goto(s, "invalidate")
  /\ UNCHANGED <<lock, cached, ledgerVars, rewardLog, sequence>>
-----------------------------------------------------------------------------
(* SettleDungeon                                                           *)

\* The process dies; its supervisor restarts it with sequence_ = 1.  An open
\* transaction is rolled back, the player lock stays until its TTL.
Die(s) ==
  /\ h' = [h EXCEPT ![s] = Idle]
  /\ sequence' = [sequence EXCEPT ![s] = 1]

\* FindByBattleId in Redis.  values->at() throws on a hash that lacks a field
\* and nothing catches it; a failed call is the same as no key.
SettleFindCtx(s) ==
  LET b == h[s].battle IN
  /\ At(s, "find_ctx")
  /\ \/ /\ ctx[b] = "full"
        /\ IF Owner(b) = h[s].player THEN Goto(s, "first")
                                     ELSE Reject(s, "BATTLE_MISMATCH")
        /\ UNCHANGED sequence
     \/ ctx[b] = "partial" /\ Die(s)
     \/ /\ ctx[b] = "none" \/ "redis" \in Faults
        /\ Goto(s, "find_db")
        /\ UNCHANGED sequence
  /\ UNCHANGED <<redisVars, ledgerVars, rewardLog>>

\* Mutated form: no fallback to MySQL when the context is gone.
SettleFindBattleNoFallback(s) ==
  /\ At(s, "find_db")
  /\ Reject(s, "BATTLE_NOT_FOUND")
  /\ UNCHANGED <<redisVars, ledgerVars, rewardLog, sequence>>
\* FindBattleById in MySQL.
SettleFindBattle(s) ==
  LET b == h[s].battle
      mine == Owner(b) = h[s].player
  IN
  /\ At(s, "find_db")
  /\ \/ b \notin battles /\ Reject(s, "BATTLE_NOT_FOUND")
     \/ "query" \in Faults /\ Reject(s, "BATTLE_NOT_FOUND")
     \/ b \in battles /\ ~mine /\ Reject(s, "BATTLE_MISMATCH")
     \/ b \in settled /\ mine /\ Reject(s, "BATTLE_ALREADY_SETTLED")
     \/ b \in battles \ settled /\ mine /\ Goto(s, "first")
  /\ UNCHANGED <<redisVars, ledgerVars, rewardLog, sequence>>

\* Mutated form: every settle is taken for the first clear.
SettleFirstClearAlways(s) ==
  /\ At(s, "first")
  /\ h' = [h EXCEPT ![s] = [@ EXCEPT !.pc = "claim", !.first = TRUE]]
  /\ UNCHANGED <<redisVars, ledgerVars, rewardLog, sequence>>
\* The first-clear question is asked before the transaction starts; a failed
\* SELECT answers yes.
SettleFirstClear(s) ==
  /\ At(s, "first")
  /\ \E first \in BOOLEAN :
       /\ first = (bestStar[h[s].player] = 0) \/ ("query" \in Faults /\ first)
       /\ h' = [h EXCEPT ![s] = [@ EXCEPT !.pc = "claim", !.first = first]]
  /\ UNCHANGED <<redisVars, ledgerVars, rewardLog, sequence>>

\* Mutated form: a battle another settle works on is taken for settled.
SettleClaimNoWait(s) ==
  LET b == h[s].battle IN
  /\ At(s, "claim")
  /\ \/ b \in battles \ settled /\ ~BattleRowBusy(s, b) /\ Goto(s, "reward")
     \/ /\ b \notin battles \ settled \/ BattleRowBusy(s, b)
        /\ Reject(s, "BATTLE_ALREADY_SETTLED")
  /\ UNCHANGED <<redisVars, ledgerVars, rewardLog, sequence>>
\* START TRANSACTION and UPDATE dungeon_battle SET status = 1 ... AND status
\* = 0, the gate against settling twice.  A failed UPDATE leaves
\* affected_rows = 0 and is reported as BATTLE_ALREADY_SETTLED too.
SettleClaim(s) ==
  LET b == h[s].battle IN
  /\ At(s, "claim")
  /\ ~BattleRowBusy(s, b)
  /\ \/ b \in battles \ settled /\ Goto(s, "reward")
     \/ b \notin battles \ settled /\ Reject(s, "BATTLE_ALREADY_SETTLED")
     \/ "mysql" \in Faults /\ \/ Reject(s, "STORAGE_ERROR")
                              \/ Reject(s, "BATTLE_ALREADY_SETTLED")
  /\ UNCHANGED <<redisVars, ledgerVars, rewardLog, sequence>>

\* The rows of reward_log one settlement inserts.
RewardRows(p, b, first) ==
  {<<p, b, type>> : type \in {"gold"} \union IF first THEN {"diamond"} ELSE {}}

\* Mutated form: stars are added up instead of taking the GREATEST.
PayRewardAddsStars(p, b, star, first) ==
  /\ settled' = settled \union {b}
  /\ gold' = [gold EXCEPT ![p] = @ + Gold]
  /\ diamond' = [diamond EXCEPT ![p] = IF first THEN @ + Diamond ELSE @]
  /\ bestStar' = [bestStar EXCEPT ![p] = @ + star]
  /\ rewardLog' = rewardLog \union RewardRows(p, b, first)
  /\ UNCHANGED <<stamina, battles>>
\* Mutated form: ON DUPLICATE KEY overwrites the best star.
PayRewardOverwritesStar(p, b, star, first) ==
  /\ settled' = settled \union {b}
  /\ gold' = [gold EXCEPT ![p] = @ + Gold]
  /\ diamond' = [diamond EXCEPT ![p] = IF first THEN @ + Diamond ELSE @]
  /\ bestStar' = [bestStar EXCEPT ![p] = star]
  /\ rewardLog' = rewardLog \union RewardRows(p, b, first)
  /\ UNCHANGED <<stamina, battles>>
\* The rows one settlement changes.
PayReward(p, b, star, first) ==
  /\ settled' = settled \union {b}
  /\ gold' = [gold EXCEPT ![p] = @ + Gold]
  /\ diamond' = [diamond EXCEPT ![p] = IF first THEN @ + Diamond ELSE @]
  /\ bestStar' = [bestStar EXCEPT ![p] = IF star > @ THEN star ELSE @]
  /\ rewardLog' = rewardLog \union RewardRows(p, b, first)
  /\ UNCHANGED <<stamina, battles>>

\* The asset update, the progress upsert, the reward log and COMMIT.  The
\* UNIQUE key of reward_log refuses a second row of a type for a battle.
SettleCommit(s) ==
  LET p == h[s].player
      b == h[s].battle
      fresh == RewardRows(p, b, h[s].first) \cap rewardLog = {}
      pay == PayReward(p, b, h[s].star, h[s].first)
      rollback == Reject(s, "STORAGE_ERROR") /\ UNCHANGED <<ledgerVars, rewardLog>>
  IN
  /\ At(s, "reward")
  /\ \/ /\ ~AssetRowBusy(s, p)
        /\ \/ fresh /\ pay /\ Goto(s, "delete")
           \/ "commit" \in Faults /\ fresh /\ pay /\ Reject(s, "STORAGE_ERROR")
           \/ (~fresh \/ "mysql" \in Faults) /\ rollback
     \/ Deadlocked(s) /\ rollback
  /\ UNCHANGED <<redisVars, sequence>>

SettleDelete(s) ==
  /\ At(s, "delete")
  /\ \/ ctx' = [ctx EXCEPT ![h[s].battle] = "none"]
     \/ "redis" \in Faults /\ ctx' = ctx
  /\ Goto(s, "invalidate")
  /\ UNCHANGED <<lock, cached, ledgerVars, rewardLog, sequence>>

\* PlayerCacheRepository::Invalidate, shared by both operations.
Invalidate(s) ==
  /\ At(s, "invalidate")
  /\ \/ cached' = cached \ {h[s].player}
     \/ "redis" \in Faults /\ cached' = cached
  /\ Goto(s, "release")
  /\ UNCHANGED <<lock, ctx, ledgerVars, rewardLog, sequence>>
-----------------------------------------------------------------------------
(* The environment                                                         *)

Crash(s) ==
  /\ "crash" \in Faults
  /\ Die(s)
  /\ UNCHANGED <<redisVars, ledgerVars, rewardLog>>

\* The TTL of player:lock.  Without "slow" a handler always ends within it.
LockExpire(p) ==
  /\ p \in lock
  /\ "slow" \in Faults \/ \A s \in Servers : ~Working(s, p)
  /\ lock' = lock \ {p}
  /\ UNCHANGED <<ctx, cached, ledgerVars, rewardLog, h, sequence>>

\* The TTL of battle:ctx.  Only a Save that ran to its end has set one, so a
\* partial hash has it only if it was deleted under that Save ("slow").
CtxExpire(b) ==
  /\ \/ ctx[b] = "full"
     \/ /\ "slow" \in Faults /\ ctx[b] = "partial"
        /\ \A s \in Servers : At(s, "saving") => h[s].battle # b
  /\ ctx' = [ctx EXCEPT ![b] = "none"]
  /\ UNCHANGED <<lock, cached, ledgerVars, rewardLog, h, sequence>>

\* game_server saves a snapshot of p (PlayerSnapshot has its steps).
CacheFill(p) ==
  /\ cached' = cached \union {p}
  /\ UNCHANGED <<lock, ctx, ledgerVars, rewardLog, h, sequence>>

Enter(s) == EnterLoad(s) \/ EnterSelect(s) \/ EnterUpdate(s) \/ EnterCommit(s)
            \/ SaveBegin(s) \/ SaveEnd(s)
Settle(s) == SettleFindCtx(s) \/ SettleFindBattle(s) \/ SettleFirstClear(s)
             \/ SettleClaim(s) \/ SettleCommit(s) \/ SettleDelete(s)
\* A started handler runs on without waiting for anybody but MySQL.
HandlerStep(s) == Enter(s) \/ Settle(s) \/ Invalidate(s) \/ Release(s)

Request(s) == \E p \in Players :
  \/ EnterAcquire(s, p)
  \/ AcquireReplyLost(s, p)
  \/ \E b \in BattleId, star \in 1..MaxStar : SettleAcquire(s, p, b, star)

Environment ==
  \/ \E s \in Servers : Crash(s)
  \/ \E p \in Players : LockExpire(p) \/ CacheFill(p)
  \/ \E b \in BattleId : CtxExpire(b)

Next == (\E s \in Servers : Request(s) \/ HandlerStep(s)) \/ Environment

Spec == Init /\ [][Next]_vars
-----------------------------------------------------------------------------
(* Fairness: a process keeps running its handler (the epoll loop calls it  *)
(* synchronously), InnoDB ends deadlocks and grants a row lock to the      *)
(* transactions that wait for it in turn, the keys with a TTL expire, and  *)
(* for FairClientSpec the client that knows a battle id keeps asking to    *)
(* settle it until it gets the player lock.                                *)
RowWait(s) == EnterUpdate(s) \/ EnterCommit(s) \/ SettleClaim(s) \/ SettleCommit(s)
Fairness ==
  /\ \A s \in Servers : WF_vars(HandlerStep(s)) /\ SF_vars(RowWait(s))
  /\ \A p \in Players : WF_vars(LockExpire(p))
FairSpec == Spec /\ Fairness

RetrySettle(b) == \E s \in Servers : SettleAcquire(s, Owner(b), b, MaxStar)
FairClientSpec == FairSpec /\ \A b \in BattleId : SF_vars(RetrySettle(b))
-----------------------------------------------------------------------------
(* Safety under every fault                                                *)

BattlesOf(p) == {b \in battles : Owner(b) = p}
SettledOf(p) == {b \in settled : Owner(b) = p}
DiamondRowsOf(p) == {k \in rewardLog : k[1] = p /\ k[3] = "diamond"}

\* spec.md: stamina is charged exactly for the battles that were opened,
\* whatever statement failed, whoever crashed and however locks overlapped.
StaminaConserved ==
  \A p \in Players : stamina[p] = InitStamina - Cost * Cardinality(BattlesOf(p))

\* The stamina check of the UPDATE holds at the commit: no interleaving of
\* handlers that passed the check in LoadPlayerState overdraws the player.
StaminaNeverNegative == \A p \in Players : stamina[p] >= 0

\* Gold is paid once per settled battle, and to the battle's owner.
GoldConserved ==
  \A p \in Players : gold[p] = Gold * Cardinality(SettledOf(p))

\* reward_log says exactly what was paid: a gold row for each settled battle
\* of its owner, and a diamond row for each diamond reward in the asset row.
RewardLogExact ==
  /\ \A k \in rewardLog : k[2] \in settled /\ k[1] = Owner(k[2])
  /\ \A b \in settled : <<Owner(b), b, "gold">> \in rewardLog
  /\ \A p \in Players : diamond[p] = Diamond * Cardinality(DiamondRowsOf(p))

\* The books balance: the asset rows and reward_log are exactly what the battle
\* rows account for, whatever failed, crashed or overlapped.
BooksBalance == StaminaConserved /\ StaminaNeverNegative /\ GoldConserved /\ RewardLogExact

\* What the database has done is never undone: battles stay opened, settled
\* battles stay settled, rows of reward_log stay, the best star never drops.
NothingUndone ==
  [][ /\ battles \subseteq battles' /\ settled \subseteq settled'
      /\ rewardLog \subseteq rewardLog'
      /\ \A p \in Players : bestStar'[p] >= bestStar[p] ]_vars
-----------------------------------------------------------------------------
(* Safety while the player lock outlives its handler ("slow" excluded)     *)

\* proposal.md: requests of one player are serialised by the player lock.  At
\* most one process is past Acquire for a player, and its key still exists.
MutualExclusion ==
  \A s \in Servers, p \in Players : Working(s, p) =>
    p \in lock /\ \A t \in Servers \ {s} : ~Working(t, p)

\* A player never has two battles open: the pending check and the INSERT are
\* two statements, only the lock makes them one step.
OneOpenBattle == \A p \in Players : Cardinality(OpenBattles(p)) <= 1

\* spec.md: the diamond reward is paid once per player and dungeon, although
\* the first-clear question is asked outside the settle transaction.
FirstClearOnce ==
  \A p \in Players : diamond[p] = IF bestStar[p] = 0 THEN 0 ELSE Diamond

\* remain_stamina in an OK reply is computed from the value read before the
\* transaction; it is the committed stamina until the reply is built.
RemainStaminaAccurate ==
  \A s \in Servers :
    (/\ h[s].op = "enter"
     /\ h[s].pc \in {"save", "saving", "invalidate", "release"}
     /\ h[s].code = "OK")
    => stamina[h[s].player] = h[s].stamina - Cost

\* A refused enter has charged nothing: the stamina is the one it loaded, or the
\* reply of its COMMIT was lost, and then it has paid for the battle it opened.
RefusedEnterIsFree ==
  \A s \in Servers :
    (/\ h[s].op = "enter" /\ At(s, "release")
     /\ h[s].battle # NoBattle /\ h[s].code # "OK")
    => \/ stamina[h[s].player] = h[s].stamina
       \/ /\ h[s].code = "STORAGE_ERROR"
          /\ h[s].battle \in OpenBattles(h[s].player)
          /\ stamina[h[s].player] = h[s].stamina - Cost

\* An enter reply is true of the stamina: remaining, untouched or paid for.
EnterReplyTrue == RemainStaminaAccurate /\ RefusedEnterIsFree

\* A reply BATTLE_ALREADY_SETTLED is true: it is not given on account of a
\* settlement that has yet to commit and may be rolled back.
AlreadySettledTruthful ==
  \A s \in Servers :
    At(s, "release") /\ h[s].code = "BATTLE_ALREADY_SETTLED" => h[s].battle \in settled

\* What code tells player p about battle b.
AnswerTrue(code, p, b) ==
  /\ code = "OK" => Owner(b) = p /\ b \in settled
  /\ code = "BATTLE_NOT_FOUND" /\ Owner(b) = p => b \notin battles
  /\ code = "BATTLE_MISMATCH" => Owner(b) # p
  /\ code # "BATTLE_NOT_FOUND" => b \in battles

\* What a settle answers is true of the battle until the lock is released: a
\* paid one is settled, one that is not found was not opened, and every other
\* reply is about a battle that was opened.
SettleReplyTrue ==
  \A s \in Servers :
    h[s].op = "settle" /\ h[s].pc \in {"delete", "invalidate", "release"}
    => AnswerTrue(h[s].code, h[s].player, h[s].battle)

\* The database goes through exactly the steps the ledger promises.
Ledger == INSTANCE DungeonLedger
ImplementsLedger == Ledger!Spec
-----------------------------------------------------------------------------
(* Liveness                                                                *)

\* A handler that took the lock ends, although transactions wait for each
\* other's rows, and two of them in a circle.
HandlerEnds == \A s \in Servers : h[s].pc # "idle" ~> h[s].pc = "idle"

\* An open battle whose id the client has is settled in the end, although its
\* context expires, its player's lock is contended or vanishes, and settles of it
\* are the victims of deadlocks.
BattleSettles == \A b \in BattleId : b \in battles ~> b \in settled
=============================================================================
