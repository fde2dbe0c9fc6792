------------------------ MODULE DungeonServiceProofs ------------------------
(***************************************************************************)
(* Theorems about DungeonService for every number of processes, players    *)
(* and battles.                                                            *)
(***************************************************************************)
EXTENDS DungeonService, FiniteSetTheorems, TLAPS

\* What a handler has established when it is at a step.
HandlerInv ==
  \A s \in Servers :
    /\ h[s].pc \in LockedSteps => h[s].player \in Players
    /\ At(s, "load") => sequence[s] <= MaxSeq
    /\ h[s].pc \in (EnterSteps \ {"load"}) \union SettleSteps => h[s].battle \in BattleId
    /\ h[s].pc \in (EnterSteps \ {"load"}) \union (SettleSteps \ {"find_ctx", "find_db"})
         => Owner(h[s].battle) = h[s].player
    /\ At(s, "reward") => h[s].battle \in battles \ settled
    /\ At(s, "insert") => stamina[h[s].player] >= Cost

\* The row locks: an asset row is held by one transaction, and so is a battle
\* row.
RowLockInv ==
  \A s, t \in Servers : s # t =>
    /\ At(s, "insert") /\ At(t, "insert") => h[s].player # h[t].player
    /\ At(s, "reward") /\ At(t, "reward") => h[s].battle # h[t].battle

IInv == TypeOK /\ HandlerInv /\ RowLockInv
-----------------------------------------------------------------------------
USE DEF LockedSteps, EnterSteps, SettleSteps, Codes

LEMMA IdleHandler == Idle \in Handler /\ Idle.pc = "idle"
  BY NumbersAssumption DEF Idle, Handler

\* The initial state satisfies the inductive invariant.
LEMMA InitIInv == Init => IInv
  <1> SUFFICES ASSUME Init PROVE IInv
    OBVIOUS
  <1>2. TypeOK
    BY IdleHandler, NumbersAssumption DEF Init, TypeOK
  <1>3. HandlerInv /\ RowLockInv
    BY DEF Init, HandlerInv, RowLockInv, Idle, At
  <1> QED
    BY <1>2, <1>3 DEF IInv

\* What a step of the control leaves alone.
Keeps(s) ==
  /\ h' \in [Servers -> Handler]
  /\ \A t \in Servers \ {s} : h'[t] = h[t]
  /\ h'[s].op = h[s].op /\ h'[s].player = h[s].player /\ h'[s].star = h[s].star

LEMMA GotoKeeps ==
  ASSUME h \in [Servers -> Handler], NEW s \in Servers,
         NEW pc \in LockedSteps, Goto(s, pc)
  PROVE  /\ Keeps(s)
         /\ h'[s].pc = pc
         /\ h'[s].battle = h[s].battle /\ h'[s].code = h[s].code
         /\ h'[s].stamina = h[s].stamina /\ h'[s].first = h[s].first
  BY DEF Goto, Handler, Keeps

LEMMA RejectKeeps ==
  ASSUME h \in [Servers -> Handler], NEW s \in Servers,
         NEW code \in Codes, Reject(s, code)
  PROVE  /\ Keeps(s)
         /\ h'[s].pc = "release" /\ h'[s].code = code
         /\ h'[s].battle = h[s].battle
         /\ h'[s].stamina = h[s].stamina /\ h'[s].first = h[s].first
  <1>1. h[s] \in Handler
    OBVIOUS
  <1>2. [h[s] EXCEPT !.pc = "release", !.code = code] \in Handler
    BY <1>1 DEF Handler
  <1> QED
    BY <1>1, <1>2 DEF Reject, Handler, Keeps

\* A step that changes no durable state and takes no row lock keeps the
\* inductive invariant, provided a handler past the context lookup has found
\* a battle of its own player.
LEMMA MoveIInv ==
  ASSUME IInv, NEW s \in Servers, h[s].pc \in LockedSteps, Keeps(s),
         h'[s].pc \in LockedSteps \ {"load", "insert", "reward"},
         h'[s].pc \in {"invalidate", "release"} \/
           (/\ h'[s].battle \in BattleId
            /\ h'[s].pc \in {"find_ctx", "find_db"} \/ Owner(h'[s].battle) = h[s].player),
         lock' \subseteq Players, cached' \subseteq Players,
         ctx' \in [BattleId -> {"none", "partial", "full"}],
         UNCHANGED <<ledgerVars, rewardLog, sequence>>
  PROVE  IInv'
  <1>1. TypeOK'
    BY DEF IInv, TypeOK, Keeps, ledgerVars
  <1>2. HandlerInv'
    BY DEF IInv, HandlerInv, Keeps, At, ledgerVars
  <1>3. RowLockInv'
    BY DEF IInv, RowLockInv, Keeps, At
  <1> QED
    BY <1>1, <1>2, <1>3 DEF IInv

\* Going back to idle, by a reply or by a death, keeps it too.
LEMMA IdleIInv ==
  ASSUME IInv, NEW s \in Servers, h' = [h EXCEPT ![s] = Idle],
         lock' \subseteq Players, sequence' \in [Servers -> Nat \ {0}],
         \A t \in Servers \ {s} : sequence'[t] = sequence[t],
         UNCHANGED <<ctx, cached, ledgerVars, rewardLog>>
  PROVE  IInv'
  <1>1. Idle \in Handler /\ Idle.pc = "idle"
    BY IdleHandler
  <1>2. /\ h' \in [Servers -> Handler] /\ h'[s] = Idle
        /\ \A t \in Servers \ {s} : h'[t] = h[t]
    BY <1>1 DEF IInv, TypeOK
  <1>3. TypeOK'
    BY <1>2 DEF IInv, TypeOK, ledgerVars
  <1>4. HandlerInv'
    BY <1>1, <1>2 DEF IInv, HandlerInv, At, ledgerVars
  <1>5. RowLockInv'
    BY <1>1, <1>2 DEF IInv, RowLockInv, At
  <1> QED
    BY <1>3, <1>4, <1>5 DEF IInv

LEMMA DieIInv ==
  ASSUME IInv, NEW s \in Servers, Die(s), UNCHANGED <<redisVars, ledgerVars, rewardLog>>
  PROVE  IInv'
  <1>1. /\ lock' = lock /\ lock \subseteq Players
        /\ UNCHANGED <<ctx, cached, ledgerVars, rewardLog>>
    BY DEF redisVars, IInv, TypeOK
  <1>2. /\ sequence' \in [Servers -> Nat \ {0}]
        /\ \A t \in Servers \ {s} : sequence'[t] = sequence[t]
        /\ h' = [h EXCEPT ![s] = Idle]
    BY DEF Die, IInv, TypeOK
  <1> QED
    BY <1>1, <1>2, IdleIInv

\* The requests.
LEMMA RequestIInv ==
  ASSUME IInv, NEW s \in Servers, Request(s)
  PROVE  IInv'
  <1> USE DEF IInv
  <1>1. PICK p \in Players :
          \/ EnterAcquire(s, p)
          \/ AcquireReplyLost(s, p)
          \/ \E b \in BattleId, star \in 1..MaxStar : SettleAcquire(s, p, b, star)
    BY DEF Request
  <1>2. ASSUME NEW r \in Handler, h' = [h EXCEPT ![s] = r],
               r.player = p, r.pc \in {"load", "find_ctx"},
               r.pc = "load" => sequence[s] <= MaxSeq,
               r.pc = "find_ctx" => r.battle \in BattleId,
               SetNx(p), UNCHANGED <<ctx, cached, ledgerVars, rewardLog, sequence>>
        PROVE  IInv'
    <2>1. /\ h' \in [Servers -> Handler] /\ h'[s] = r
          /\ \A t \in Servers \ {s} : h'[t] = h[t]
      BY <1>2 DEF TypeOK
    <2>2. TypeOK'
      BY <1>2, <2>1 DEF TypeOK, SetNx, ledgerVars
    <2>3. HandlerInv'
      BY <1>2, <2>1 DEF HandlerInv, At, ledgerVars
    <2>4. RowLockInv'
      BY <1>2, <2>1 DEF RowLockInv, At
    <2> QED
      BY <2>2, <2>3, <2>4
  <1>3. CASE EnterAcquire(s, p)
    <2> DEFINE r == [Idle EXCEPT !.op = "enter", !.pc = "load", !.player = p]
    <2>1. r \in Handler /\ r.pc = "load" /\ r.player = p
      BY IdleHandler DEF Handler
    <2>2. h' = [h EXCEPT ![s] = r]
      BY <1>3 DEF EnterAcquire
    <2> HIDE DEF r
    <2> QED
      BY <1>2, <1>3, <2>1, <2>2 DEF EnterAcquire
  <1>4. CASE AcquireReplyLost(s, p)
    <2>1. TypeOK'
      BY <1>4 DEF AcquireReplyLost, TypeOK, SetNx, ledgerVars
    <2>2. HandlerInv' /\ RowLockInv'
      BY <1>4 DEF AcquireReplyLost, HandlerInv, RowLockInv, At, ledgerVars
    <2> QED
      BY <2>1, <2>2
  <1>5. ASSUME NEW b \in BattleId, NEW star \in 1..MaxStar, SettleAcquire(s, p, b, star)
        PROVE  IInv'
    <2> DEFINE r == [Idle EXCEPT !.op = "settle", !.pc = "find_ctx",
                                 !.player = p, !.battle = b, !.star = star]
    <2>0. star \in 0..MaxStar
      BY NumbersAssumption
    <2>1. r \in Handler /\ r.pc = "find_ctx" /\ r.player = p /\ r.battle = b
      BY IdleHandler, <2>0 DEF Handler
    <2>2. h' = [h EXCEPT ![s] = r]
      BY <1>5 DEF SettleAcquire
    <2> HIDE DEF r
    <2> QED
      BY <1>2, <1>5, <2>1, <2>2 DEF SettleAcquire
  <1> QED
    BY <1>1, <1>3, <1>4, <1>5

\* The steps of EnterDungeon.
LEMMA EnterIInv ==
  ASSUME IInv, NEW s \in Servers, Enter(s)
  PROVE  IInv'
  <1> USE DEF IInv
  <1>0. h \in [Servers -> Handler]
    BY DEF TypeOK
  <1>r. ASSUME h[s].pc \in LockedSteps, NEW code \in Codes, Reject(s, code),
               UNCHANGED <<redisVars, ledgerVars, rewardLog, sequence>>
        PROVE  IInv'
    BY <1>0, <1>r, MoveIInv, RejectKeeps DEF TypeOK, redisVars
  <1>1. CASE EnterLoad(s)
    <2> DEFINE p == h[s].player
    <2>1. h[s].pc = "load" /\ p \in Players /\ sequence[s] \in 1..MaxSeq
      BY <1>1, NumbersAssumption DEF EnterLoad, At, TypeOK, HandlerInv
    <2>2. ASSUME stamina[p] >= Cost,
                 sequence' = [sequence EXCEPT ![s] = @ + 1],
                 h' = [h EXCEPT ![s] = [@ EXCEPT !.pc = "select", !.stamina = stamina[p],
                                                 !.battle = <<p, sequence[s]>>]],
                 UNCHANGED <<redisVars, ledgerVars, rewardLog>>
          PROVE  IInv'
      <3>1. h[s] \in Handler /\ stamina[p] \in Int /\ <<p, sequence[s]>> \in BattleId
        BY <1>0, <2>1 DEF TypeOK, BattleId
      <3>2. /\ h' \in [Servers -> Handler] /\ h'[s].pc = "select"
            /\ h'[s].player = p /\ h'[s].battle = <<p, sequence[s]>>
            /\ \A t \in Servers \ {s} : h'[t] = h[t]
        BY <1>0, <2>2, <3>1 DEF Handler
      <3>3. TypeOK'
        BY <2>2, <3>2 DEF TypeOK, redisVars, ledgerVars
      <3>4. HandlerInv'
        BY <2>1, <2>2, <3>1, <3>2 DEF HandlerInv, At, Owner, ledgerVars, TypeOK
      <3>5. RowLockInv'
        BY <3>2 DEF RowLockInv, At
      <3> QED
        BY <3>3, <3>4, <3>5
    <2> QED
      BY <1>1, <1>r, <2>1, <2>2 DEF EnterLoad
  <1>2. CASE EnterSelect(s)
    <2>1. CASE Goto(s, "update")
      BY <1>0, <1>2, <2>1, MoveIInv, GotoKeeps
         DEF EnterSelect, At, TypeOK, HandlerInv, redisVars
    <2> QED
      BY <1>2, <1>r, <2>1 DEF EnterSelect, At
  <1>3. CASE EnterUpdate(s)
    <2>1. CASE Goto(s, "insert") /\ stamina[h[s].player] >= Cost
      <3>1. Keeps(s) /\ h'[s].pc = "insert" /\ h'[s].battle = h[s].battle
        BY <1>0, <2>1, GotoKeeps
      <3>2. TypeOK'
        BY <1>3, <3>1 DEF EnterUpdate, Keeps, TypeOK, redisVars, ledgerVars
      <3>3. HandlerInv'
        BY <1>3, <2>1, <3>1 DEF EnterUpdate, Keeps, HandlerInv, At, ledgerVars
      <3>4. RowLockInv'
        BY <1>3, <3>1 DEF EnterUpdate, AssetRowBusy, Keeps, RowLockInv, At
      <3> QED
        BY <3>2, <3>3, <3>4
    <2> QED
      BY <1>3, <1>r, <2>1 DEF EnterUpdate, At
  <1>4. CASE EnterCommit(s)
    <2> DEFINE p == h[s].player
               b == h[s].battle
    <2>1. ASSUME OpenBattle(p, b), Goto(s, "save") \/ Reject(s, "STORAGE_ERROR"),
                 UNCHANGED <<redisVars, rewardLog, sequence>>
          PROVE  IInv'
      <3>1. /\ Keeps(s) /\ h'[s].pc \in {"save", "release"} /\ h'[s].battle = b
        BY <1>0, <2>1, GotoKeeps, RejectKeeps
      <3>2. h[s].pc = "insert" /\ p \in Players /\ b \in BattleId /\ Owner(b) = p
        BY <1>4 DEF EnterCommit, At, HandlerInv
      <3>3. TypeOK'
        BY <2>1, <3>1, <3>2, NumbersAssumption
           DEF OpenBattle, Keeps, TypeOK, redisVars
      <3>4. \A t \in Servers \ {s} : At(t, "insert") => h[t].player # p
        BY <3>2 DEF RowLockInv, At
      <3>5. \A q \in Players \ {p} : stamina'[q] = stamina[q]
        BY <2>1 DEF OpenBattle, TypeOK
      <3>6. HandlerInv'
        BY <2>1, <3>1, <3>2, <3>4, <3>5 DEF OpenBattle, Keeps, HandlerInv, At
      <3>7. RowLockInv'
        BY <3>1 DEF Keeps, RowLockInv, At
      <3> QED
        BY <3>3, <3>6, <3>7
    <2> QED
      BY <1>4, <1>r, <2>1 DEF EnterCommit, At
  <1>5. CASE SaveBegin(s)
    <2>1. Goto(s, "saving") \/ Goto(s, "invalidate")
      BY <1>5 DEF SaveBegin
    <2> QED
      BY <1>0, <1>5, <2>1, MoveIInv, GotoKeeps DEF SaveBegin, At, TypeOK, HandlerInv
  <1>6. CASE SaveEnd(s)
    BY <1>0, <1>6, MoveIInv, GotoKeeps DEF SaveEnd, At, TypeOK, HandlerInv
  <1> QED
    BY <1>1, <1>2, <1>3, <1>4, <1>5, <1>6 DEF Enter

\* The steps of SettleDungeon.
LEMMA SettleIInv ==
  ASSUME IInv, NEW s \in Servers, Settle(s)
  PROVE  IInv'
  <1> USE DEF IInv
  <1>0. h \in [Servers -> Handler]
    BY DEF TypeOK
  <1>r. ASSUME h[s].pc \in LockedSteps, NEW code \in Codes, Reject(s, code),
               UNCHANGED <<redisVars, ledgerVars, rewardLog, sequence>>
        PROVE  IInv'
    BY <1>0, <1>r, MoveIInv, RejectKeeps DEF TypeOK, redisVars
  <1>1. CASE SettleFindCtx(s)
    <2>1. CASE Die(s)
      <3>1. UNCHANGED <<redisVars, ledgerVars, rewardLog>>
        BY <1>1 DEF SettleFindCtx
      <3> QED
        BY <2>1, <3>1, DieIInv
    <2>2. CASE Goto(s, "find_db") /\ UNCHANGED sequence
      BY <1>0, <1>1, <2>2, MoveIInv, GotoKeeps
         DEF SettleFindCtx, At, TypeOK, HandlerInv, redisVars
    <2>3. CASE Goto(s, "first") /\ Owner(h[s].battle) = h[s].player /\ UNCHANGED sequence
      BY <1>0, <1>1, <2>3, MoveIInv, GotoKeeps
         DEF SettleFindCtx, At, TypeOK, HandlerInv, redisVars
    <2> QED
      BY <1>1, <1>r, <2>1, <2>2, <2>3 DEF SettleFindCtx, At
  <1>2. CASE SettleFindBattle(s)
    <2>1. CASE Goto(s, "first") /\ Owner(h[s].battle) = h[s].player
      BY <1>0, <1>2, <2>1, MoveIInv, GotoKeeps
         DEF SettleFindBattle, At, TypeOK, HandlerInv, redisVars
    <2> QED
      BY <1>2, <1>r, <2>1 DEF SettleFindBattle, At
  <1>3. CASE SettleFirstClear(s)
    <2>1. PICK first \in BOOLEAN :
            h' = [h EXCEPT ![s] = [@ EXCEPT !.pc = "claim", !.first = first]]
      BY <1>3 DEF SettleFirstClear
    <2>2. h[s] \in Handler
      BY <1>0
    <2>3. Keeps(s) /\ h'[s].pc = "claim" /\ h'[s].battle = h[s].battle
      BY <1>0, <2>1, <2>2 DEF Handler, Keeps
    <2> QED
      BY <1>3, <2>3, MoveIInv DEF SettleFirstClear, At, TypeOK, HandlerInv, redisVars
  <1>4. CASE SettleClaim(s)
    <2>1. CASE Goto(s, "reward") /\ h[s].battle \in battles \ settled
      <3>1. Keeps(s) /\ h'[s].pc = "reward" /\ h'[s].battle = h[s].battle
        BY <1>0, <2>1, GotoKeeps
      <3>2. TypeOK'
        BY <1>4, <3>1 DEF SettleClaim, Keeps, TypeOK, redisVars, ledgerVars
      <3>3. HandlerInv'
        BY <1>4, <2>1, <3>1 DEF SettleClaim, Keeps, HandlerInv, At, ledgerVars
      <3>4. RowLockInv'
        BY <1>4, <3>1 DEF SettleClaim, BattleRowBusy, Keeps, RowLockInv, At
      <3> QED
        BY <3>2, <3>3, <3>4
    <2> QED
      BY <1>4, <1>r, <2>1 DEF SettleClaim, At
  <1>5. CASE SettleCommit(s)
    <2> DEFINE p == h[s].player
               b == h[s].battle
    <2>1. ASSUME PayReward(p, b, h[s].star, h[s].first),
                 Goto(s, "delete") \/ Reject(s, "STORAGE_ERROR"),
                 UNCHANGED <<redisVars, sequence>>
          PROVE  IInv'
      <3>1. /\ Keeps(s) /\ h'[s].pc \in {"delete", "release"} /\ h'[s].battle = b
        BY <1>0, <2>1, GotoKeeps, RejectKeeps
      <3>2. /\ h[s].pc = "reward" /\ p \in Players /\ Owner(b) = p
            /\ b \in battles \ settled /\ b \in BattleId
        BY <1>5 DEF SettleCommit, At, HandlerInv
      <3>3. h[s].star \in 0..MaxStar
        BY <1>0 DEF Handler
      <3>4. RewardRows(p, b, h[s].first) \subseteq LogKeys
        BY <3>2 DEF RewardRows, LogKeys
      <3>5. TypeOK'
        BY <2>1, <3>1, <3>2, <3>3, <3>4, NumbersAssumption
           DEF PayReward, Keeps, TypeOK, redisVars
      <3>6. \A t \in Servers \ {s} : At(t, "reward") => h[t].battle # b
        BY <3>2 DEF RowLockInv, At
      <3>7. HandlerInv'
        BY <2>1, <3>1, <3>2, <3>6 DEF PayReward, Keeps, HandlerInv, At
      <3>8. RowLockInv'
        BY <3>1 DEF Keeps, RowLockInv, At
      <3> QED
        BY <3>5, <3>7, <3>8
    <2> QED
      BY <1>5, <1>r, <2>1 DEF SettleCommit, At
  <1>6. CASE SettleDelete(s)
    BY <1>0, <1>6, MoveIInv, GotoKeeps DEF SettleDelete, At, TypeOK
  <1> QED
    BY <1>1, <1>2, <1>3, <1>4, <1>5, <1>6 DEF Settle

\* Every step.
LEMMA NextIInv == IInv /\ [Next]_vars => IInv'
  <1> SUFFICES ASSUME IInv, [Next]_vars PROVE IInv'
    OBVIOUS
  <1>0. h \in [Servers -> Handler]
    BY DEF IInv, TypeOK
  <1>1. CASE UNCHANGED vars
    BY <1>1 DEF vars, redisVars, ledgerVars, IInv, TypeOK, HandlerInv, RowLockInv, At
  <1>2. ASSUME NEW s \in Servers, Request(s) PROVE IInv'
    BY <1>2, RequestIInv
  <1>3. ASSUME NEW s \in Servers, HandlerStep(s) PROVE IInv'
    <2>1. CASE Invalidate(s)
      BY <1>0, <2>1, MoveIInv, GotoKeeps DEF Invalidate, At, IInv, TypeOK
    <2>2. CASE Release(s)
      BY <2>2, IdleIInv DEF Release, IInv, TypeOK
    <2> QED
      BY <1>3, <2>1, <2>2, EnterIInv, SettleIInv DEF HandlerStep
  <1>4. ASSUME NEW s \in Servers, Crash(s) PROVE IInv'
    BY <1>4, DieIInv DEF Crash
  <1>5. ASSUME NEW p \in Players, LockExpire(p) \/ CacheFill(p) PROVE IInv'
    BY <1>5 DEF LockExpire, CacheFill, ledgerVars, IInv, TypeOK, HandlerInv, RowLockInv, At
  <1>6. ASSUME NEW b \in BattleId, CtxExpire(b) PROVE IInv'
    BY <1>6 DEF CtxExpire, ledgerVars, IInv, TypeOK, HandlerInv, RowLockInv, At
  <1> QED
    BY <1>1, <1>2, <1>3, <1>4, <1>5, <1>6 DEF Next, Environment

\* Every reachable state satisfies the inductive invariant, under all faults.
THEOREM Invariance == Spec => []IInv
  BY InitIInv, NextIInv, PTL DEF Spec

\* Type correctness of the database, the Redis keys and the handlers.
THEOREM TypeCorrect == Spec => []TypeOK
  <1>1. IInv => TypeOK
    BY DEF IInv
  <1> QED
    BY <1>1, Invariance, PTL
-----------------------------------------------------------------------------
(* What a step can do to the durable state.                                *)

OpenStep(b) ==
  /\ b \in BattleId \ battles
  /\ stamina[Owner(b)] >= Cost
  /\ OpenBattle(Owner(b), b)
  /\ UNCHANGED rewardLog

PayStep(b, star, first) ==
  /\ b \in battles \ settled
  /\ RewardRows(Owner(b), b, first) \cap rewardLog = {}
  /\ PayReward(Owner(b), b, star, first)

DurableStep ==
  \/ UNCHANGED <<ledgerVars, rewardLog>>
  \/ \E b \in BattleId : OpenStep(b)
  \/ \E b \in BattleId, star \in 0..MaxStar, first \in BOOLEAN : PayStep(b, star, first)

\* Whatever fails, the database sees whole openings and whole payments only.
LEMMA StepsAreDurable == IInv /\ [Next]_vars => DurableStep
  <1> SUFFICES ASSUME IInv, [Next]_vars PROVE DurableStep
    OBVIOUS
  <1>1. ASSUME NEW s \in Servers, EnterCommit(s) PROVE DurableStep
    <2>1. /\ h[s].battle \in BattleId /\ Owner(h[s].battle) = h[s].player
          /\ stamina[h[s].player] >= Cost
      BY <1>1 DEF EnterCommit, At, IInv, HandlerInv
    <2>2. UNCHANGED rewardLog
      BY <1>1 DEF EnterCommit
    <2>3. OpenStep(h[s].battle) \/ UNCHANGED <<ledgerVars, rewardLog>>
      BY <1>1, <2>1, <2>2 DEF EnterCommit, OpenStep
    <2> QED
      BY <2>1, <2>3 DEF DurableStep
  <1>2. ASSUME NEW s \in Servers, SettleCommit(s) PROVE DurableStep
    <2>1. /\ h[s].battle \in BattleId /\ Owner(h[s].battle) = h[s].player
          /\ h[s].battle \in battles \ settled
      BY <1>2 DEF SettleCommit, At, IInv, HandlerInv
    <2>2. h[s].star \in 0..MaxStar /\ h[s].first \in BOOLEAN
      BY DEF IInv, TypeOK, Handler
    <2>3. PayStep(h[s].battle, h[s].star, h[s].first) \/ UNCHANGED <<ledgerVars, rewardLog>>
      BY <1>2, <2>1 DEF SettleCommit, PayStep
    <2> QED
      BY <2>1, <2>2, <2>3 DEF DurableStep
  <1>3. ASSUME NEW s \in Servers, Request(s) \/ Invalidate(s) \/ Release(s) \/ Crash(s)
        PROVE  UNCHANGED <<ledgerVars, rewardLog>>
    BY <1>3 DEF Request, EnterAcquire, AcquireReplyLost, SettleAcquire, Invalidate,
       Release, Crash
  <1>4. ASSUME NEW s \in Servers, Enter(s), ~EnterCommit(s)
        PROVE  UNCHANGED <<ledgerVars, rewardLog>>
    BY <1>4 DEF Enter, EnterLoad, EnterSelect, EnterUpdate, SaveBegin, SaveEnd
  <1>5. ASSUME NEW s \in Servers, Settle(s), ~SettleCommit(s)
        PROVE  UNCHANGED <<ledgerVars, rewardLog>>
    BY <1>5 DEF Settle, SettleFindCtx, SettleFindBattle, SettleFirstClear, SettleClaim,
       SettleDelete
  <1>6. CASE UNCHANGED vars
    BY <1>6 DEF vars, DurableStep
  <1>7. ASSUME NEW s \in Servers, Request(s) \/ HandlerStep(s) PROVE DurableStep
    BY <1>1, <1>2, <1>3, <1>4, <1>5, <1>7 DEF HandlerStep, DurableStep
  <1>8. CASE Environment
    <2>1. UNCHANGED <<ledgerVars, rewardLog>>
      BY <1>8 DEF Environment, Crash, LockExpire, CacheFill, CtxExpire
    <2> QED
      BY <2>1 DEF DurableStep
  <1> QED
    BY <1>6, <1>7, <1>8 DEF Next
-----------------------------------------------------------------------------
(* The accounts balance.                                                   *)

LEMMA OneMore ==
  ASSUME NEW c \in Int, NEW n \in Int
  PROVE  c * (n + 1) = c * n + c
  OBVIOUS

Balanced ==
  /\ IsFiniteSet(battles) /\ IsFiniteSet(rewardLog)
  /\ StaminaConserved /\ StaminaNeverNegative
  /\ GoldConserved /\ RewardLogExact

LEMMA InitBalanced == Init => Balanced
  <1> SUFFICES ASSUME Init PROVE Balanced
    OBVIOUS
  <1>1. IsFiniteSet({}) /\ Cardinality({}) = 0
    BY FS_EmptySet
  <1>2. ASSUME NEW p \in Players
        PROVE  /\ BattlesOf(p) = {} /\ SettledOf(p) = {} /\ DiamondRowsOf(p) = {}
               /\ stamina[p] = InitStamina /\ gold[p] = 0 /\ diamond[p] = 0
    BY DEF Init, BattlesOf, SettledOf, DiamondRowsOf
  <1>3. ASSUME NEW c \in Int PROVE c * Cardinality({}) = 0
    BY <1>1
  <1>4. battles = {} /\ settled = {} /\ rewardLog = {}
    BY DEF Init
  <1>5. StaminaConserved /\ GoldConserved
    <2>1. Cost * Cardinality({}) = 0 /\ Gold * Cardinality({}) = 0
      BY <1>3, NumbersAssumption
    <2>2. InitStamina - 0 = InitStamina
      BY NumbersAssumption
    <2>3. StaminaConserved
      BY <1>2, <2>1, <2>2 DEF StaminaConserved
    <2>4. GoldConserved
      BY <1>2, <2>1 DEF GoldConserved
    <2> QED
      BY <2>3, <2>4
  <1>6. StaminaNeverNegative
    BY <1>2, NumbersAssumption DEF StaminaNeverNegative
  <1>7. RewardLogExact
    <2>1. \A p \in Players : diamond[p] = Diamond * Cardinality(DiamondRowsOf(p))
      BY <1>2, <1>3, NumbersAssumption
    <2> QED
      BY <1>4, <2>1 DEF RewardLogExact
  <1> QED
    BY <1>1, <1>4, <1>5, <1>6, <1>7 DEF Balanced

\* Opening a battle.
LEMMA OpenBalanced ==
  ASSUME IInv, Balanced, NEW b \in BattleId, OpenStep(b)
  PROVE  Balanced'
  <1> DEFINE p == Owner(b)
  <1>1. p \in Players /\ b \notin battles /\ stamina[p] >= Cost
    BY DEF OpenStep, BattleId, Owner
  <1>2. /\ stamina' = [stamina EXCEPT ![p] = @ - Cost] /\ battles' = battles \union {b}
        /\ gold' = gold /\ diamond' = diamond /\ settled' = settled
        /\ rewardLog' = rewardLog
    BY DEF OpenStep, OpenBattle
  <1>3. IsFiniteSet(battles') /\ IsFiniteSet(rewardLog')
    BY <1>2, FS_AddElement DEF Balanced
  <1>4. StaminaConserved'
    <2> SUFFICES ASSUME NEW q \in Players
                 PROVE  stamina'[q] = InitStamina - Cost * Cardinality(BattlesOf(q)')
      BY DEF StaminaConserved
    <2>1. IsFiniteSet(BattlesOf(q)) /\ Cardinality(BattlesOf(q)) \in Nat
      BY FS_Subset, FS_CardinalityType DEF Balanced, BattlesOf
    <2>2. stamina[q] = InitStamina - Cost * Cardinality(BattlesOf(q))
      BY DEF Balanced, StaminaConserved
    <2>3. CASE q = p
      <3>1. BattlesOf(q)' = BattlesOf(q) \union {b} /\ b \notin BattlesOf(q)
        BY <1>1, <1>2, <2>3 DEF BattlesOf
      <3>2. Cardinality(BattlesOf(q)') = Cardinality(BattlesOf(q)) + 1
        BY <2>1, <3>1, FS_AddElement
      <3>3. stamina'[q] = stamina[q] - Cost
        BY <1>2, <2>3 DEF IInv, TypeOK
      <3> QED
        BY <2>1, <2>2, <3>2, <3>3, OneMore, NumbersAssumption
    <2>4. CASE q # p
      <3>1. BattlesOf(q)' = BattlesOf(q)
        BY <1>2, <2>4 DEF BattlesOf
      <3>2. stamina'[q] = stamina[q]
        BY <1>2, <2>4 DEF IInv, TypeOK
      <3> QED
        BY <2>2, <3>1, <3>2
    <2> QED
      BY <2>3, <2>4
  <1>5. StaminaNeverNegative'
    <2>1. \A q \in Players : stamina[q] \in Int /\ stamina[q] >= 0
      BY DEF Balanced, StaminaNeverNegative, IInv, TypeOK
    <2>2. \A q \in Players : stamina'[q] = IF q = p THEN stamina[q] - Cost ELSE stamina[q]
      BY <1>2 DEF IInv, TypeOK
    <2> QED
      BY <1>1, <2>1, <2>2, NumbersAssumption DEF StaminaNeverNegative
  <1>6. GoldConserved' /\ RewardLogExact'
    BY <1>2 DEF Balanced, GoldConserved, RewardLogExact, SettledOf, DiamondRowsOf
  <1> QED
    BY <1>3, <1>4, <1>5, <1>6 DEF Balanced

\* Paying for one.
LEMMA PayBalanced ==
  ASSUME IInv, Balanced, NEW b \in BattleId, NEW star \in 0..MaxStar,
         NEW first \in BOOLEAN, PayStep(b, star, first)
  PROVE  Balanced'
  <1> DEFINE p == Owner(b)
  <1>1. p \in Players /\ b \in battles \ settled
        /\ RewardRows(p, b, first) \cap rewardLog = {}
    BY DEF PayStep, BattleId, Owner
  <1>2. /\ settled' = settled \union {b} /\ gold' = [gold EXCEPT ![p] = @ + Gold]
        /\ diamond' = [diamond EXCEPT ![p] = IF first THEN @ + Diamond ELSE @]
        /\ rewardLog' = rewardLog \union RewardRows(p, b, first)
        /\ stamina' = stamina /\ battles' = battles
    BY DEF PayStep, PayReward
  <1>3. RewardRows(p, b, first) =
          IF first THEN {<<p, b, "gold">>} \union {<<p, b, "diamond">>}
                   ELSE {<<p, b, "gold">>}
    BY DEF RewardRows
  <1>4. IsFiniteSet(battles') /\ IsFiniteSet(rewardLog')
    BY <1>2, <1>3, FS_Singleton, FS_Union DEF Balanced
  <1>5. StaminaConserved' /\ StaminaNeverNegative'
    BY <1>2 DEF Balanced, StaminaConserved, StaminaNeverNegative, BattlesOf
  <1>6. GoldConserved'
    <2> SUFFICES ASSUME NEW q \in Players
                 PROVE  gold'[q] = Gold * Cardinality(SettledOf(q)')
      BY DEF GoldConserved
    <2>1. IsFiniteSet(SettledOf(q)) /\ Cardinality(SettledOf(q)) \in Nat
      BY FS_Subset, FS_CardinalityType DEF Balanced, SettledOf, IInv, TypeOK
    <2>2. gold[q] = Gold * Cardinality(SettledOf(q))
      BY DEF Balanced, GoldConserved
    <2>3. CASE q = p
      <3>1. SettledOf(q)' = SettledOf(q) \union {b} /\ b \notin SettledOf(q)
        BY <1>1, <1>2, <2>3 DEF SettledOf
      <3>2. Cardinality(SettledOf(q)') = Cardinality(SettledOf(q)) + 1
        BY <2>1, <3>1, FS_AddElement
      <3>3. gold'[q] = gold[q] + Gold
        BY <1>2, <2>3 DEF IInv, TypeOK
      <3> QED
        BY <2>1, <2>2, <3>2, <3>3, OneMore, NumbersAssumption
    <2>4. CASE q # p
      <3>1. SettledOf(q)' = SettledOf(q)
        BY <1>2, <2>4 DEF SettledOf
      <3>2. gold'[q] = gold[q]
        BY <1>2, <2>4 DEF IInv, TypeOK
      <3> QED
        BY <2>2, <3>1, <3>2
    <2> QED
      BY <2>3, <2>4
  <1>7. RewardLogExact'
    <2>1. \A k \in rewardLog' : k[2] \in settled' /\ k[1] = Owner(k[2])
      BY <1>2, <1>3 DEF Balanced, RewardLogExact
    <2>2. \A c \in settled' : <<Owner(c), c, "gold">> \in rewardLog'
      BY <1>2, <1>3 DEF Balanced, RewardLogExact
    <2>3. ASSUME NEW q \in Players
          PROVE  diamond'[q] = Diamond * Cardinality(DiamondRowsOf(q)')
      <3>1. IsFiniteSet(DiamondRowsOf(q)) /\ Cardinality(DiamondRowsOf(q)) \in Nat
        BY FS_Subset, FS_CardinalityType DEF Balanced, DiamondRowsOf
      <3>2. diamond[q] = Diamond * Cardinality(DiamondRowsOf(q))
        BY DEF Balanced, RewardLogExact
      <3>3. CASE q = p /\ first
        <4>1. <<p, b, "diamond">> \notin rewardLog
          BY <1>1, <1>3, <3>3
        <4>2. /\ DiamondRowsOf(q)' = DiamondRowsOf(q) \union {<<p, b, "diamond">>}
              /\ <<p, b, "diamond">> \notin DiamondRowsOf(q)
          BY <1>2, <1>3, <3>3, <4>1 DEF DiamondRowsOf
        <4>3. Cardinality(DiamondRowsOf(q)') = Cardinality(DiamondRowsOf(q)) + 1
          BY <3>1, <4>2, FS_AddElement
        <4>4. diamond'[q] = diamond[q] + Diamond
          BY <1>2, <3>3 DEF IInv, TypeOK
        <4> QED
          BY <3>1, <3>2, <4>3, <4>4, OneMore, NumbersAssumption
      <3>4. CASE ~(q = p /\ first)
        <4>1. DiamondRowsOf(q)' = DiamondRowsOf(q)
          BY <1>2, <1>3, <3>4 DEF DiamondRowsOf
        <4>2. diamond'[q] = diamond[q]
          BY <1>2, <3>4 DEF IInv, TypeOK
        <4> QED
          BY <3>2, <4>1, <4>2
      <3> QED
        BY <3>3, <3>4
    <2> QED
      BY <2>1, <2>2, <2>3 DEF RewardLogExact
  <1> QED
    BY <1>4, <1>5, <1>6, <1>7 DEF Balanced

LEMMA NextBalanced == IInv /\ Balanced /\ [Next]_vars => Balanced'
  <1> SUFFICES ASSUME IInv, Balanced, [Next]_vars PROVE Balanced'
    OBVIOUS
  <1>1. DurableStep
    BY StepsAreDurable
  <1>2. CASE UNCHANGED <<ledgerVars, rewardLog>>
    BY <1>2 DEF ledgerVars, Balanced, StaminaConserved, StaminaNeverNegative,
       GoldConserved, RewardLogExact, BattlesOf, SettledOf, DiamondRowsOf
  <1> QED
    BY <1>1, <1>2, OpenBalanced, PayBalanced DEF DurableStep

LEMMA BalancedAlways == Spec => []Balanced
  BY Invariance, InitBalanced, NextBalanced, PTL DEF Spec

\* Stamina is charged exactly for the battles opened, under every fault.
THEOREM StaminaIsConserved == Spec => []StaminaConserved
  <1>1. Balanced => StaminaConserved
    BY DEF Balanced
  <1> QED
    BY <1>1, BalancedAlways, PTL

\* No interleaving of handlers overdraws a player's stamina, even when their
\* player locks overlap.
THEOREM StaminaIsNeverOverdrawn == Spec => []StaminaNeverNegative
  <1>1. Balanced => StaminaNeverNegative
    BY DEF Balanced
  <1> QED
    BY <1>1, BalancedAlways, PTL

\* Each settled battle was paid its gold once, to its owner.
THEOREM GoldIsConserved == Spec => []GoldConserved
  <1>1. Balanced => GoldConserved
    BY DEF Balanced
  <1> QED
    BY <1>1, BalancedAlways, PTL

\* The reward log and the asset rows agree.
THEOREM RewardLogIsExact == Spec => []RewardLogExact
  <1>1. Balanced => RewardLogExact
    BY DEF Balanced
  <1> QED
    BY <1>1, BalancedAlways, PTL

\* The books balance: for every number of processes, players and battles and
\* under every fault, charges match battles and payments match settlements.
THEOREM BooksAlwaysBalance == Spec => []BooksBalance
  BY StaminaIsConserved, StaminaIsNeverOverdrawn, GoldIsConserved, RewardLogIsExact, PTL
     DEF BooksBalance

\* Committed battles, settlements, rewards and stars are never taken back.
THEOREM NothingIsUndone == Spec => NothingUndone
  <1>1. IInv /\ [Next]_vars =>
          [ /\ battles \subseteq battles' /\ settled \subseteq settled'
            /\ rewardLog \subseteq rewardLog'
            /\ \A p \in Players : bestStar'[p] >= bestStar[p] ]_vars
    <2> SUFFICES ASSUME IInv, [Next]_vars
                 PROVE  /\ battles \subseteq battles' /\ settled \subseteq settled'
                        /\ rewardLog \subseteq rewardLog'
                        /\ \A p \in Players : bestStar'[p] >= bestStar[p]
      OBVIOUS
    <2>1. DurableStep
      BY StepsAreDurable
    <2>2. \A p \in Players : bestStar[p] \in Int
      BY NumbersAssumption DEF IInv, TypeOK
    <2>3. CASE UNCHANGED <<ledgerVars, rewardLog>>
      BY <2>2, <2>3 DEF ledgerVars
    <2>4. ASSUME NEW b \in BattleId, OpenStep(b)
          PROVE  /\ battles' = battles \union {b} /\ settled' = settled
                 /\ rewardLog' = rewardLog /\ bestStar' = bestStar
      BY <2>4 DEF OpenStep, OpenBattle
    <2>5. ASSUME NEW b \in BattleId, NEW star \in 0..MaxStar, NEW first \in BOOLEAN,
                 PayStep(b, star, first)
          PROVE  /\ battles' = battles /\ settled \subseteq settled'
                 /\ rewardLog \subseteq rewardLog'
                 /\ \A p \in Players : bestStar'[p] >= bestStar[p]
      BY <2>2, <2>5, NumbersAssumption DEF PayStep, PayReward, IInv, TypeOK
    <2> QED
      BY <2>1, <2>2, <2>3, <2>4, <2>5 DEF DurableStep
  <1> QED
    BY <1>1, Invariance, PTL DEF Spec, NothingUndone
-----------------------------------------------------------------------------
(* What a settle is told.  A context exists only for a battle in the       *)
(* database, and no handler asks about a battle it has not found.          *)

TruthInv ==
  /\ \A b \in BattleId : ctx[b] # "none" => b \in battles
  /\ \A s \in Servers :
       /\ h[s].pc \in LockedSteps \ {"release"} => h[s].code = "OK"
       /\ h[s].pc \in {"save", "saving", "first", "claim"} => h[s].battle \in battles
       /\ "mysql" \notin Faults /\ At(s, "release") /\ h[s].code = "BATTLE_ALREADY_SETTLED"
            => h[s].battle \in settled

LEMMA InitTruth == Init => TruthInv
  BY IdleHandler DEF Init, TruthInv, At

\* A step of s, or of nobody, that neither makes up a context nor a reply.
LEMMA MoveTruth ==
  ASSUME TruthInv, NEW s \in Servers, battles \subseteq battles', settled \subseteq settled',
         \A t \in Servers \ {s} : h'[t] = h[t],
         \A b \in BattleId : ctx'[b] # "none" => ctx[b] # "none" \/ b \in battles',
         h'[s].pc \in LockedSteps \ {"release"} => h'[s].code = "OK",
         h'[s].pc \in {"save", "saving", "first", "claim"} => h'[s].battle \in battles',
         "mysql" \notin Faults /\ h'[s].pc = "release" /\ h'[s].code = "BATTLE_ALREADY_SETTLED"
           => h'[s].battle \in settled'
  PROVE  TruthInv'
  BY DEF TruthInv, At

LEMMA NextTruth ==
  ASSUME IInv, TruthInv, [Next]_vars
  PROVE  TruthInv'
  <1> USE DEF redisVars, ledgerVars
  <1>0. h \in [Servers -> Handler] /\ ctx \in [BattleId -> {"none", "partial", "full"}]
    BY DEF IInv, TypeOK
  <1>1. battles \subseteq battles' /\ settled \subseteq settled'
    BY StepsAreDurable DEF DurableStep, OpenStep, OpenBattle, PayStep, PayReward
  <1>g. ASSUME NEW s \in Servers, NEW pc \in LockedSteps \ {"release"}, Goto(s, pc),
               h[s].pc \in LockedSteps \ {"release"},
               \A b \in BattleId : ctx'[b] # "none" => ctx[b] # "none" \/ b \in battles',
               pc \in {"save", "saving", "first", "claim"} => h[s].battle \in battles'
        PROVE  TruthInv'
    <2>1. /\ h'[s].pc = pc /\ h'[s].code = h[s].code /\ h'[s].battle = h[s].battle
          /\ \A t \in Servers \ {s} : h'[t] = h[t]
      BY <1>0, <1>g, GotoKeeps DEF Keeps
    <2>2. h[s].code = "OK"
      BY <1>g DEF TruthInv
    <2> QED
      BY <1>1, <1>g, <2>1, <2>2, MoveTruth
  <1>r. ASSUME NEW s \in Servers, NEW code \in Codes, Reject(s, code), ctx' = ctx,
               "mysql" \notin Faults /\ code = "BATTLE_ALREADY_SETTLED"
                 => h[s].battle \in settled'
        PROVE  TruthInv'
    <2>1. /\ h'[s].pc = "release" /\ h'[s].code = code /\ h'[s].battle = h[s].battle
          /\ \A t \in Servers \ {s} : h'[t] = h[t]
      BY <1>0, <1>r, RejectKeeps DEF Keeps
    <2> QED
      BY <1>1, <1>r, <2>1, MoveTruth
  <1>i. ASSUME NEW s \in Servers, NEW r \in Handler, h' = [h EXCEPT ![s] = r], ctx' = ctx,
               r.code = "OK", r.pc \notin {"save", "saving", "first", "claim"}
        PROVE  TruthInv'
    <2>1. h'[s] = r /\ \A t \in Servers \ {s} : h'[t] = h[t]
      BY <1>0, <1>i
    <2> QED
      BY <1>1, <1>i, <2>1, MoveTruth
  <1>d. Idle \in Handler /\ Idle.pc = "idle" /\ Idle.code = "OK"
    BY IdleHandler DEF Idle
  <1>2. ASSUME NEW s \in Servers, Request(s) PROVE TruthInv'
    <2>1. PICK p \in Players :
            \/ EnterAcquire(s, p)
            \/ AcquireReplyLost(s, p)
            \/ \E b \in BattleId, star \in 1..MaxStar : SettleAcquire(s, p, b, star)
      BY <1>2 DEF Request
    <2>2. CASE EnterAcquire(s, p)
      <3> DEFINE r == [Idle EXCEPT !.op = "enter", !.pc = "load", !.player = p]
      <3>1. r \in Handler /\ r.pc = "load" /\ r.code = "OK"
        BY <1>d DEF Handler
      <3>2. h' = [h EXCEPT ![s] = r] /\ ctx' = ctx
        BY <2>2 DEF EnterAcquire
      <3> HIDE DEF r
      <3> QED
        BY <1>i, <3>1, <3>2
    <2>3. CASE AcquireReplyLost(s, p)
      BY <2>3 DEF AcquireReplyLost, TruthInv, At
    <2>4. ASSUME NEW b \in BattleId, NEW star \in 1..MaxStar, SettleAcquire(s, p, b, star)
          PROVE  TruthInv'
      <3> DEFINE r == [Idle EXCEPT !.op = "settle", !.pc = "find_ctx",
                                   !.player = p, !.battle = b, !.star = star]
      <3>1. star \in 0..MaxStar
        BY NumbersAssumption
      <3>2. r \in Handler /\ r.pc = "find_ctx" /\ r.code = "OK"
        BY <1>d, <3>1 DEF Handler
      <3>3. h' = [h EXCEPT ![s] = r] /\ ctx' = ctx
        BY <2>4 DEF SettleAcquire
      <3> HIDE DEF r
      <3> QED
        BY <1>i, <3>2, <3>3
    <2> QED
      BY <2>1, <2>2, <2>3, <2>4
  <1>3. ASSUME NEW s \in Servers, Enter(s) PROVE TruthInv'
    <2>1. CASE EnterLoad(s)
      <3>1. h[s].pc = "load" /\ h[s].player \in Players /\ sequence[s] \in 1..MaxSeq
        BY <2>1, NumbersAssumption DEF EnterLoad, At, IInv, TypeOK, HandlerInv
      <3>2. CASE h' = [h EXCEPT ![s] = [@ EXCEPT !.pc = "select",
                         !.stamina = stamina[h[s].player],
                         !.battle = <<h[s].player, sequence[s]>>]]
        <4> DEFINE r == [h[s] EXCEPT !.pc = "select", !.stamina = stamina[h[s].player],
                                     !.battle = <<h[s].player, sequence[s]>>]
        <4>1. /\ stamina[h[s].player] \in Int
              /\ <<h[s].player, sequence[s]>> \in BattleId
          BY <3>1 DEF IInv, TypeOK, BattleId
        <4>2. h[s] \in Handler /\ h[s].code = "OK"
          BY <1>0, <3>1 DEF TruthInv
        <4>3. r \in Handler /\ r.pc = "select" /\ r.code = "OK"
          BY <4>1, <4>2 DEF Handler
        <4>4. h' = [h EXCEPT ![s] = r] /\ ctx' = ctx
          BY <2>1, <3>2 DEF EnterLoad
        <4> HIDE DEF r
        <4> QED
          BY <1>i, <4>3, <4>4
      <3> QED
        BY <1>r, <2>1, <3>2 DEF EnterLoad
    <2>2. CASE EnterSelect(s)
      BY <1>g, <1>r, <2>2 DEF EnterSelect, At
    <2>3. CASE EnterUpdate(s)
      BY <1>g, <1>r, <2>3 DEF EnterUpdate, At
    <2>4. CASE EnterCommit(s)
      <3>1. CASE OpenBattle(h[s].player, h[s].battle) /\ Goto(s, "save")
        <4>1. h[s].battle \in battles' /\ ctx' = ctx /\ h[s].pc = "insert"
          BY <2>4, <3>1 DEF EnterCommit, OpenBattle, At
        <4> QED
          BY <1>g, <3>1, <4>1
      <3> QED
        BY <1>r, <2>4, <3>1 DEF EnterCommit
    <2>5. CASE SaveBegin(s)
      <3>1. h[s].pc = "save" /\ h[s].battle \in battles /\ battles' = battles
        BY <2>5 DEF SaveBegin, At, TruthInv
      <3>2. \A b \in BattleId : ctx'[b] # "none" => ctx[b] # "none" \/ b \in battles'
        BY <1>0, <2>5, <3>1 DEF SaveBegin
      <3> QED
        BY <1>g, <2>5, <3>1, <3>2 DEF SaveBegin
    <2>6. CASE SaveEnd(s)
      <3>1. h[s].pc = "saving" /\ h[s].battle \in battles /\ battles' = battles
        BY <2>6 DEF SaveEnd, At, TruthInv
      <3>2. \A b \in BattleId : ctx'[b] # "none" => ctx[b] # "none" \/ b \in battles'
        BY <1>0, <2>6, <3>1 DEF SaveEnd
      <3> QED
        BY <1>g, <2>6, <3>1, <3>2 DEF SaveEnd
    <2> QED
      BY <1>3, <2>1, <2>2, <2>3, <2>4, <2>5, <2>6 DEF Enter
  <1>4. ASSUME NEW s \in Servers, Settle(s) PROVE TruthInv'
    <2>1. CASE SettleFindCtx(s)
      <3>1. h[s].pc = "find_ctx" /\ h[s].battle \in BattleId /\ ctx' = ctx /\ battles' = battles
        BY <2>1 DEF SettleFindCtx, At, IInv, HandlerInv
      <3>2. CASE Die(s)
        BY <1>d, <1>i, <3>1, <3>2 DEF Die
      <3>3. CASE ctx[h[s].battle] = "full" /\ Goto(s, "first")
        <4>1. h[s].battle \in battles
          BY <3>1, <3>3 DEF TruthInv
        <4> QED
          BY <1>g, <3>1, <3>3, <4>1
      <3>4. CASE Goto(s, "find_db")
        BY <1>g, <3>1, <3>4
      <3> QED
        BY <1>r, <2>1, <3>1, <3>2, <3>3, <3>4 DEF SettleFindCtx
    <2>2. CASE SettleFindBattle(s)
      <3>1. h[s].pc = "find_db" /\ UNCHANGED <<ctx, battles, settled>>
        BY <2>2 DEF SettleFindBattle, At
      <3>2. CASE h[s].battle \in battles \ settled /\ Goto(s, "first")
        BY <1>g, <3>1, <3>2
      <3> QED
        BY <1>r, <2>2, <3>1, <3>2 DEF SettleFindBattle
    <2>3. CASE SettleFirstClear(s)
      <3>1. PICK first \in BOOLEAN :
              h' = [h EXCEPT ![s] = [@ EXCEPT !.pc = "claim", !.first = first]]
        BY <2>3 DEF SettleFirstClear
      <3>2. /\ h[s].pc = "first" /\ UNCHANGED <<ctx, battles>>
            /\ h[s].battle \in battles /\ h[s].code = "OK" /\ h[s] \in Handler
        BY <1>0, <2>3 DEF SettleFirstClear, At, TruthInv
      <3>3. /\ h'[s].pc = "claim" /\ h'[s].code = "OK" /\ h'[s].battle = h[s].battle
            /\ \A t \in Servers \ {s} : h'[t] = h[t]
        BY <1>0, <3>1, <3>2 DEF Handler
      <3> QED
        BY <1>1, <3>2, <3>3, MoveTruth
    <2>4. CASE SettleClaim(s)
      <3>1. h[s].pc = "claim" /\ h[s].battle \in battles /\ UNCHANGED <<ctx, settled>>
        BY <2>4 DEF SettleClaim, At, TruthInv
      <3>2. CASE Goto(s, "reward")
        BY <1>g, <3>1, <3>2
      <3>3. CASE h[s].battle \notin battles \ settled /\ Reject(s, "BATTLE_ALREADY_SETTLED")
        BY <1>r, <3>1, <3>3
      <3>4. ASSUME "mysql" \in Faults, NEW code \in Codes, Reject(s, code) PROVE TruthInv'
        BY <1>r, <3>1, <3>4
      <3> QED
        BY <2>4, <3>2, <3>3, <3>4 DEF SettleClaim
    <2>5. CASE SettleCommit(s)
      BY <1>g, <1>r, <2>5 DEF SettleCommit, At
    <2>6. CASE SettleDelete(s)
      <3>1. \A b \in BattleId : ctx'[b] # "none" => ctx[b] # "none"
        BY <1>0, <2>6 DEF SettleDelete
      <3> QED
        BY <1>g, <2>6, <3>1 DEF SettleDelete, At
    <2> QED
      BY <1>4, <2>1, <2>2, <2>3, <2>4, <2>5, <2>6 DEF Settle
  <1>5. ASSUME NEW s \in Servers, Invalidate(s) PROVE TruthInv'
    <2>1. h[s].pc = "invalidate" /\ ctx' = ctx /\ Goto(s, "release") /\ h[s].code = "OK"
      BY <1>5 DEF Invalidate, At, TruthInv
    <2>2. /\ h'[s].pc = "release" /\ h'[s].code = h[s].code
          /\ \A t \in Servers \ {s} : h'[t] = h[t]
      BY <1>0, <2>1, GotoKeeps DEF Keeps
    <2> QED
      BY <1>1, <2>1, <2>2, MoveTruth
  <1>6. ASSUME NEW s \in Servers, Release(s) \/ Crash(s) PROVE TruthInv'
    BY <1>d, <1>i, <1>6 DEF Release, Crash, Die
  <1>7. ASSUME NEW b \in BattleId, CtxExpire(b) PROVE TruthInv'
    <2>1. h' = h /\ battles' = battles /\ settled' = settled
          /\ \A c \in BattleId : ctx'[c] # "none" => ctx[c] # "none"
      BY <1>0, <1>7 DEF CtxExpire
    <2> QED
      BY <2>1 DEF TruthInv, At
  <1>8. ASSUME UNCHANGED <<h, ctx, battles, settled>> PROVE TruthInv'
    BY <1>8 DEF TruthInv, At
  <1> QED
    BY <1>2, <1>3, <1>4, <1>5, <1>6, <1>7, <1>8
    DEF Next, HandlerStep, Environment, LockExpire, CacheFill, vars

LEMMA TruthAlways == Spec => []TruthInv
  <1>1. IInv /\ TruthInv /\ [Next]_vars => TruthInv'
    BY NextTruth
  <1> QED
    BY <1>1, InitTruth, Invariance, PTL DEF Spec

\* A client that is told its battle is settled already can rely on it while no
\* statement fails, also when locks expire under handlers, contexts vanish,
\* SELECTs fail and processes restart.
THEOREM AlreadySettledIsTrue ==
  ASSUME "mysql" \notin Faults
  PROVE  Spec => []AlreadySettledTruthful
  <1>1. TruthInv => AlreadySettledTruthful
    BY DEF TruthInv, AlreadySettledTruthful
  <1> QED
    BY <1>1, TruthAlways, PTL
=============================================================================
