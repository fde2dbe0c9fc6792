------------------------- MODULE DungeonSerialProofs -------------------------
(***************************************************************************)
(* What the player lock adds to the transactions, while no lock outlives   *)
(* its handler ("slow") and, where it is assumed, no SELECT fails ("query").*)
(***************************************************************************)
EXTENDS DungeonServiceProofs

USE DEF LockedSteps, EnterSteps, SettleSteps, Codes

\* A step of handler s other than taking the lock.
LEMMA StepKeeps ==
  ASSUME IInv, NEW s \in Servers, Enter(s) \/ Settle(s) \/ Invalidate(s)
  PROVE  /\ lock' = lock
         /\ h[s].pc # "idle"
         /\ h' \in [Servers -> Handler]
         /\ \A t \in Servers \ {s} : h'[t] = h[t]
         /\ h'[s].pc = "idle" \/ h'[s].player = h[s].player
  <1>0. h \in [Servers -> Handler] /\ h[s] \in Handler
    BY DEF IInv, TypeOK
  <1>1. ASSUME NEW pc \in LockedSteps, Goto(s, pc)
        PROVE  /\ h' \in [Servers -> Handler]
               /\ \A t \in Servers \ {s} : h'[t] = h[t]
               /\ h'[s].player = h[s].player
    BY <1>0, <1>1, GotoKeeps DEF Keeps
  <1>2. ASSUME NEW code \in Codes, Reject(s, code)
        PROVE  /\ h' \in [Servers -> Handler]
               /\ \A t \in Servers \ {s} : h'[t] = h[t]
               /\ h'[s].player = h[s].player
    BY <1>0, <1>2, RejectKeeps DEF Keeps
  <1>3. CASE Enter(s)
    <2>1. CASE EnterLoad(s)
      <3>1. h[s].pc = "load" /\ h[s].player \in Players /\ sequence[s] \in 1..MaxSeq
        BY <2>1, NumbersAssumption DEF EnterLoad, At, IInv, TypeOK, HandlerInv
      <3>2. CASE h' = [h EXCEPT ![s] = [@ EXCEPT !.pc = "select",
                         !.stamina = stamina[h[s].player],
                         !.battle = <<h[s].player, sequence[s]>>]]
        <4>1. /\ stamina[h[s].player] \in Int
              /\ <<h[s].player, sequence[s]>> \in BattleId
          BY <3>1 DEF IInv, TypeOK, BattleId
        <4> QED
          BY <1>0, <2>1, <3>1, <3>2, <4>1 DEF EnterLoad, redisVars, Handler
      <3> QED
        BY <1>2, <2>1, <3>1, <3>2 DEF EnterLoad, redisVars
    <2>2. CASE EnterSelect(s)
      BY <1>1, <1>2, <2>2 DEF EnterSelect, At, redisVars
    <2>3. CASE EnterUpdate(s)
      BY <1>1, <1>2, <2>3 DEF EnterUpdate, At, redisVars
    <2>4. CASE EnterCommit(s)
      BY <1>1, <1>2, <2>4 DEF EnterCommit, At, redisVars
    <2>5. CASE SaveBegin(s)
      BY <1>1, <2>5 DEF SaveBegin, At
    <2>6. CASE SaveEnd(s)
      BY <1>1, <2>6 DEF SaveEnd, At
    <2> QED
      BY <1>3, <2>1, <2>2, <2>3, <2>4, <2>5, <2>6 DEF Enter
  <1>4. CASE Settle(s)
    <2>1. CASE SettleFindCtx(s)
      <3>1. CASE Die(s)
        BY <1>0, <2>1, <3>1, IdleHandler DEF SettleFindCtx, Die, At, redisVars
      <3> QED
        BY <1>1, <1>2, <2>1, <3>1 DEF SettleFindCtx, At, redisVars
    <2>2. CASE SettleFindBattle(s)
      BY <1>1, <1>2, <2>2 DEF SettleFindBattle, At, redisVars
    <2>3. CASE SettleFirstClear(s)
      <3>1. PICK first \in BOOLEAN :
              h' = [h EXCEPT ![s] = [@ EXCEPT !.pc = "claim", !.first = first]]
        BY <2>3 DEF SettleFirstClear
      <3> QED
        BY <1>0, <2>3, <3>1 DEF SettleFirstClear, At, redisVars, Handler
    <2>4. CASE SettleClaim(s)
      BY <1>1, <1>2, <2>4 DEF SettleClaim, At, redisVars
    <2>5. CASE SettleCommit(s)
      BY <1>1, <1>2, <2>5 DEF SettleCommit, At, redisVars
    <2>6. CASE SettleDelete(s)
      BY <1>1, <2>6 DEF SettleDelete, At
    <2> QED
      BY <1>4, <2>1, <2>2, <2>3, <2>4, <2>5, <2>6 DEF Settle
  <1>5. CASE Invalidate(s)
    BY <1>1, <1>5 DEF Invalidate, At
  <1> QED
    BY <1>3, <1>4, <1>5

LEMMA NextExclusion ==
  ASSUME "slow" \notin Faults, IInv, MutualExclusion, [Next]_vars
  PROVE  MutualExclusion'
  <1>0. h \in [Servers -> Handler]
    BY DEF IInv, TypeOK
  <1>w. \A s \in Servers : h[s].pc # "idle" =>
          h[s].pc \in LockedSteps /\ h[s].player \in Players
    BY <1>0 DEF IInv, HandlerInv, Handler
  <1>1. CASE UNCHANGED vars
    BY <1>1 DEF vars, redisVars, MutualExclusion, Working
  <1>2. ASSUME NEW s \in Servers, Request(s) PROVE MutualExclusion'
    <2>1. PICK p \in Players :
            \/ EnterAcquire(s, p)
            \/ AcquireReplyLost(s, p)
            \/ \E b \in BattleId, star \in 1..MaxStar : SettleAcquire(s, p, b, star)
      BY <1>2 DEF Request
    <2>2. /\ p \notin lock /\ lock' = lock \union {p} /\ h[s].pc = "idle"
      BY <2>1 DEF EnterAcquire, AcquireReplyLost, SettleAcquire, SetNx, At
    <2>3. CASE h' = h
      BY <2>2, <2>3 DEF MutualExclusion, Working
    <2>4. CASE \E r \in Handler : r.player = p /\ h' = [h EXCEPT ![s] = r]
      BY <1>0, <2>2, <2>4 DEF MutualExclusion, Working
    <2>5. CASE EnterAcquire(s, p)
      <3> DEFINE r == [Idle EXCEPT !.op = "enter", !.pc = "load", !.player = p]
      <3>1. r \in Handler /\ r.player = p
        BY IdleHandler DEF Handler
      <3> QED
        BY <2>4, <2>5, <3>1 DEF EnterAcquire
    <2>6. ASSUME NEW b \in BattleId, NEW star \in 1..MaxStar, SettleAcquire(s, p, b, star)
          PROVE  MutualExclusion'
      <3> DEFINE r == [Idle EXCEPT !.op = "settle", !.pc = "find_ctx",
                                   !.player = p, !.battle = b, !.star = star]
      <3>1. star \in 0..MaxStar
        BY NumbersAssumption
      <3>2. r \in Handler /\ r.player = p
        BY IdleHandler, <3>1 DEF Handler
      <3> QED
        BY <2>4, <2>6, <3>2 DEF SettleAcquire
    <2> QED
      BY <2>1, <2>3, <2>5, <2>6 DEF AcquireReplyLost
  <1>3. ASSUME NEW s \in Servers, Enter(s) \/ Settle(s) \/ Invalidate(s)
        PROVE  MutualExclusion'
    <2>1. /\ lock' = lock /\ h[s].pc # "idle"
          /\ \A t \in Servers \ {s} : h'[t] = h[t]
          /\ h'[s].pc = "idle" \/ h'[s].player = h[s].player
      BY <1>3, StepKeeps
    <2> QED
      BY <1>w, <2>1 DEF MutualExclusion, Working
  <1>4. ASSUME NEW s \in Servers, h' = [h EXCEPT ![s] = Idle],
               lock' = lock \/ (h[s].pc # "idle" /\ lock' = lock \ {h[s].player})
        PROVE  MutualExclusion'
    <2>1. h'[s].pc = "idle" /\ \A t \in Servers \ {s} : h'[t] = h[t]
      BY <1>0, <1>4, IdleHandler
    <2> QED
      BY <1>w, <1>4, <2>1 DEF MutualExclusion, Working
  <1>5. ASSUME NEW s \in Servers, Release(s) \/ Crash(s) PROVE MutualExclusion'
    BY <1>4, <1>5 DEF Release, Crash, Die, redisVars, At
  <1>6. ASSUME NEW p \in Players, LockExpire(p) PROVE MutualExclusion'
    <2>1. /\ h' = h /\ lock' = lock \ {p}
          /\ \A s \in Servers : ~Working(s, p)
      BY <1>6 DEF LockExpire
    <2> QED
      BY <2>1 DEF MutualExclusion, Working
  <1>7. ASSUME NEW b \in BattleId, CtxExpire(b) PROVE MutualExclusion'
    BY <1>7 DEF CtxExpire, MutualExclusion, Working
  <1>8. ASSUME NEW p \in Players, CacheFill(p) PROVE MutualExclusion'
    BY <1>8 DEF CacheFill, MutualExclusion, Working
  <1> QED
    BY <1>1, <1>2, <1>3, <1>5, <1>6, <1>7, <1>8 DEF Next, HandlerStep, Environment

LEMMA InitExclusion == Init => MutualExclusion
  BY IdleHandler DEF Init, MutualExclusion, Working

\* One handler at a time works for a player, across processes and crashes, and
\* its lock key exists until it releases it.
THEOREM PlayersAreSerialised ==
  ASSUME "slow" \notin Faults
  PROVE  Spec => []MutualExclusion
  <1>1. IInv /\ MutualExclusion /\ [Next]_vars => MutualExclusion'
    BY NextExclusion
  <1> QED
    BY <1>1, InitExclusion, Invariance, PTL DEF Spec
-----------------------------------------------------------------------------
(* What a handler knows about the durable state stays true between its     *)
(* check and its commit, because nobody else writes that player's rows.    *)

OrderInv ==
  \A s \in Servers :
    /\ h[s].pc \in {"update", "insert"} => OpenBattles(h[s].player) = {}
    /\ h[s].pc \in {"claim", "reward"} => h[s].first = (bestStar[h[s].player] = 0)
    /\ h[s].pc \in SettleSteps => h[s].star \in 1..MaxStar

AtMostOneOpen == \A p \in Players : \A b, c \in OpenBattles(p) : b = c

SerialInv == IInv /\ MutualExclusion /\ OrderInv /\ AtMostOneOpen /\ FirstClearOnce

LEMMA InitSerial == Init => SerialInv
  <1> SUFFICES ASSUME Init PROVE SerialInv
    OBVIOUS
  <1>1. OrderInv
    BY IdleHandler DEF Init, OrderInv
  <1>2. AtMostOneOpen /\ FirstClearOnce
    BY DEF Init, AtMostOneOpen, OpenBattles, FirstClearOnce
  <1> QED
    BY <1>1, <1>2, InitIInv, InitExclusion DEF SerialInv

\* A step of the control of s that leaves the database alone.
LEMMA MoveOrder ==
  ASSUME IInv, OrderInv, NEW s \in Servers, Keeps(s), UNCHANGED ledgerVars,
         h'[s].pc \in {"update", "insert"} => OpenBattles(h[s].player) = {},
         h'[s].pc \in {"claim", "reward"} => h'[s].first = (bestStar[h[s].player] = 0),
         h'[s].pc \in SettleSteps => h[s].pc \in SettleSteps
  PROVE  OrderInv'
  BY DEF OrderInv, Keeps, ledgerVars, OpenBattles

\* A handler that starts, ends or dies.
LEMMA SwitchOrder ==
  ASSUME IInv, OrderInv, NEW s \in Servers, NEW r \in Handler,
         h' = [h EXCEPT ![s] = r], UNCHANGED ledgerVars,
         r.pc \in {"idle", "load", "find_ctx"},
         r.pc = "find_ctx" => r.star \in 1..MaxStar
  PROVE  OrderInv'
  <1>1. h'[s] = r /\ \A t \in Servers \ {s} : h'[t] = h[t]
    BY DEF IInv, TypeOK
  <1> QED
    BY <1>1 DEF OrderInv, ledgerVars, OpenBattles

\* The commits: the database changes for one player only, and only the
\* committing handler works for it.
LEMMA CommitOrder ==
  ASSUME IInv, MutualExclusion, OrderInv, NEW s \in Servers, Keeps(s),
         h[s].pc \in LockedSteps, h'[s].pc \in {"save", "delete", "release"},
         h'[s].pc = "delete" => h[s].pc = "reward",
         \A q \in Players \ {h[s].player} :
           OpenBattles(q)' = OpenBattles(q) /\ bestStar'[q] = bestStar[q]
  PROVE  OrderInv'
  <1>1. h[s].player \in Players
    BY DEF IInv, HandlerInv
  <1>2. ASSUME NEW t \in Servers \ {s}, h[t].pc \in LockedSteps
        PROVE  h[t].player \in Players \ {h[s].player}
    BY <1>1, <1>2 DEF IInv, HandlerInv, MutualExclusion, Working
  <1>3. ASSUME NEW t \in Servers \ {s}, h[t].pc \in LockedSteps
        PROVE  /\ {b \in battles' \ settled' : Owner(b) = h[t].player}
                    = OpenBattles(h[t].player)
               /\ bestStar'[h[t].player] = bestStar[h[t].player]
               /\ h'[t] = h[t]
    BY <1>2, <1>3 DEF Keeps, OpenBattles
  <1> SUFFICES ASSUME NEW t \in Servers
               PROVE  /\ h'[t].pc \in {"update", "insert"} =>
                           {b \in battles' \ settled' : Owner(b) = h'[t].player} = {}
                      /\ h'[t].pc \in {"claim", "reward"} =>
                           h'[t].first = (bestStar'[h'[t].player] = 0)
                      /\ h'[t].pc \in SettleSteps => h'[t].star \in 1..MaxStar
    BY DEF OrderInv, OpenBattles
  <1>4. CASE t = s
    BY <1>4 DEF OrderInv, Keeps
  <1>5. CASE t # s
    BY <1>3, <1>5 DEF OrderInv, Keeps
  <1> QED
    BY <1>4, <1>5

LEMMA EnterOrder ==
  ASSUME "query" \notin Faults, IInv, MutualExclusion, OrderInv,
         NEW s \in Servers, Enter(s)
  PROVE  OrderInv'
  <1>0. h \in [Servers -> Handler] /\ h[s] \in Handler
    BY DEF IInv, TypeOK
  <1>r. ASSUME NEW code \in Codes, Reject(s, code), UNCHANGED ledgerVars PROVE OrderInv'
    BY <1>0, <1>r, RejectKeeps, MoveOrder
  <1>1. CASE EnterLoad(s)
    <2>1. h[s].pc = "load" /\ h[s].player \in Players /\ sequence[s] \in 1..MaxSeq
      BY <1>1, NumbersAssumption DEF EnterLoad, At, IInv, TypeOK, HandlerInv
    <2>2. CASE h' = [h EXCEPT ![s] = [@ EXCEPT !.pc = "select",
                       !.stamina = stamina[h[s].player],
                       !.battle = <<h[s].player, sequence[s]>>]]
      <3>1. /\ stamina[h[s].player] \in Int
            /\ <<h[s].player, sequence[s]>> \in BattleId
        BY <2>1 DEF IInv, TypeOK, BattleId
      <3>2. Keeps(s) /\ h'[s].pc = "select"
        BY <1>0, <2>2, <3>1 DEF Handler, Keeps
      <3> QED
        BY <1>1, <3>2, MoveOrder DEF EnterLoad
    <2> QED
      BY <1>1, <1>r, <2>2 DEF EnterLoad
  <1>2. CASE EnterSelect(s)
    <2>1. CASE Goto(s, "update") /\ OpenBattles(h[s].player) = {}
      BY <1>0, <1>2, <2>1, GotoKeeps, MoveOrder DEF EnterSelect
    <2> QED
      BY <1>2, <1>r, <2>1 DEF EnterSelect
  <1>3. CASE EnterUpdate(s)
    <2>1. OpenBattles(h[s].player) = {}
      BY <1>3 DEF EnterUpdate, At, OrderInv
    <2> QED
      BY <1>0, <1>3, <1>r, <2>1, GotoKeeps, MoveOrder DEF EnterUpdate
  <1>4. CASE EnterCommit(s)
    <2> DEFINE p == h[s].player
               b == h[s].battle
    <2>1. ASSUME OpenBattle(p, b), Goto(s, "save") \/ Reject(s, "STORAGE_ERROR")
          PROVE  OrderInv'
      <3>1. Keeps(s) /\ h'[s].pc \in {"save", "release"}
        BY <1>0, <2>1, GotoKeeps, RejectKeeps
      <3>2. h[s].pc = "insert" /\ Owner(b) = p
        BY <1>4 DEF EnterCommit, At, IInv, HandlerInv
      <3>3. \A q \in Players \ {p} :
              OpenBattles(q)' = OpenBattles(q) /\ bestStar'[q] = bestStar[q]
        BY <2>1, <3>2 DEF OpenBattle, OpenBattles
      <3> QED
        BY <3>1, <3>2, <3>3, CommitOrder
    <2> QED
      BY <1>4, <1>r, <2>1 DEF EnterCommit
  <1>5. CASE SaveBegin(s)
    BY <1>0, <1>5, GotoKeeps, MoveOrder DEF SaveBegin
  <1>6. CASE SaveEnd(s)
    BY <1>0, <1>6, GotoKeeps, MoveOrder DEF SaveEnd
  <1> QED
    BY <1>1, <1>2, <1>3, <1>4, <1>5, <1>6 DEF Enter

LEMMA SettleOrder ==
  ASSUME "query" \notin Faults, IInv, MutualExclusion, OrderInv,
         NEW s \in Servers, Settle(s)
  PROVE  OrderInv'
  <1>0. h \in [Servers -> Handler] /\ h[s] \in Handler
    BY DEF IInv, TypeOK
  <1>r. ASSUME NEW code \in Codes, Reject(s, code), UNCHANGED ledgerVars PROVE OrderInv'
    BY <1>0, <1>r, RejectKeeps, MoveOrder
  <1>1. CASE SettleFindCtx(s)
    <2>1. CASE Die(s)
      BY <1>1, <2>1, IdleHandler, SwitchOrder DEF SettleFindCtx, Die
    <2>2. CASE Goto(s, "first") \/ Goto(s, "find_db")
      BY <1>0, <1>1, <2>2, GotoKeeps, MoveOrder DEF SettleFindCtx, At
    <2> QED
      BY <1>1, <1>r, <2>1, <2>2 DEF SettleFindCtx
  <1>2. CASE SettleFindBattle(s)
    BY <1>0, <1>2, <1>r, GotoKeeps, MoveOrder DEF SettleFindBattle, At
  <1>3. CASE SettleFirstClear(s)
    <2>1. PICK first \in BOOLEAN :
            /\ first = (bestStar[h[s].player] = 0)
            /\ h' = [h EXCEPT ![s] = [@ EXCEPT !.pc = "claim", !.first = first]]
      BY <1>3 DEF SettleFirstClear
    <2>2. Keeps(s) /\ h'[s].pc = "claim" /\ h'[s].first = first
      BY <1>0, <2>1 DEF Handler, Keeps
    <2> QED
      BY <1>3, <2>1, <2>2, MoveOrder DEF SettleFirstClear, At
  <1>4. CASE SettleClaim(s)
    <2>1. h[s].first = (bestStar[h[s].player] = 0) /\ h[s].pc = "claim"
      BY <1>4 DEF SettleClaim, At, OrderInv
    <2> QED
      BY <1>0, <1>4, <1>r, <2>1, GotoKeeps, MoveOrder DEF SettleClaim
  <1>5. CASE SettleCommit(s)
    <2> DEFINE p == h[s].player
               b == h[s].battle
    <2>1. ASSUME PayReward(p, b, h[s].star, h[s].first),
                 Goto(s, "delete") \/ Reject(s, "STORAGE_ERROR")
          PROVE  OrderInv'
      <3>1. Keeps(s) /\ h'[s].pc \in {"delete", "release"}
        BY <1>0, <2>1, GotoKeeps, RejectKeeps
      <3>2. h[s].pc = "reward" /\ Owner(b) = p
        BY <1>5 DEF SettleCommit, At, IInv, HandlerInv
      <3>3. \A q \in Players \ {p} :
              OpenBattles(q)' = OpenBattles(q) /\ bestStar'[q] = bestStar[q]
        BY <2>1, <3>2 DEF PayReward, OpenBattles, IInv, TypeOK
      <3> QED
        BY <3>1, <3>2, <3>3, CommitOrder
    <2> QED
      BY <1>5, <1>r, <2>1 DEF SettleCommit
  <1>6. CASE SettleDelete(s)
    BY <1>0, <1>6, GotoKeeps, MoveOrder DEF SettleDelete
  <1> QED
    BY <1>1, <1>2, <1>3, <1>4, <1>5, <1>6 DEF Settle

LEMMA NextOrder ==
  ASSUME "query" \notin Faults, IInv, MutualExclusion, OrderInv, [Next]_vars
  PROVE  OrderInv'
  <1>0. h \in [Servers -> Handler]
    BY DEF IInv, TypeOK
  <1>1. CASE UNCHANGED vars
    BY <1>1 DEF vars, ledgerVars, OrderInv, OpenBattles
  <1>2. ASSUME NEW s \in Servers, Request(s) PROVE OrderInv'
    <2>1. PICK p \in Players :
            \/ EnterAcquire(s, p)
            \/ AcquireReplyLost(s, p)
            \/ \E b \in BattleId, star \in 1..MaxStar : SettleAcquire(s, p, b, star)
      BY <1>2 DEF Request
    <2>2. CASE EnterAcquire(s, p)
      <3> DEFINE r == [Idle EXCEPT !.op = "enter", !.pc = "load", !.player = p]
      <3>1. r \in Handler /\ r.pc = "load"
        BY IdleHandler DEF Handler
      <3>2. h' = [h EXCEPT ![s] = r] /\ UNCHANGED ledgerVars
        BY <2>2 DEF EnterAcquire
      <3> HIDE DEF r
      <3> QED
        BY <3>1, <3>2, SwitchOrder
    <2>3. CASE AcquireReplyLost(s, p)
      BY <2>3 DEF AcquireReplyLost, ledgerVars, OrderInv, OpenBattles
    <2>4. ASSUME NEW b \in BattleId, NEW star \in 1..MaxStar, SettleAcquire(s, p, b, star)
          PROVE  OrderInv'
      <3> DEFINE r == [Idle EXCEPT !.op = "settle", !.pc = "find_ctx",
                                   !.player = p, !.battle = b, !.star = star]
      <3>1. star \in 0..MaxStar
        BY NumbersAssumption
      <3>2. r \in Handler /\ r.pc = "find_ctx" /\ r.star = star
        BY IdleHandler, <3>1 DEF Handler
      <3>3. h' = [h EXCEPT ![s] = r] /\ UNCHANGED ledgerVars
        BY <2>4 DEF SettleAcquire
      <3> HIDE DEF r
      <3> QED
        BY <3>2, <3>3, SwitchOrder
    <2> QED
      BY <2>1, <2>2, <2>3, <2>4
  <1>3. ASSUME NEW s \in Servers, HandlerStep(s) PROVE OrderInv'
    <2>1. CASE Invalidate(s)
      BY <1>0, <2>1, GotoKeeps, MoveOrder DEF Invalidate
    <2>2. CASE Release(s)
      BY <2>2, IdleHandler, SwitchOrder DEF Release
    <2> QED
      BY <1>3, <2>1, <2>2, EnterOrder, SettleOrder DEF HandlerStep
  <1>4. ASSUME NEW s \in Servers, Crash(s) PROVE OrderInv'
    BY <1>4, IdleHandler, SwitchOrder DEF Crash, Die
  <1>5. ASSUME NEW p \in Players, LockExpire(p) \/ CacheFill(p) PROVE OrderInv'
    BY <1>5 DEF LockExpire, CacheFill, ledgerVars, OrderInv, OpenBattles
  <1>6. ASSUME NEW b \in BattleId, CtxExpire(b) PROVE OrderInv'
    BY <1>6 DEF CtxExpire, ledgerVars, OrderInv, OpenBattles
  <1> QED
    BY <1>1, <1>2, <1>3, <1>4, <1>5, <1>6 DEF Next, Environment
-----------------------------------------------------------------------------
(* The refinement.                                                         *)

\* Every step is a step of the ledger or leaves its variables alone.
LEMMA StepsAreLedgerSteps ==
  ASSUME SerialInv, [Next]_vars
  PROVE  [Ledger!Next]_(Ledger!ledgerVars)
  <1>0. SUFFICES \/ Ledger!Next
                 \/ UNCHANGED ledgerVars
    BY DEF ledgerVars, Ledger!ledgerVars
  <1>1. ASSUME NEW s \in Servers, EnterCommit(s)
        PROVE  Ledger!Next \/ UNCHANGED ledgerVars
    <2> DEFINE p == h[s].player
               b == h[s].battle
    <2>1. h[s].pc = "insert" /\ b \in BattleId /\ Owner(b) = p /\ stamina[p] >= Cost
      BY <1>1 DEF EnterCommit, At, SerialInv, IInv, HandlerInv
    <2>2. OpenBattles(p) = {}
      BY <2>1 DEF SerialInv, OrderInv
    <2>3. CASE b \notin battles /\ OpenBattle(p, b)
      <3>1. Ledger!Enter(b)
        BY <2>1, <2>2, <2>3 DEF Ledger!Enter, Ledger!Owner, Ledger!OpenBattles, Owner,
           OpenBattle, OpenBattles
      <3> QED
        BY <2>1, <3>1 DEF Ledger!Next, Ledger!BattleId, BattleId
    <2> QED
      BY <1>1, <2>3 DEF EnterCommit
  <1>2. ASSUME NEW s \in Servers, SettleCommit(s)
        PROVE  Ledger!Next \/ UNCHANGED ledgerVars
    <2> DEFINE p == h[s].player
               b == h[s].battle
               star == h[s].star
    <2>1. /\ h[s].pc = "reward" /\ b \in BattleId /\ Owner(b) = p
          /\ b \in battles \ settled /\ p \in Players
      BY <1>2 DEF SettleCommit, At, SerialInv, IInv, HandlerInv
    <2>2. h[s].first = (bestStar[p] = 0) /\ star \in 1..MaxStar
      BY <2>1 DEF SerialInv, OrderInv
    <2>3. CASE PayReward(p, b, star, h[s].first)
      <3>1. Ledger!Settle(b, star)
        BY <2>1, <2>2, <2>3 DEF Ledger!Settle, Ledger!Owner, Owner, PayReward,
           SerialInv, IInv, TypeOK
      <3> QED
        BY <2>1, <2>2, <3>1 DEF Ledger!Next, Ledger!BattleId, BattleId
    <2> QED
      BY <1>2, <2>3 DEF SettleCommit
  <1>3. ASSUME NEW s \in Servers, Request(s) \/ Invalidate(s) \/ Release(s) \/ Crash(s)
        PROVE  UNCHANGED ledgerVars
    BY <1>3 DEF Request, EnterAcquire, AcquireReplyLost, SettleAcquire, Invalidate,
       Release, Crash
  <1>4. ASSUME NEW s \in Servers, Enter(s), ~EnterCommit(s) PROVE UNCHANGED ledgerVars
    BY <1>4 DEF Enter, EnterLoad, EnterSelect, EnterUpdate, SaveBegin, SaveEnd
  <1>5. ASSUME NEW s \in Servers, Settle(s), ~SettleCommit(s) PROVE UNCHANGED ledgerVars
    BY <1>5 DEF Settle, SettleFindCtx, SettleFindBattle, SettleFirstClear, SettleClaim,
       SettleDelete
  <1>6. CASE UNCHANGED vars
    BY <1>6 DEF vars
  <1>7. CASE Environment
    BY <1>7 DEF Environment, Crash, LockExpire, CacheFill, CtxExpire
  <1> QED
    BY <1>1, <1>2, <1>3, <1>4, <1>5, <1>6, <1>7 DEF Next, HandlerStep

\* Consequences of a ledger step for the two properties it preserves.
LEMMA LedgerStepSafe ==
  ASSUME SerialInv, [Ledger!Next]_(Ledger!ledgerVars)
  PROVE  AtMostOneOpen' /\ FirstClearOnce'
  <1>1. CASE UNCHANGED ledgerVars
    BY <1>1 DEF ledgerVars, SerialInv, AtMostOneOpen, OpenBattles, FirstClearOnce
  <1>2. ASSUME NEW b \in BattleId, Ledger!Enter(b)
        PROVE  AtMostOneOpen' /\ FirstClearOnce'
    <2>1. OpenBattles(Owner(b)) = {}
      BY <1>2 DEF Ledger!Enter, Ledger!OpenBattles, Ledger!Owner, OpenBattles, Owner
    <2>2. AtMostOneOpen'
      BY <1>2, <2>1 DEF Ledger!Enter, SerialInv, AtMostOneOpen, OpenBattles
    <2>3. FirstClearOnce'
      BY <1>2 DEF Ledger!Enter, SerialInv, FirstClearOnce
    <2> QED
      BY <2>2, <2>3
  <1>3. ASSUME NEW b \in BattleId, NEW star \in 1..MaxStar, Ledger!Settle(b, star)
        PROVE  AtMostOneOpen' /\ FirstClearOnce'
    <2>1. AtMostOneOpen'
      BY <1>3 DEF Ledger!Settle, SerialInv, AtMostOneOpen, OpenBattles
    <2>2. \A p \in Players : /\ bestStar[p] \in 0..MaxStar /\ diamond[p] \in Int
                             /\ diamond[p] = IF bestStar[p] = 0 THEN 0 ELSE Diamond
      BY DEF SerialInv, IInv, TypeOK, FirstClearOnce
    <2>3. /\ diamond' = [diamond EXCEPT ![Owner(b)] =
                           IF bestStar[Owner(b)] = 0 THEN @ + Diamond ELSE @]
          /\ bestStar' = [bestStar EXCEPT ![Owner(b)] = IF star > @ THEN star ELSE @]
      BY <1>3 DEF Ledger!Settle, Ledger!Owner, Owner
    <2>4. Owner(b) \in Players /\ star \in Int /\ star >= 1
      BY NumbersAssumption DEF BattleId, Owner
    <2>5. FirstClearOnce'
      BY <2>2, <2>3, <2>4, NumbersAssumption DEF FirstClearOnce, SerialInv, IInv, TypeOK
    <2> QED
      BY <2>1, <2>5
  <1> QED
    BY <1>1, <1>2, <1>3 DEF Ledger!Next, Ledger!BattleId, BattleId, ledgerVars, Ledger!ledgerVars

LEMMA NextSerial ==
  ASSUME "slow" \notin Faults, "query" \notin Faults, SerialInv, [Next]_vars
  PROVE  SerialInv'
  BY NextIInv, NextExclusion, NextOrder, StepsAreLedgerSteps, LedgerStepSafe DEF SerialInv

LEMMA SerialAlways ==
  ASSUME "slow" \notin Faults, "query" \notin Faults
  PROVE  Spec => []SerialInv
  <1>1. SerialInv /\ [Next]_vars => SerialInv'
    BY NextSerial
  <1> QED
    BY <1>1, InitSerial, PTL DEF Spec

\* The diamond reward is paid on the first clear and never again.
THEOREM FirstClearIsPaidOnce ==
  ASSUME "slow" \notin Faults, "query" \notin Faults
  PROVE  Spec => []FirstClearOnce
  <1>1. SerialInv => FirstClearOnce
    BY DEF SerialInv
  <1> QED
    BY <1>1, SerialAlways, PTL

\* A player has at most one open battle.
THEOREM BattlesAreExclusive ==
  ASSUME "slow" \notin Faults, "query" \notin Faults
  PROVE  Spec => []OneOpenBattle
  <1>1. SerialInv => OneOpenBattle
    <2> SUFFICES ASSUME SerialInv, NEW p \in Players
                 PROVE  Cardinality(OpenBattles(p)) <= 1
      BY DEF OneOpenBattle
    <2>1. CASE OpenBattles(p) = {}
      BY <2>1, FS_EmptySet
    <2>2. CASE OpenBattles(p) # {}
      <3>1. PICK b : OpenBattles(p) = {b}
        BY <2>2 DEF SerialInv, AtMostOneOpen
      <3> QED
        BY <3>1, FS_Singleton
    <2> QED
      BY <2>1, <2>2
  <1> QED
    BY <1>1, SerialAlways, PTL

\* The handlers of all processes together implement the ledger.
THEOREM ServiceImplementsLedger ==
  ASSUME "slow" \notin Faults, "query" \notin Faults
  PROVE  Spec => ImplementsLedger
  <1>1. Init => Ledger!Init
    BY DEF Init, Ledger!Init
  <1>2. SerialInv /\ [Next]_vars => [Ledger!Next]_(Ledger!ledgerVars)
    BY StepsAreLedgerSteps
  <1> QED
    BY <1>1, <1>2, SerialAlways, PTL DEF Spec, ImplementsLedger, Ledger!Spec
-----------------------------------------------------------------------------
(* What an enter tells its client about the stamina.                       *)

\* The stamina an enter has loaded is the committed one until its own COMMIT,
\* and Cost more than the committed one after it.
Told(s) ==
  h[s].op = "enter" =>
    /\ h[s].pc \notin SettleSteps
    /\ h[s].pc \in EnterSteps \union {"invalidate"} => h[s].code = "OK"
    /\ h[s].pc = "load" => h[s].battle = NoBattle
    /\ h[s].pc \in {"select", "update", "insert"} => stamina[h[s].player] = h[s].stamina
    /\ \/ h[s].pc \in {"save", "saving", "invalidate"}
       \/ h[s].pc = "release" /\ h[s].code = "OK"
       => stamina[h[s].player] = h[s].stamina - Cost
    /\ h[s].pc = "release" /\ h[s].battle # NoBattle /\ h[s].code # "OK"
       => \/ stamina[h[s].player] = h[s].stamina
          \/ /\ h[s].code = "STORAGE_ERROR"
             /\ h[s].battle \in OpenBattles(h[s].player)
             /\ stamina[h[s].player] = h[s].stamina - Cost

ReplyInv == \A s \in Servers : Told(s)

\* A step that changes the rows of at most the player s works for leaves the
\* other handlers' replies true.
LEMMA OthersTold ==
  ASSUME IInv, MutualExclusion, ReplyInv, NEW s \in Servers,
         \A t \in Servers \ {s} : h'[t] = h[t],
         \/ UNCHANGED ledgerVars
         \/ /\ h[s].pc \in LockedSteps
            /\ \A q \in Players \ {h[s].player} :
                 stamina'[q] = stamina[q] /\ OpenBattles(q)' = OpenBattles(q),
         Told(s)'
  PROVE  ReplyInv'
  <1> SUFFICES ASSUME NEW t \in Servers \ {s} PROVE Told(t)'
    BY DEF ReplyInv
  <1>1. Told(t) /\ h'[t] = h[t]
    BY DEF ReplyInv
  <1>2. CASE UNCHANGED ledgerVars
    BY <1>1, <1>2 DEF Told, ledgerVars, OpenBattles
  <1>3. CASE h[t].pc \notin LockedSteps
    BY <1>1, <1>3 DEF Told
  <1>4. ASSUME h[s].pc \in LockedSteps, h[t].pc \in LockedSteps,
               \A q \in Players \ {h[s].player} :
                 stamina'[q] = stamina[q] /\ OpenBattles(q)' = OpenBattles(q)
        PROVE  Told(t)'
    <2>1. h[t].player \in Players \ {h[s].player}
      BY <1>4 DEF IInv, HandlerInv, MutualExclusion, Working
    <2>2. /\ stamina'[h[t].player] = stamina[h[t].player]
          /\ {b \in battles' \ settled' : Owner(b) = h[t].player} = OpenBattles(h[t].player)
      BY <1>4, <2>1 DEF OpenBattles
    <2> QED
      BY <1>1, <2>2 DEF Told, OpenBattles
  <1> QED
    BY <1>2, <1>3, <1>4

\* A handler that starts, ends or dies.
LEMMA SwitchTold ==
  ASSUME IInv, MutualExclusion, ReplyInv, NEW s \in Servers, NEW r \in Handler,
         h' = [h EXCEPT ![s] = r], UNCHANGED ledgerVars,
         r.op # "enter" \/ (r.pc = "load" /\ r.code = "OK" /\ r.battle = NoBattle)
  PROVE  ReplyInv'
  <1>1. h'[s] = r /\ \A t \in Servers \ {s} : h'[t] = h[t]
    BY DEF IInv, TypeOK
  <1>2. Told(s)'
    BY <1>1 DEF Told
  <1> QED
    BY <1>1, <1>2, OthersTold

LEMMA EnterTold ==
  ASSUME IInv, MutualExclusion, ReplyInv, NEW s \in Servers, Enter(s)
  PROVE  ReplyInv'
  <1> DEFINE p == h[s].player
             b == h[s].battle
  <1>0. h \in [Servers -> Handler] /\ h[s] \in Handler /\ Told(s)
    BY DEF IInv, TypeOK, ReplyInv
  <1>g. ASSUME NEW pc \in EnterSteps \union {"invalidate"}, Goto(s, pc), UNCHANGED ledgerVars,
               h[s].pc \in EnterSteps,
               \/ pc \in {"update", "insert"} /\ h[s].pc \in {"select", "update"}
               \/ pc \in {"saving", "invalidate"} /\ h[s].pc \in {"save", "saving"}
        PROVE  ReplyInv'
    <2>1. /\ Keeps(s) /\ h'[s].pc = pc /\ h'[s].battle = b
          /\ h'[s].code = h[s].code /\ h'[s].stamina = h[s].stamina
      BY <1>0, <1>g, GotoKeeps
    <2>2. Told(s)'
      BY <1>0, <1>g, <2>1 DEF Told, Keeps, ledgerVars
    <2> QED
      BY <1>g, <2>1, <2>2, OthersTold DEF Keeps
  <1>r. ASSUME NEW code \in Codes, code # "OK", Reject(s, code), UNCHANGED ledgerVars,
               h[s].pc \in {"load", "select", "update", "insert"}
        PROVE  ReplyInv'
    <2>1. /\ Keeps(s) /\ h'[s].pc = "release" /\ h'[s].code = code
          /\ h'[s].battle = b /\ h'[s].stamina = h[s].stamina
      BY <1>0, <1>r, RejectKeeps
    <2>2. Told(s)'
      BY <1>0, <1>r, <2>1 DEF Told, Keeps, ledgerVars
    <2> QED
      BY <1>r, <2>1, <2>2, OthersTold DEF Keeps
  <1>1. CASE EnterLoad(s)
    <2>1. h[s].pc = "load" /\ p \in Players /\ sequence[s] \in 1..MaxSeq /\ UNCHANGED ledgerVars
      BY <1>1, NumbersAssumption DEF EnterLoad, At, IInv, TypeOK, HandlerInv
    <2>2. CASE h' = [h EXCEPT ![s] = [@ EXCEPT !.pc = "select", !.stamina = stamina[p],
                                               !.battle = <<p, sequence[s]>>]]
      <3>1. stamina[p] \in Int /\ <<p, sequence[s]>> \in BattleId
        BY <2>1 DEF IInv, TypeOK, BattleId
      <3>2. /\ Keeps(s) /\ h'[s].pc = "select" /\ h'[s].stamina = stamina[p]
            /\ h'[s].code = h[s].code
        BY <1>0, <2>2, <3>1 DEF Handler, Keeps
      <3>3. Told(s)'
        BY <1>0, <2>1, <3>2 DEF Told, Keeps, ledgerVars
      <3> QED
        BY <2>1, <3>2, <3>3, OthersTold DEF Keeps
    <2> QED
      BY <1>1, <1>r, <2>1, <2>2 DEF EnterLoad
  <1>2. CASE EnterSelect(s)
    <2>1. h[s].pc = "select" /\ UNCHANGED ledgerVars
      BY <1>2 DEF EnterSelect, At
    <2>2. CASE Goto(s, "update")
      BY <1>g, <2>1, <2>2
    <2>3. \/ Goto(s, "update")
          \/ \E code \in Codes \ {"OK"} : Reject(s, code)
      BY <1>2 DEF EnterSelect
    <2> QED
      BY <1>r, <2>1, <2>2, <2>3
  <1>3. CASE EnterUpdate(s)
    <2>1. h[s].pc = "update" /\ UNCHANGED ledgerVars
      BY <1>3 DEF EnterUpdate, At
    <2>2. CASE Goto(s, "insert")
      BY <1>g, <2>1, <2>2
    <2>3. \/ Goto(s, "insert")
          \/ \E code \in Codes \ {"OK"} : Reject(s, code)
      BY <1>3 DEF EnterUpdate
    <2> QED
      BY <1>r, <2>1, <2>2, <2>3
  <1>4. CASE EnterCommit(s)
    <2>1. /\ h[s].pc = "insert" /\ p \in Players /\ Owner(b) = p
          /\ settled \subseteq battles /\ stamina \in [Players -> Int]
          /\ stamina[p] = h[s].stamina \/ h[s].op # "enter"
      BY <1>0, <1>4 DEF EnterCommit, At, IInv, HandlerInv, TypeOK, Told
    <2>2. ASSUME OpenBattle(p, b), b \notin battles, Keeps(s),
                 h'[s].battle = b, h'[s].stamina = h[s].stamina,
                 \/ h'[s].pc = "save" /\ h'[s].code = h[s].code
                 \/ h'[s].pc = "release" /\ h'[s].code = "STORAGE_ERROR"
          PROVE  ReplyInv'
      <3>1. \A q \in Players \ {p} :
              stamina'[q] = stamina[q] /\ OpenBattles(q)' = OpenBattles(q)
        BY <2>1, <2>2 DEF OpenBattle, OpenBattles
      <3>2. /\ stamina'[p] = stamina[p] - Cost
            /\ b \in {c \in battles' \ settled' : Owner(c) = p}
        BY <2>1, <2>2 DEF OpenBattle
      <3>3. Told(s)'
        BY <1>0, <2>1, <2>2, <3>2 DEF Told, Keeps, OpenBattles
      <3> QED
        BY <2>1, <2>2, <3>1, <3>3, OthersTold DEF Keeps
    <2>3. CASE OpenBattle(p, b) /\ b \notin battles /\ Goto(s, "save")
      BY <1>0, <2>2, <2>3, GotoKeeps
    <2>4. CASE OpenBattle(p, b) /\ b \notin battles /\ Reject(s, "STORAGE_ERROR")
      BY <1>0, <2>2, <2>4, RejectKeeps
    <2> QED
      BY <1>4, <1>r, <2>1, <2>3, <2>4 DEF EnterCommit
  <1>5. CASE SaveBegin(s)
    BY <1>5, <1>g DEF SaveBegin, At
  <1>6. CASE SaveEnd(s)
    BY <1>6, <1>g DEF SaveEnd, At
  <1> QED
    BY <1>1, <1>2, <1>3, <1>4, <1>5, <1>6 DEF Enter

\* A settle is not an enter, and the handlers of other players do not see it.
LEMMA SettleTold ==
  ASSUME IInv, MutualExclusion, ReplyInv, NEW s \in Servers, Settle(s)
  PROVE  ReplyInv'
  <1>0. h \in [Servers -> Handler] /\ h[s] \in Handler
    BY DEF IInv, TypeOK
  <1>1. h[s].pc \in SettleSteps
    BY DEF Settle, SettleFindCtx, SettleFindBattle, SettleFirstClear, SettleClaim,
           SettleCommit, SettleDelete, At
  <1>2. h[s].op # "enter"
    BY <1>1 DEF ReplyInv, Told
  <1>3. /\ \A t \in Servers \ {s} : h'[t] = h[t]
        /\ h'[s].op # "enter"
    <2>1. ASSUME NEW pc \in LockedSteps, Goto(s, pc)
          PROVE  h'[s].op # "enter" /\ \A t \in Servers \ {s} : h'[t] = h[t]
      BY <1>0, <1>2, <2>1, GotoKeeps DEF Keeps
    <2>2. ASSUME NEW code \in Codes, Reject(s, code)
          PROVE  h'[s].op # "enter" /\ \A t \in Servers \ {s} : h'[t] = h[t]
      BY <1>0, <1>2, <2>2, RejectKeeps DEF Keeps
    <2>3. CASE SettleFindCtx(s)
      <3>1. CASE Die(s)
        BY <1>0, <3>1, IdleHandler DEF Die, Idle
      <3> QED
        BY <2>1, <2>2, <2>3, <3>1 DEF SettleFindCtx
    <2>4. CASE SettleFirstClear(s)
      <3>1. PICK first \in BOOLEAN :
              h' = [h EXCEPT ![s] = [@ EXCEPT !.pc = "claim", !.first = first]]
        BY <2>4 DEF SettleFirstClear
      <3> QED
        BY <1>0, <1>2, <3>1 DEF Handler
    <2> QED
      BY <2>1, <2>2, <2>3, <2>4
      DEF Settle, SettleFindBattle, SettleClaim, SettleCommit, SettleDelete
  <1>4. \/ UNCHANGED ledgerVars
        \/ \A q \in Players \ {h[s].player} :
             stamina'[q] = stamina[q] /\ OpenBattles(q)' = OpenBattles(q)
    <2>1. ASSUME h[s].pc = "reward",
                 PayReward(h[s].player, h[s].battle, h[s].star, h[s].first)
          PROVE  \A q \in Players \ {h[s].player} :
                   stamina'[q] = stamina[q] /\ OpenBattles(q)' = OpenBattles(q)
      <3>1. Owner(h[s].battle) = h[s].player
        BY <2>1 DEF IInv, HandlerInv
      <3> QED
        BY <2>1, <3>1 DEF PayReward, OpenBattles
    <2> QED
      BY <2>1 DEF Settle, SettleFindCtx, SettleFindBattle, SettleFirstClear, SettleClaim,
                  SettleCommit, SettleDelete, At
  <1>5. Told(s)'
    BY <1>3 DEF Told
  <1> QED
    BY <1>1, <1>3, <1>4, <1>5, OthersTold

LEMMA NextTold ==
  ASSUME IInv, MutualExclusion, ReplyInv, [Next]_vars
  PROVE  ReplyInv'
  <1>0. h \in [Servers -> Handler]
    BY DEF IInv, TypeOK
  <1>d. Idle \in Handler /\ Idle.op # "enter" /\ Idle.code = "OK" /\ Idle.battle = NoBattle
    BY IdleHandler DEF Idle
  <1>1. ASSUME UNCHANGED <<h, ledgerVars>> PROVE ReplyInv'
    BY <1>1 DEF ReplyInv, Told, ledgerVars, OpenBattles
  <1>2. ASSUME NEW s \in Servers, Request(s) PROVE ReplyInv'
    <2>1. PICK p \in Players :
            \/ EnterAcquire(s, p)
            \/ AcquireReplyLost(s, p)
            \/ \E b \in BattleId, star \in 1..MaxStar : SettleAcquire(s, p, b, star)
      BY <1>2 DEF Request
    <2>2. CASE EnterAcquire(s, p)
      <3> DEFINE r == [Idle EXCEPT !.op = "enter", !.pc = "load", !.player = p]
      <3>1. r \in Handler /\ r.pc = "load" /\ r.code = "OK" /\ r.battle = NoBattle
        BY <1>d DEF Handler
      <3>2. h' = [h EXCEPT ![s] = r] /\ UNCHANGED ledgerVars
        BY <2>2 DEF EnterAcquire
      <3> HIDE DEF r
      <3> QED
        BY <3>1, <3>2, SwitchTold
    <2>3. CASE AcquireReplyLost(s, p)
      BY <1>1, <2>3 DEF AcquireReplyLost
    <2>4. ASSUME NEW b \in BattleId, NEW star \in 1..MaxStar, SettleAcquire(s, p, b, star)
          PROVE  ReplyInv'
      <3> DEFINE r == [Idle EXCEPT !.op = "settle", !.pc = "find_ctx",
                                   !.player = p, !.battle = b, !.star = star]
      <3>1. star \in 0..MaxStar
        BY NumbersAssumption
      <3>2. r \in Handler /\ r.op = "settle"
        BY <1>d, <3>1 DEF Handler
      <3>3. h' = [h EXCEPT ![s] = r] /\ UNCHANGED ledgerVars
        BY <2>4 DEF SettleAcquire
      <3> HIDE DEF r
      <3> QED
        BY <3>2, <3>3, SwitchTold
    <2> QED
      BY <2>1, <2>2, <2>3, <2>4
  <1>3. ASSUME NEW s \in Servers, Invalidate(s) PROVE ReplyInv'
    <2>1. h[s].pc = "invalidate" /\ Goto(s, "release") /\ UNCHANGED ledgerVars /\ Told(s)
      BY <1>3 DEF Invalidate, At, ReplyInv
    <2>2. /\ Keeps(s) /\ h'[s].pc = "release" /\ h'[s].code = h[s].code
          /\ h'[s].stamina = h[s].stamina
      BY <1>0, <2>1, GotoKeeps
    <2>3. Told(s)'
      BY <2>1, <2>2 DEF Told, Keeps, ledgerVars
    <2> QED
      BY <2>1, <2>2, <2>3, OthersTold DEF Keeps
  <1>4. ASSUME NEW s \in Servers, Release(s) \/ Crash(s) PROVE ReplyInv'
    BY <1>d, <1>4, SwitchTold DEF Release, Crash, Die
  <1>5. ASSUME NEW p \in Players, LockExpire(p) \/ CacheFill(p) PROVE ReplyInv'
    BY <1>1, <1>5 DEF LockExpire, CacheFill
  <1>6. ASSUME NEW b \in BattleId, CtxExpire(b) PROVE ReplyInv'
    BY <1>1, <1>6 DEF CtxExpire
  <1> QED
    BY <1>1, <1>2, <1>3, <1>4, <1>5, <1>6, EnterTold, SettleTold
    DEF Next, HandlerStep, Environment, vars

\* While no lock outlives its handler, an enter that is answered OK has left the
\* stamina it reports, and one that is refused has charged nothing or has paid
\* for the battle it opened, whatever fails and whoever crashes.
THEOREM EnterRepliesAreTrue ==
  ASSUME "slow" \notin Faults
  PROVE  Spec => []EnterReplyTrue
  <1>1. Init => ReplyInv
    BY DEF Init, ReplyInv, Told, Idle
  <1>2. MutualExclusion /\ IInv /\ ReplyInv /\ [Next]_vars => ReplyInv'
    BY NextTold
  <1>3. ReplyInv => EnterReplyTrue
    BY DEF ReplyInv, Told, EnterReplyTrue, RemainStaminaAccurate, RefusedEnterIsFree, At
  <1> QED
    BY <1>1, <1>2, <1>3, PlayersAreSerialised, Invariance, PTL DEF Spec
-----------------------------------------------------------------------------
(* What a settle tells its client about the battle.                        *)

\* A settle that goes on to clean up has paid, and one that ends says so of its
\* battle.  Every other reply is about a battle that exists.
Answered(s) ==
  LET b == h[s].battle
      p == h[s].player
  IN
  h[s].op = "settle" =>
    /\ h[s].pc \notin EnterSteps
    /\ h[s].pc \in {"delete", "invalidate"} => Owner(b) = p /\ b \in settled
    /\ h[s].pc = "release" => AnswerTrue(h[s].code, p, b)

AnswerInv == \A s \in Servers : Answered(s)

\* A step of s that opens at most a battle of its own player leaves what the
\* other handlers answer true: they work for other players.
LEMMA OthersAnswered ==
  ASSUME IInv, MutualExclusion, AnswerInv, NEW s \in Servers,
         \A t \in Servers \ {s} : h'[t] = h[t],
         battles \subseteq battles', settled \subseteq settled',
         \A b \in battles' \ battles : h[s].pc \in LockedSteps /\ Owner(b) = h[s].player,
         Answered(s)'
  PROVE  AnswerInv'
  <1> SUFFICES ASSUME NEW t \in Servers \ {s} PROVE Answered(t)'
    BY DEF AnswerInv
  <1>1. Answered(t) /\ h'[t] = h[t]
    BY DEF AnswerInv
  <1>2. ASSUME h[t].pc = "release", Owner(h[t].battle) = h[t].player
        PROVE  h[t].battle \notin battles' \ battles
    BY <1>2 DEF MutualExclusion, Working, IInv, HandlerInv
  <1> QED
    BY <1>1, <1>2 DEF Answered, AnswerTrue

\* A handler that starts, ends or dies.
LEMMA SwitchAnswered ==
  ASSUME IInv, MutualExclusion, AnswerInv, NEW s \in Servers, NEW r \in Handler,
         h' = [h EXCEPT ![s] = r], UNCHANGED ledgerVars,
         r.pc \notin EnterSteps \union {"delete", "invalidate", "release"} \/ r.op # "settle"
  PROVE  AnswerInv'
  <1>1. h'[s] = r /\ \A t \in Servers \ {s} : h'[t] = h[t]
    BY DEF IInv, TypeOK
  <1>2. Answered(s)'
    BY <1>1 DEF Answered
  <1> QED
    BY <1>1, <1>2, OthersAnswered DEF ledgerVars

\* An enter answers no settle, and opens a battle of its own player.
LEMMA EnterAnswered ==
  ASSUME IInv, MutualExclusion, AnswerInv, NEW s \in Servers, Enter(s)
  PROVE  AnswerInv'
  <1>0. h \in [Servers -> Handler] /\ h[s] \in Handler
    BY DEF IInv, TypeOK
  <1>1. h[s].pc \in EnterSteps /\ h[s].op # "settle"
    BY DEF Enter, EnterLoad, EnterSelect, EnterUpdate, EnterCommit, SaveBegin, SaveEnd, At,
           AnswerInv, Answered
  <1>2. h'[s].op # "settle" /\ \A t \in Servers \ {s} : h'[t] = h[t]
    <2>1. ASSUME NEW pc \in LockedSteps, Goto(s, pc)
          PROVE  h'[s].op # "settle" /\ \A t \in Servers \ {s} : h'[t] = h[t]
      BY <1>0, <1>1, <2>1, GotoKeeps DEF Keeps
    <2>2. ASSUME NEW code \in Codes, Reject(s, code)
          PROVE  h'[s].op # "settle" /\ \A t \in Servers \ {s} : h'[t] = h[t]
      BY <1>0, <1>1, <2>2, RejectKeeps DEF Keeps
    <2>3. CASE EnterLoad(s)
      <3>1. CASE h' = [h EXCEPT ![s] = [@ EXCEPT !.pc = "select",
                         !.stamina = stamina[h[s].player],
                         !.battle = <<h[s].player, sequence[s]>>]]
        BY <1>0, <1>1, <3>1 DEF Handler
      <3> QED
        BY <2>2, <2>3, <3>1 DEF EnterLoad
    <2> QED
      BY <2>1, <2>2, <2>3 DEF Enter, EnterSelect, EnterUpdate, EnterCommit, SaveBegin, SaveEnd
  <1>3. /\ battles \subseteq battles' /\ settled' = settled
        /\ \A b \in battles' \ battles : Owner(b) = h[s].player
    <2>1. CASE UNCHANGED ledgerVars
      BY <2>1 DEF ledgerVars
    <2>2. CASE h[s].pc = "insert" /\ OpenBattle(h[s].player, h[s].battle)
      BY <2>2 DEF OpenBattle, IInv, HandlerInv
    <2> QED
      BY <2>1, <2>2 DEF Enter, EnterLoad, EnterSelect, EnterUpdate, EnterCommit, SaveBegin,
                        SaveEnd, At
  <1>4. Answered(s)'
    BY <1>2 DEF Answered
  <1> QED
    BY <1>1, <1>2, <1>3, <1>4, OthersAnswered

LEMMA SettleAnswered ==
  ASSUME "query" \notin Faults, IInv, MutualExclusion, TruthInv, AnswerInv,
         NEW s \in Servers, Settle(s)
  PROVE  AnswerInv'
  <1> DEFINE b == h[s].battle
             mine == Owner(b) = h[s].player
  <1>0. h \in [Servers -> Handler] /\ h[s] \in Handler /\ Answered(s)
    BY DEF IInv, TypeOK, AnswerInv
  <1>1. /\ battles' = battles /\ settled \subseteq settled'
        /\ h[s].pc \in SettleSteps
    BY DEF Settle, SettleFindCtx, SettleFindBattle, SettleFirstClear, SettleClaim,
           SettleCommit, SettleDelete, PayReward, ledgerVars, At
  <1>o. ASSUME \A t \in Servers \ {s} : h'[t] = h[t], Answered(s)'
        PROVE  AnswerInv'
    BY <1>1, <1>o, OthersAnswered
  <1>g. ASSUME NEW pc \in SettleSteps \union {"invalidate"}, Goto(s, pc),
               pc \in {"delete", "invalidate"} => mine /\ b \in settled'
        PROVE  AnswerInv'
    <2>1. /\ h'[s].pc = pc /\ h'[s].battle = b /\ h'[s].player = h[s].player
          /\ \A t \in Servers \ {s} : h'[t] = h[t]
      BY <1>0, <1>g, GotoKeeps DEF Keeps
    <2>2. Answered(s)'
      BY <1>g, <2>1 DEF Answered
    <2> QED
      BY <1>o, <2>1, <2>2
  <1>r. ASSUME NEW code \in Codes, Reject(s, code),
               AnswerTrue(code, h[s].player, b)
        PROVE  AnswerInv'
    <2>1. /\ h'[s].pc = "release" /\ h'[s].code = code
          /\ h'[s].battle = b /\ h'[s].player = h[s].player
          /\ \A t \in Servers \ {s} : h'[t] = h[t]
      BY <1>0, <1>r, RejectKeeps DEF Keeps
    <2>2. Answered(s)'
      BY <1>1, <1>r, <2>1 DEF Answered, AnswerTrue
    <2> QED
      BY <1>o, <2>1, <2>2
  <1> USE DEF AnswerTrue
  <1>2. CASE SettleFindCtx(s)
    <2>1. h[s].pc = "find_ctx" /\ b \in BattleId
      BY <1>2 DEF SettleFindCtx, At, IInv, HandlerInv
    <2>2. CASE ctx[b] = "full"
      <3>1. b \in battles
        BY <2>1, <2>2 DEF TruthInv
      <3> QED
        BY <1>2, <1>g, <1>r, <2>2, <3>1 DEF SettleFindCtx
    <2>3. CASE Die(s)
      BY <1>2, <2>3, IdleHandler, SwitchAnswered DEF Die, Idle, SettleFindCtx
    <2>4. CASE Goto(s, "find_db")
      BY <1>g, <2>4
    <2> QED
      BY <1>2, <2>2, <2>3, <2>4 DEF SettleFindCtx
  <1>3. CASE SettleFindBattle(s)
    BY <1>1, <1>3, <1>g, <1>r DEF SettleFindBattle, IInv, TypeOK
  <1>4. CASE SettleFirstClear(s)
    <2>1. PICK first \in BOOLEAN :
            h' = [h EXCEPT ![s] = [@ EXCEPT !.pc = "claim", !.first = first]]
      BY <1>4 DEF SettleFirstClear
    <2>2. h'[s].pc = "claim" /\ \A t \in Servers \ {s} : h'[t] = h[t]
      BY <1>0, <2>1 DEF Handler
    <2> QED
      BY <1>o, <2>2 DEF Answered
  <1>5. CASE SettleClaim(s)
    <2>1. mine /\ b \in battles
      BY <1>5 DEF SettleClaim, At, IInv, HandlerInv, TruthInv
    <2> QED
      BY <1>5, <1>g, <1>r, <2>1 DEF SettleClaim
  <1>6. CASE SettleCommit(s)
    <2>1. mine /\ b \in battles
      BY <1>6 DEF SettleCommit, At, IInv, HandlerInv
    <2>2. CASE PayReward(h[s].player, b, h[s].star, h[s].first) /\ Goto(s, "delete")
      BY <1>g, <2>1, <2>2 DEF PayReward
    <2>3. CASE Reject(s, "STORAGE_ERROR")
      BY <1>r, <2>1, <2>3
    <2> QED
      BY <1>6, <2>2, <2>3 DEF SettleCommit
  <1>7. CASE SettleDelete(s)
    <2>1. h[s].op = "settle" => mine /\ b \in settled
      BY <1>0, <1>7 DEF SettleDelete, At, Answered
    <2>2. /\ h'[s].pc = "invalidate" /\ h'[s].battle = b /\ h'[s].player = h[s].player
          /\ h'[s].op = h[s].op /\ \A t \in Servers \ {s} : h'[t] = h[t]
      BY <1>0, <1>7, GotoKeeps DEF SettleDelete, Keeps
    <2>3. Answered(s)'
      BY <1>1, <2>1, <2>2 DEF Answered
    <2> QED
      BY <1>o, <2>2, <2>3
  <1> QED
    BY <1>2, <1>3, <1>4, <1>5, <1>6, <1>7 DEF Settle

LEMMA NextAnswered ==
  ASSUME "query" \notin Faults, IInv, MutualExclusion, TruthInv, AnswerInv, [Next]_vars
  PROVE  AnswerInv'
  <1>0. h \in [Servers -> Handler]
    BY DEF IInv, TypeOK
  <1>d. Idle \in Handler /\ Idle.op = "none"
    BY IdleHandler DEF Idle
  <1>1. ASSUME UNCHANGED <<h, ledgerVars>> PROVE AnswerInv'
    BY <1>1 DEF AnswerInv, Answered, AnswerTrue, ledgerVars
  <1>2. ASSUME NEW s \in Servers, Request(s) PROVE AnswerInv'
    <2>1. PICK p \in Players :
            \/ EnterAcquire(s, p)
            \/ AcquireReplyLost(s, p)
            \/ \E b \in BattleId, star \in 1..MaxStar : SettleAcquire(s, p, b, star)
      BY <1>2 DEF Request
    <2>2. CASE EnterAcquire(s, p)
      <3> DEFINE r == [Idle EXCEPT !.op = "enter", !.pc = "load", !.player = p]
      <3>1. r \in Handler /\ r.op # "settle"
        BY <1>d DEF Handler
      <3>2. h' = [h EXCEPT ![s] = r] /\ UNCHANGED ledgerVars
        BY <2>2 DEF EnterAcquire
      <3> HIDE DEF r
      <3> QED
        BY <3>1, <3>2, SwitchAnswered
    <2>3. CASE AcquireReplyLost(s, p)
      BY <1>1, <2>3 DEF AcquireReplyLost
    <2>4. ASSUME NEW b \in BattleId, NEW star \in 1..MaxStar, SettleAcquire(s, p, b, star)
          PROVE  AnswerInv'
      <3> DEFINE r == [Idle EXCEPT !.op = "settle", !.pc = "find_ctx",
                                   !.player = p, !.battle = b, !.star = star]
      <3>1. star \in 0..MaxStar
        BY NumbersAssumption
      <3>2. r \in Handler /\ r.pc = "find_ctx"
        BY <1>d, <3>1 DEF Handler
      <3>3. h' = [h EXCEPT ![s] = r] /\ UNCHANGED ledgerVars
        BY <2>4 DEF SettleAcquire
      <3> HIDE DEF r
      <3> QED
        BY <3>2, <3>3, SwitchAnswered
    <2> QED
      BY <2>1, <2>2, <2>3, <2>4
  <1>3. ASSUME NEW s \in Servers, Invalidate(s) PROVE AnswerInv'
    <2>1. /\ h[s].pc = "invalidate" /\ Goto(s, "release") /\ UNCHANGED ledgerVars
          /\ Answered(s) /\ h[s].code = "OK"
      BY <1>3 DEF Invalidate, At, AnswerInv, TruthInv
    <2>2. /\ Keeps(s) /\ h'[s].pc = "release" /\ h'[s].code = "OK"
          /\ h'[s].battle = h[s].battle
      BY <1>0, <2>1, GotoKeeps
    <2>3. Answered(s)'
      BY <2>1, <2>2 DEF Answered, AnswerTrue, Keeps, ledgerVars, IInv, TypeOK
    <2> QED
      BY <2>1, <2>2, <2>3, OthersAnswered DEF Keeps, ledgerVars
  <1>4. ASSUME NEW s \in Servers, Release(s) \/ Crash(s) PROVE AnswerInv'
    BY <1>d, <1>4, SwitchAnswered DEF Release, Crash, Die
  <1>5. ASSUME NEW p \in Players, LockExpire(p) \/ CacheFill(p) PROVE AnswerInv'
    BY <1>1, <1>5 DEF LockExpire, CacheFill
  <1>6. ASSUME NEW b \in BattleId, CtxExpire(b) PROVE AnswerInv'
    BY <1>1, <1>6 DEF CtxExpire
  <1> QED
    BY <1>1, <1>2, <1>3, <1>4, <1>5, <1>6, EnterAnswered, SettleAnswered
    DEF Next, HandlerStep, Environment, vars

\* While no lock outlives its handler and no SELECT fails, what a settle answers
\* is true of its battle, whatever else fails and whoever crashes: a battle that
\* is not found was not opened, and only a settled one is answered OK.
THEOREM SettleRepliesAreTrue ==
  ASSUME "slow" \notin Faults, "query" \notin Faults
  PROVE  Spec => []SettleReplyTrue
  <1>1. Init => AnswerInv
    BY DEF Init, AnswerInv, Answered, Idle
  <1>2. /\ IInv /\ MutualExclusion /\ TruthInv /\ AnswerInv /\ [Next]_vars
        => AnswerInv'
    BY NextAnswered
  <1>3. IInv /\ TruthInv /\ AnswerInv => SettleReplyTrue
    BY DEF TruthInv, AnswerInv, Answered, SettleReplyTrue, AnswerTrue, IInv, TypeOK
  <1> QED
    BY <1>1, <1>2, <1>3, PlayersAreSerialised, Invariance, TruthAlways, PTL DEF Spec
=============================================================================
