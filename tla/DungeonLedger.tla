---------------------------- MODULE DungeonLedger ----------------------------
(***************************************************************************)
(* What the dungeon flow promises about the durable state, whatever number *)
(* of server processes, locks and caches stand between the client and      *)
(* MySQL: entering charges stamina and opens one battle, settling closes   *)
(* it and pays gold once, and the diamond reward is paid on the first      *)
(* clear only.  DungeonService is shown to implement this module.          *)
(***************************************************************************)
EXTENDS Integers

CONSTANTS Players, MaxSeq, MaxStar, Cost, Gold, Diamond, InitStamina

VARIABLES
  stamina, gold, diamond,   \* player_asset
  bestStar,                 \* player_dungeon.best_star, 0 when there is no row
  battles,                  \* the battle ids of dungeon_battle
  settled                   \* those with status = 1

ledgerVars == <<stamina, gold, diamond, bestStar, battles, settled>>

\* "battle-<player>-<dungeon>-<sequence>" for the single configured dungeon.
BattleId == Players \X (1..MaxSeq)
Owner(b) == b[1]

OpenBattles(p) == {b \in battles \ settled : Owner(b) = p}

Init ==
  /\ stamina = [p \in Players |-> InitStamina]
  /\ gold = [p \in Players |-> 0]
  /\ diamond = [p \in Players |-> 0]
  /\ bestStar = [p \in Players |-> 0]
  /\ battles = {}
  /\ settled = {}

\* A player with no open battle pays for a battle under an id never used.
Enter(b) ==
  LET p == Owner(b) IN
  /\ b \notin battles
  /\ OpenBattles(p) = {}
  /\ stamina[p] >= Cost
  /\ stamina' = [stamina EXCEPT ![p] = @ - Cost]
  /\ battles' = battles \union {b}
  /\ UNCHANGED <<gold, diamond, bestStar, settled>>

\* The open battle is closed with a star and rewarded.
Settle(b, star) ==
  LET p == Owner(b) IN
  /\ b \in battles \ settled
  /\ settled' = settled \union {b}
  /\ gold' = [gold EXCEPT ![p] = @ + Gold]
  /\ diamond' = [diamond EXCEPT ![p] = IF bestStar[p] = 0 THEN @ + Diamond ELSE @]
  /\ bestStar' = [bestStar EXCEPT ![p] = IF star > @ THEN star ELSE @]
  /\ UNCHANGED <<stamina, battles>>

Next == \E b \in BattleId : Enter(b) \/ \E star \in 1..MaxStar : Settle(b, star)

Spec == Init /\ [][Next]_ledgerVars
=============================================================================
