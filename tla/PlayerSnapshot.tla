---------------------------- MODULE PlayerSnapshot ----------------------------
(***************************************************************************)
(* The Redis hash player:snapshot of one player: filled by PlayerService:: *)
(* LoadPlayer (game_server, tools/demo_flow), deleted by DungeonService    *)
(* after each write of the player's rows.  Loads take no lock, and HSet    *)
(* writes the hash field by field, in the order of an unordered_map.       *)
(*                                                                         *)
(* Loads refused for their session change nothing and are stuttering steps.*)
(***************************************************************************)
EXTENDS Integers

CONSTANTS
  Readers,     \* processes that run LoadPlayer
  Writers,     \* processes that run the dungeon flow
  MaxWrites,   \* bound: enters, and settles, of the player
  Faults       \* "crash"; "redis", "query": a call fails; "slow": the player lock expires

ASSUME MaxWritesAssumption == MaxWrites \in Nat
ASSUME FaultsAssumption == Faults \subseteq {"crash", "redis", "query", "slow"}

VARIABLES
  db,        \* the player's columns, as the number of the last write of each
  writing,   \* dungeon handlers between their COMMIT and their Invalidate
  snap,      \* the fields of the hash
  ttl,       \* whether the hash has an expiry
  r,         \* the load each reader is in
  assets,    \* the rows player_asset has had
  floor      \* the writes every later load has to show, see Invalidate

vars == <<db, writing, snap, ttl, r, assets, floor>>

\* An enter writes stamina; a settle gold (and diamond) and dungeon progress.
Fields == {"stamina", "gold", "progress"}
Version == 0..MaxWrites
Missing == -1
NoHash == [f \in Fields |-> Missing]
AssetRow(state) == <<state["stamina"], state["gold"]>>

Steps == {"profile", "progress", "save", "answer"}
Load == [pc : Steps \union {"idle", "dead"},
         copy : [Fields -> Version \union {Missing}], left : SUBSET Fields]
Idle == [pc |-> "idle", copy |-> NoHash, left |-> {}]

TypeOK ==
  /\ db \in [Fields -> Version]
  /\ writing \subseteq Writers
  /\ snap \in [Fields -> Version \union {Missing}]
  /\ ttl \in {"none", "set"} /\ (ttl = "set" => snap # NoHash)
  /\ r \in [Readers -> Load]
  /\ assets \subseteq Version \X Version
  /\ floor \in [Fields -> Version]

Init ==
  /\ db = [f \in Fields |-> 0]
  /\ writing = {}
  /\ snap = NoHash
  /\ ttl = "none"
  /\ r = [p \in Readers |-> Idle]
  /\ assets = {<<0, 0>>}
  /\ floor = [f \in Fields |-> 0]

Whole(state) == \A f \in Fields : state[f] # Missing
-----------------------------------------------------------------------------
(* LoadPlayer                                                              *)

At(p, pc) == r[p].pc = pc
readerVars == <<snap, ttl, r>>
writerVars == <<db, writing, assets, floor>>

\* FindByPlayerId: HGETALL, a failed call being a miss; a field the hash lacks
\* makes at() throw, and the process ends.
Find(p) ==
  /\ At(p, "idle")
  /\ \/ /\ snap = NoHash \/ "redis" \in Faults
        /\ r' = [r EXCEPT ![p].pc = "profile"]
     \/ Whole(snap) /\ r' = [r EXCEPT ![p] = [@ EXCEPT !.pc = "answer", !.copy = snap]]
     \/ snap # NoHash /\ ~Whole(snap) /\ r' = [r EXCEPT ![p].pc = "dead"]
  /\ UNCHANGED <<writerVars, snap, ttl>>

\* The SELECT over player and player_asset; a failed one is "player not found".
SelectProfile(p) ==
  /\ At(p, "profile")
  /\ \/ r' = [r EXCEPT ![p] =
                [@ EXCEPT !.pc = "progress",
                          !.copy = [db EXCEPT !["progress"] = Missing]]]
     \/ "query" \in Faults /\ r' = [r EXCEPT ![p] = Idle]
  /\ UNCHANGED <<writerVars, snap, ttl>>

Progress(p, version) ==
  r' = [r EXCEPT ![p] =
          [@ EXCEPT !.pc = "save", !.left = Fields,
                    !.copy = [r[p].copy EXCEPT !["progress"] = version]]]
\* Mutated form: the rows are not taken over.
SelectProgressEmpty(p) ==
  /\ At(p, "progress")
  /\ Progress(p, 0)
  /\ UNCHANGED <<writerVars, snap, ttl>>
\* Mutated form: the profile is read with it, but for the gold read before.
SelectProgressAgain(p) ==
  /\ At(p, "progress")
  /\ r' = [r EXCEPT ![p] = [@ EXCEPT !.pc = "save", !.left = Fields,
                                     !.copy = [db EXCEPT !["gold"] = r[p].copy["gold"]]]]
  /\ UNCHANGED <<writerVars, snap, ttl>>
\* The SELECT over player_dungeon; a failed one gives no rows.
SelectProgress(p) ==
  /\ At(p, "progress")
  /\ Progress(p, db["progress"]) \/ ("query" \in Faults /\ Progress(p, 0))
  /\ UNCHANGED <<writerVars, snap, ttl>>

\* One HSET of Save; a failed one ends Save, whose result is not looked at.
SaveField(p) ==
  /\ At(p, "save")
  /\ \E f \in r[p].left :
       LET written == snap' = [snap EXCEPT ![f] = r[p].copy[f]] IN
       \/ written /\ r' = [r EXCEPT ![p].left = @ \ {f}]
       \/ "redis" \in Faults /\ (written \/ snap' = snap)
          /\ r' = [r EXCEPT ![p] = [@ EXCEPT !.pc = "answer", !.left = {}]]
  /\ UNCHANGED <<writerVars, ttl>>

\* Mutated forms: EXPIRE is left out; EXPIRE counts for a key that is gone.
ExpireNever(p) ==
  /\ At(p, "save") /\ r[p].left = {}
  /\ r' = [r EXCEPT ![p].pc = "answer"]
  /\ UNCHANGED <<writerVars, snap, ttl>>
\* The EXPIRE of Save, which does nothing to a key that is gone.
Expire(p) ==
  /\ At(p, "save") /\ r[p].left = {}
  /\ \/ ttl' = IF snap = NoHash THEN "none" ELSE "set"
     \/ "redis" \in Faults /\ ttl' = ttl
  /\ r' = [r EXCEPT ![p].pc = "answer"]
  /\ UNCHANGED <<writerVars, snap>>

Answer(p) ==
  /\ At(p, "answer")
  /\ r' = [r EXCEPT ![p] = Idle]
  /\ UNCHANGED <<writerVars, snap, ttl>>
-----------------------------------------------------------------------------
(* The dungeon flow                                                        *)

Write(w, fields) ==
  /\ w \notin writing
  /\ writing = {} \/ "slow" \in Faults
  /\ \A f \in fields : db[f] < MaxWrites
  /\ db' = [f \in Fields |-> IF f \in fields THEN db[f] + 1 ELSE db[f]]
  /\ assets' = assets \union {AssetRow(db')}
  /\ writing' = writing \union {w}
  /\ UNCHANGED <<readerVars, floor>>
CommitEnter(w) == Write(w, {"stamina"})
CommitSettle(w) == Write(w, {"gold", "progress"})

\* No load has read rows it has still to save.
Quiet == \A p \in Readers : r[p].pc \notin {"progress", "save"}

\* Mutated form: a key that does not exist is deleted.
InvalidateOther(w) ==
  /\ w \in writing
  /\ writing' = writing \ {w}
  /\ floor' = IF Quiet THEN db ELSE floor
  /\ UNCHANGED <<readerVars, db, assets>>
\* The DEL that ends a write, or its failure.
Invalidate(w) ==
  /\ w \in writing
  /\ writing' = writing \ {w}
  /\ \/ /\ snap' = NoHash
        /\ ttl' = "none"
        /\ floor' = IF Quiet THEN db ELSE floor
     \/ "redis" \in Faults /\ UNCHANGED <<snap, ttl, floor>>
  /\ UNCHANGED <<r, db, assets>>
-----------------------------------------------------------------------------
(* The environment                                                         *)

ReaderCrash(p) ==
  /\ At(p, "dead") \/ "crash" \in Faults
  /\ r' = [r EXCEPT ![p] = Idle]
  /\ UNCHANGED <<writerVars, snap, ttl>>

WriterCrash(w) ==
  /\ "crash" \in Faults
  /\ w \in writing
  /\ writing' = writing \ {w}
  /\ UNCHANGED <<readerVars, db, assets, floor>>

SnapExpire ==
  /\ ttl = "set"
  /\ snap' = NoHash
  /\ ttl' = "none"
  /\ UNCHANGED <<writerVars, r>>

LoadStep(p) == SelectProfile(p) \/ SelectProgress(p) \/ SaveField(p) \/ Expire(p)
               \/ Answer(p)

Next ==
  \/ \E p \in Readers : Find(p) \/ LoadStep(p) \/ ReaderCrash(p)
  \/ \E w \in Writers : CommitEnter(w) \/ CommitSettle(w) \/ Invalidate(w) \/ WriterCrash(w)
  \/ SnapExpire

Spec == Init /\ [][Next]_vars

\* A handler that was called runs on; Redis expires keys.
FairSpec == Spec /\ (\A p \in Readers : WF_vars(LoadStep(p))) /\ WF_vars(SnapExpire)
-----------------------------------------------------------------------------
(* Properties                                                              *)

\* The stamina, gold and diamond of an answer are those of a row player_asset
\* has had, never a mixture of two.
AnswerWasReal == \A p \in Readers : At(p, "answer") => AssetRow(r[p].copy) \in assets

\* proposal.md: a player is restored from MySQL.  Who sees a settle's gold sees
\* the dungeon progress the same transaction wrote.
PaidProgressShown ==
  \A p \in Readers : At(p, "answer") => r[p].copy["progress"] >= r[p].copy["gold"]

\* A failed SELECT of the progress is taken for a player without any.
Reliable(f) == f = "progress" => "query" \notin Faults

\* Loads after a write show it, unless a load that read before the DEL was
\* still running then: the hash is never older than the last other write.
WritesSeen ==
  \A f \in Fields : snap[f] # Missing /\ Reliable(f) => snap[f] >= floor[f]

\* spec.md: MySQL prevails in the end: no field of the hash stays stale.
StaleEnds ==
  \A f \in Fields, v \in Version : (snap[f] = v /\ v < db[f]) ~> snap[f] # v

\* README: a load is served from the hash or else from MySQL; no load ends
\* its process.
NoLoadDies == \A p \in Readers : ~At(p, "dead")
=============================================================================
