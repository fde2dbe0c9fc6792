------------------------- MODULE PlayerSnapshotProofs -------------------------
(***************************************************************************)
(* What the player snapshot guarantees, for every number of processes and  *)
(* writes.                                                                 *)
(***************************************************************************)
EXTENDS PlayerSnapshot, TLAPS

\* What a load has read: the row of player_asset, then every field.
CopyInv ==
  \A p \in Readers :
    /\ At(p, "progress") => r[p].copy["stamina"] \in Version /\ r[p].copy["gold"] \in Version
    /\ At(p, "save") => r[p].copy \in [Fields -> Version]

TInv == TypeOK /\ CopyInv

LEMMA VersionFact == Missing \notin Version /\ Version \subseteq Nat /\ 0 \in Version
  BY MaxWritesAssumption DEF Missing, Version

LEMMA NoHashFact == NoHash \in [Fields -> Version \union {Missing}] /\ ~Whole(NoHash)
  BY DEF NoHash, Whole, Fields

LEMMA IdleFact == Idle \in Load /\ Idle.pc = "idle"
  BY NoHashFact DEF Idle, Load

\* A step that only moves a load's program counter.
LEMMA PcFact ==
  ASSUME r \in [Readers -> Load], NEW p \in Readers, NEW pc \in Steps \union {"dead"},
         r' = [r EXCEPT ![p].pc = pc]
  PROVE  /\ r' \in [Readers -> Load]
         /\ r'[p].pc = pc /\ r'[p].copy = r[p].copy /\ r'[p].left = r[p].left
         /\ \A q \in Readers \ {p} : r'[q] = r[q]
  BY DEF Load

LEMMA IdleStep ==
  ASSUME r \in [Readers -> Load], NEW p \in Readers, r' = [r EXCEPT ![p] = Idle]
  PROVE  /\ r' \in [Readers -> Load]
         /\ r'[p].pc = "idle"
         /\ \A q \in Readers \ {p} : r'[q] = r[q]
  BY IdleFact

\* Find, seen from the load and the hash it found.
LEMMA FindFact ==
  ASSUME TypeOK, NEW p \in Readers, Find(p)
  PROVE  /\ r' \in [Readers -> Load]
         /\ \A q \in Readers \ {p} : r'[q] = r[q]
         /\ \/ r'[p].pc = "profile" /\ (snap = NoHash \/ "redis" \in Faults)
            \/ r'[p].pc = "answer" /\ r'[p].copy = snap /\ Whole(snap)
            \/ r'[p].pc = "dead"
  <1>1. r[p] \in Load
    BY DEF TypeOK
  <1>2. CASE (snap = NoHash \/ "redis" \in Faults) /\ r' = [r EXCEPT ![p].pc = "profile"]
    BY <1>2, PcFact DEF TypeOK, Steps
  <1>3. CASE Whole(snap) /\ r' = [r EXCEPT ![p] = [@ EXCEPT !.pc = "answer", !.copy = snap]]
    <2>1. [r[p] EXCEPT !.pc = "answer", !.copy = snap] \in Load
      BY <1>1 DEF Load, TypeOK, Steps
    <2>2. [r[p] EXCEPT !.pc = "answer", !.copy = snap].pc = "answer"
          /\ [r[p] EXCEPT !.pc = "answer", !.copy = snap].copy = snap
      BY <1>1 DEF Load
    <2> QED
      BY <1>3, <2>1, <2>2, Zenon DEF TypeOK
  <1>4. CASE r' = [r EXCEPT ![p].pc = "dead"]
    BY <1>4, PcFact DEF TypeOK
  <1> QED
    BY <1>2, <1>3, <1>4 DEF Find

\* The profile SELECT reads one row; its failure ends the load.
LEMMA SelectProfileFact ==
  ASSUME TypeOK, NEW p \in Readers, SelectProfile(p)
  PROVE  /\ r' \in [Readers -> Load]
         /\ \A q \in Readers \ {p} : r'[q] = r[q]
         /\ \/ /\ r'[p].pc = "progress"
               /\ r'[p].copy["stamina"] = db["stamina"] /\ r'[p].copy["gold"] = db["gold"]
            \/ r'[p].pc = "idle"
  <1> DEFINE row == [db EXCEPT !["progress"] = Missing]
             load == [r[p] EXCEPT !.pc = "progress", !.copy = row]
  <1>1. r[p] \in Load /\ row \in [Fields -> Version \union {Missing}]
    BY DEF TypeOK
  <1>2. row["stamina"] = db["stamina"] /\ row["gold"] = db["gold"]
    BY DEF TypeOK, Fields
  <1>3. load \in Load /\ load.pc = "progress" /\ load.copy = row
    BY <1>1 DEF Load, Steps
  <1>4. CASE r' = [r EXCEPT ![p] = load]
    BY <1>2, <1>3, <1>4, Zenon DEF TypeOK
  <1>5. CASE r' = [r EXCEPT ![p] = Idle]
    BY <1>5, IdleStep DEF TypeOK
  <1> QED
    BY <1>4, <1>5 DEF SelectProfile

\* The progress SELECT completes the copy.
LEMMA ProgressFact ==
  ASSUME TypeOK, NEW p \in Readers, NEW v \in Version, Progress(p, v)
  PROVE  /\ r' \in [Readers -> Load]
         /\ r'[p].pc = "save"
         /\ \A q \in Readers \ {p} : r'[q] = r[q]
         /\ r'[p].copy \in [Fields -> Version \union {Missing}]
         /\ r'[p].copy["stamina"] = r[p].copy["stamina"]
         /\ r'[p].copy["gold"] = r[p].copy["gold"]
         /\ r'[p].copy["progress"] = v
  <1> DEFINE copy == [r[p].copy EXCEPT !["progress"] = v]
             load == [r[p] EXCEPT !.pc = "save", !.left = Fields, !.copy = copy]
  <1>1. r[p] \in Load
    BY DEF TypeOK
  <1>2. copy \in [Fields -> Version \union {Missing}]
    BY <1>1 DEF Load
  <1>3. /\ copy["stamina"] = r[p].copy["stamina"] /\ copy["gold"] = r[p].copy["gold"]
        /\ copy["progress"] = v
    BY <1>1 DEF Load, Fields
  <1>4. load \in Load /\ load.pc = "save" /\ load.copy = copy
    BY <1>1, <1>2 DEF Load, Steps
  <1>5. r' = [r EXCEPT ![p] = load]
    BY DEF Progress
  <1> QED
    BY <1>2, <1>3, <1>4, <1>5, Zenon DEF TypeOK

\* One HSET: the field has the copy's value, or the failed call changed nothing.
LEMMA SaveFieldFact ==
  ASSUME TypeOK, NEW p \in Readers, SaveField(p)
  PROVE  /\ r' \in [Readers -> Load]
         /\ r'[p].copy = r[p].copy
         /\ r'[p].pc \in {"save", "answer"}
         /\ \A q \in Readers \ {p} : r'[q] = r[q]
         /\ snap' = snap \/ \E f \in Fields : snap' = [snap EXCEPT ![f] = r[p].copy[f]]
  <1>1. r[p] \in Load /\ At(p, "save")
    BY DEF TypeOK, SaveField
  <1>2. PICK f \in r[p].left :
          \/ /\ snap' = [snap EXCEPT ![f] = r[p].copy[f]]
             /\ r' = [r EXCEPT ![p].left = @ \ {f}]
          \/ /\ snap' = [snap EXCEPT ![f] = r[p].copy[f]] \/ snap' = snap
             /\ r' = [r EXCEPT ![p] = [@ EXCEPT !.pc = "answer", !.left = {}]]
    BY DEF SaveField
  <1>3. f \in Fields
    BY <1>1, <1>2 DEF Load
  <1>4. CASE r' = [r EXCEPT ![p].left = @ \ {f}]
    BY <1>1, <1>2, <1>3, <1>4 DEF TypeOK, Load, At
  <1>5. CASE r' = [r EXCEPT ![p] = [@ EXCEPT !.pc = "answer", !.left = {}]]
    <2> DEFINE load == [r[p] EXCEPT !.pc = "answer", !.left = {}]
    <2>1. load \in Load /\ load.pc = "answer" /\ load.copy = r[p].copy
      BY <1>1 DEF Load, Steps
    <2>2. r' = [r EXCEPT ![p] = load]
      BY <1>5
    <2>3. /\ r' \in [Readers -> Load] /\ r'[p] = load
          /\ \A q \in Readers \ {p} : r'[q] = r[q]
      BY <2>1, <2>2, Zenon DEF TypeOK
    <2> QED
      BY <1>2, <1>3, <2>1, <2>3, Zenon
  <1> QED
    BY <1>2, <1>4, <1>5

\* A write adds one to what it writes.
LEMMA WriteFact ==
  ASSUME TypeOK, NEW w \in Writers, NEW fields \in SUBSET Fields, Write(w, fields)
  PROVE  /\ db' \in [Fields -> Version] /\ assets' \subseteq Version \X Version
         /\ \A f \in Fields : db'[f] >= db[f]
         /\ \A f \in fields : db'[f] = db[f] + 1
         /\ \A f \in Fields \ fields : db'[f] = db[f]
         /\ AssetRow(db') \in assets' /\ assets \subseteq assets'
         /\ UNCHANGED <<snap, ttl, r, floor>>
         /\ writing' \subseteq Writers
  <1>1. /\ db' = [f \in Fields |-> IF f \in fields THEN db[f] + 1 ELSE db[f]]
        /\ assets' = assets \union {AssetRow(db')}
        /\ \A f \in fields : db[f] < MaxWrites
        /\ writing' = writing \union {w} /\ UNCHANGED <<snap, ttl, r, floor>>
    BY DEF Write, readerVars
  <1>2. \A f \in Fields : db[f] \in 0..MaxWrites
    BY DEF TypeOK, Version
  <1>3. db' \in [Fields -> Version]
    BY <1>1, <1>2, MaxWritesAssumption DEF Version
  <1>4. AssetRow(db') \in Version \X Version
    BY <1>3 DEF AssetRow, Fields
  <1> QED
    BY <1>1, <1>2, <1>3, <1>4, MaxWritesAssumption DEF TypeOK
-----------------------------------------------------------------------------
LEMMA InitTInv == Init => TInv
  BY VersionFact, NoHashFact, IdleFact DEF Init, TInv, TypeOK, CopyInv, At

LEMMA NextTInv == TInv /\ [Next]_vars => TInv'
  <1> SUFFICES ASSUME TInv, [Next]_vars PROVE TInv'
    OBVIOUS
  <1> USE DEF TInv, CopyInv, At
  <1>0. TypeOK /\ CopyInv
    OBVIOUS
  <1>1. ASSUME NEW p \in Readers, r' \in [Readers -> Load],
               \A q \in Readers \ {p} : r'[q] = r[q],
               /\ At(p, "progress")' => /\ r'[p].copy["stamina"] \in Version
                                        /\ r'[p].copy["gold"] \in Version
               /\ At(p, "save")' => r'[p].copy \in [Fields -> Version],
               UNCHANGED <<db, writing, snap, ttl, assets, floor>>
        PROVE  TInv'
    BY <1>0, <1>1 DEF TypeOK
  <1>2. ASSUME NEW p \in Readers, Find(p) PROVE TInv'
    BY <1>0, <1>1, <1>2, FindFact DEF Find, writerVars
  <1>3. ASSUME NEW p \in Readers, SelectProfile(p) PROVE TInv'
    <2>1. db["stamina"] \in Version /\ db["gold"] \in Version
      BY <1>0 DEF TypeOK, Fields
    <2>2. UNCHANGED <<db, writing, snap, ttl, assets, floor>>
      BY <1>3 DEF SelectProfile, writerVars
    <2> QED
      BY <1>0, <1>1, <1>3, <2>1, <2>2, SelectProfileFact
  <1>4. ASSUME NEW p \in Readers, SelectProgress(p) PROVE TInv'
    <2>1. PICK v \in Version : Progress(p, v)
      BY <1>0, <1>4, VersionFact DEF SelectProgress, TypeOK, Fields
    <2>2. r'[p].copy \in [Fields -> Version]
      <3>1. r[p].copy["stamina"] \in Version /\ r[p].copy["gold"] \in Version
        BY <1>0, <1>4 DEF SelectProgress
      <3> QED
        BY <1>0, <2>1, <3>1, ProgressFact DEF Fields
    <2>3. UNCHANGED <<db, writing, snap, ttl, assets, floor>>
      BY <1>4 DEF SelectProgress, writerVars
    <2> QED
      BY <1>0, <1>1, <2>1, <2>2, <2>3, ProgressFact
  <1>5. ASSUME NEW p \in Readers, SaveField(p) PROVE TInv'
    <2>1. UNCHANGED <<db, writing, ttl, assets, floor>> /\ r[p].copy \in [Fields -> Version]
      BY <1>0, <1>5 DEF SaveField, writerVars
    <2>2. snap' \in [Fields -> Version \union {Missing}] /\ (ttl = "set" => snap' # NoHash)
      <3>1. CASE snap' = snap
        BY <1>0, <3>1 DEF TypeOK
      <3>2. ASSUME NEW f \in Fields, snap' = [snap EXCEPT ![f] = r[p].copy[f]]
            PROVE  snap' \in [Fields -> Version \union {Missing}] /\ snap' # NoHash
        BY <1>0, <2>1, <3>2, VersionFact DEF TypeOK, NoHash
      <3> QED
        BY <1>0, <1>5, <3>1, <3>2, SaveFieldFact
    <2> QED
      BY <1>0, <1>5, <2>1, <2>2, SaveFieldFact DEF TypeOK
  <1>6. ASSUME NEW p \in Readers, Expire(p) PROVE TInv'
    <2>1. /\ r' = [r EXCEPT ![p].pc = "answer"] /\ UNCHANGED <<db, writing, snap, assets, floor>>
          /\ ttl' \in {"none", "set"} /\ (ttl' = "set" => snap # NoHash)
      BY <1>0, <1>6 DEF Expire, writerVars, TypeOK
    <2>2. /\ r' \in [Readers -> Load] /\ r'[p].pc = "answer"
          /\ \A q \in Readers \ {p} : r'[q] = r[q]
      BY <1>0, <2>1, PcFact DEF TypeOK, Steps
    <2> QED
      BY <1>0, <2>1, <2>2 DEF TypeOK
  <1>7. ASSUME NEW p \in Readers, Answer(p) \/ ReaderCrash(p) PROVE TInv'
    BY <1>0, <1>1, <1>7, IdleStep DEF Answer, ReaderCrash, writerVars, TypeOK
  <1>8. ASSUME NEW w \in Writers, CommitEnter(w) \/ CommitSettle(w) PROVE TInv'
    <2>1. PICK fields \in SUBSET Fields : Write(w, fields)
      BY <1>8 DEF CommitEnter, CommitSettle, Fields
    <2> QED
      BY <1>0, <2>1, WriteFact DEF TypeOK
  <1>9. ASSUME NEW w \in Writers, Invalidate(w) PROVE TInv'
    <2>1. /\ UNCHANGED <<r, db, assets>> /\ writing' \subseteq Writers
          /\ \/ snap' = NoHash /\ ttl' = "none" /\ floor' \in {db, floor}
             \/ UNCHANGED <<snap, ttl, floor>>
      BY <1>0, <1>9 DEF Invalidate, TypeOK
    <2>2. /\ floor' \in [Fields -> Version]
          /\ snap' \in [Fields -> Version \union {Missing}]
      BY <1>0, <2>1, NoHashFact DEF TypeOK
    <2> QED
      BY <1>0, <2>1, <2>2 DEF TypeOK
  <1>10. ASSUME NEW w \in Writers, WriterCrash(w) PROVE TInv'
    BY <1>0, <1>10 DEF WriterCrash, readerVars, TypeOK
  <1>11. CASE SnapExpire
    BY <1>0, <1>11, NoHashFact DEF SnapExpire, writerVars, TypeOK
  <1>12. CASE UNCHANGED vars
    BY <1>0, <1>12 DEF vars, TypeOK
  <1> QED
    BY <1>2, <1>3, <1>4, <1>5, <1>6, <1>7, <1>8, <1>9, <1>10, <1>11, <1>12
       DEF Next, LoadStep

\* Every variable keeps its type, and a hash with an expiry exists.
THEOREM TypeCorrect == Spec => []TypeOK
<1>1. TInv => TypeOK
  BY DEF TInv
<1> QED
  BY <1>1, InitTInv, NextTInv, PTL DEF Spec
-----------------------------------------------------------------------------
(* A write that no load overlaps is seen by every later load.              *)

FloorInv ==
  /\ \A f \in Fields : db[f] >= floor[f]
  /\ WritesSeen
  /\ \A p \in Readers :
       /\ At(p, "progress") => \A f \in {"stamina", "gold"} : r[p].copy[f] >= floor[f]
       /\ At(p, "save") => \A f \in Fields : Reliable(f) => r[p].copy[f] >= floor[f]

LEMMA InitFloorInv == Init => FloorInv
  BY IdleFact DEF Init, FloorInv, WritesSeen, NoHash, At

LEMMA NextFloorInv ==
  ASSUME TInv, FloorInv, [Next]_vars
  PROVE  FloorInv'
  <1> USE DEF FloorInv, WritesSeen, At
  <1>0. TypeOK /\ CopyInv
    BY DEF TInv
  <1>1. ASSUME NEW p \in Readers, \A q \in Readers \ {p} : r'[q] = r[q],
               At(p, "progress")' => \A f \in {"stamina", "gold"} : r'[p].copy[f] >= floor[f],
               At(p, "save")' => \A f \in Fields : Reliable(f) => r'[p].copy[f] >= floor[f],
               UNCHANGED <<db, snap, floor>>
        PROVE  FloorInv'
    BY <1>1
  <1>2. ASSUME NEW p \in Readers, Find(p) PROVE FloorInv'
    BY <1>0, <1>1, <1>2, FindFact DEF Find, writerVars
  <1>3. ASSUME NEW p \in Readers, SelectProfile(p) PROVE FloorInv'
    <2>1. db["stamina"] >= floor["stamina"] /\ db["gold"] >= floor["gold"]
      BY DEF Fields
    <2>2. UNCHANGED <<db, snap, floor>>
      BY <1>3 DEF SelectProfile, writerVars
    <2> QED
      BY <1>0, <1>1, <1>3, <2>1, <2>2, SelectProfileFact
  <1>4. ASSUME NEW p \in Readers, SelectProgress(p) PROVE FloorInv'
    <2>1. PICK v \in Version : /\ Progress(p, v)
                               /\ v = db["progress"] \/ "query" \in Faults
      BY <1>0, <1>4, VersionFact DEF SelectProgress, TypeOK, Fields
    <2>2. UNCHANGED <<db, snap, floor>> /\ At(p, "progress")
      BY <1>4 DEF SelectProgress, writerVars
    <2>3. db["progress"] >= floor["progress"]
      BY DEF Fields
    <2>4. \A f \in Fields : Reliable(f) => r'[p].copy[f] >= floor[f]
      BY <1>0, <2>1, <2>2, <2>3, ProgressFact DEF Fields, Reliable
    <2> QED
      BY <1>0, <1>1, <2>1, <2>2, <2>4, ProgressFact
  <1>5. ASSUME NEW p \in Readers, SaveField(p) PROVE FloorInv'
    <2>1. UNCHANGED <<db, floor>> /\ \A f \in Fields : Reliable(f) => r[p].copy[f] >= floor[f]
      BY <1>5 DEF SaveField, writerVars
    <2>2. WritesSeen'
      BY <1>0, <1>5, <2>1, SaveFieldFact DEF TypeOK
    <2> QED
      BY <1>0, <1>5, <2>1, <2>2, SaveFieldFact
  <1>6. ASSUME NEW p \in Readers, Expire(p) PROVE FloorInv'
    <2>1. r' = [r EXCEPT ![p].pc = "answer"] /\ UNCHANGED <<db, snap, floor>>
      BY <1>6 DEF Expire, writerVars
    <2> QED
      BY <1>0, <1>1, <2>1, PcFact DEF TypeOK, Steps
  <1>7. ASSUME NEW p \in Readers, Answer(p) \/ ReaderCrash(p) PROVE FloorInv'
    BY <1>0, <1>1, <1>7, IdleStep DEF Answer, ReaderCrash, writerVars, TypeOK
  <1>8. ASSUME NEW w \in Writers, CommitEnter(w) \/ CommitSettle(w) PROVE FloorInv'
    <2>1. PICK fields \in SUBSET Fields : Write(w, fields)
      BY <1>8 DEF CommitEnter, CommitSettle, Fields
    <2>2. \A f \in Fields : db'[f] >= db[f] /\ db'[f] \in Nat /\ db[f] \in Nat /\ floor[f] \in Nat
      BY <1>0, <2>1, WriteFact, VersionFact DEF TypeOK
    <2>3. \A f \in Fields : db'[f] >= floor[f]
      BY <2>2
    <2>4. UNCHANGED <<snap, r, floor>>
      BY <1>0, <2>1, WriteFact
    <2> QED
      BY <2>3, <2>4
  <1>9. ASSUME NEW w \in Writers, Invalidate(w) PROVE FloorInv'
    <2>1. CASE UNCHANGED <<snap, ttl, floor>>
      BY <1>9, <2>1 DEF Invalidate
    <2>2. CASE snap' = NoHash /\ floor' = (IF Quiet THEN db ELSE floor)
      <3>1. db' = db /\ r' = r /\ WritesSeen'
        BY <1>9, <2>2 DEF Invalidate, NoHash
      <3>2. \A f \in Fields : db[f] \in Nat
        BY <1>0, VersionFact DEF TypeOK
      <3> QED
        BY <2>2, <3>1, <3>2 DEF Quiet
    <2> QED
      BY <1>9, <2>1, <2>2 DEF Invalidate
  <1>10. ASSUME NEW w \in Writers, WriterCrash(w) PROVE FloorInv'
    BY <1>10 DEF WriterCrash, readerVars
  <1>11. CASE SnapExpire
    BY <1>11 DEF SnapExpire, writerVars, NoHash
  <1>12. CASE UNCHANGED vars
    BY <1>12 DEF vars
  <1> QED
    BY <1>2, <1>3, <1>4, <1>5, <1>6, <1>7, <1>8, <1>9, <1>10, <1>11, <1>12
       DEF Next, LoadStep

\* The hash is never older than a write whose DEL found no load between its
\* SELECT and its last HSET, whatever fails; its progress, unless a SELECT fails.
THEOREM UnoverlappedWritesAreSeen == Spec => []WritesSeen
<1>1. FloorInv => WritesSeen
  BY DEF FloorInv
<1>2. TInv /\ FloorInv /\ [Next]_vars => FloorInv'
  BY NextFloorInv
<1> QED
  BY <1>1, <1>2, InitTInv, NextTInv, InitFloorInv, PTL DEF Spec
-----------------------------------------------------------------------------
(* With one reader every answer is a state of the database.                *)

OneReader == \A p, q \in Readers : p = q

\* A row of player_asset, and the progress of then or later if no SELECT fails.
Paid(state) == "query" \notin Faults => state["progress"] >= state["gold"]
Genuine(state) == AssetRow(state) \in assets /\ Paid(state)

\* What Save has written so far is the copy of the load that runs it.
RealInv ==
  /\ Genuine(db) /\ db["progress"] >= db["gold"]
  /\ Whole(snap) => Genuine(snap)
  /\ \A p \in Readers :
       /\ r[p].pc \in {"profile", "progress"} => snap = NoHash
       /\ At(p, "progress") => /\ AssetRow(r[p].copy) \in assets
                               /\ db["progress"] >= r[p].copy["gold"]
       /\ At(p, "save") => /\ Genuine(r[p].copy)
                           /\ \A f \in Fields : snap[f] \in {Missing, r[p].copy[f]}
       /\ At(p, "answer") => Genuine(r[p].copy)

LEMMA InitRealInv == Init => RealInv
  <1> SUFFICES ASSUME Init PROVE RealInv
    OBVIOUS
  <1>1. Genuine(db) /\ db["progress"] >= db["gold"]
    BY DEF Init, Genuine, Paid, AssetRow, Fields
  <1>2. ~Whole(snap)
    BY NoHashFact DEF Init
  <1>3. \A p \in Readers : r[p].pc = "idle"
    BY IdleFact DEF Init
  <1> QED
    BY <1>1, <1>2, <1>3 DEF RealInv, At

LEMMA NextRealInv ==
  ASSUME OneReader, "redis" \notin Faults, TInv, RealInv, [Next]_vars
  PROVE  RealInv'
  <1> USE DEF RealInv, At, Paid
  <1>0. TypeOK /\ CopyInv
    BY DEF TInv
  <1>2. ASSUME NEW p \in Readers, Find(p) PROVE RealInv'
    <2>1. UNCHANGED <<db, assets, snap>>
      BY <1>2 DEF Find, writerVars
    <2>2. \/ r'[p].pc = "profile" /\ snap = NoHash
          \/ r'[p].pc = "answer" /\ r'[p].copy = snap /\ Whole(snap)
          \/ r'[p].pc = "dead"
      BY <1>0, <1>2, FindFact
    <2> QED
      BY <2>1, <2>2 DEF OneReader, Genuine, Whole
  <1>3. ASSUME NEW p \in Readers, SelectProfile(p) PROVE RealInv'
    <2>1. UNCHANGED <<db, assets, snap>> /\ snap = NoHash
      BY <1>3 DEF SelectProfile, writerVars
    <2>2. \/ /\ r'[p].pc = "progress"
             /\ r'[p].copy["stamina"] = db["stamina"] /\ r'[p].copy["gold"] = db["gold"]
          \/ r'[p].pc = "idle"
      BY <1>0, <1>3, SelectProfileFact
    <2> QED
      BY <2>1, <2>2 DEF OneReader, Genuine, AssetRow, Whole
  <1>4. ASSUME NEW p \in Readers, SelectProgress(p) PROVE RealInv'
    <2>1. /\ UNCHANGED <<db, assets, snap>> /\ At(p, "progress")
          /\ \/ Progress(p, db["progress"])
             \/ "query" \in Faults /\ Progress(p, 0)
      BY <1>0, <1>4 DEF SelectProgress, writerVars
    <2>2. db["progress"] \in Version /\ 0 \in Version
      BY <1>0, MaxWritesAssumption DEF TypeOK, Fields, Version
    <2>3. /\ r'[p].pc = "save"
          /\ r'[p].copy["stamina"] = r[p].copy["stamina"]
          /\ r'[p].copy["gold"] = r[p].copy["gold"]
          /\ "query" \notin Faults => r'[p].copy["progress"] = db["progress"]
      BY <1>0, <2>1, <2>2, ProgressFact
    <2>4. \A f \in Fields : snap[f] = Missing
      BY <2>1 DEF NoHash
    <2>5. Genuine(r'[p].copy)
      BY <2>1, <2>3 DEF Genuine, AssetRow
    <2> QED
      BY <2>1, <2>3, <2>4, <2>5 DEF OneReader, Genuine, Whole
  <1>5. ASSUME NEW p \in Readers, SaveField(p) PROVE RealInv'
    <2>1. UNCHANGED <<db, assets>> /\ At(p, "save") /\ Genuine(r[p].copy)
      BY <1>5 DEF SaveField, writerVars
    <2>2. \A f \in Fields : snap'[f] \in {Missing, r[p].copy[f]}
      BY <1>0, <1>5, <2>1, SaveFieldFact DEF TypeOK
    <2>3. Whole(snap') => Genuine(snap')
      BY <2>1, <2>2 DEF Whole, Genuine, AssetRow, Fields
    <2>4. r'[p].copy = r[p].copy /\ r'[p].pc \in {"save", "answer"}
      BY <1>0, <1>5, SaveFieldFact
    <2> QED
      BY <2>1, <2>2, <2>3, <2>4 DEF OneReader, Genuine, Whole
  <1>6. ASSUME NEW p \in Readers, Expire(p) PROVE RealInv'
    <2>1. UNCHANGED <<db, assets, snap>> /\ At(p, "save") /\ r' = [r EXCEPT ![p].pc = "answer"]
      BY <1>6 DEF Expire, writerVars
    <2>2. r'[p].copy = r[p].copy /\ r'[p].pc = "answer"
      BY <1>0, <2>1, PcFact DEF TypeOK, Steps
    <2> QED
      BY <2>1, <2>2 DEF OneReader, Genuine, Whole
  <1>7. ASSUME NEW p \in Readers, Answer(p) \/ ReaderCrash(p) PROVE RealInv'
    <2>1. UNCHANGED <<db, assets, snap>> /\ r'[p].pc = "idle"
      BY <1>0, <1>7, IdleStep DEF Answer, ReaderCrash, writerVars, TypeOK
    <2> QED
      BY <2>1 DEF OneReader, Genuine, Whole
  <1>8. ASSUME NEW w \in Writers, CommitEnter(w) \/ CommitSettle(w) PROVE RealInv'
    <2>1. PICK fields \in SUBSET Fields :
            Write(w, fields) /\ ("progress" \in fields <=> "gold" \in fields)
      BY <1>8 DEF CommitEnter, CommitSettle, Fields
    <2>2. /\ UNCHANGED <<snap, r>> /\ assets \subseteq assets' /\ AssetRow(db') \in assets'
          /\ \A f \in Fields : db'[f] >= db[f]
          /\ \A f \in fields : db'[f] = db[f] + 1
          /\ \A f \in Fields \ fields : db'[f] = db[f]
      BY <1>0, <2>1, WriteFact
    <2>3. \A f \in Fields : db[f] \in Nat /\ db'[f] \in Nat
      BY <1>0, <2>1, WriteFact, VersionFact DEF TypeOK
    <2>4. Genuine(db)' /\ db'["progress"] >= db'["gold"]
      BY <2>1, <2>2, <2>3 DEF Genuine, Fields
    <2>5. \A p \in Readers : At(p, "progress") => db'["progress"] >= r[p].copy["gold"]
      <3>1. ASSUME NEW p \in Readers, At(p, "progress")
            PROVE  db'["progress"] >= r[p].copy["gold"]
        <4>1. r[p].copy["gold"] \in Nat /\ db["progress"] >= r[p].copy["gold"]
          BY <1>0, <3>1, VersionFact DEF CopyInv
        <4> QED
          BY <2>2, <2>3, <4>1 DEF Fields
      <3> QED
        BY <3>1
    <2> QED
      BY <2>2, <2>4, <2>5 DEF Genuine, Whole
  <1>9. ASSUME NEW w \in Writers, Invalidate(w) PROVE RealInv'
    <2>1. UNCHANGED <<db, assets, r>> /\ snap' = NoHash
      BY <1>0, <1>9 DEF Invalidate
    <2>2. \A f \in Fields : snap'[f] = Missing
      BY <2>1 DEF NoHash
    <2> QED
      BY <2>1, <2>2, NoHashFact DEF Genuine
  <1>10. ASSUME NEW w \in Writers, WriterCrash(w) PROVE RealInv'
    BY <1>10 DEF WriterCrash, readerVars, Genuine, Whole
  <1>11. CASE SnapExpire
    <2>1. UNCHANGED <<db, assets, r>> /\ snap' = NoHash
      BY <1>11 DEF SnapExpire, writerVars
    <2>2. \A f \in Fields : snap'[f] = Missing
      BY <2>1 DEF NoHash
    <2> QED
      BY <2>1, <2>2, NoHashFact DEF Genuine
  <1>12. CASE UNCHANGED vars
    BY <1>12 DEF vars, Genuine, Whole
  <1> QED
    BY <1>2, <1>3, <1>4, <1>5, <1>6, <1>7, <1>8, <1>9, <1>10, <1>11, <1>12
       DEF Next, LoadStep

LEMMA RealAlways ==
  ASSUME OneReader, "redis" \notin Faults
  PROVE  Spec => []RealInv
<1>1. TInv /\ RealInv /\ [Next]_vars => RealInv'
  BY NextRealInv
<1> QED
  BY <1>1, InitTInv, NextTInv, InitRealInv, PTL DEF Spec

\* With one game_server whose Redis calls do not fail, every answer shows a row
\* player_asset has had, whatever crashes or SELECT fails and however loads and
\* writes overlap.
THEOREM AnswersAreReal ==
  ASSUME OneReader, "redis" \notin Faults
  PROVE  Spec => []AnswerWasReal
<1>1. RealInv => AnswerWasReal
  BY DEF RealInv, Genuine, AnswerWasReal
<1> QED
  BY <1>1, RealAlways, PTL

\* If no SELECT fails either, no answer shows gold without the progress that
\* earned it, although the two tables are read by two SELECTs.
THEOREM PaidProgressIsShown ==
  ASSUME OneReader, "redis" \notin Faults, "query" \notin Faults
  PROVE  Spec => []PaidProgressShown
<1>1. RealInv => PaidProgressShown
  BY DEF RealInv, Genuine, Paid, PaidProgressShown
<1> QED
  BY <1>1, RealAlways, PTL
=============================================================================
