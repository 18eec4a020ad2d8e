------------------------ MODULE CatalogHistoryProofs ------------------------
(***************************************************************************)
(* Theorems of CatalogHistory, for every set of processes, threads and     *)
(* models, all ratings and any number of epochs.                           *)
(***************************************************************************)
EXTENDS CatalogHistory, FiniteSetTheorems, TLAPS

\* A refresh that has committed its models, and not yet the rows of its epoch.
Halfway == {"swapping", "counting", "saving", "appending"}

\* A thread in a refresh holds the lock.
LockHeld == \A p \in Procs, t \in Threads : pc[p][t] # "idle" => lock[p] = t

\* A refresh counts one epoch, and has counted it before it saves it.
EpochBounded ==
    \A p \in Procs, t \in Threads :
        /\ pc[p][t] \in {"discovering", "storing", "swapping", "counting"}
              => epoch[p] < MaxEpoch
        /\ pc[p][t] \in {"saving", "appending"} => epoch[p] > 0

\* What is about to be cached is in the database, which has been found something.
BatchStored ==
    \A p \in Procs, t \in Threads :
        /\ pc[p][t] = "storing" => batch[p][t] # Empty
        /\ pc[p][t] = "swapping" =>
              \A m \in Models : batch[p][t][m] # 0 => table[m] # 0
        /\ pc[p][t] \in Halfway => table # Empty

\* Only a process that is alone in having stored is not mixed.
OthersUnstored ==
    \A p \in Procs \ mixed : \A q \in Procs \ {p}, t \in Threads : pc[q][t] \notin Halfway

\* The rows of the greatest epoch up to e, of a history.
SnapshotOf(h, e) ==
    LET written == {n \in 1..MaxEpoch : n <= e /\ h[n] # Empty}
    IN  IF written = {} THEN Empty
        ELSE h[CHOOSE n \in written : \A k \in written : k <= n]

\* The history up to a step of a refresh, in a process that is not mixed; the
\* rows have their snapshot, unless the process is torn.
Recorded(p) ==
    /\ \A n \in 1..MaxEpoch : n > meta => history[n] = Empty
    /\ (\A t \in Threads : pc[p][t] \notin Halfway) =>
          /\ cache[p] = table
          /\ p \notin torn => SnapshotOf(history, meta) = table
          /\ lock[p] # Starting => epoch[p] = meta
    /\ \A t \in Threads :
          /\ pc[p][t] = "swapping" =>
                Upserted(cache[p], batch[p][t]) = table /\ epoch[p] = meta
          /\ pc[p][t] = "counting" => cache[p] = table /\ epoch[p] = meta
          /\ pc[p][t] = "saving" => cache[p] = table /\ epoch[p] = meta + 1
          /\ pc[p][t] = "appending" =>
                cache[p] = table /\ epoch[p] = meta /\ history[meta] = Empty

HistoryRecorded == \A p \in Procs \ mixed : Recorded(p)

LockInv    == TypeOK /\ LockHeld /\ EpochBounded
CatalogInv == LockInv /\ BatchStored /\ CacheIsStored /\ OthersUnstored /\ HistoryRecorded

-----------------------------------------------------------------------------
(* Operators of the model. *)

LEMMA UpsertedFacts ==
    ASSUME NEW rows \in Catalogs, NEW found \in Catalogs
    PROVE  /\ Upserted(rows, found) \in Catalogs
           /\ \A m \in Models : /\ rows[m] # 0 => Upserted(rows, found)[m] # 0
                                /\ found[m] # 0 => Upserted(rows, found)[m] # 0
                                /\ Upserted(rows, found)[m] # 0 => rows[m] # 0 \/ found[m] # 0
           /\ found # Empty => Upserted(rows, found) # Empty
<1>1. /\ Upserted(rows, found) \in Catalogs
      /\ \A m \in Models :
            Upserted(rows, found)[m] = IF found[m] # 0 THEN found[m] ELSE rows[m]
  BY DEF Upserted, Catalogs
<1>2. ASSUME found # Empty
      PROVE  Upserted(rows, found) # Empty
  <2>1. \E m \in Models : found[m] # 0
    BY <1>2 DEF Catalogs, Empty
  <2> QED BY <1>1, <2>1 DEF Empty
<1> QED BY <1>1, <1>2

LEMMA OwnSnapshot ==
    ASSUME NEW h, NEW e \in 1..MaxEpoch, h[e] # Empty
    PROVE  SnapshotOf(h, e) = h[e]
<1> DEFINE written == {n \in 1..MaxEpoch : n <= e /\ h[n] # Empty}
           last == CHOOSE n \in written : \A k \in written : k <= n
<1>1. e \in written /\ \A k \in written : k <= e /\ k \in Int
  OBVIOUS
<1>2. last \in written /\ \A k \in written : k <= last
  <2> HIDE DEF written
  <2> QED BY <1>1
<1>3. last = e
  <2> HIDE DEF written, last
  <2> QED BY <1>1, <1>2
<1> QED BY <1>1, <1>3 DEF SnapshotOf

LEMMA Moved ==
    ASSUME TypeOK, NEW p \in Procs, NEW t \in Threads, NEW from, NEW to \in Steps,
           Moves(p, t, from, to)
    PROVE  /\ pc[p][t] = from
           /\ pc' \in [Procs -> [Threads -> Steps]]
           /\ \A q \in Procs, u \in Threads :
                 pc'[q][u] = IF q = p /\ u = t THEN to ELSE pc[q][u]
BY DEF Moves, TypeOK

\* The names of the steps.
LEMMA StepNames ==
    /\ {"idle", "discovering", "storing"} \subseteq Steps /\ Halfway \subseteq Steps
    /\ "idle" \notin Halfway /\ "discovering" \notin Halfway /\ "storing" \notin Halfway
BY DEF Steps, Halfway

LEMMA CatalogInitial == Init => CatalogInv
<1> SUFFICES ASSUME Init
             PROVE  CatalogInv
  OBVIOUS
<1> USE CatalogAssumption
<1>1. Empty \in Catalogs /\ NoRecord \in [from : Catalogs, epoch : 0..MaxEpoch]
  BY DEF Empty, Catalogs, NoRecord
<1>2. TypeOK
  BY <1>1, StepNames DEF Init, TypeOK
<1>3. \A p \in Procs, t \in Threads : pc[p][t] = "idle"
  BY DEF Init
<1>4. LockHeld /\ EpochBounded /\ BatchStored /\ OthersUnstored
  BY <1>3, StepNames DEF LockHeld, EpochBounded, BatchStored, OthersUnstored
<1>5. CacheIsStored
  BY DEF Init, CacheIsStored, Empty
<1>6. HistoryRecorded
  <2>1. SnapshotOf(history, 0) = Empty
    <3>1. {n \in 1..MaxEpoch : n <= 0 /\ history[n] # Empty} = {}
      OBVIOUS
    <3> QED BY <3>1 DEF SnapshotOf
  <2> QED BY <1>3, <2>1, StepNames DEF Init, HistoryRecorded, Recorded
<1> QED BY <1>2, <1>4, <1>5, <1>6 DEF CatalogInv, LockInv

-----------------------------------------------------------------------------
(* The lock. *)

\* The end of a refresh.
LEMMA Ended ==
    ASSUME LockInv, NEW p \in Procs, NEW t \in Threads, pc[p][t] # "idle",
           Moves(p, t, pc[p][t], "idle"), Release(p), epoch' = epoch
    PROVE  /\ pc' \in [Procs -> [Threads -> Steps]]
           /\ lock' \in [Procs -> Threads \cup {Nobody, Starting}]
           /\ \A q \in Procs, u \in Threads :
                 pc'[q][u] = IF q = p /\ u = t THEN "idle" ELSE pc[q][u]
           /\ \A u \in Threads : pc'[p][u] = "idle"
           /\ LockHeld' /\ EpochBounded'
<1>1. /\ pc' \in [Procs -> [Threads -> Steps]]
      /\ \A q \in Procs, u \in Threads :
            pc'[q][u] = IF q = p /\ u = t THEN "idle" ELSE pc[q][u]
  BY Moved, StepNames DEF LockInv
<1>2. /\ lock' \in [Procs -> Threads \cup {Nobody, Starting}]
      /\ \A q \in Procs \ {p} : lock'[q] = lock[q]
  BY DEF Release, LockInv, TypeOK
<1>3. \A u \in Threads : pc'[p][u] = "idle"
  BY <1>1 DEF LockInv, LockHeld
<1>4. LockHeld'
  BY <1>1, <1>2, <1>3 DEF LockInv, LockHeld
<1>5. EpochBounded'
  BY <1>1, <1>3 DEF LockInv, EpochBounded
<1> QED BY <1>1, <1>2, <1>3, <1>4, <1>5

LEMMA LockStep ==
    ASSUME LockInv, [Next]_vars
    PROVE  LockInv'
<1> USE CatalogAssumption, StepNames DEF standing
<1>1. TypeOK /\ LockHeld /\ EpochBounded /\ Empty \in Catalogs
  BY DEF LockInv, Empty, Catalogs
<1>2. ASSUME NEW p \in Procs, NEW t \in Threads, Acquire(p, t)
      PROVE  LockInv'
  <2>1. /\ pc' \in [Procs -> [Threads -> Steps]]
        /\ \A q \in Procs, u \in Threads :
              pc'[q][u] = IF q = p /\ u = t THEN "discovering" ELSE pc[q][u]
    BY <1>1, <1>2, Moved DEF Acquire
  <2>2. /\ lock[p] = Nobody /\ lock' = [lock EXCEPT ![p] = t] /\ epoch[p] < MaxEpoch
        /\ UNCHANGED <<database, memory, batch, decision, standing>>
    BY <1>2 DEF Acquire
  <2>3. TypeOK'
    BY <1>1, <2>1, <2>2 DEF TypeOK, database, memory, decision
  <2>4. LockHeld'
    BY <1>1, <2>1, <2>2 DEF TypeOK, LockHeld, Nobody
  <2>5. EpochBounded'
    BY <1>1, <2>1, <2>2 DEF EpochBounded, memory
  <2> QED BY <2>3, <2>4, <2>5 DEF LockInv
<1>3. ASSUME NEW p \in Procs, NEW t \in Threads, Discover(p, t)
      PROVE  LockInv'
  <2>1. /\ UNCHANGED <<database, memory, decision, standing>>
        /\ pc[p][t] = "discovering"
    BY <1>3 DEF Discover, Moves
  <2>2. batch' \in [Procs -> [Threads -> Catalogs]]
    <3>1. batch' = batch \/ \E found \in Batches : batch' = [batch EXCEPT ![p][t] = found]
      BY <1>3 DEF Discover
    <3>2. Batches \subseteq Catalogs /\ batch \in [Procs -> [Threads -> Catalogs]]
      BY <1>1 DEF Batches, TypeOK
    <3> QED BY <3>1, <3>2
  <2>3. CASE Moves(p, t, "discovering", "storing") /\ lock' = lock
    <3>1. /\ pc' \in [Procs -> [Threads -> Steps]]
          /\ \A q \in Procs, u \in Threads :
                pc'[q][u] = IF q = p /\ u = t THEN "storing" ELSE pc[q][u]
      BY <1>1, <2>3, Moved
    <3>2. TypeOK'
      BY <1>1, <2>1, <2>2, <2>3, <3>1 DEF TypeOK, database, memory, decision
    <3>3. LockHeld' /\ EpochBounded'
      BY <1>1, <2>1, <2>3, <3>1 DEF LockHeld, EpochBounded, memory
    <3> QED BY <3>2, <3>3 DEF LockInv
  <2>4. CASE Moves(p, t, "discovering", "idle") /\ Release(p)
    <3>1. /\ pc' \in [Procs -> [Threads -> Steps]]
          /\ lock' \in [Procs -> Threads \cup {Nobody, Starting}]
          /\ LockHeld' /\ EpochBounded'
      BY <2>1, <2>4, Ended DEF memory
    <3>2. TypeOK'
      BY <1>1, <2>1, <2>2, <3>1 DEF TypeOK, database, memory, decision
    <3> QED BY <3>1, <3>2 DEF LockInv
  <2> QED BY <1>3, <2>3, <2>4 DEF Discover
<1>4. ASSUME NEW p \in Procs, NEW t \in Threads, Store(p, t)
      PROVE  LockInv'
  <2>1. /\ UNCHANGED <<meta, history, memory, decision>>
        /\ pc[p][t] = "storing"
    BY <1>4 DEF Store, Moves, database
  <2>2. /\ batch' \in [Procs -> [Threads -> Catalogs]]
        /\ table' \in Catalogs /\ mixed' \subseteq Procs /\ torn' \subseteq Procs
    <3>1. /\ table \in Catalogs /\ batch[p][t] \in Catalogs
          /\ mixed \subseteq Procs /\ torn \subseteq Procs
      BY <1>1 DEF TypeOK
    <3>2. Upserted(table, batch[p][t]) \in Catalogs
      BY <3>1, UpsertedFacts
    <3>3. table' = table \/ table' = Upserted(table, batch[p][t])
      BY <1>4 DEF Store, database
    <3>4. mixed' \subseteq Procs /\ torn' \subseteq Procs
      BY <1>4, <3>1 DEF Store
    <3>5. batch' = batch \/ batch' = [batch EXCEPT ![p][t] = Empty]
      BY <1>4 DEF Store
    <3>6. batch' \in [Procs -> [Threads -> Catalogs]]
      <4>1. batch \in [Procs -> [Threads -> Catalogs]]
        BY <1>1 DEF TypeOK
      <4>2. [batch EXCEPT ![p][t] = Empty] \in [Procs -> [Threads -> Catalogs]]
        BY <1>1, <4>1
      <4> QED BY <3>5, <4>1, <4>2
    <3> QED BY <3>1, <3>2, <3>3, <3>4, <3>6
  <2>3. CASE Moves(p, t, "storing", "swapping") /\ lock' = lock
    <3>1. /\ pc' \in [Procs -> [Threads -> Steps]]
          /\ \A q \in Procs, u \in Threads :
                pc'[q][u] = IF q = p /\ u = t THEN "swapping" ELSE pc[q][u]
      BY <1>1, <2>3, Moved DEF Halfway
    <3>2. TypeOK'
      BY <1>1, <2>1, <2>2, <2>3, <3>1 DEF TypeOK, memory, decision
    <3>3. LockHeld' /\ EpochBounded'
      BY <1>1, <2>1, <2>3, <3>1 DEF LockHeld, EpochBounded, memory
    <3> QED BY <3>2, <3>3 DEF LockInv
  <2>4. CASE Moves(p, t, "storing", "idle") /\ Release(p)
    <3>1. /\ pc' \in [Procs -> [Threads -> Steps]]
          /\ lock' \in [Procs -> Threads \cup {Nobody, Starting}]
          /\ LockHeld' /\ EpochBounded'
      BY <2>1, <2>4, Ended DEF memory
    <3>2. TypeOK'
      BY <1>1, <2>1, <2>2, <3>1 DEF TypeOK, memory, decision
    <3> QED BY <3>1, <3>2 DEF LockInv
  <2> QED BY <1>4, <2>3, <2>4 DEF Store
<1>5. ASSUME NEW p \in Procs, NEW t \in Threads, Swap(p, t)
      PROVE  LockInv'
  <2>1. /\ pc[p][t] = "swapping"
        /\ pc' \in [Procs -> [Threads -> Steps]]
        /\ \A q \in Procs, u \in Threads :
              pc'[q][u] = IF q = p /\ u = t THEN "counting" ELSE pc[q][u]
    BY <1>1, <1>5, Moved DEF Swap, Halfway
  <2>2. cache' \in [Procs -> Catalogs]
    <3>1. Upserted(cache[p], batch[p][t]) \in Catalogs
      BY <1>1, UpsertedFacts DEF TypeOK
    <3> QED BY <1>1, <1>5, <3>1 DEF Swap, TypeOK
  <2>3. TypeOK'
    BY <1>1, <1>5, <2>1, <2>2 DEF TypeOK, Swap, database, decision
  <2>4. LockHeld' /\ EpochBounded'
    BY <1>1, <1>5, <2>1 DEF LockHeld, EpochBounded, Swap
  <2> QED BY <2>3, <2>4 DEF LockInv
<1>6. ASSUME NEW p \in Procs, NEW t \in Threads, Count(p, t)
      PROVE  LockInv'
  <2>1. /\ pc[p][t] = "counting"
        /\ pc' \in [Procs -> [Threads -> Steps]]
        /\ \A q \in Procs, u \in Threads :
              pc'[q][u] = IF q = p /\ u = t THEN "saving" ELSE pc[q][u]
    BY <1>1, <1>6, Moved DEF Count, Halfway
  <2>2. /\ epoch[p] \in 0..MaxEpoch /\ epoch[p] < MaxEpoch
        /\ epoch' \in [Procs -> 0..MaxEpoch] /\ epoch'[p] > 0
        /\ \A q \in Procs \ {p} : epoch'[q] = epoch[q]
    BY <1>1, <1>6, <2>1 DEF Count, EpochBounded, TypeOK
  <2>3. TypeOK'
    BY <1>1, <1>6, <2>1, <2>2 DEF TypeOK, Count, database, decision
  <2>4. LockHeld'
    BY <1>1, <1>6, <2>1 DEF LockHeld, Count
  <2>5. \A u \in Threads \ {t} : pc[p][u] = "idle"
    BY <1>1, <2>1 DEF LockHeld
  <2>6. EpochBounded'
    BY <1>1, <2>1, <2>2, <2>5 DEF EpochBounded
  <2> QED BY <2>3, <2>4, <2>6 DEF LockInv
<1>7. ASSUME NEW p \in Procs, NEW t \in Threads, PersistMeta(p, t)
      PROVE  LockInv'
  <2>1. /\ pc[p][t] = "saving"
        /\ pc' \in [Procs -> [Threads -> Steps]]
        /\ \A q \in Procs, u \in Threads :
              pc'[q][u] = IF q = p /\ u = t THEN "appending" ELSE pc[q][u]
    BY <1>1, <1>7, Moved DEF PersistMeta, Halfway
  <2>2. TypeOK'
    BY <1>1, <1>7, <2>1 DEF TypeOK, PersistMeta, memory, decision
  <2>3. LockHeld' /\ EpochBounded'
    BY <1>1, <1>7, <2>1 DEF LockHeld, EpochBounded, PersistMeta, memory
  <2> QED BY <2>2, <2>3 DEF LockInv
<1>8. ASSUME NEW p \in Procs, NEW t \in Threads, AppendHistory(p, t)
      PROVE  LockInv'
  <2>1. /\ Moves(p, t, "appending", "idle") /\ pc[p][t] = "appending" /\ Release(p)
        /\ UNCHANGED <<table, meta, cache, epoch, asked, logged, mixed>>
        /\ torn' = torn \ {p}
    BY <1>8 DEF AppendHistory, Moves, memory, decision
  <2>2. /\ pc' \in [Procs -> [Threads -> Steps]]
        /\ lock' \in [Procs -> Threads \cup {Nobody, Starting}]
        /\ LockHeld' /\ EpochBounded'
    BY <2>1, Ended
  <2>3. epoch[p] \in 1..MaxEpoch
    BY <1>1, <2>1 DEF EpochBounded, TypeOK
  <2>4. /\ history' \in [1..MaxEpoch -> Catalogs]
        /\ batch' \in [Procs -> [Threads -> Catalogs]]
    BY <1>1, <1>8, <2>3 DEF AppendHistory, TypeOK
  <2>5. TypeOK'
    BY <1>1, <2>1, <2>2, <2>4 DEF TypeOK
  <2> QED BY <2>2, <2>5 DEF LockInv
<1>9. ASSUME NEW p \in Procs, Rescore(p)
      PROVE  LockInv'
  <2>1. /\ UNCHANGED <<meta, history, epoch, lock, pc, batch, asked, logged>>
        /\ mixed' = mixed \cup (Procs \ {p}) /\ torn' = torn \cup {p}
    BY <1>9 DEF Rescore, threads, decision
  <2>2. table' \in Catalogs /\ cache' \in [Procs -> Catalogs]
    BY <1>1, <1>9, UpsertedFacts DEF Rescore, TypeOK, Batches
  <2>3. TypeOK'
    BY <1>1, <2>1, <2>2 DEF TypeOK
  <2>4. LockHeld' /\ EpochBounded'
    BY <1>1, <2>1 DEF LockHeld, EpochBounded
  <2> QED BY <2>3, <2>4 DEF LockInv
<1>10. ASSUME NEW p \in Procs, Restart(p)
       PROVE  LockInv'
  <2>1. /\ UNCHANGED <<table, meta, history, logged>>
        /\ cache' = [cache EXCEPT ![p] = table]
        /\ epoch' = [epoch EXCEPT ![p] = 0]
        /\ lock' = [lock EXCEPT ![p] = Starting]
        /\ pc' = [pc EXCEPT ![p] = [t \in Threads |-> "idle"]]
        /\ batch' = [batch EXCEPT ![p] = [t \in Threads |-> Empty]]
        /\ asked' = [asked EXCEPT ![p] = Empty]
    BY <1>10 DEF Restart, database
  <2>2. mixed' \subseteq Procs /\ torn' \subseteq Procs
    BY <1>1, <1>10 DEF Restart, TypeOK
  <2>3. TypeOK'
    BY <1>1, <2>1, <2>2 DEF TypeOK
  <2>4. \A q \in Procs, u \in Threads :
           pc'[q][u] = IF q = p THEN "idle" ELSE pc[q][u]
    BY <1>1, <2>1 DEF TypeOK
  <2>5. LockHeld' /\ EpochBounded'
    BY <1>1, <2>1, <2>4 DEF TypeOK, LockHeld, EpochBounded
  <2> QED BY <2>3, <2>5 DEF LockInv
<1>11. ASSUME NEW p \in Procs, RestoreMeta(p)
       PROVE  LockInv'
  <2>1. \A t \in Threads : pc[p][t] = "idle"
    BY <1>1, <1>11 DEF RestoreMeta, LockHeld, Starting
  <2>2. TypeOK'
    BY <1>1, <1>11 DEF RestoreMeta, TypeOK, database, decision
  <2>3. LockHeld' /\ EpochBounded'
    BY <1>1, <1>11, <2>1 DEF RestoreMeta, TypeOK, LockHeld, EpochBounded
  <2> QED BY <2>2, <2>3 DEF LockInv
<1>12. ASSUME NEW p \in Procs, Decide(p) \/ LogDecision(p)
       PROVE  LockInv'
  <2>1. UNCHANGED <<database, memory, threads, standing>>
    BY <1>12 DEF Decide, LogDecision
  <2>2. asked' \in [Procs -> Catalogs] /\ logged' \in [from : Catalogs, epoch : 0..MaxEpoch]
    <3>1. /\ asked \in [Procs -> Catalogs] /\ cache[p] \in Catalogs
          /\ epoch[p] \in 0..MaxEpoch /\ asked[p] \in Catalogs
          /\ logged \in [from : Catalogs, epoch : 0..MaxEpoch]
      BY <1>1 DEF TypeOK
    <3>2. CASE Decide(p)
      BY <3>1, <3>2 DEF Decide
    <3>3. CASE LogDecision(p)
      BY <1>1, <3>1, <3>3 DEF LogDecision
    <3> QED BY <1>12, <3>2, <3>3
  <2>3. TypeOK'
    BY <1>1, <2>1, <2>2 DEF TypeOK, database, memory, threads
  <2>4. LockHeld' /\ EpochBounded'
    BY <1>1, <2>1 DEF LockHeld, EpochBounded, memory, threads
  <2> QED BY <2>3, <2>4 DEF LockInv
<1>13. CASE UNCHANGED vars
  BY <1>1, <1>13 DEF vars, database, memory, threads, decision, LockInv, TypeOK,
     LockHeld, EpochBounded
<1> QED BY <1>2, <1>3, <1>4, <1>5, <1>6, <1>7, <1>8, <1>9, <1>10, <1>11, <1>12, <1>13
        DEF Next, Refresh

-----------------------------------------------------------------------------
(* The rows and the copies of them. *)

LEMMA RowsStep ==
    ASSUME LockInv, LockInv', BatchStored, CacheIsStored, [Next]_vars
    PROVE  BatchStored' /\ CacheIsStored' /\ (table # Empty => table' # Empty)
<1> USE StepNames
<1>1. /\ TypeOK /\ Empty \in Catalogs /\ BatchStored /\ CacheIsStored
      /\ table \in Catalogs /\ table' \in Catalogs
  <2>1. Empty \in Catalogs
    BY CatalogAssumption DEF Empty, Catalogs
  <2>2. table \in Catalogs /\ table' \in Catalogs
    BY DEF LockInv, TypeOK
  <2> QED BY <2>1, <2>2 DEF LockInv
\* Where no rows change, a thread moves on to a step whose claim holds of it.
<1>2. ASSUME NEW p \in Procs, NEW t \in Threads, Refresh(p, t)
      PROVE  BatchStored' /\ CacheIsStored' /\ (table # Empty => table' # Empty)
  <2>1. CASE Store(p, t) /\ pc'[p][t] = "swapping"
    <3>1. /\ pc[p][t] = "storing" /\ table' = Upserted(table, batch[p][t])
          /\ batch' = batch /\ cache' = cache
          /\ \A q \in Procs, u \in Threads :
                pc'[q][u] = IF q = p /\ u = t THEN "swapping" ELSE pc[q][u]
      BY <1>1, <2>1, Moved DEF Store, memory, Halfway
    <3>2. batch[p][t] \in Catalogs /\ batch[p][t] # Empty
      BY <1>1, <3>1 DEF TypeOK, BatchStored
    <3>3. /\ \A m \in Models : table[m] # 0 => table'[m] # 0
          /\ \A m \in Models : batch[p][t][m] # 0 => table'[m] # 0
          /\ table' # Empty
      BY <1>1, <3>1, <3>2, UpsertedFacts
    <3>4. BatchStored'
      BY <1>1, <3>1, <3>2, <3>3 DEF BatchStored
    <3>5. CacheIsStored'
      BY <1>1, <3>1, <3>3 DEF CacheIsStored
    <3> QED BY <3>3, <3>4, <3>5
  <2>2. CASE Swap(p, t)
    <3>1. /\ pc[p][t] = "swapping" /\ table' = table /\ batch' = batch
          /\ cache' = [cache EXCEPT ![p] = Upserted(cache[p], batch[p][t])]
          /\ \A q \in Procs, u \in Threads :
                pc'[q][u] = IF q = p /\ u = t THEN "counting" ELSE pc[q][u]
      BY <1>1, <2>2, Moved DEF Swap, database, Halfway
    <3>2. cache[p] \in Catalogs /\ batch[p][t] \in Catalogs
      BY <1>1 DEF TypeOK
    <3>3. \A m \in Models : Upserted(cache[p], batch[p][t])[m] # 0 => table[m] # 0
      BY <1>1, <3>1, <3>2, UpsertedFacts DEF BatchStored, CacheIsStored
    <3>4. CacheIsStored'
      BY <1>1, <3>1, <3>3 DEF CacheIsStored, TypeOK
    <3>5. BatchStored'
      BY <1>1, <3>1 DEF BatchStored, Halfway
    <3> QED BY <3>1, <3>4, <3>5
  <2>3. CASE Acquire(p, t) \/ Count(p, t) \/ PersistMeta(p, t)
    <3>1. UNCHANGED <<table, batch, cache>>
      BY <2>3 DEF Acquire, Count, PersistMeta, database, memory
    <3>2. \E from \in Steps, to \in {"discovering", "saving", "appending"} :
             /\ pc[p][t] = from
             /\ to \in Halfway => from \in Halfway
             /\ \A q \in Procs, u \in Threads :
                   pc'[q][u] = IF q = p /\ u = t THEN to ELSE pc[q][u]
      BY <1>1, <2>3, Moved DEF Acquire, Count, PersistMeta, Halfway
    <3>3. BatchStored'
      BY <1>1, <3>1, <3>2 DEF BatchStored
    <3> QED BY <1>1, <3>1, <3>3 DEF CacheIsStored
  <2>4. CASE Discover(p, t) /\ pc'[p][t] = "storing"
    <3>1. /\ UNCHANGED <<table, cache>>
          /\ \E found \in Batches : batch' = [batch EXCEPT ![p][t] = found]
          /\ \A q \in Procs, u \in Threads :
                pc'[q][u] = IF q = p /\ u = t THEN "storing" ELSE pc[q][u]
      BY <1>1, <2>4, Moved DEF Discover, database, memory
    <3>2. /\ batch'[p][t] # Empty
          /\ \A q \in Procs, u \in Threads : q # p \/ u # t => batch'[q][u] = batch[q][u]
      BY <1>1, <3>1 DEF Batches, TypeOK
    <3>3. BatchStored'
      BY <1>1, <3>1, <3>2 DEF BatchStored
    <3> QED BY <1>1, <3>1, <3>3 DEF CacheIsStored
  <2>5. CASE \E from \in Steps \ {"idle"} : Moves(p, t, from, "idle") /\ UNCHANGED <<table, cache>>
    <3>1. \A q \in Procs, u \in Threads :
             pc'[q][u] = IF q = p /\ u = t THEN "idle" ELSE pc[q][u]
      BY <1>1, <2>5, Moved
    <3>2. \A q \in Procs, u \in Threads : q # p \/ u # t => batch'[q][u] = batch[q][u]
      BY <1>1, <1>2, <2>5 DEF Refresh, Acquire, Discover, Store, Swap, Count, PersistMeta,
         AppendHistory, TypeOK
    <3>3. BatchStored'
      BY <1>1, <2>5, <3>1, <3>2 DEF BatchStored
    <3> QED BY <1>1, <2>5, <3>3 DEF CacheIsStored
  <2> QED
    <3>1. CASE Discover(p, t)
      <4>1. CASE Moves(p, t, "discovering", "storing")
        BY <1>1, <2>4, <3>1, <4>1, Moved
      <4>2. CASE Moves(p, t, "discovering", "idle")
        BY <2>5, <3>1, <4>2 DEF Discover, database, memory
      <4> QED BY <3>1, <4>1, <4>2 DEF Discover
    <3>2. CASE Store(p, t)
      <4>1. CASE Moves(p, t, "storing", "swapping")
        BY <1>1, <2>1, <3>2, <4>1, Moved DEF Halfway
      <4>2. CASE Moves(p, t, "storing", "idle") /\ UNCHANGED <<database, memory>>
        BY <2>5, <4>2 DEF database, memory
      <4> QED BY <3>2, <4>1, <4>2 DEF Store
    <3>3. CASE AppendHistory(p, t)
      BY <2>5, <3>3 DEF AppendHistory, memory, Halfway
    <3> QED BY <1>2, <2>2, <2>3, <3>1, <3>2, <3>3 DEF Refresh
<1>3. ASSUME NEW p \in Procs, Rescore(p)
      PROVE  BatchStored' /\ CacheIsStored' /\ (table # Empty => table' # Empty)
  <2>1. PICK rated \in Batches :
           /\ \A m \in Models : rated[m] = 0 <=> cache[p][m] = 0
           /\ table' = Upserted(table, rated)
           /\ cache' = [cache EXCEPT ![p] = rated]
    BY <1>3 DEF Rescore
  <2>2. pc' = pc /\ batch' = batch /\ cache \in [Procs -> Catalogs] /\ rated \in Catalogs
    BY <1>1, <1>3 DEF Rescore, threads, TypeOK, Batches
  <2>3. /\ \A m \in Models : table[m] # 0 \/ rated[m] # 0 => table'[m] # 0
        /\ table' # Empty
    BY <1>1, <2>1, <2>2, UpsertedFacts DEF Batches
  <2>4. BatchStored'
    BY <1>1, <2>2, <2>3 DEF BatchStored
  <2>5. CacheIsStored'
    BY <1>1, <2>1, <2>2, <2>3 DEF CacheIsStored
  <2> QED BY <2>3, <2>4, <2>5
<1>4. ASSUME NEW p \in Procs, Restart(p)
      PROVE  BatchStored' /\ CacheIsStored' /\ (table # Empty => table' # Empty)
  <2>1. /\ table' = table
        /\ cache' = [cache EXCEPT ![p] = table]
        /\ \A u \in Threads : pc'[p][u] = "idle"
        /\ \A q \in Procs \ {p} : pc'[q] = pc[q] /\ batch'[q] = batch[q]
    BY <1>1, <1>4 DEF Restart, database, TypeOK
  <2>2. BatchStored'
    BY <1>1, <2>1 DEF BatchStored
  <2>3. CacheIsStored'
    BY <1>1, <2>1 DEF CacheIsStored, TypeOK
  <2> QED BY <2>1, <2>2, <2>3
<1>5. ASSUME NEW p \in Procs, RestoreMeta(p) \/ Decide(p) \/ LogDecision(p)
      PROVE  BatchStored' /\ CacheIsStored' /\ (table # Empty => table' # Empty)
  <2>1. UNCHANGED <<table, cache, pc, batch>>
    BY <1>5 DEF RestoreMeta, Decide, LogDecision, database, memory, threads
  <2> QED BY <1>1, <2>1 DEF BatchStored, CacheIsStored
<1>6. CASE UNCHANGED vars
  BY <1>1, <1>6 DEF vars, database, memory, threads, BatchStored, CacheIsStored
<1> QED BY <1>2, <1>3, <1>4, <1>5, <1>6 DEF Next

-----------------------------------------------------------------------------
(* What is recorded. *)

LEMMA OthersStep ==
    ASSUME LockInv, OthersUnstored, [Next]_vars
    PROVE  OthersUnstored'
<1> USE StepNames DEF standing
<1>1. TypeOK /\ LockHeld /\ OthersUnstored
  BY DEF LockInv
<1>2. ASSUME NEW p \in Procs, NEW t \in Threads, Store(p, t), mixed' = mixed \cup (Procs \ {p}),
             Moves(p, t, "storing", "swapping")
      PROVE  OthersUnstored'
  <2>1. \A q \in Procs \ {p}, u \in Threads : pc'[q][u] = pc[q][u]
    BY <1>1, <1>2 DEF Moves, TypeOK
  <2> QED BY <1>1, <1>2, <2>1 DEF OthersUnstored
<1>3. ASSUME NEW p \in Procs, NEW t \in Threads, mixed' = mixed,
             NEW from \in Steps, NEW to \in Steps, Moves(p, t, from, to),
             to \in Halfway => from \in Halfway
      PROVE  OthersUnstored'
  <2>1. /\ pc[p][t] = from
        /\ \A q \in Procs, u \in Threads :
              pc'[q][u] = IF q = p /\ u = t THEN to ELSE pc[q][u]
    BY <1>1, <1>3, Moved
  <2> QED BY <1>1, <1>3, <2>1 DEF OthersUnstored
<1>4. ASSUME NEW p \in Procs, NEW t \in Threads, Refresh(p, t)
      PROVE  OthersUnstored'
  <2>1. CASE Store(p, t)
    BY <1>2, <1>3, <2>1 DEF Store
  <2>2. CASE Acquire(p, t) \/ Discover(p, t)
    BY <1>3, <2>2 DEF Acquire, Discover
  <2>3. CASE Swap(p, t) \/ Count(p, t) \/ PersistMeta(p, t) \/ AppendHistory(p, t)
    BY <1>3, <2>3 DEF Swap, Count, PersistMeta, AppendHistory, Halfway
  <2> QED BY <1>4, <2>1, <2>2, <2>3 DEF Refresh
<1>5. ASSUME NEW p \in Procs, Restart(p)
      PROVE  OthersUnstored'
  <2>1. /\ mixed \subseteq mixed' /\ \A u \in Threads : pc'[p][u] = "idle"
        /\ \A q \in Procs \ {p} : pc'[q] = pc[q]
    BY <1>1, <1>5 DEF Restart, TypeOK
  <2> QED BY <1>1, <2>1 DEF OthersUnstored
<1>6. ASSUME NEW p \in Procs, Rescore(p)
      PROVE  OthersUnstored'
  <2>1. mixed \subseteq mixed' /\ pc' = pc
    BY <1>6 DEF Rescore, threads
  <2> QED BY <1>1, <2>1 DEF OthersUnstored
<1>7. ASSUME NEW p \in Procs, RestoreMeta(p) \/ Decide(p) \/ LogDecision(p)
      PROVE  OthersUnstored'
  BY <1>1, <1>7 DEF RestoreMeta, Decide, LogDecision, threads, OthersUnstored
<1>8. CASE UNCHANGED vars
  BY <1>1, <1>8 DEF vars, threads, OthersUnstored
<1> QED BY <1>4, <1>5, <1>6, <1>7, <1>8 DEF Next

\* What is recorded for a process stays so while neither it nor the database moves.
LEMMA RecordedKept ==
    ASSUME NEW q \in Procs, Recorded(q), UNCHANGED database, q \in torn => q \in torn',
           UNCHANGED <<cache[q], epoch[q], lock[q], pc[q], batch[q]>>
    PROVE  Recorded(q)'
BY DEF Recorded, database

\* The refresh of a process that is not mixed, step by step.
LEMMA RefreshRecords ==
    ASSUME LockInv, BatchStored, NEW p \in Procs, NEW t \in Threads, Refresh(p, t), Recorded(p)
    PROVE  Recorded(p)'
<1> USE StepNames DEF standing
<1>1. /\ TypeOK /\ LockHeld /\ EpochBounded
      /\ meta \in 0..MaxEpoch /\ epoch[p] \in 0..MaxEpoch /\ t # Starting /\ Nobody # Starting
      /\ MaxEpoch \in Nat
  BY CatalogAssumption DEF LockInv, TypeOK, Starting, Nobody
<1>2. pc[p][t] # "idle" => lock[p] = t /\ \A u \in Threads \ {t} : pc[p][u] = "idle"
  BY <1>1 DEF LockHeld
<1>3. CASE Acquire(p, t)
  <2>1. /\ lock[p] = Nobody /\ lock'[p] # Starting /\ UNCHANGED <<database, memory, batch, torn>>
        /\ pc[p][t] = "idle"
        /\ \A u \in Threads : pc'[p][u] = IF u = t THEN "discovering" ELSE pc[p][u]
    BY <1>1, <1>3, Moved DEF Acquire, TypeOK
  <2>2. \A u \in Threads : pc[p][u] = "idle"
    BY <1>1, <2>1, CatalogAssumption DEF LockHeld, Nobody
  <2>3. \A u \in Threads : pc'[p][u] \in {"idle", "discovering"}
    BY <2>1, <2>2
  <2>4. lock[p] # Starting /\ \A u \in Threads : pc[p][u] \notin Halfway
    BY <1>1, <2>1, <2>2
  <2> QED BY <2>1, <2>3, <2>4 DEF Recorded, database, memory, Halfway
<1>4. ASSUME NEW from \in {"discovering", "storing"}, NEW to \in {"storing", "idle"},
             Moves(p, t, from, to), UNCHANGED <<database, memory, torn>>, lock' = lock \/ Release(p)
      PROVE  Recorded(p)'
  <2>1. pc[p][t] = from /\ \A u \in Threads : pc'[p][u] = IF u = t THEN to ELSE pc[p][u]
    BY <1>1, <1>4, Moved
  <2>2. lock[p] # Starting /\ \A u \in Threads : pc[p][u] \notin Halfway
    BY <1>1, <1>2, <2>1
  <2>3. \A u \in Threads : pc'[p][u] \in {"idle", "storing"}
    BY <1>2, <2>1
  <2> QED BY <1>4, <2>2, <2>3 DEF Recorded, database, memory, Halfway
<1>5. CASE Store(p, t) /\ Moves(p, t, "storing", "swapping")
  <2>1. /\ pc[p][t] = "storing" /\ table' = Upserted(table, batch[p][t])
        /\ UNCHANGED <<meta, history, cache, epoch, batch>>
        /\ \A u \in Threads : pc'[p][u] = IF u = t THEN "swapping" ELSE "idle"
    BY <1>1, <1>2, <1>5, Moved DEF Store, memory, Halfway
  <2>2. cache[p] = table /\ epoch[p] = meta /\ \A n \in 1..MaxEpoch : n > meta => history[n] = Empty
    BY <1>1, <1>2, <2>1 DEF Recorded
  <2> QED BY <2>1, <2>2 DEF Recorded, Halfway
<1>6. CASE Swap(p, t)
  <2>1. /\ pc[p][t] = "swapping" /\ cache'[p] = Upserted(cache[p], batch[p][t])
        /\ UNCHANGED <<table, meta, history, epoch>>
        /\ \A u \in Threads : pc'[p][u] = IF u = t THEN "counting" ELSE "idle"
    BY <1>1, <1>2, <1>6, Moved DEF Swap, database, Halfway, TypeOK
  <2> QED BY <2>1 DEF Recorded, Halfway
<1>7. CASE Count(p, t)
  <2>1. /\ pc[p][t] = "counting" /\ epoch'[p] = epoch[p] + 1
        /\ UNCHANGED <<table, meta, history, cache>>
        /\ \A u \in Threads : pc'[p][u] = IF u = t THEN "saving" ELSE "idle"
    BY <1>1, <1>2, <1>7, Moved DEF Count, database, Halfway, TypeOK
  <2> QED BY <2>1 DEF Recorded, Halfway
<1>8. CASE PersistMeta(p, t)
  <2>1. /\ pc[p][t] = "saving" /\ meta' = epoch[p]
        /\ UNCHANGED <<table, history, cache, epoch>>
        /\ \A u \in Threads : pc'[p][u] = IF u = t THEN "appending" ELSE "idle"
    BY <1>1, <1>2, <1>8, Moved DEF PersistMeta, memory, Halfway
  <2>2. cache[p] = table /\ epoch[p] = meta + 1 /\ \A n \in 1..MaxEpoch : n > meta => history[n] = Empty
    BY <2>1 DEF Recorded
  <2>3. \A n \in 1..MaxEpoch : n >= meta' => history[n] = Empty
    BY <1>1, <2>1, <2>2
  <2>4. meta' \in 1..MaxEpoch
    BY <1>1, <2>1, <2>2
  <2> QED BY <1>1, <2>1, <2>2, <2>3, <2>4 DEF Recorded, Halfway
<1>9. CASE AppendHistory(p, t)
  <2>1. /\ pc[p][t] = "appending" /\ lock'[p] # Starting
        /\ history' = [history EXCEPT ![epoch[p]] = IF history[epoch[p]] = Empty THEN table ELSE history[epoch[p]]]
        /\ UNCHANGED <<table, meta, cache, epoch>>
        /\ \A u \in Threads : pc'[p][u] = "idle"
    BY <1>1, <1>2, <1>9, Moved DEF AppendHistory, memory, Halfway, Release, TypeOK
  <2>2. cache[p] = table /\ epoch[p] = meta /\ history[meta] = Empty /\ table # Empty
    BY <2>1 DEF Recorded, BatchStored, Halfway
  <2>3. meta \in 1..MaxEpoch
    BY <1>1, <2>1, <2>2 DEF EpochBounded
  <2>4. /\ history'[meta] = table
        /\ \A n \in 1..MaxEpoch : n # meta => history'[n] = history[n]
    BY <1>1, <2>1, <2>2, <2>3 DEF TypeOK
  <2>5. SnapshotOf(history', meta) = table
    BY <2>2, <2>3, <2>4, OwnSnapshot
  <2>6. \A n \in 1..MaxEpoch : n > meta => history'[n] = Empty
    BY <1>1, <2>3, <2>4 DEF Recorded
  <2> QED BY <2>1, <2>2, <2>5, <2>6 DEF Recorded, Halfway
<1> QED
  <2>1. CASE Discover(p, t)
    BY <1>4, <2>1 DEF Discover
  <2>2. CASE Store(p, t)
    BY <1>4, <1>5, <2>2 DEF Store
  <2> QED BY <1>3, <1>6, <1>7, <1>8, <1>9, <2>1, <2>2 DEF Refresh

LEMMA RecordStep ==
    ASSUME LockInv, BatchStored, OthersUnstored, HistoryRecorded, [Next]_vars
    PROVE  HistoryRecorded'
<1> USE StepNames DEF standing
<1>1. TypeOK /\ LockHeld
  BY DEF LockInv
<1> SUFFICES ASSUME NEW q \in Procs, q \notin mixed'
             PROVE  Recorded(q)'
  BY DEF HistoryRecorded
<1>2. q \notin mixed => Recorded(q)
  BY DEF HistoryRecorded
<1>3. ASSUME NEW p \in Procs, NEW t \in Threads, Refresh(p, t)
      PROVE  Recorded(q)'
  <2>1. q \notin mixed
    BY <1>3 DEF Refresh, Acquire, Discover, Store, Swap, Count, PersistMeta, AppendHistory
  <2>2. CASE q = p
    BY <1>2, <1>3, <2>1, <2>2, RefreshRecords
  <2>3. CASE q # p
    <3>1. pc[p][t] \notin Halfway
      BY <2>1, <2>3 DEF OthersUnstored
    <3>2. Acquire(p, t) \/ Discover(p, t) \/ Store(p, t)
      BY <1>3, <3>1 DEF Refresh, Swap, Count, PersistMeta, AppendHistory, Moves, Halfway
    <3>3. UNCHANGED <<database, torn>>
      BY <2>3, <3>2 DEF Acquire, Discover, Store
    <3>4. UNCHANGED <<cache[q], epoch[q], lock[q], pc[q], batch[q]>>
      BY <1>1, <2>3, <3>2 DEF Acquire, Discover, Store, Moves, Release, memory, TypeOK
    <3> QED BY <1>2, <2>1, <3>3, <3>4, RecordedKept
  <2> QED BY <2>2, <2>3
<1>4. ASSUME NEW p \in Procs, Rescore(p)
      PROVE  Recorded(q)'
  <2>1. q = p /\ q \notin mixed /\ p \in torn' /\ UNCHANGED <<meta, history, epoch, lock, pc>>
    BY <1>4 DEF Rescore, threads
  <2>2. \A t \in Threads : pc[p][t] = "idle"
    BY <1>1, <1>4, CatalogAssumption DEF Rescore, LockHeld, Nobody
  <2>3. cache[p] = table /\ cache \in [Procs -> Catalogs] /\ table \in Catalogs
    BY <1>1, <1>2, <2>1, <2>2 DEF Recorded, TypeOK
  <2>4. PICK rated \in Batches :
           /\ \A m \in Models : rated[m] = 0 <=> cache[p][m] = 0
           /\ table' = Upserted(table, rated)
           /\ cache' = [cache EXCEPT ![p] = rated]
    BY <1>4 DEF Rescore
  <2>5. cache'[p] = table'
    <3>1. rated \in Catalogs /\ cache'[p] = rated
      BY <2>3, <2>4 DEF Batches
    <3>2. Upserted(table, rated) = rated
      BY <2>3, <2>4, <3>1 DEF Upserted, Catalogs
    <3> QED BY <2>4, <3>1, <3>2
  <2> QED BY <1>2, <2>1, <2>2, <2>5 DEF Recorded
<1>5. ASSUME NEW p \in Procs, Restart(p)
      PROVE  Recorded(q)'
  <2>1. q \notin mixed /\ UNCHANGED database /\ torn \subseteq torn'
    BY <1>5 DEF Restart
  <2>2. CASE q = p
    <3>1. (\A t \in Threads : pc[p][t] \notin Halfway) \/ p \in torn'
      BY <1>5 DEF Restart, Halfway
    <3>2. cache'[p] = table /\ lock'[p] = Starting /\ \A t \in Threads : pc'[p][t] = "idle"
      BY <1>1, <1>5 DEF Restart, TypeOK
    <3> QED BY <1>2, <2>1, <2>2, <3>1, <3>2 DEF Recorded, database, Halfway
  <2>3. CASE q # p
    <3>1. UNCHANGED <<cache[q], epoch[q], lock[q], pc[q], batch[q]>>
      BY <1>1, <1>5, <2>3 DEF Restart, TypeOK
    <3> QED BY <1>2, <2>1, <3>1, RecordedKept
  <2> QED BY <2>2, <2>3
<1>6. ASSUME NEW p \in Procs, RestoreMeta(p)
      PROVE  Recorded(q)'
  <2>1. q \notin mixed /\ UNCHANGED <<database, cache, pc, batch, standing>>
    BY <1>6 DEF RestoreMeta
  <2>2. CASE q = p
    <3>1. \A t \in Threads : pc[p][t] = "idle"
      BY <1>1, <1>6, CatalogAssumption DEF RestoreMeta, LockHeld, Starting
    <3>2. epoch'[p] = meta
      BY <1>1, <1>6 DEF RestoreMeta, TypeOK
    <3> QED BY <1>2, <2>1, <2>2, <3>1, <3>2 DEF Recorded, database, Halfway
  <2>3. CASE q # p
    <3>1. UNCHANGED <<cache[q], epoch[q], lock[q], pc[q], batch[q]>>
      BY <1>1, <1>6, <2>1, <2>3 DEF RestoreMeta, TypeOK
    <3> QED BY <1>2, <2>1, <3>1, RecordedKept
  <2> QED BY <2>2, <2>3
<1>7. ASSUME NEW p \in Procs, Decide(p) \/ LogDecision(p)
      PROVE  Recorded(q)'
  <2>1. q \notin mixed /\ UNCHANGED <<database, memory, threads, torn>>
    BY <1>7 DEF Decide, LogDecision
  <2> QED BY <1>2, <2>1, RecordedKept DEF memory, threads
<1>8. CASE UNCHANGED vars
  BY <1>2, <1>8, RecordedKept DEF vars, memory, threads
<1> QED BY <1>3, <1>4, <1>5, <1>6, <1>7, <1>8 DEF Next

-----------------------------------------------------------------------------
(* Theorems *)

LEMMA CatalogSafe == Spec => []CatalogInv
<1>1. CatalogInv /\ [Next]_vars => CatalogInv'
  BY LockStep, RowsStep, OthersStep, RecordStep DEF CatalogInv
<1> QED BY CatalogInitial, <1>1, PTL DEF Spec

\* The tables, the copies of them and the threads of catalog.py have their types;
\* no epoch is counted beyond the ones that refreshes were started for.
THEOREM CatalogTypeCorrect == Spec => []TypeOK
<1>1. CatalogInv => TypeOK
  BY DEF CatalogInv, LockInv
<1> QED BY CatalogSafe, <1>1, PTL

\* refresh_from_providers: the refresh lock lets one thread of a process at a time
\* discover, store and append (catalog.py), through restarts as well.
THEOREM RefreshTurns == Spec => []RefreshesTakeTurns
<1>1. CatalogInv => RefreshesTakeTurns
  <2> SUFFICES ASSUME CatalogInv, NEW p \in Procs
               PROVE  Cardinality({t \in Threads : pc[p][t] # "idle"}) <= 1
    BY DEF RefreshesTakeTurns
  <2> DEFINE busy == {t \in Threads : pc[p][t] # "idle"}
  <2>1. busy \subseteq {lock[p]}
    BY DEF CatalogInv, LockInv, LockHeld
  <2>2. IsFiniteSet({lock[p]}) /\ Cardinality({lock[p]}) = 1
    BY FS_Singleton
  <2> HIDE DEF busy
  <2>3. IsFiniteSet(busy) /\ Cardinality(busy) <= Cardinality({lock[p]})
    BY <2>1, <2>2, FS_Subset
  <2>4. Cardinality(busy) <= 1
    BY <2>2, <2>3
  <2> QED BY <2>4 DEF busy
<1> QED BY CatalogSafe, <1>1, PTL

\* upsert_models: at every moment a process routes by models that are in the
\* database (catalog.py), whichever process stored or rescored them.
THEOREM CacheStored == Spec => []CacheIsStored
<1>1. CatalogInv => CacheIsStored
  BY DEF CatalogInv
<1> QED BY CatalogSafe, <1>1, PTL

\* snapshot and _restore_meta: between the refreshes of a process that alone has
\* stored, its catalog is the one recorded under its epoch, once it has finished a
\* refresh after one that was cut short or a rescore (catalog.py).
THEOREM RestingRecorded == Spec => []RestingIsRecorded
<1>1. CatalogInv => RestingIsRecorded
  <2> SUFFICES ASSUME CatalogInv, NEW p \in Procs \ (mixed \cup torn), lock[p] = Nobody
               PROVE  Snapshot(epoch[p]) = cache[p]
    BY DEF RestingIsRecorded
  <2>1. Recorded(p) /\ LockHeld
    BY DEF CatalogInv, LockInv, HistoryRecorded
  <2>2. \A t \in Threads : pc[p][t] = "idle"
    BY <2>1, CatalogAssumption DEF LockHeld, Nobody
  <2>3. lock[p] # Starting
    BY DEF Nobody, Starting
  <2>4. cache[p] = table /\ SnapshotOf(history, meta) = table /\ epoch[p] = meta
    BY <2>1, <2>2, <2>3, StepNames DEF Recorded
  <2>5. Snapshot(epoch[p]) = SnapshotOf(history, epoch[p])
    BY DEF Snapshot, SnapshotOf
  <2> QED BY <2>4, <2>5
<1> QED BY CatalogSafe, <1>1, PTL

=============================================================================
