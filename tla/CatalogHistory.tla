--------------------------- MODULE CatalogHistory ---------------------------
(***************************************************************************)
(* The model catalog and the record of what it was (catalog.py): the rows  *)
(* in SQLite, each process's copy in memory, the epoch that counts         *)
(* refreshes, and the append-only history that a logged decision is        *)
(* replayed against (decision_log.py).                                     *)
(*                                                                         *)
(* A refresh runs in a thread of its own (at start-up, and every hour) or  *)
(* in the handler of /v1/catalog/refresh, beside the requests of its       *)
(* process, and commits to the database between its steps; a process may   *)
(* be killed at any of them.  Processes share the database file only: the  *)
(* server, and the command line tool run next to it.                       *)
(***************************************************************************)
EXTENDS Naturals, FiniteSets

CONSTANTS
    Procs,       \* processes
    Threads,     \* threads of a process that may refresh
    Tools,       \* processes that may be asked to rescore (reflex catalog)
    Models,      \* catalog keys
    MaxRating,   \* a model's contents are a rating; 0: the model is absent
    MaxEpoch,    \* bound: no refresh starts beyond this epoch
    Kills        \* whether processes may be killed

ASSUME CatalogAssumption ==
    /\ Tools \subseteq Procs
    /\ {"nobody", "starting"} \cap Threads = {}
    /\ MaxRating \in Nat \ {0} /\ MaxEpoch \in Nat \ {0}
    /\ Kills \in BOOLEAN

VARIABLES
    table,       \* the rows of `models'
    meta,        \* catalog_epoch in catalog_meta
    history,     \* models_history: epoch -> rows; Empty where there are none
    cache,       \* _memory_cache, per process
    epoch,       \* catalog_epoch, per process
    lock,        \* _refresh_lock: the thread that holds it, or Nobody
    pc,          \* where each thread is
    batch,       \* what each thread has discovered
    asked,       \* per process: the catalog its pending decision was made from
    logged,      \* the decision record: [from, epoch], or NoRecord
    mixed,       \* auxiliary: the processes beside which another has stored
    torn         \* auxiliary: the processes that were killed between the commits
                 \* of a refresh, or rescored, and have not finished one since

database == <<table, meta, history>>
memory   == <<cache, epoch>>
threads  == <<lock, pc, batch>>
decision == <<asked, logged>>
standing == <<mixed, torn>>
vars     == <<database, memory, threads, decision, standing>>

Catalogs == [Models -> 0..MaxRating]
Empty    == [m \in Models |-> 0]
Batches  == Catalogs \ {Empty}   \* what the discoverers find; 0: not found
Nobody   == "nobody"
Starting == "starting"           \* lock: __init__ is not done yet
NoRecord == [from |-> Empty, epoch |-> 0]
Steps    == {"idle", "discovering", "storing", "swapping", "counting",
             "saving", "appending"}

TypeOK ==
    /\ table \in Catalogs /\ meta \in 0..MaxEpoch
    /\ history \in [1..MaxEpoch -> Catalogs]
    /\ cache \in [Procs -> Catalogs] /\ epoch \in [Procs -> 0..MaxEpoch]
    /\ lock \in [Procs -> Threads \cup {Nobody, Starting}]
    /\ pc \in [Procs -> [Threads -> Steps]]
    /\ batch \in [Procs -> [Threads -> Catalogs]]
    /\ asked \in [Procs -> Catalogs]
    /\ logged \in [from : Catalogs, epoch : 0..MaxEpoch]
    /\ mixed \subseteq Procs /\ torn \subseteq Procs

Init ==
    /\ table = Empty /\ meta = 0 /\ history = [e \in 1..MaxEpoch |-> Empty]
    /\ cache = [p \in Procs |-> Empty] /\ epoch = [p \in Procs |-> 0]
    /\ lock = [p \in Procs |-> Nobody]
    /\ pc = [p \in Procs |-> [t \in Threads |-> "idle"]]
    /\ batch = [p \in Procs |-> [t \in Threads |-> Empty]]
    /\ asked = [p \in Procs |-> Empty] /\ logged = NoRecord
    /\ mixed = {} /\ torn = {}

\* INSERT OR REPLACE and the update of the dictionary: rows are never deleted.
Upserted(rows, found) ==
    [m \in Models |-> IF found[m] # 0 THEN found[m] ELSE rows[m]]

\* snapshot(e): the rows of the greatest epoch up to e that has any.
Snapshot(e) ==
    LET written == {n \in 1..MaxEpoch : n <= e /\ history[n] # Empty}
    IN  IF written = {} THEN Empty
        ELSE history[CHOOSE n \in written : \A k \in written : k <= n]

-----------------------------------------------------------------------------
(* refresh_from_providers, step by step. *)

Moves(p, t, from, to) ==
    /\ pc[p][t] = from
    /\ pc' = [pc EXCEPT ![p][t] = to]

\* Fault: the refresh lock is not taken.
AcquireAnyway(p, t) ==
    /\ Moves(p, t, "idle", "discovering")
    /\ epoch[p] < MaxEpoch
    /\ lock' = [lock EXCEPT ![p] = t]
    /\ UNCHANGED <<database, memory, batch, decision, standing>>

\* acquire(blocking=False); a thread that does not get the lock returns.
Acquire(p, t) ==
    /\ Moves(p, t, "idle", "discovering")
    /\ epoch[p] < MaxEpoch
    /\ lock[p] = Nobody /\ lock' = [lock EXCEPT ![p] = t]
    /\ UNCHANGED <<database, memory, batch, decision, standing>>

\* The finally clause.
Release(p) == lock' = [lock EXCEPT ![p] = Nobody]

\* The sources that are due answer with models, or nothing is due or answers.
Discover(p, t) ==
    \/ /\ Moves(p, t, "discovering", "storing")
       /\ \E found \in Batches : batch' = [batch EXCEPT ![p][t] = found]
       /\ UNCHANGED <<database, memory, lock, decision, standing>>
    \/ /\ Moves(p, t, "discovering", "idle")
       /\ Release(p)
       /\ UNCHANGED <<database, memory, batch, decision, standing>>

\* Fault: the transaction is left to be committed by a later one.
StoreUncommitted(p, t) ==
    /\ Moves(p, t, "storing", "swapping")
    /\ UNCHANGED <<database, memory, lock, batch, decision, standing>>

\* upsert_models: the transaction on `models', which may raise and end the
\* refresh, then the swap of the cache.
Store(p, t) ==
    \/ /\ Moves(p, t, "storing", "swapping")
       /\ table' = Upserted(table, batch[p][t])
       /\ mixed' = mixed \cup (Procs \ {p})
       /\ UNCHANGED <<meta, history, memory, lock, batch, decision, torn>>
    \/ /\ Moves(p, t, "storing", "idle") /\ Release(p)
       /\ batch' = [batch EXCEPT ![p][t] = Empty]
       /\ UNCHANGED <<database, memory, decision, standing>>

Swap(p, t) ==
    /\ Moves(p, t, "swapping", "counting")
    /\ cache' = [cache EXCEPT ![p] = Upserted(@, batch[p][t])]
    /\ UNCHANGED <<database, epoch, lock, batch, decision, standing>>

\* catalog_epoch += 1
Count(p, t) ==
    /\ Moves(p, t, "counting", "saving")
    /\ epoch' = [epoch EXCEPT ![p] = @ + 1]
    /\ UNCHANGED <<database, cache, lock, batch, decision, standing>>

\* _persist_meta
PersistMeta(p, t) ==
    /\ Moves(p, t, "saving", "appending")
    /\ meta' = epoch[p]
    /\ UNCHANGED <<table, history, memory, lock, batch, decision, standing>>

\* _append_history_snapshot: the rows of `models' under this epoch.  Where the
\* epoch has rows the primary key rejects the INSERT as a whole (no row of
\* `models' is ever deleted), and the exception is dropped.
AppendHistory(p, t) ==
    /\ Moves(p, t, "appending", "idle") /\ Release(p)
    /\ history' = [history EXCEPT ![epoch[p]] = IF @ = Empty THEN table ELSE @]
    /\ batch' = [batch EXCEPT ![p][t] = Empty]
    /\ torn' = torn \ {p}
    /\ UNCHANGED <<table, meta, memory, decision, mixed>>

\* rescore_all in a tool, which has one thread: every model it has in memory
\* may be rated anew and is upserted; nothing else is recorded.
Rescore(p) ==
    /\ p \in Tools /\ cache[p] # Empty /\ lock[p] = Nobody
    /\ \E rated \in Batches :
          /\ \A m \in Models : rated[m] = 0 <=> cache[p][m] = 0
          /\ table' = Upserted(table, rated)
          /\ cache' = [cache EXCEPT ![p] = rated]
    /\ mixed' = mixed \cup (Procs \ {p}) /\ torn' = torn \cup {p}
    /\ UNCHANGED <<meta, history, epoch, threads, decision>>

-----------------------------------------------------------------------------
(* Restarts and requests. *)

\* The process is killed and started again: __init__ up to _load_cache, and
\* then _restore_meta.
Restart(p) ==
    /\ Kills
    /\ cache' = [cache EXCEPT ![p] = table]
    /\ epoch' = [epoch EXCEPT ![p] = 0]
    /\ lock' = [lock EXCEPT ![p] = Starting]
    /\ pc' = [pc EXCEPT ![p] = [t \in Threads |-> "idle"]]
    /\ batch' = [batch EXCEPT ![p] = [t \in Threads |-> Empty]]
    /\ asked' = [asked EXCEPT ![p] = Empty]
    /\ torn' = IF \E t \in Threads :
                     pc[p][t] \in {"swapping", "counting", "saving", "appending"}
               THEN torn \cup {p} ELSE torn
    /\ UNCHANGED <<database, logged, mixed>>

\* Fault: the epoch is not read back.
RestoreNothing(p) ==
    /\ lock[p] = Starting
    /\ lock' = [lock EXCEPT ![p] = Nobody]
    /\ UNCHANGED <<database, memory, pc, batch, decision, standing>>

RestoreMeta(p) ==
    /\ lock[p] = Starting
    /\ epoch' = [epoch EXCEPT ![p] = meta]
    /\ lock' = [lock EXCEPT ![p] = Nobody]
    /\ UNCHANGED <<database, cache, pc, batch, decision, standing>>

\* arbitrate reads list_all(); then the upstream is called.  Tools serve no
\* requests.  Bound: one record is followed.
Decide(p) ==
    /\ p \notin Tools /\ lock[p] # Starting /\ logged = NoRecord
    /\ asked[p] = Empty /\ cache[p] # Empty
    /\ asked' = [asked EXCEPT ![p] = cache[p]]
    /\ UNCHANGED <<database, memory, threads, logged, standing>>

\* _log_route_decision, with version_info() once the upstream has answered.
LogDecision(p) ==
    /\ asked[p] # Empty
    /\ logged' = [from |-> asked[p], epoch |-> epoch[p]]
    /\ asked' = [asked EXCEPT ![p] = Empty]
    /\ UNCHANGED <<database, memory, threads, standing>>

Refresh(p, t) ==
    \/ Acquire(p, t) \/ Discover(p, t) \/ Store(p, t) \/ Swap(p, t)
    \/ Count(p, t) \/ PersistMeta(p, t) \/ AppendHistory(p, t)

Next == \E p \in Procs :
    \/ Rescore(p) \/ Restart(p) \/ RestoreMeta(p) \/ Decide(p) \/ LogDecision(p)
    \/ \E t \in Threads : Refresh(p, t)

Spec == Init /\ [][Next]_vars

-----------------------------------------------------------------------------
(* Properties *)

\* snapshot, "models as they were at `epoch`" (catalog.py:498): while no refresh
\* is under way in a process, its catalog is the snapshot of its epoch, across
\* restarts too.  A kill between the commits of a refresh, or a rescore, leaves
\* rows that no snapshot has; the next refresh to finish puts that right.  Not
\* where another process has stored: the two may count the same epoch.
RestingIsRecorded ==
    \A p \in Procs \ (mixed \cup torn) :
        lock[p] = Nobody => Snapshot(epoch[p]) = cache[p]

\* upsert_models (catalog.py:468): the database is written before the memory, so
\* no model is routed to by a process that a restart of it would not find again.
CacheIsStored ==
    \A p \in Procs, m \in Models : cache[p][m] # 0 => table[m] # 0

\* Refresh threads of one process take turns: no two of them are past the lock,
\* so each refresh that stored models gets an epoch and rows of its own.
RefreshesTakeTurns ==
    \A p \in Procs : Cardinality({t \in Threads : pc[p][t] # "idle"}) <= 1

\* version_info is "logged with every routing decision" (catalog.py:493) so that
\* the catalog of a decision is "fully pinned" (REFLEX_BLOCKER_FIX_DESIGN.md:469):
\* the snapshot of a logged epoch is the catalog the decision was made from.
DecisionIsPinned == logged.from # Empty => Snapshot(logged.epoch) = logged.from
=============================================================================
