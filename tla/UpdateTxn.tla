----------------------------- MODULE UpdateTxn ------------------------------
(***************************************************************************)
(* The distributed transaction of a query that writes a new version of a   *)
(* persistent array (store, insert, delete...).  The coordinator takes a   *)
(* WR lock, notes the new version in its lock row, sends the plan; every   *)
(* instance writes and flushes its chunks, the workers under rows copied   *)
(* from the coordinator's.  Recording the version in the catalog is the    *)
(* commit point.  Undoing is decided from the catalog alone: by the error  *)
(* handler of the instance, or by its recovery after a crash.              *)
(*                                                                         *)
(* Query.h calls the verdicts of one instance commit and abort; here a     *)
(* query object goes through the stages below.  The stages of a main       *)
(* routine that executes are Executing; an abort that comes meanwhile      *)
(* waits until it ends (QueryLifecycle shows that it does).                *)
(***************************************************************************)
EXTENDS CatalogLocks, Sequences

CONSTANTS Target,        \* the array each query writes
          Deferred,      \* queries that note the version only in execute() (autochunked input)
          MaxCrashes,    \* bound: crashes in a behaviour
          MaxMishaps     \* bound: aborts a worker starts on its own, and connections
                         \* that break and lose what is in flight

ASSUME TargetAssumption == Target \in [Queries -> Arrays]
ASSUME BoundsAssumption == MaxCrashes \in Nat /\ MaxMishaps \in Nat

VARIABLES rows,      \* array_version_lock
          last,      \* last[a]: getLastVersion of array a
          committed, \* the pairs [query, ver] recorded in the catalog
          disk,      \* disk[i]: the versions of which instance i holds chunks, [query, ver]
          synced,    \* synced[i]: the part of disk[i] that was flushed
          stage,     \* stage[i][q]: the query object of q on i
          doomed,    \* pairs <<i, q>>: q was aborted on i while it executed
          newVersion, \* newVersion[q]: the version in the schema that the plan carries
          ids,       \* ids[i][q]: the version in the LockDesc of a worker, 0 until lockArray filled it
          arrived,   \* pairs <<i, q>>: i reached the barrier of executionPreamble
          sent,      \* pairs <<i, q>>: the mtQueryResult of i is on its way
          answered,  \* pairs <<i, q>>: the coordinator has the result of i
          chan,      \* chan[q][i]: from the coordinator of q to i, in order
          boot,      \* boot[i]: up, or how far the recovery of i got
          crashes, mishaps

catalogVars == <<rows, last, committed, newVersion>>
storeVars == <<disk, synced>>
objectVars == <<stage, doomed, ids, arrived, sent, answered>>
boundVars == <<crashes, mishaps>>
vars == <<catalogVars, storeVars, objectVars, chan, boot, boundVars>>

Version == [query : Queries, ver : Nat]

Executing == {"locked", "planned", "started", "arrived", "holding", "wrote", "flushed"}
Aborting == {"undo", "undoChecked", "undone", "releasing"}
Stage == {"none", "ok", "failed", "recording", "recorded", "released", "gone", "crashed"}
           \cup Executing \cup Aborting

TypeOK ==
  /\ rows \subseteq LockDesc
  /\ last \in [Arrays -> Nat]
  /\ committed \subseteq Version
  /\ disk \in [Instances -> SUBSET Version] /\ synced \in [Instances -> SUBSET Version]
  /\ newVersion \in [Queries -> Nat]
  /\ stage \in [Instances -> [Queries -> Stage]]
  /\ ids \in [Instances -> [Queries -> Nat]]
  /\ doomed \subseteq Instances \X Queries
  /\ arrived \subseteq Instances \X Queries
  /\ sent \subseteq Instances \X Queries /\ answered \subseteq Instances \X Queries
  /\ chan \in [Queries -> [Instances -> Seq({"plan", "abort", "commit", "notFound"})]]
  /\ boot \in [Instances -> {"up", "coord", "coordDone", "worker", "workerDone"}]
  /\ crashes \in Nat /\ mishaps \in Nat

Init ==
  /\ rows = {} /\ committed = {}
  /\ last = [a \in Arrays |-> 0]
  /\ disk = [i \in Instances |-> {}] /\ synced = [i \in Instances |-> {}]
  /\ newVersion = [q \in Queries |-> 0]
  /\ stage = [i \in Instances |-> [q \in Queries |-> "none"]]
  /\ ids = [i \in Instances |-> [q \in Queries |-> 0]]
  /\ doomed = {} /\ arrived = {} /\ sent = {} /\ answered = {}
  /\ chan = [q \in Queries |-> [i \in Instances |-> <<>>]]
  /\ boot = [i \in Instances |-> "up"]
  /\ crashes = 0 /\ mishaps = 0

Workers(q) == Instances \ {Coordinator[q]}
CoordRows(q) == CoordinatorLock(rows, Target[q], q)

At(i, q, s) == boot[i] = "up" /\ stage[i][q] = s
CoordAt(q, s) == At(Coordinator[q], q, s)
Goto(i, q, s) == stage' = [stage EXCEPT ![i][q] = s]
CoordGoto(q, s) == Goto(Coordinator[q], q, s)

\* CachedStorage::rollback on instance i undoes every log record of the array of
\* one of the locks whose version is at least the new one of that lock.
Rollback(i, locks) ==
  LET kept == {c \in disk[i] : \A l \in locks : ~(Target[c.query] = l.arr /\ c.ver >= l.ver)}
  IN  /\ disk' = [disk EXCEPT ![i] = kept]
      /\ synced' = [synced EXCEPT ![i] = kept]

-----------------------------------------------------------------------------
\* The main routine of the coordinator

WriteLock(q) ==
  [arr |-> Target[q], query |-> q, inst |-> Coordinator[q], mode |-> WR, ver |-> 0]

AcquireLock(q) ==
  /\ CoordAt(q, "none")
  /\ CoordLockFree(rows, WriteLock(q))
  /\ rows' = rows \cup {WriteLock(q)}
  /\ CoordGoto(q, "locked")
  /\ UNCHANGED <<last, committed, newVersion, storeVars, doomed, ids, arrived, sent, answered, chan, boot, boundVars>>

\* updateArrayLock with the new version
NoteVersion(q, v) ==
  \E r \in CoordRows(q) : rows' = UpdateArrayLock(rows, [r EXCEPT !.ver = v])

\* MUTANT of PreSingleExecute: the last version instead of the next one
PreSingleExecuteSame(q) ==
  /\ CoordAt(q, "locked")
  /\ newVersion' = [newVersion EXCEPT ![q] = last[Target[q]]]
  /\ IF q \in Deferred THEN UNCHANGED rows ELSE NoteVersion(q, last[Target[q]])
  /\ CoordGoto(q, "planned")
  /\ UNCHANGED <<last, committed, storeVars, doomed, ids, arrived, sent, answered, chan, boot, boundVars>>

PreSingleExecute(q) ==
  /\ CoordAt(q, "locked")
  /\ newVersion' = [newVersion EXCEPT ![q] = last[Target[q]] + 1]
  /\ IF q \in Deferred THEN UNCHANGED rows ELSE NoteVersion(q, last[Target[q]] + 1)
  /\ CoordGoto(q, "planned")
  /\ UNCHANGED <<last, committed, storeVars, doomed, ids, arrived, sent, answered, chan, boot, boundVars>>

\* To every other instance; what is sent to a dead one is lost.
Broadcast(q, msg) ==
  chan' = [chan EXCEPT ![q] = [i \in Instances |->
             IF i \in Workers(q) /\ boot[i] = "up" THEN Append(@[i], msg) ELSE @[i]]]

SendPlan(q) ==
  /\ CoordAt(q, "planned")
  /\ Broadcast(q, "plan")
  /\ CoordGoto(q, "started")
  /\ UNCHANGED <<catalogVars, storeVars, doomed, ids, arrived, sent, answered, boot, boundVars>>

\* executionPreamble up to its barrier, on the coordinator
Preamble(q) ==
  /\ CoordAt(q, "started")
  /\ IF q \in Deferred THEN NoteVersion(q, newVersion[q]) ELSE UNCHANGED rows
  /\ arrived' = arrived \cup {<<Coordinator[q], q>>}
  /\ CoordGoto(q, "arrived")
  /\ UNCHANGED <<last, committed, newVersion, storeVars, doomed, ids, sent, answered, chan, boot, boundVars>>

\* MUTANT of BarrierPassed: executionPreamble without syncBarrier
NoBarrier(q) == TRUE

BarrierPassed(q) == \A i \in Instances : <<i, q>> \in arrived

\* Instance i writes its chunks of the new version.
WriteChunks(i, q, from) ==
  /\ At(i, q, from)
  /\ disk' = [disk EXCEPT ![i] = @ \cup {[query |-> q, ver |-> newVersion[q]]}]
  /\ Goto(i, q, "wrote")
  /\ UNCHANGED <<catalogVars, synced, doomed, ids, arrived, sent, answered, chan, boot, boundVars>>

CoordWrite(q) ==
  /\ BarrierPassed(q)
  /\ WriteChunks(Coordinator[q], q, "arrived")

\* StorageManager::flush at the end of execute(), on any instance
Flush(i, q) ==
  /\ At(i, q, "wrote")
  /\ synced' = [synced EXCEPT ![i] = disk[i]]
  /\ Goto(i, q, "flushed")
  /\ UNCHANGED <<catalogVars, disk, doomed, ids, arrived, sent, answered, chan, boot, boundVars>>

\* MUTANT of CoordDone: the coordinator does not wait for the results
CoordDoneAlone(q) ==
  /\ CoordAt(q, "flushed")
  /\ CoordGoto(q, "ok")
  /\ UNCHANGED <<catalogVars, storeVars, doomed, ids, arrived, sent, answered, chan, boot, boundVars>>

\* results.enter(), the last validate(), postSingleExecute, done()
CoordDone(q) ==
  /\ CoordAt(q, "flushed")
  /\ \A i \in Workers(q) : <<i, q>> \in answered
  /\ CoordGoto(q, "ok")
  /\ UNCHANGED <<catalogVars, storeVars, doomed, ids, arrived, sent, answered, chan, boot, boundVars>>

\* The main routine fails, or notices an error (a worker's, a cancellation, a
\* changed liveness): done(e) and handleAbort.
CoordFail(q) ==
  /\ \E s \in Executing : CoordAt(q, s)
  /\ CoordGoto(q, "undo")
  /\ UNCHANGED <<catalogVars, storeVars, doomed, ids, arrived, sent, answered, chan, boot, boundVars>>

\* The client cancels, or is gone
CoordCancel(q) ==
  /\ CoordAt(q, "ok")
  /\ CoordGoto(q, "undo")
  /\ UNCHANGED <<catalogVars, storeVars, doomed, ids, arrived, sent, answered, chan, boot, boundVars>>

\* The client completes the query: handleCommit.
CoordCommit(q) ==
  /\ CoordAt(q, "ok")
  /\ CoordGoto(q, "recording")
  /\ UNCHANGED <<catalogVars, storeVars, doomed, ids, arrived, sent, answered, chan, boot, boundVars>>

-----------------------------------------------------------------------------
\* The finalizers of a committed query on the coordinator, last pushed first

\* recordPersistent: addArrayVersion, the commit point
RecordPersistent(q) ==
  /\ CoordAt(q, "recording")
  /\ last' = [last EXCEPT ![Target[q]] = newVersion[q]]
  /\ committed' = committed \cup {[query |-> q, ver |-> newVersion[q]]}
  /\ CoordGoto(q, "recorded")
  /\ UNCHANGED <<rows, newVersion, storeVars, doomed, ids, arrived, sent, answered, chan, boot, boundVars>>

\* What the query object knew goes with it (destroy).
ForgetAnswers(q) == answered' = {p \in answered : p[2] # q}

\* releaseLocks, after a commit or after an abort
ReleaseLocks(q) ==
  /\ \/ CoordAt(q, "recorded") /\ CoordGoto(q, "released") /\ UNCHANGED answered
     \/ CoordAt(q, "releasing") /\ CoordGoto(q, "gone") /\ ForgetAnswers(q)
  /\ rows' = DeleteArrayLocks(rows, Coordinator[q], q)
  /\ UNCHANGED <<last, committed, newVersion, storeVars, doomed, ids, arrived, sent, chan, boot, boundVars>>

BroadcastCommit(q) ==
  /\ CoordAt(q, "released")
  /\ Broadcast(q, "commit")
  /\ CoordGoto(q, "gone") /\ ForgetAnswers(q)
  /\ UNCHANGED <<catalogVars, storeVars, doomed, ids, arrived, sent, boot, boundVars>>

\* handleErrorOnCoordinator: the locks among ls whose version must be undone
CoordToUndo(ls) == {r \in ls : r.ver # 0 /\ last[r.arr] # r.ver}

CoordUndo(q) ==
  /\ CoordAt(q, "undo")
  /\ IF CoordToUndo(CoordRows(q)) = {} THEN UNCHANGED storeVars
     ELSE Rollback(Coordinator[q], CoordToUndo(CoordRows(q)))
  /\ CoordGoto(q, "undone")
  /\ UNCHANGED <<catalogVars, doomed, ids, arrived, sent, answered, chan, boot, boundVars>>

BroadcastAbort(q) ==
  /\ CoordAt(q, "undone")
  /\ Broadcast(q, "abort")
  /\ CoordGoto(q, "releasing")
  /\ UNCHANGED <<catalogVars, storeVars, doomed, ids, arrived, sent, answered, boot, boundVars>>

-----------------------------------------------------------------------------
\* The query object of a worker

\* MUTANT of WorkerAbort: an abort of a query that failed by itself is ignored
WorkerAbortOnlyOk(i, q) ==
  /\ doomed' = IF stage[i][q] \in Executing THEN doomed \cup {<<i, q>>} ELSE doomed
  /\ stage' = [stage EXCEPT ![i][q] = IF @ = "ok" THEN "undoChecked" ELSE @]

\* handleAbort on worker i: at once, or when the main routine has ended
WorkerAbort(i, q) ==
  /\ doomed' = IF stage[i][q] \in Executing THEN doomed \cup {<<i, q>>} ELSE doomed
  /\ stage' = [stage EXCEPT ![i][q] = IF @ = "ok" THEN "undoChecked"
                                      ELSE IF @ = "failed" THEN "undo" ELSE @]

\* The messages of the coordinator come in order.  Those for a query object that
\* is not there any more, and a commit that finds an aborted query, are dropped.
WorkerReceive(i, q) ==
  LET msg == Head(chan[q][i])
  IN  /\ boot[i] = "up" /\ chan[q][i] # <<>>
      /\ chan' = [chan EXCEPT ![q][i] = Tail(@)]
      /\ \/ /\ msg = "plan"
            /\ stage' = [stage EXCEPT ![i][q] = IF @ = "none" THEN "started" ELSE @]
            /\ UNCHANGED doomed
         \/ /\ msg \in {"abort", "notFound"}
            /\ WorkerAbort(i, q)
         \/ /\ msg = "commit"
            /\ stage' = [stage EXCEPT ![i][q] = IF @ = "ok" THEN "releasing" ELSE @]
            /\ UNCHANGED doomed
      /\ UNCHANGED <<catalogVars, storeVars, ids, arrived, sent, answered, boot, boundVars>>

\* The worker suspects its coordinator, rightly or not, or the operator cancel()
\* reaches it: an abort the coordinator knows nothing of.
WorkerSuspect(i, q) ==
  /\ i \in Workers(q) /\ boot[i] = "up"
  /\ stage[i][q] \in Executing \cup {"ok", "failed"} /\ <<i, q>> \notin doomed
  /\ mishaps < MaxMishaps
  /\ mishaps' = mishaps + 1
  /\ WorkerAbort(i, q)
  /\ UNCHANGED <<catalogVars, storeVars, ids, arrived, sent, answered, chan, boot, crashes>>

WorkerPreamble(i, q) ==
  /\ i \in Workers(q) /\ At(i, q, "started")
  /\ arrived' = arrived \cup {<<i, q>>}
  /\ Goto(i, q, "arrived")
  /\ UNCHANGED <<catalogVars, storeVars, doomed, ids, sent, answered, chan, boot, boundVars>>

\* lockArray on a worker: a copy of the coordinator's row, if that is still there
WorkerLockRow(i, q) ==
  /\ i \in Workers(q) /\ At(i, q, "arrived")
  /\ BarrierPassed(q)
  /\ \E r \in WorkerSource(rows, Target[q], q, WR) : ids' = [ids EXCEPT ![i][q] = r.ver]
  /\ rows' = WorkerLockArray(rows, Target[q], q, i, WR)
  /\ Goto(i, q, "holding")
  /\ UNCHANGED <<last, committed, newVersion, storeVars, doomed, arrived, sent, answered, chan, boot, boundVars>>

WorkerWrite(i, q) ==
  /\ i \in Workers(q)
  /\ WriteChunks(i, q, "holding")

\* done(), which an abort that came before turns into a failure, and the result
WorkerDone(i, q) ==
  /\ i \in Workers(q) /\ At(i, q, "flushed")
  /\ <<i, q>> \notin doomed
  /\ sent' = sent \cup {<<i, q>>}
  /\ Goto(i, q, "ok")
  /\ UNCHANGED <<catalogVars, storeVars, doomed, ids, arrived, answered, chan, boot, boundVars>>

\* handleQueryResult.  A coordinator that no longer knows the query says so, which
\* the worker takes for an abort.
CoordReceive(i, q) ==
  LET known == stage[Coordinator[q]][q] \notin {"none", "gone", "crashed"}
  IN  /\ boot[Coordinator[q]] = "up" /\ <<i, q>> \in sent
      /\ sent' = sent \ {<<i, q>>}
      /\ answered' = IF known THEN answered \cup {<<i, q>>} ELSE answered
      /\ chan' = IF known \/ boot[i] # "up" THEN chan
                 ELSE [chan EXCEPT ![q][i] = Append(@, "notFound")]
      /\ UNCHANGED <<catalogVars, storeVars, stage, doomed, ids, arrived, boot, boundVars>>

\* An exception of the main routine ends in done(e).
WorkerFail(i, q) ==
  /\ i \in Workers(q) /\ boot[i] = "up"
  /\ stage[i][q] \in Executing
  /\ Goto(i, q, IF <<i, q>> \in doomed THEN "undo" ELSE "failed")
  /\ UNCHANGED <<catalogVars, storeVars, doomed, ids, arrived, sent, answered, chan, boot, boundVars>>

\* MUTANT of CoordLockGone: the worker does not wait for its coordinator's lock
CoordLockGoneUnchecked(a, q) == TRUE

\* The wait of handleErrorOnWorker
CoordLockGone(a, q) == CoordinatorLock(rows, a, q) = {}

\* handleErrorOnWorker: the locks among ls whose version must be undone
WorkerToUndo(ls) == {r \in ls : r.ver # 0 /\ last[r.arr] < r.ver}

\* The wait is for a query that had succeeded here (isForceCancelled).
WorkerUndo(i, q) ==
  LET toUndo == WorkerToUndo({[arr |-> Target[q], ver |-> ids[i][q]]})
  IN  /\ i \in Workers(q)
      /\ At(i, q, "undo") \/ (At(i, q, "undoChecked") /\ CoordLockGone(Target[q], q))
      /\ IF toUndo = {} THEN UNCHANGED storeVars ELSE Rollback(i, toUndo)
      /\ Goto(i, q, "releasing")
      /\ UNCHANGED <<catalogVars, doomed, ids, arrived, sent, answered, chan, boot, boundVars>>

\* releaseLock, the finalizer of a worker
WorkerRelease(i, q) ==
  /\ i \in Workers(q) /\ At(i, q, "releasing")
  /\ rows' = UnlockArray(rows, Target[q], q, i)
  /\ Goto(i, q, "gone")
  /\ doomed' = doomed \ {<<i, q>>} /\ ids' = [ids EXCEPT ![i][q] = 0]
  /\ UNCHANGED <<last, committed, newVersion, storeVars, arrived, sent, answered, chan, boot, boundVars>>

-----------------------------------------------------------------------------
\* Crashes and recovery.  What was flushed survives; of the rest, any part does.
Crash(i) ==
  /\ crashes < MaxCrashes
  /\ crashes' = crashes + 1
  /\ boot' = [boot EXCEPT ![i] = "coord"]
  /\ \E kept \in SUBSET (disk[i] \ synced[i]) :
       /\ disk' = [disk EXCEPT ![i] = synced[i] \cup kept]
       /\ synced' = [synced EXCEPT ![i] = synced[i] \cup kept]
  /\ stage' = [stage EXCEPT ![i] = [q \in Queries |->
                 IF @[q] \in {"none", "gone"} THEN @[q] ELSE "crashed"]]
  /\ chan' = [q \in Queries |-> [chan[q] EXCEPT ![i] = <<>>]]
  /\ sent' = {p \in sent : Coordinator[p[2]] # i}
  /\ answered' = {p \in answered : Coordinator[p[2]] # i}
  /\ doomed' = {p \in doomed : p[1] # i}
  /\ ids' = [ids EXCEPT ![i] = [q \in Queries |-> 0]]
  /\ UNCHANGED <<catalogVars, arrived, mishaps>>

\* The connection from the coordinator of q to i breaks.
Reset(i, q) ==
  /\ mishaps < MaxMishaps
  /\ chan[q][i] # <<>>
  /\ mishaps' = mishaps + 1
  /\ chan' = [chan EXCEPT ![q][i] = <<>>]
  /\ UNCHANGED <<catalogVars, storeVars, objectVars, boot, crashes>>

LocksOf(i, coord) == {r \in rows : r.inst = i /\ (IsCoordRow(r) <=> coord)}

\* doTxnRecoveryOnStartup, step by step: undo what the coordinator locks name,
\* delete them, wait for the coordinators of the worker locks, undo, delete.
RecoverCoordRollback(i) ==
  /\ boot[i] = "coord"
  /\ Rollback(i, CoordToUndo(LocksOf(i, TRUE)))
  /\ boot' = [boot EXCEPT ![i] = "coordDone"]
  /\ UNCHANGED <<catalogVars, objectVars, chan, boundVars>>

RecoverCoordDelete(i) ==
  /\ boot[i] = "coordDone"
  /\ rows' = DeleteCoordArrayLocks(rows, i)
  /\ boot' = [boot EXCEPT ![i] = "worker"]
  /\ UNCHANGED <<last, committed, newVersion, storeVars, objectVars, chan, boundVars>>

RecoverWorkerRollback(i) ==
  /\ boot[i] = "worker"
  /\ \A r \in LocksOf(i, FALSE) : r.ver # 0 => CoordLockGone(r.arr, r.query)
  /\ Rollback(i, WorkerToUndo(LocksOf(i, FALSE)))
  /\ boot' = [boot EXCEPT ![i] = "workerDone"]
  /\ UNCHANGED <<catalogVars, objectVars, chan, boundVars>>

RecoverWorkerDelete(i) ==
  /\ boot[i] = "workerDone"
  /\ rows' = DeleteWorkerArrayLocks(rows, i)
  /\ boot' = [boot EXCEPT ![i] = "up"]
  /\ UNCHANGED <<last, committed, newVersion, storeVars, objectVars, chan, boundVars>>

\* A changed liveness tells a worker that its coordinator died.
WorkerNotified(i, q) ==
  /\ i \in Workers(q) /\ boot[i] = "up"
  /\ stage[Coordinator[q]][q] = "crashed"
  /\ stage[i][q] \in Executing \cup {"ok", "failed"} /\ <<i, q>> \notin doomed
  /\ WorkerAbort(i, q)
  /\ UNCHANGED <<catalogVars, storeVars, ids, arrived, sent, answered, chan, boot, boundVars>>

-----------------------------------------------------------------------------
CoordRun(q) ==
  \/ AcquireLock(q) \/ PreSingleExecute(q) \/ SendPlan(q) \/ Preamble(q) \/ CoordWrite(q)
  \/ CoordDone(q)
CoordEnd(q) ==
  \/ RecordPersistent(q) \/ ReleaseLocks(q) \/ BroadcastCommit(q)
  \/ CoordUndo(q) \/ BroadcastAbort(q)
WorkerRun(i, q) ==
  WorkerPreamble(i, q) \/ WorkerLockRow(i, q) \/ WorkerWrite(i, q) \/ WorkerDone(i, q)
WorkerEnd(i, q) == WorkerUndo(i, q) \/ WorkerRelease(i, q)
Recover(i) ==
  \/ RecoverCoordRollback(i) \/ RecoverCoordDelete(i)
  \/ RecoverWorkerRollback(i) \/ RecoverWorkerDelete(i)

Next ==
  \/ \E q \in Queries :
       \/ CoordRun(q) \/ CoordFail(q) \/ CoordCancel(q) \/ CoordCommit(q) \/ CoordEnd(q)
       \/ \E i \in Instances :
            \/ Flush(i, q) \/ CoordReceive(i, q) \/ WorkerReceive(i, q)
            \/ WorkerSuspect(i, q) \/ WorkerNotified(i, q)
            \/ WorkerRun(i, q) \/ WorkerFail(i, q) \/ WorkerEnd(i, q) \/ Reset(i, q)
  \/ \E i \in Instances : Crash(i) \/ Recover(i)

Spec == Init /\ [][Next]_vars

\* A main routine that cannot go on notices why: a worker that will not answer,
\* an abort, a lock row that is no longer there to be copied.
CoordNotices(q) ==
  \E i \in Workers(q) :
    /\ <<i, q>> \notin answered \cup sent
    /\ \/ stage[i][q] \in {"failed", "undo", "releasing", "gone", "crashed"}
       \/ stage[i][q] = "none" /\ chan[q][i] = <<>>
          /\ stage[Coordinator[q]][q] \notin {"locked", "planned"}

\* When CoordRun, CoordEnd, Flush, a failure that was noticed or the client's decision is possible
CoordCanStep(q) ==
  LET s == stage[Coordinator[q]][q]
  IN  /\ boot[Coordinator[q]] = "up"
      /\ \/ s = "none" /\ CoordLockFree(rows, WriteLock(q))
         \/ s \in {"locked", "planned", "started", "wrote", "ok", "recording", "recorded",
                   "released", "undo", "undone", "releasing"}
         \/ s = "arrived" /\ BarrierPassed(q)
         \/ s = "flushed" /\ \A i \in Workers(q) : <<i, q>> \in answered
         \/ s \in Executing /\ CoordNotices(q)

\* When WorkerRun, WorkerEnd, Flush or a failure that was noticed is possible
WorkerCanStep(i, q) ==
  LET s == stage[i][q]
  IN  /\ i \in Workers(q) /\ boot[i] = "up"
      /\ \/ s \in {"started", "holding", "wrote", "undo", "releasing"}
         \/ s = "arrived" /\ BarrierPassed(q)
         \/ s = "flushed" /\ <<i, q>> \notin doomed
         \/ s = "undoChecked" /\ CoordLockGone(Target[q], q)
         \/ s \in Executing /\ <<i, q>> \in doomed

\* When WorkerNotified is possible
WorkerToNotify(i, q) ==
  /\ i \in Workers(q) /\ boot[i] = "up"
  /\ stage[Coordinator[q]][q] = "crashed"
  /\ stage[i][q] \in Executing \cup {"ok", "failed"} /\ <<i, q>> \notin doomed

\* When Recover is possible
CanRecover(i) ==
  /\ boot[i] # "up"
  /\ boot[i] = "worker" =>
       \A r \in LocksOf(i, FALSE) : r.ver # 0 => CoordLockGone(r.arr, r.query)

\* Threads, messages, the failure detector and restarts make progress; a client
\* that was answered completes or cancels its query, or its connection ends.  Weak
\* fairness, with the enabling conditions written out and a step recognised by what
\* it changes.
Fairness ==
  /\ \A i \in Instances :
       []<>~CanRecover(i) \/ []<><<boot'[i] # boot[i]>>_vars
  /\ \A q \in Queries :
       []<>~CoordCanStep(q)
         \/ []<><<stage'[Coordinator[q]][q] # stage[Coordinator[q]][q]>>_vars
  /\ \A q \in Queries : \A i \in Workers(q) :
       /\ []<>~WorkerCanStep(i, q) \/ []<><<stage'[i][q] # stage[i][q]>>_vars
       /\ []<>~WorkerToNotify(i, q)
            \/ []<><<stage'[i][q] # stage[i][q] \/ doomed' # doomed>>_vars
       /\ []<>~(boot[Coordinator[q]] = "up" /\ <<i, q>> \in sent) \/ []<><<sent' # sent>>_vars
       /\ []<>~(boot[i] = "up" /\ chan[q][i] # <<>>)
            \/ []<><<chan'[q][i] # chan[q][i]>>_vars

FairSpec == Spec /\ Fairness

-----------------------------------------------------------------------------
\* A recorded version is complete: every instance holds its chunks, flushed, and
\* no error handler and no recovery that comes later takes them away.
CommittedDurable == \A c \in committed : \A i \in Instances : c \in synced[i]

\* No orphan chunks: chunks of a version that is not recorded are on the disk of
\* an instance only as long as a lock row of that instance names their version,
\* so that whoever deals with the row (handler or recovery) knows what to undo.
ChunksCovered ==
  \A i \in Instances : \A c \in disk[i] \ committed :
    \E r \in rows : r.inst = i /\ r.query = c.query /\ r.ver = c.ver

\* The versions of an array are consecutive and each has one author: no update
\* is lost or recorded twice.
VersionsConsecutive ==
  \A a \in Arrays :
    LET mine == {c \in committed : Target[c.query] = a}
    IN  /\ {c.ver : c \in mine} = 1 .. last[a]
        /\ \A c, d \in mine : c.ver = d.ver => c = d

\* The asserts of handleErrorOnCoordinator and handleErrorOnWorker on the last
\* version they find in the catalog.
UndoAsserts ==
  /\ TypeOK
  /\ \A q \in Queries : \A r \in CoordRows(q) :
       r.ver # 0 => last[r.arr] \in {r.ver - 1, r.ver}
  /\ \A i \in Instances, q \in Queries :
       i \in Workers(q) /\ ids[i][q] # 0 /\ boot[i] = "up" =>
         /\ stage[i][q] = "undo" => last[Target[q]] < ids[i][q]
         /\ stage[i][q] = "undoChecked" /\ CoordLockGone(Target[q], q)
              => last[Target[q]] <= ids[i][q]

\* Whoever crashes, cancels or fails, in the end no lock row is left, unless an abort
\* was lost or a worker gave up on a coordinator that lives.
LocksDrain == <>(mishaps > 0) \/ <>[](rows = {})
=============================================================================
