----------------------------- MODULE ArrayLocks -----------------------------
(***************************************************************************)
(* Acquisition and release of a query's array locks.  A query collects the *)
(* locks its operators request (Query::requestLock), acquires them one     *)
(* catalog transaction at a time in the order of the set _requestedLocks   *)
(* (Query::acquireLocks), keeps what it has and retries from the start     *)
(* when one is busy (Query::retryAcquireLocks), runs, lets its workers     *)
(* copy the coordinator's rows, and finally deletes its rows.  A crashed   *)
(* instance leaves its rows behind until it recovers.                      *)
(***************************************************************************)
EXTENDS CatalogLocks

CONSTANTS ArrayName,    \* rank of the unqualified name of each array
          MaxRequests,  \* bound: lock requests one query makes
          RequestModes  \* bound: the lock modes operators ask for

ASSUME ArrayNameAssumption == ArrayName \in [Arrays -> Nat]
ASSUME RequestModesAssumption == RequestModes \subseteq LockMode
ASSUME MaxRequestsAssumption == MaxRequests \in Nat

VARIABLES rows,       \* array_version_lock
          pc,         \* pc[q]: stage of query q on its coordinator
          requested,  \* requested[q]: _requestedLocks, pairs [arr, mode]
          asked,      \* asked[q]: every request made (history)
          todo,       \* todo[q]: the locks the current attempt has yet to take
          locked,     \* locked[q]: requested locks whose LockDesc isLocked()
          gone,       \* pairs <<i, q>>: i was a worker of q and its query object is gone
          up          \* up[i]: the process of instance i is running

vars == <<rows, pc, requested, asked, todo, locked, gone, up>>

Request == [arr : Arrays, mode : LockMode]

Stage == {"parse", "acquire", "busy", "run", "done"}

TypeOK ==
  /\ rows \subseteq LockDesc
  /\ pc \in [Queries -> Stage]
  /\ requested \in [Queries -> SUBSET Request]
  /\ asked \in [Queries -> SUBSET Request]
  /\ todo \in [Queries -> SUBSET Request]
  /\ locked \in [Queries -> SUBSET Request]
  /\ gone \subseteq Instances \X Queries
  /\ up \in [Instances -> BOOLEAN]

Init ==
  /\ rows = {}
  /\ pc = [q \in Queries |-> "parse"]
  /\ requested = [q \in Queries |-> {}]
  /\ asked = [q \in Queries |-> {}]
  /\ todo = [q \in Queries |-> {}]
  /\ locked = [q \in Queries |-> {}]
  /\ gone = {}
  /\ up = [i \in Instances |-> TRUE]

Running(q, stage) == up[Coordinator[q]] /\ pc[q] = stage

\* MUTANT of AddRequest: a second request for a name is dropped, never promoted
AddRequestNoPromotion(locks, l) ==
  IF \E r \in locks : ArrayName[r.arr] = ArrayName[l.arr] THEN locks ELSE locks \cup {l}

\* _requestedLocks is ordered, and made unique, by LockPtrLess, which compares
\* unqualified names.  A request for a name already present replaces the old
\* one if its mode is higher and is dropped otherwise.
AddRequest(locks, l) ==
  LET same == {r \in locks : ArrayName[r.arr] = ArrayName[l.arr]}
  IN  IF \A r \in same : r.mode < l.mode THEN (locks \ same) \cup {l} ELSE locks

RequestLock(q, a, m) ==
  LET l == [arr |-> a, mode |-> m]
  IN  /\ Running(q, "parse")
      /\ l \notin asked[q]
      /\ Cardinality(asked[q]) < MaxRequests
      /\ asked' = [asked EXCEPT ![q] = @ \cup {l}]
      /\ requested' = [requested EXCEPT ![q] = AddRequest(@, l)]
      /\ UNCHANGED <<rows, pc, todo, locked, gone, up>>

\* acquireLocks and retryAcquireLocks: an attempt goes over all of
\* _requestedLocks, the ones already taken included.
StartAttempt(q) ==
  /\ Running(q, "parse") \/ Running(q, "busy")
  /\ pc' = [pc EXCEPT ![q] = "acquire"]
  /\ todo' = [todo EXCEPT ![q] = requested[q]]
  /\ UNCHANGED <<rows, requested, asked, locked, gone, up>>

\* MUTANT of IsNext: the locks are taken in any order
IsNextUnordered(q, l) == l \in todo[q]

\* std::set iterates in the order of LockPtrLess
IsNext(q, l) ==
  /\ l \in todo[q]
  /\ \A r \in todo[q] : ArrayName[l.arr] <= ArrayName[r.arr]

\* The row a coordinator asks lockArray to insert
CoordRow(q, l) ==
  [arr |-> l.arr, query |-> q, inst |-> Coordinator[q], mode |-> l.mode, ver |-> 0]

\* _lockArray on the coordinator.  Inserting a row that is already there is a
\* unique_violation, which counts as success for a lock that isLocked().
LockArray(q, l) ==
  /\ Running(q, "acquire")
  /\ IsNext(q, l)
  /\ CoordLockFree(rows, CoordRow(q, l))
  /\ rows' = IF l \in locked[q] THEN rows ELSE rows \cup {CoordRow(q, l)}
  /\ locked' = [locked EXCEPT ![q] = @ \cup {l}]
  /\ todo' = [todo EXCEPT ![q] = @ \ {l}]
  /\ UNCHANGED <<pc, requested, asked, gone, up>>

\* No row inserted: LockBusyException.  The locks taken so far are kept and the
\* job is rescheduled.
LockBusy(q, l) ==
  /\ Running(q, "acquire")
  /\ IsNext(q, l)
  /\ ~CoordLockFree(rows, CoordRow(q, l))
  /\ pc' = [pc EXCEPT ![q] = "busy"]
  /\ todo' = [todo EXCEPT ![q] = {}]
  /\ UNCHANGED <<rows, requested, asked, locked, gone, up>>

AllLocked(q) ==
  /\ Running(q, "acquire")
  /\ todo[q] = {}
  /\ pc' = [pc EXCEPT ![q] = "run"]
  /\ UNCHANGED <<rows, requested, asked, todo, locked, gone, up>>

\* The query objects of qs are destroyed.
Forget(qs) ==
  LET clear(f) == [q \in Queries |-> IF q \in qs THEN {} ELSE f[q]]
  IN  /\ pc' = [q \in Queries |-> IF q \in qs THEN "done" ELSE pc[q]]
      /\ requested' = clear(requested)
      /\ asked' = clear(asked)
      /\ todo' = clear(todo)
      /\ locked' = clear(locked)

\* Query::releaseLocks: all the rows of the query on its coordinator go.
ReleaseLocks(q) ==
  /\ rows' = DeleteArrayLocks(rows, Coordinator[q], q)
  /\ Forget({q})
  /\ UNCHANGED <<gone, up>>

\* Any exception but LockBusy while acquiring or retrying (an error noticed by
\* validate(), no quorum for a lock above RD).
AcquireFails(q) ==
  /\ Running(q, "acquire") \/ Running(q, "busy")
  /\ ReleaseLocks(q)

\* The finalizer of a query that ran, committed or aborted
Finish(q) == Running(q, "run") /\ ReleaseLocks(q)

\* A worker of a running query takes its lock (WR for a store into a persistent
\* array, XCL for a transient one).  It may come late: after the coordinator
\* released, in which case there is nothing to copy.
WorkerLock(i, q, a, m) ==
  /\ up[i] /\ i # Coordinator[q] /\ <<i, q>> \notin gone
  /\ WorkerSource(rows, a, q, m) # {}
  /\ ~\E r \in rows : r.arr = a /\ r.query = q /\ r.inst = i
  /\ rows' = WorkerLockArray(rows, a, q, i, m)
  /\ UNCHANGED <<pc, requested, asked, todo, locked, gone, up>>

\* UpdateErrorHandler::releaseLock, a finalizer of the worker
WorkerUnlock(i, q, a) ==
  /\ up[i] /\ i # Coordinator[q]
  /\ \E r \in rows : r.arr = a /\ r.query = q /\ r.inst = i
  /\ rows' = UnlockArray(rows, a, q, i)
  /\ gone' = gone \cup {<<i, q>>}
  /\ UNCHANGED <<pc, requested, asked, todo, locked, up>>

\* PhysicalUpdate::preSingleExecute for an array that is not in the catalog:
\* the WR row becomes CRT in place.
PromoteToCreate(q, a) ==
  /\ Running(q, "run")
  /\ \E r \in CoordinatorLock(rows, a, q) :
       /\ r.mode = WR
       /\ rows' = UpdateArrayLock(rows, [r EXCEPT !.mode = CRT])
  /\ UNCHANGED <<pc, requested, asked, todo, locked, gone, up>>

\* The process dies: its queries are gone, its rows stay in the catalog.
Crash(i) ==
  /\ up[i]
  /\ up' = [up EXCEPT ![i] = FALSE]
  /\ Forget({q \in Queries : Coordinator[q] = i})
  /\ gone' = gone \cup {<<i, r.query>> : r \in {s \in rows : s.inst = i /\ ~IsCoordRow(s)}}
  /\ UNCHANGED rows

\* MUTANT of RecoverCoordLocks: worker rows are waited for first
RecoverCoordLocksLast(i) ==
  /\ ~up[i]
  /\ \E r \in rows : r.inst = i /\ IsCoordRow(r)
  /\ \A r \in rows : r.inst = i /\ ~IsCoordRow(r) => CoordinatorLock(rows, r.arr, r.query) = {}
  /\ rows' = DeleteCoordArrayLocks(rows, i)
  /\ UNCHANGED <<pc, requested, asked, todo, locked, gone, up>>

\* doTxnRecoveryOnStartup, first half: the coordinator rows are dealt with and
\* deleted without waiting for anybody.
RecoverCoordLocks(i) ==
  /\ ~up[i]
  /\ \E r \in rows : r.inst = i /\ IsCoordRow(r)
  /\ rows' = DeleteCoordArrayLocks(rows, i)
  /\ UNCHANGED <<pc, requested, asked, todo, locked, gone, up>>

\* Second half: every worker row of an update (a CRT or WR row) waits until the
\* coordinator's row is gone, then all of them are deleted and the instance opens
\* for business.  UpdateTxn also has the rows that do not wait, those whose version
\* is not known yet.
RecoverWorkerLocks(i) ==
  /\ ~up[i]
  /\ ~\E r \in rows : r.inst = i /\ IsCoordRow(r)
  /\ \A r \in rows : r.inst = i /\ r.mode \in {CRT, WR} =>
                       CoordinatorLock(rows, r.arr, r.query) = {}
  /\ rows' = DeleteWorkerArrayLocks(rows, i)
  /\ up' = [up EXCEPT ![i] = TRUE]
  /\ UNCHANGED <<pc, requested, asked, todo, locked, gone>>

Next ==
  \/ \E q \in Queries :
       \/ \E a \in Arrays, m \in RequestModes : RequestLock(q, a, m)
       \/ StartAttempt(q)
       \/ \E l \in todo[q] : LockArray(q, l) \/ LockBusy(q, l)
       \/ AllLocked(q)
       \/ AcquireFails(q)
       \/ Finish(q)
       \/ \E i \in Instances, a \in Arrays :
            \/ \E m \in {WR, XCL} : WorkerLock(i, q, a, m)
            \/ WorkerUnlock(i, q, a)
       \/ \E a \in Arrays : PromoteToCreate(q, a)
  \/ \E i \in Instances : Crash(i) \/ RecoverCoordLocks(i) \/ RecoverWorkerLocks(i)

Spec == Init /\ [][Next]_vars

\* A query's own steps.  The scheduler runs every job that is ready, and a lock
\* timer always fires (handleRescheduleTimeout), so none of them stalls for ever.
Progress(q) ==
  \/ StartAttempt(q)
  \/ \E l \in todo[q] : LockArray(q, l) \/ LockBusy(q, l)
  \/ AllLocked(q)
  \/ Finish(q)

WorkerProgress(i, q) == \E a \in Arrays : WorkerUnlock(i, q, a)

\* A dead instance is restarted (the watchdog of entry.cpp) and recovers.
Recovery(i) == RecoverCoordLocks(i) \/ RecoverWorkerLocks(i)

FairSpec ==
  /\ Spec
  /\ \A q \in Queries : WF_vars(Progress(q))
  /\ \A i \in Instances, q \in Queries : WF_vars(WorkerProgress(i, q))
  /\ \A i \in Instances : WF_vars(Recovery(i))

-----------------------------------------------------------------------------
\* At most one query at a time may change an array: two rows on the same array
\* whose modes are WR or above belong to the same query, the rows workers copied
\* and the rows left behind by crashed instances included (getLockInsertSql).
WriterExclusion ==
  \A r, s \in rows : r.arr = s.arr /\ r.mode >= WR /\ s.mode >= WR => r.query = s.query

\* The conflicts the comments of LockDesc::LockMode list
Conflict(m, n) ==
  \/ m >= RM \/ n >= RM
  \/ m >= WR /\ n >= WR

\* The coordinators of two queries never hold conflicting modes on an array:
\* in particular no array is removed, renamed or exclusively used while another
\* query reads it.
CompatibleCoordinators ==
  \A r, s \in rows :
    r.arr = s.arr /\ IsCoordRow(r) /\ IsCoordRow(s) /\ Conflict(r.mode, s.mode)
      => r.query = s.query

\* retryAcquireLocks asks again for the locks the query already holds; it is
\* never told that one of those is busy, so a retry cannot be blocked by itself.
HeldLocksNotBusy ==
  \A q \in Queries : \A l \in todo[q] :
    pc[q] = "acquire" /\ l \in locked[q] => CoordLockFree(rows, CoordRow(q, l))

\* "either the requested lock or the lock that has already been requested for the
\* same array with a more exclusive mode" (Query.h): a query that runs holds, for
\* every array it asked a lock on, a row of at least the mode it asked for.
AskedIsLocked ==
  \A q \in Queries : \A l \in asked[q] :
    pc[q] = "run" =>
      \E r \in CoordinatorLock(rows, l.arr, q) : r.mode >= l.mode

\* Queries that keep their locks while they wait for others do not wait for each
\* other in a circle: every query gets through, or fails.
EveryoneFinishes == \A q \in Queries : <>(pc[q] = "done")

\* In the end the table is empty, whoever crashed in between: recoveries that wait
\* for each other's coordinator rows do not wait in a circle.
LocksDrain == <>[](rows = {})
=============================================================================
