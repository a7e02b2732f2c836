-------------------------- MODULE ArrayLocks_proofs --------------------------
(***************************************************************************)
(* Proofs about ArrayLocks, for any sets of arrays, queries and instances. *)
(***************************************************************************)
EXTENDS ArrayLocks, TLAPS

\* An inserted coordinator row is a lock descriptor: lockArray writes the mode
\* and the names of the request.
LEMMA CoordRowType ==
  ASSUME NEW q \in Queries, NEW l \in Request
  PROVE  CoordRow(q, l) \in LockDesc
  BY CoordinatorAssumption DEF CoordRow, LockDesc, Request

\* The set of requests stays a set of requests when one is merged into it.
LEMMA AddRequestType ==
  ASSUME NEW locks \in SUBSET Request, NEW l \in Request
  PROVE  AddRequest(locks, l) \in SUBSET Request
  BY DEF AddRequest

\* Forgetting queries keeps the types of the per-query variables.
LEMMA ForgetType ==
  ASSUME TypeOK, NEW qs \in SUBSET Queries, Forget(qs)
  PROVE  /\ pc' \in [Queries -> Stage]
         /\ requested' \in [Queries -> SUBSET Request]
         /\ asked' \in [Queries -> SUBSET Request]
         /\ todo' \in [Queries -> SUBSET Request]
         /\ locked' \in [Queries -> SUBSET Request]
  BY DEF TypeOK, Forget, Stage

\* Every variable keeps its type.
THEOREM TypeCorrect == Spec => []TypeOK
<1>1. Init => TypeOK
  BY SMTT(60) DEF Init, TypeOK, Stage
<1>2. TypeOK /\ [Next]_vars => TypeOK'
  <2> SUFFICES ASSUME TypeOK, [Next]_vars PROVE TypeOK'
    OBVIOUS
  <2> USE DEF TypeOK
  <2>1. ASSUME NEW q \in Queries, NEW a \in Arrays, NEW m \in RequestModes,
               RequestLock(q, a, m)
        PROVE  TypeOK'
    <3>1. [arr |-> a, mode |-> m] \in Request
      BY <2>1, RequestModesAssumption DEF Request
    <3>2. AddRequest(requested[q], [arr |-> a, mode |-> m]) \in SUBSET Request
      BY <3>1, AddRequestType
    <3> QED
      BY <2>1, <3>1, <3>2 DEF RequestLock
  <2>2. ASSUME NEW q \in Queries, StartAttempt(q) PROVE TypeOK'
    BY <2>2 DEF StartAttempt, Stage
  <2>3. ASSUME NEW q \in Queries, NEW l \in todo[q], LockArray(q, l) PROVE TypeOK'
    BY <2>3, CoordRowType DEF LockArray
  <2>4. ASSUME NEW q \in Queries, NEW l \in todo[q], LockBusy(q, l) PROVE TypeOK'
    BY <2>4 DEF LockBusy, Stage
  <2>5. ASSUME NEW q \in Queries, AllLocked(q) PROVE TypeOK'
    BY <2>5 DEF AllLocked, Stage
  <2>6. ASSUME NEW q \in Queries, ReleaseLocks(q) PROVE TypeOK'
    BY <2>6, ForgetType DEF ReleaseLocks, DeleteArrayLocks
  <2>7. ASSUME NEW q \in Queries, NEW i \in Instances, NEW a \in Arrays,
               NEW m \in {WR, XCL}, WorkerLock(i, q, a, m)
        PROVE  TypeOK'
    <3>1. \A r \in rows : [r EXCEPT !.inst = i] \in LockDesc
      BY DEF LockDesc
    <3> QED
      BY <2>7, <3>1 DEF WorkerLock, WorkerLockArray, WorkerSource
  <2>8. ASSUME NEW q \in Queries, NEW i \in Instances, NEW a \in Arrays,
               WorkerUnlock(i, q, a)
        PROVE  TypeOK'
    BY <2>8 DEF WorkerUnlock, UnlockArray
  <2>9. ASSUME NEW q \in Queries, NEW a \in Arrays, PromoteToCreate(q, a) PROVE TypeOK'
    <3>1. \A r \in rows : [r EXCEPT !.mode = CRT] \in LockDesc
      BY DEF LockDesc, LockMode, CRT, RD, RNF
    <3> QED
      BY <2>9, <3>1 DEF PromoteToCreate, UpdateArrayLock, CoordinatorLock
  <2>10. ASSUME NEW i \in Instances, Crash(i) PROVE TypeOK'
    <3>1. {<<i, r.query>> : r \in {s \in rows : s.inst = i /\ ~IsCoordRow(s)}}
             \subseteq Instances \X Queries
      BY DEF LockDesc
    <3>2. {q \in Queries : Coordinator[q] = i} \in SUBSET Queries
      OBVIOUS
    <3> QED
      BY <2>10, <3>1, <3>2, ForgetType DEF Crash
  <2>11. ASSUME NEW i \in Instances, RecoverCoordLocks(i) PROVE TypeOK'
    BY <2>11 DEF RecoverCoordLocks, DeleteCoordArrayLocks
  <2>12. ASSUME NEW i \in Instances, RecoverWorkerLocks(i) PROVE TypeOK'
    BY <2>12 DEF RecoverWorkerLocks, DeleteWorkerArrayLocks
  <2>13. CASE UNCHANGED vars
    BY <2>13 DEF vars
  <2> QED
    BY <2>1, <2>2, <2>3, <2>4, <2>5, <2>6, <2>7, <2>8, <2>9, <2>10, <2>11, <2>12, <2>13
       DEF Next, AcquireFails, Finish
<1> QED
  BY <1>1, <1>2, PTL DEF Spec

\* What lockArray relies on: writers exclude each other on all rows, and
\* coordinators hold compatible modes.
Exclusion == WriterExclusion /\ CompatibleCoordinators

\* Deleting rows cannot create a conflict.
LEMMA FewerRows ==
  ASSUME Exclusion, rows' \subseteq rows
  PROVE  Exclusion'
  BY DEF Exclusion, WriterExclusion, CompatibleCoordinators, IsCoordRow, Conflict

\* A coordinator row that passes the "where not exists" test conflicts with
\* no row in the table.
LEMMA FreeMeansCompatible ==
  ASSUME NEW rs \in SUBSET LockDesc, NEW l \in LockDesc, IsCoordRow(l),
         CoordLockFree(rs, l), NEW s \in rs, s.arr = l.arr, s.query # l.query
  PROVE  /\ ~(l.mode >= WR /\ s.mode >= WR)
         /\ IsCoordRow(s) => ~Conflict(l.mode, s.mode)
<1>1. l.mode \in LockMode /\ s.mode \in LockMode
  BY DEF LockDesc
<1> USE DEF RD, WR, CRT, RM, XCL, RNF, LockMode
<1>2. CASE l.mode = RD
  BY <1>1, <1>2 DEF CoordLockFree, Conflict
<1>3. CASE l.mode \in {WR, CRT}
  BY <1>1, <1>3 DEF CoordLockFree, Conflict
<1>4. CASE l.mode \in {RM, XCL, RNF}
  BY <1>1, <1>4 DEF CoordLockFree, Conflict
<1> QED
  BY <1>1, <1>2, <1>3, <1>4

\* The mode tests are symmetric.
LEMMA ConflictSymmetric ==
  ASSUME NEW m \in LockMode, NEW n \in LockMode
  PROVE  Conflict(m, n) <=> Conflict(n, m)
  BY DEF Conflict, LockMode, RD, WR, RM, RNF

\* One query at a time may change an array, and the coordinators of different
\* queries never hold conflicting modes on it (getLockInsertSql, _lockArray),
\* whatever the number of arrays, queries and instances.
THEOREM LocksExclude == Spec => [](WriterExclusion /\ CompatibleCoordinators)
<1>1. Init => Exclusion
  BY DEF Init, Exclusion, WriterExclusion, CompatibleCoordinators
<1>2. TypeOK /\ Exclusion /\ [Next]_vars => Exclusion'
  <2> SUFFICES ASSUME TypeOK, Exclusion, [Next]_vars PROVE Exclusion'
    OBVIOUS
  <2>t. rows \subseteq LockDesc
    BY DEF TypeOK
  <2>1. ASSUME NEW q \in Queries, NEW l \in todo[q], LockArray(q, l) PROVE Exclusion'
    <3> DEFINE c == CoordRow(q, l)
    <3>1. l \in Request
      BY DEF TypeOK
    <3>2. c \in LockDesc /\ IsCoordRow(c) /\ c.query = q
      BY <3>1, CoordRowType DEF CoordRow, IsCoordRow
    <3>3. rows' \subseteq rows \cup {c} /\ CoordLockFree(rows, c)
      BY <2>1 DEF LockArray
    <3> HIDE DEF c
    <3>4. \A s \in rows : s.arr = c.arr /\ s.query # c.query =>
            /\ ~(c.mode >= WR /\ s.mode >= WR)
            /\ IsCoordRow(s) => ~Conflict(c.mode, s.mode)
      BY <2>t, <3>2, <3>3, FreeMeansCompatible
    <3>5. \A s \in rows : Conflict(c.mode, s.mode) <=> Conflict(s.mode, c.mode)
      BY <2>t, <3>2, ConflictSymmetric DEF LockDesc
    <3>6. WriterExclusion'
      BY <3>3, <3>4 DEF Exclusion, WriterExclusion
    <3>7. CompatibleCoordinators'
      BY <3>3, <3>4, <3>5 DEF Exclusion, CompatibleCoordinators
    <3> QED
      BY <3>6, <3>7 DEF Exclusion
  <2>2. ASSUME NEW q \in Queries, NEW i \in Instances, NEW a \in Arrays,
               NEW m \in {WR, XCL}, WorkerLock(i, q, a, m)
        PROVE  Exclusion'
    <3>1. \A r \in rows' : \E s \in rows :
            r.arr = s.arr /\ r.query = s.query /\ r.mode = s.mode
      BY <2>t, <2>2 DEF WorkerLock, WorkerLockArray, WorkerSource, LockDesc
    <3>2. \A r \in rows' : IsCoordRow(r) => r \in rows
      BY <2>t, <2>2 DEF WorkerLock, WorkerLockArray, WorkerSource, LockDesc, IsCoordRow
    <3>3. WriterExclusion'
      BY <3>1 DEF Exclusion, WriterExclusion
    <3>4. CompatibleCoordinators'
      BY <3>2 DEF Exclusion, CompatibleCoordinators
    <3> QED
      BY <3>3, <3>4 DEF Exclusion
  <2>3. ASSUME NEW q \in Queries, NEW a \in Arrays, PromoteToCreate(q, a) PROVE Exclusion'
    <3>1. PICK c \in CoordinatorLock(rows, a, q) :
            c.mode = WR /\ rows' = UpdateArrayLock(rows, [c EXCEPT !.mode = CRT])
      BY <2>3 DEF PromoteToCreate
    <3> DEFINE n == [c EXCEPT !.mode = CRT]
    <3>2. c \in rows /\ c \in LockDesc
      BY <2>t, <3>1 DEF CoordinatorLock
    <3>3. n.arr = c.arr /\ n.query = c.query /\ n.inst = c.inst /\ n.mode = CRT
      BY <3>2 DEF LockDesc
    <3>4. rows' \subseteq rows \cup {n}
      BY <3>1 DEF UpdateArrayLock
    <3> HIDE DEF n
    <3>5. \A s \in rows : s.mode \in LockMode
      BY <2>t DEF LockDesc
    <3>6. \A s \in rows : /\ s.arr = n.arr /\ s.mode >= WR => s.query = n.query
                          /\ s.arr = n.arr /\ IsCoordRow(n) /\ IsCoordRow(s)
                               /\ (Conflict(s.mode, n.mode) \/ Conflict(n.mode, s.mode))
                               => s.query = n.query
      BY <3>1, <3>2, <3>3, <3>5
         DEF Exclusion, WriterExclusion, Conflict, LockMode, RD, WR, CRT, RM, RNF
    <3>7. WriterExclusion'
      BY <3>4, <3>6 DEF Exclusion, WriterExclusion
    <3>8. CompatibleCoordinators'
      BY SMTT(60), <3>4, <3>6 DEF Exclusion, CompatibleCoordinators
    <3> QED
      BY <3>7, <3>8 DEF Exclusion
  <2>4. ASSUME NEW q \in Queries,
               \/ \E a \in Arrays, m \in RequestModes : RequestLock(q, a, m)
               \/ StartAttempt(q)
               \/ \E l \in todo[q] : LockBusy(q, l)
               \/ AllLocked(q)
               \/ ReleaseLocks(q)
               \/ \E i \in Instances, a \in Arrays : WorkerUnlock(i, q, a)
        PROVE  rows' \subseteq rows
    BY ZenonT(60), <2>4 DEF RequestLock, StartAttempt, LockBusy, AllLocked, ReleaseLocks, DeleteArrayLocks,
                WorkerUnlock, UnlockArray
  <2>5. ASSUME NEW i \in Instances, Crash(i) \/ RecoverCoordLocks(i) \/ RecoverWorkerLocks(i)
        PROVE  rows' \subseteq rows
    BY <2>5 DEF Crash, RecoverCoordLocks, RecoverWorkerLocks, DeleteCoordArrayLocks,
                DeleteWorkerArrayLocks
  <2>6. CASE UNCHANGED vars
    BY <2>6, FewerRows DEF vars
  <2> QED
    BY <2>1, <2>2, <2>3, <2>4, <2>5, <2>6, FewerRows DEF Next, AcquireFails, Finish
<1>3. Exclusion => WriterExclusion /\ CompatibleCoordinators
  BY DEF Exclusion
<1> QED
  BY <1>1, <1>2, <1>3, TypeCorrect, PTL DEF Spec

-----------------------------------------------------------------------------
\* The strengthening for HeldLocksNotBusy.  Until a query runs, its coordinator
\* rows are exactly those of the locks it marked isLocked(), one per array.
Bookkeeping(q) ==
  /\ locked[q] \subseteq requested[q] /\ todo[q] \subseteq requested[q]
  /\ \A r, s \in requested[q] : r.arr = s.arr => r = s
  /\ pc[q] = "parse" => locked[q] = {} /\ todo[q] = {}
  /\ ~up[Coordinator[q]] => pc[q] = "done"
  /\ pc[q] \in {"parse", "acquire", "busy"} =>
       \A r \in rows : r.query = q /\ IsCoordRow(r) => [arr |-> r.arr, mode |-> r.mode] \in locked[q]
  /\ pc[q] \in {"acquire", "busy"} => \A l \in locked[q] : CoordRow(q, l) \in rows

\* Only update queries have workers that lock, so a worker row is a writer's row.
WorkerRowsWrite == \A r \in rows : ~IsCoordRow(r) => r.mode >= WR

HeldInv == WorkerRowsWrite /\ \A q \in Queries : Bookkeeping(q)

\* A request never leaves two locks on one array in _requestedLocks.
LEMMA AddRequestUnique ==
  ASSUME NEW locks \in SUBSET Request, NEW l \in Request,
         \A r, s \in locks : r.arr = s.arr => r = s
  PROVE  \A r, s \in AddRequest(locks, l) : r.arr = s.arr => r = s
  BY DEF AddRequest

\* A held lock passes the "where not exists" test again.
LEMMA HeldIsFree ==
  ASSUME TypeOK, Exclusion, HeldInv, NEW q \in Queries, NEW l \in locked[q], pc[q] = "acquire"
  PROVE  CoordLockFree(rows, CoordRow(q, l))
<1> DEFINE c == CoordRow(q, l)
<1>1. l \in Request /\ l \in requested[q]
  BY DEF TypeOK, HeldInv, Bookkeeping
<1>2. c \in rows /\ IsCoordRow(c) /\ c.query = q /\ c.arr = l.arr /\ c.mode = l.mode
  BY DEF HeldInv, Bookkeeping, CoordRow, IsCoordRow
<1>3. \A r \in rows : r.mode \in LockMode
  BY DEF TypeOK, LockDesc
<1>4. l.mode \in LockMode
  BY <1>1 DEF Request
<1>5. \A r \in rows : r.query = q /\ r.arr = l.arr /\ IsCoordRow(r) => r.mode = l.mode
  <2> SUFFICES ASSUME NEW r \in rows, r.query = q, r.arr = l.arr, IsCoordRow(r) PROVE r.mode = l.mode
    OBVIOUS
  <2>1. [arr |-> r.arr, mode |-> r.mode] \in requested[q]
    BY DEF HeldInv, Bookkeeping
  <2> QED
    BY <1>1, <2>1 DEF HeldInv, Bookkeeping
<1> HIDE DEF c
<1> USE DEF RD, WR, CRT, RM, XCL, RNF, LockMode
<1>6. \A r \in rows : r.arr = c.arr /\ r.query # q /\ r.mode >= WR => ~(c.mode >= WR)
  BY <1>2, <1>3 DEF Exclusion, WriterExclusion
<1>7. \A r \in rows : r.arr = c.arr /\ r.query # q /\ IsCoordRow(r) => ~Conflict(c.mode, r.mode)
  BY <1>2 DEF Exclusion, CompatibleCoordinators
<1>8. ASSUME c.mode = RD, NEW r \in rows, r.arr = c.arr, IsCoordRow(r) PROVE ~(r.mode > CRT)
  BY <1>2, <1>3, <1>5, <1>7, <1>8 DEF Conflict
<1>9. ASSUME c.mode \in {WR, CRT}, NEW r \in rows, r.arr = c.arr, r.query # q PROVE ~(r.mode > RD)
  BY <1>3, <1>6, <1>9
<1>10. ASSUME c.mode \in {RM, XCL, RNF}, NEW r \in rows, r.arr = c.arr PROVE r.query = q
  BY SMTT(60), <1>3, <1>6, <1>7, <1>10 DEF HeldInv, WorkerRowsWrite, Conflict
<1> QED
  BY <1>2, <1>8, <1>9, <1>10 DEF CoordLockFree, c

\* A query's bookkeeping only depends on its own variables and its coordinator rows.
LEMMA BookkeepingFrame ==
  ASSUME NEW q \in Queries, Bookkeeping(q),
         UNCHANGED <<pc[q], requested[q], todo[q], locked[q]>>,
         ~up'[Coordinator[q]] => ~up[Coordinator[q]],
         {r \in rows' : r.query = q /\ IsCoordRow(r)} = {r \in rows : r.query = q /\ IsCoordRow(r)}
  PROVE  Bookkeeping(q)'
<1>1. \A l \in locked[q] : LET c == CoordRow(q, l) IN c.query = q /\ IsCoordRow(c)
  BY DEF CoordRow, IsCoordRow
<1>2. \A l : CoordRow(q, l) \in rows => CoordRow(q, l) \in rows'
  BY DEF CoordRow, IsCoordRow
<1>3. \A l : CoordRow(q, l)' = CoordRow(q, l)
  BY SMTT(60) DEF CoordRow
<1> QED
  BY SMTT(60), <1>2, <1>3 DEF Bookkeeping, CoordRow, IsCoordRow

\* What happens to a query when the query itself does not move but its rows and
\* variables are wiped: the bookkeeping is trivial.
LEMMA ForgottenBookkeeping ==
  ASSUME NEW q \in Queries, pc'[q] = "done", requested'[q] = {}, todo'[q] = {}, locked'[q] = {}
  PROVE  Bookkeeping(q)'
  BY DEF Bookkeeping

\* A retry of acquireLocks is never told that a lock the query already holds is
\* busy, so a query cannot block itself however often it is rescheduled.
THEOREM RetryKeepsLocks == Spec => []HeldLocksNotBusy
<1>1. Init => HeldInv
  BY SMTT(60), CoordinatorAssumption DEF Init, HeldInv, WorkerRowsWrite, Bookkeeping
<1>2. TypeOK /\ HeldInv /\ [Next]_vars => HeldInv'
  <2> SUFFICES ASSUME TypeOK, HeldInv, [Next]_vars PROVE HeldInv'
    OBVIOUS
  <2>t. rows \subseteq LockDesc
    BY DEF TypeOK
  <2>h. WorkerRowsWrite /\ \A q \in Queries : Bookkeeping(q)
    BY DEF HeldInv
  <2>s. rows' \subseteq rows => WorkerRowsWrite'
    BY DEF HeldInv, WorkerRowsWrite, IsCoordRow
  <2>1. ASSUME NEW q \in Queries, NEW a \in Arrays, NEW m \in RequestModes, RequestLock(q, a, m)
        PROVE  HeldInv'
    <3> DEFINE l == [arr |-> a, mode |-> m]
    <3>1. l \in Request /\ requested[q] \in SUBSET Request
      BY SMTT(60), RequestModesAssumption DEF Request, TypeOK
    <3>2. requested'[q] = AddRequest(requested[q], l)
      BY SMTT(60), <2>1 DEF RequestLock, TypeOK
    <3> HIDE DEF l
    <3>3. \A r, s \in requested'[q] : r.arr = s.arr => r = s
      BY SMTT(60), <2>h, <3>1, <3>2, AddRequestUnique DEF Bookkeeping
    <3>4. Bookkeeping(q)'
      BY SMTT(60), <2>h, <2>1, <3>3 DEF RequestLock, Running, Bookkeeping, CoordRow, IsCoordRow
    <3>5. ASSUME NEW p \in Queries, p # q PROVE Bookkeeping(p)'
      BY SMTT(60), <2>h, <2>1, <3>5, BookkeepingFrame DEF RequestLock, TypeOK
    <3> QED
      BY <2>1, <2>s, <3>4, <3>5 DEF HeldInv, RequestLock
  <2>2. ASSUME NEW q \in Queries,
               StartAttempt(q) \/ AllLocked(q) \/ \E l \in todo[q] : LockBusy(q, l)
        PROVE  HeldInv'
    <3>1. Bookkeeping(q)'
      <4> USE <2>h DEF Running, Bookkeeping, CoordRow, IsCoordRow
      <4>1. CASE StartAttempt(q)
        BY SMTT(60), <4>1 DEF StartAttempt, TypeOK
      <4>2. CASE AllLocked(q)
        BY SMTT(60), <4>2 DEF AllLocked, TypeOK
      <4>3. CASE \E l \in todo[q] : LockBusy(q, l)
        BY SMTT(60), <4>3 DEF LockBusy, TypeOK
      <4> QED
        BY SMTT(60), <2>2, <4>1, <4>2, <4>3
    <3>2. ASSUME NEW p \in Queries, p # q PROVE Bookkeeping(p)'
      BY SMTT(60), <2>h, <2>2, <3>2, BookkeepingFrame DEF StartAttempt, AllLocked, LockBusy, TypeOK
    <3> QED
      BY SMTT(60), <2>2, <2>s, <3>1, <3>2 DEF HeldInv, StartAttempt, AllLocked, LockBusy
  <2>3. ASSUME NEW q \in Queries, NEW l \in todo[q], LockArray(q, l) PROVE HeldInv'
    <3> DEFINE c == CoordRow(q, l)
    <3>1. l \in Request
      BY DEF TypeOK
    <3>2. IsCoordRow(c) /\ c.query = q /\ [arr |-> c.arr, mode |-> c.mode] = l
      BY <3>1 DEF CoordRow, IsCoordRow, Request
    <3>3. rows \subseteq rows' /\ rows' \subseteq rows \cup {c} /\ (l \in locked[q] \/ c \in rows')
      BY <2>3 DEF LockArray
    <3>4. locked'[q] = locked[q] \cup {l} /\ todo'[q] \subseteq todo[q]
      BY SMTT(60), <2>3 DEF LockArray, TypeOK
    <3>5. \A k \in locked'[q] : CoordRow(q, k) \in rows'
      BY SMTT(60), <2>h, <2>3, <3>3, <3>4 DEF LockArray, Running, Bookkeeping
    <3> HIDE DEF c
    <3>6. \A r \in rows' : r.query = q /\ IsCoordRow(r) =>
            [arr |-> r.arr, mode |-> r.mode] \in locked'[q]
      BY SMTT(60), <2>h, <2>3, <3>2, <3>3, <3>4 DEF LockArray, Running, Bookkeeping
    <3>7. Bookkeeping(q)'
      BY SMTT(60), <2>h, <2>3, <3>4, <3>5, <3>6 DEF LockArray, Running, Bookkeeping, CoordRow, IsCoordRow
    <3>8. ASSUME NEW p \in Queries, p # q PROVE Bookkeeping(p)'
      <4>1. {r \in rows' : r.query = p /\ IsCoordRow(r)} = {r \in rows : r.query = p /\ IsCoordRow(r)}
        BY <3>2, <3>3, <3>8
      <4> QED
        BY SMTT(60), <2>h, <2>3, <3>8, <4>1, BookkeepingFrame DEF LockArray, TypeOK
    <3>9. WorkerRowsWrite'
      BY <2>h, <3>2, <3>3 DEF WorkerRowsWrite, IsCoordRow
    <3> QED
      BY SMTT(60), <3>7, <3>8, <3>9 DEF HeldInv
  <2>4. ASSUME NEW q \in Queries, ReleaseLocks(q) PROVE HeldInv'
    <3>1. Bookkeeping(q)'
      BY SMTT(60), <2>4, ForgottenBookkeeping DEF ReleaseLocks, Forget
    <3>2. ASSUME NEW p \in Queries, p # q PROVE Bookkeeping(p)'
      <4>1. {r \in rows' : r.query = p /\ IsCoordRow(r)} = {r \in rows : r.query = p /\ IsCoordRow(r)}
        BY <2>4, <3>2 DEF ReleaseLocks, DeleteArrayLocks
      <4> QED
        BY SMTT(60), <2>h, <2>4, <3>2, <4>1, BookkeepingFrame DEF ReleaseLocks, Forget
    <3> QED
      BY SMTT(60), <2>4, <2>s, <3>1, <3>2 DEF HeldInv, ReleaseLocks, DeleteArrayLocks
  <2>5. ASSUME NEW q \in Queries, NEW i \in Instances, NEW a \in Arrays,
               NEW m \in {WR, XCL}, WorkerLock(i, q, a, m)
        PROVE  HeldInv'
    <3>1. \A r \in rows' \ rows : ~IsCoordRow(r) /\ r.mode >= WR
      BY <2>t, <2>5 DEF WorkerLock, WorkerLockArray, WorkerSource, LockDesc, IsCoordRow,
                        WR, CRT, XCL
    <3>2. rows \subseteq rows'
      BY <2>5 DEF WorkerLock, WorkerLockArray
    <3>3. WorkerRowsWrite'
      BY SMTT(60), <2>h, <3>1 DEF WorkerRowsWrite, IsCoordRow
    <3>4. ASSUME NEW p \in Queries PROVE Bookkeeping(p)'
      BY SMTT(60), <2>h, <2>5, <3>1, <3>2, BookkeepingFrame DEF WorkerLock
    <3> QED
      BY <3>3, <3>4 DEF HeldInv
  <2>6. ASSUME NEW q \in Queries, NEW i \in Instances, NEW a \in Arrays, WorkerUnlock(i, q, a)
        PROVE  HeldInv'
    <3>1. ASSUME NEW p \in Queries PROVE Bookkeeping(p)'
      BY <2>h, <2>6, BookkeepingFrame DEF WorkerUnlock, UnlockArray, IsCoordRow
    <3> QED
      BY SMTT(60), <2>6, <2>s, <3>1 DEF HeldInv, WorkerUnlock, UnlockArray
  <2>7. ASSUME NEW q \in Queries, NEW a \in Arrays, PromoteToCreate(q, a) PROVE HeldInv'
    <3>1. PICK c \in CoordinatorLock(rows, a, q) :
            rows' = UpdateArrayLock(rows, [c EXCEPT !.mode = CRT])
      BY <2>7 DEF PromoteToCreate
    <3> DEFINE n == [c EXCEPT !.mode = CRT]
    <3>2. c \in rows /\ c \in LockDesc /\ c.query = q /\ IsCoordRow(c)
      BY <2>t, <3>1 DEF CoordinatorLock
    <3>3. n.query = q /\ IsCoordRow(n)
      BY <3>2 DEF LockDesc, IsCoordRow
    <3>4. rows' = {r \in rows : ~SameKey(r, n)} \cup {n : r \in {s \in rows : SameKey(s, n)}}
      BY <3>1 DEF UpdateArrayLock
    <3> HIDE DEF n
    <3>5. \A r \in rows' : r \in rows \/ r = n
      BY <3>4
    <3>6. \A r \in rows : r.query # q => r \in rows'
      BY <3>3, <3>4 DEF SameKey
    <3>7. Bookkeeping(q)'
      BY <2>h, <2>7 DEF PromoteToCreate, Running, Bookkeeping
    <3>8. ASSUME NEW p \in Queries, p # q PROVE Bookkeeping(p)'
      <4>1. {r \in rows' : r.query = p /\ IsCoordRow(r)} = {r \in rows : r.query = p /\ IsCoordRow(r)}
        BY <3>3, <3>5, <3>6, <3>8
      <4> QED
        BY <2>h, <2>7, <3>8, <4>1, BookkeepingFrame DEF PromoteToCreate
    <3>9. WorkerRowsWrite'
      BY SMTT(60), <2>h, <3>3, <3>5 DEF WorkerRowsWrite, IsCoordRow
    <3> QED
      BY <3>7, <3>8, <3>9 DEF HeldInv
  <2>8. ASSUME NEW i \in Instances, Crash(i) PROVE HeldInv'
    <3>1. ASSUME NEW p \in Queries PROVE Bookkeeping(p)'
      <4>1. CASE Coordinator[p] = i
        BY SMTT(60), <2>8, <4>1, ForgottenBookkeeping DEF Crash, Forget
      <4>2. CASE Coordinator[p] # i
        BY SMTT(60), <2>h, <2>8, <4>2, BookkeepingFrame, CoordinatorAssumption DEF Crash, Forget, TypeOK
      <4> QED
        BY SMTT(60), <4>1, <4>2
    <3> QED
      BY <2>8, <2>s, <3>1 DEF HeldInv, Crash
  <2>9. ASSUME NEW i \in Instances, RecoverCoordLocks(i) PROVE HeldInv'
    <3>1. ASSUME NEW p \in Queries PROVE Bookkeeping(p)'
      <4>1. CASE Coordinator[p] = i
        BY SMTT(60), <2>h, <2>9, <4>1 DEF RecoverCoordLocks, Bookkeeping
      <4>2. CASE Coordinator[p] # i
        BY ZenonT(60), <2>h, <2>9, <4>2, BookkeepingFrame DEF RecoverCoordLocks, DeleteCoordArrayLocks, IsCoordRow
      <4> QED
        BY <4>1, <4>2
    <3> QED
      BY SMTT(60), <2>9, <2>s, <3>1 DEF HeldInv, RecoverCoordLocks, DeleteCoordArrayLocks
  <2>10. ASSUME NEW i \in Instances, RecoverWorkerLocks(i) PROVE HeldInv'
    <3>1. ASSUME NEW p \in Queries PROVE Bookkeeping(p)'
      BY <2>h, <2>10, BookkeepingFrame, CoordinatorAssumption
         DEF RecoverWorkerLocks, DeleteWorkerArrayLocks, IsCoordRow, TypeOK
    <3> QED
      BY <2>10, <2>s, <3>1 DEF HeldInv, RecoverWorkerLocks, DeleteWorkerArrayLocks
  <2>11. CASE UNCHANGED vars
    BY <2>h, <2>11 DEF vars, HeldInv, WorkerRowsWrite, Bookkeeping, CoordRow, IsCoordRow
  <2> QED
    BY <2>1, <2>2, <2>3, <2>4, <2>5, <2>6, <2>7, <2>8, <2>9, <2>10, <2>11
       DEF Next, AcquireFails, Finish
<1>3. TypeOK /\ Exclusion /\ HeldInv => HeldLocksNotBusy
  BY HeldIsFree DEF HeldLocksNotBusy
<1>4. WriterExclusion /\ CompatibleCoordinators => Exclusion
  BY DEF Exclusion
<1> QED
  BY <1>1, <1>2, <1>3, <1>4, TypeCorrect, LocksExclude, PTL DEF Spec
=============================================================================
