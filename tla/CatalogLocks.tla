---------------------------- MODULE CatalogLocks ----------------------------
(***************************************************************************)
(* The table array_version_lock of the system catalog, as a set of rows,   *)
(* and the statements SystemCatalog runs on it.  Every statement runs      *)
(* in one Postgres transaction (lockArray takes LOCK TABLE first), so each *)
(* is one atomic operator here.  A row is                                  *)
(*    [arr, query, inst, mode, ver]                                        *)
(* where ver stands for the triple (array_id, array_version_id,            *)
(* array_version), which updateArrayLock always writes together: 0 means   *)
(* that none of the three was filled in yet.                               *)
(***************************************************************************)
EXTENDS Integers, FiniteSets

CONSTANTS Arrays,       \* fully qualified array names
          Queries,      \* query identifiers
          Instances,    \* physical instances
          Coordinator   \* the instance a query's identifier names as coordinator

ASSUME CoordinatorAssumption == Coordinator \in [Queries -> Instances]

\* LockDesc::LockMode, in the order of the enumeration
RD  == 1
WR  == 2
CRT == 3
RM  == 4
XCL == 5
RNF == 6
LockMode == RD .. RNF

LockDesc == [arr : Arrays, query : Queries, inst : Instances,
             mode : LockMode, ver : Nat]

\* LockDesc::getInstanceRole() = COORD
IsCoordRow(r) == r.inst = Coordinator[r.query]

SameKey(r, s) == r.arr = s.arr /\ r.query = s.query /\ r.inst = s.inst

\* MUTANT of CoordLockFree: only coordinator rows are looked at in every mode
CoordLockFreeIgnoringWorkers(rows, l) ==
  LET onArray == {r \in rows : r.arr = l.arr /\ IsCoordRow(r)}
      others  == {r \in onArray : r.query # l.query}
  IN  /\ l.mode = RD => \A r \in onArray : ~(r.mode > CRT)
      /\ l.mode \in {WR, CRT} => \A r \in others : ~(r.mode > RD)
      /\ l.mode \in {RM, XCL, RNF} => others = {}

\* MUTANT of CoordLockFree: the exclusive modes do not except the query's own rows
CoordLockFreeOwnRowsCount(rows, l) ==
  LET onArray == {r \in rows : r.arr = l.arr}
      others  == {r \in onArray : r.query # l.query}
  IN  /\ l.mode = RD => \A r \in onArray : ~(r.mode > CRT /\ IsCoordRow(r))
      /\ l.mode \in {WR, CRT} => \A r \in others : ~(r.mode > RD)
      /\ l.mode \in {RM, XCL, RNF} => onArray = {}

\* The "where not exists" of the coordinator's insert for each mode.  A reader
\* looks at coordinator rows only (of any query, its own included); the other
\* modes look at all rows of other queries.
CoordLockFree(rows, l) ==
  LET onArray == {r \in rows : r.arr = l.arr}
      others  == {r \in onArray : r.query # l.query}
  IN  /\ l.mode = RD => \A r \in onArray : ~(r.mode > CRT /\ IsCoordRow(r))
      /\ l.mode \in {WR, CRT} => \A r \in others : ~(r.mode > RD)
      /\ l.mode \in {RM, XCL, RNF} => others = {}

\* The coordinator row a worker's insert copies: WR or CRT for a WR request,
\* XCL for an XCL request.
WorkerSource(rows, a, q, m) ==
  {r \in rows : /\ r.arr = a /\ r.query = q /\ IsCoordRow(r)
                /\ IF m = WR THEN r.mode \in {WR, CRT} ELSE r.mode = XCL}

\* The rows after a worker's lockArray: the coordinator's row under the
\* worker's instance id, mode and versions included.  Nothing is inserted (and
\* lockArray returns false) when there is no such row.
WorkerLockArray(rows, a, q, i, m) ==
  rows \cup {[r EXCEPT !.inst = i] : r \in WorkerSource(rows, a, q, m)}

UnlockArray(rows, a, q, i) ==
  {r \in rows : ~(r.arr = a /\ r.query = q /\ r.inst = i)}

UpdateArrayLock(rows, l) ==
  {r \in rows : ~SameKey(r, l)} \cup {l : r \in {s \in rows : SameKey(s, l)}}

DeleteArrayLocks(rows, i, q) == {r \in rows : ~(r.inst = i /\ r.query = q)}

DeleteCoordArrayLocks(rows, i) == {r \in rows : ~(r.inst = i /\ IsCoordRow(r))}

DeleteWorkerArrayLocks(rows, i) == {r \in rows : ~(r.inst = i /\ ~IsCoordRow(r))}

\* checkForCoordinatorLock: the coordinator's row of query q on array a, if any
CoordinatorLock(rows, a, q) ==
  {r \in rows : r.arr = a /\ r.query = q /\ IsCoordRow(r)}

=============================================================================
