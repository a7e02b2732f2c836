---------------------------- MODULE ChunkStorage ----------------------------
(***************************************************************************)
(* The storage manager of one instance (CachedStorage): the chunk map in   *)
(* memory, the storage header file with one descriptor slot per chunk, the *)
(* two undo log files, and what becomes of them when updates commit, are   *)
(* rolled back or cut off by a crash, and when versions are removed.       *)
(*                                                                         *)
(* A step is what one thread does while it holds _mutex.  A crash, or an   *)
(* error that ends the query, can cut a write off between two of its file  *)
(* operations.  Crash is the death of the process: what was written to a   *)
(* file stays.  The instance is the coordinator of its updates; the two    *)
(* roles, and what the catalog does for them, are in UpdateTxn.  An array  *)
(* has one attribute.  The blocks of an array's data store are numbered:   *)
(* DataStore shows how they are found.                                     *)
(***************************************************************************)
EXTENDS Integers, Sequences, FiniteSets, FiniteSetsExt

CONSTANTS Arrays,     \* unversioned array ids
          Coords,     \* chunk positions
          LogLimit,   \* _logSizeLimit, in records
          MaxId,      \* bound on the array ids of versions
          Followed,   \* bound: the windows after which a behaviour is followed
          NoChunk,    \* a slot that holds no descriptor (arrId = 0, or never written)
          NoRow

VARIABLES
  \* the catalog
  status,      \* of an array: "new" (not recorded), "exists", "gone"
  versions,    \* the recorded versions of an array, by array id
  row,         \* its lock row: an update (WR, id of the new version) or a
               \* removal (RM, id of the oldest version to keep, 0: none)
  nextId,
  phase,       \* where the query that holds the row is
  \* files
  hd, nDisk,   \* the header file: its full descriptors, and nChunks on disk
  log,         \* the records of _log[0] and _log[1], up to the sentinel
  store,       \* allocated blocks, with the chunk that was written there
  loose,       \* blocks freed since the last allocation of their store
  \* memory
  up,          \* "up", "down", or how far open() is: "undone", "unlocked"
  chunkMap, freeHeaders, nMem, logSize, currLog,
  \* ghosts
  written,     \* what committed versions wrote
  risk         \* the windows that this behaviour has met (see below)

catalogVars == <<status, versions, row, nextId>>
memVars == <<chunkMap, freeHeaders, nMem, logSize, currLog>>
fileVars == <<hd, nDisk, log, store, loose>>
ghostVars == <<written, risk>>
vars == <<catalogVars, phase, fileVars, up, memVars, ghostVars>>

Windows == {"log", "slot", "header", "removal"}
ASSUME BoundsAssumption == LogLimit \in Nat \ {0} /\ MaxId \in Nat /\ Followed \subseteq Windows

Ids == 1..MaxId
\* A descriptor, an undo record, or an entry of the chunk map.  slot = 0: created
\* but not written; block = 0 with a slot: a tombstone.
Chunks == [arr : Arrays, id : Ids, coord : Coords, slot : Nat, block : Nat]
IsTombstone(e) == e.block = 0

TypeOK ==
  /\ status \in [Arrays -> {"new", "exists", "gone"}]
  /\ versions \in [Arrays -> SUBSET Ids]
  /\ row \in [Arrays -> [mode : {"WR", "RM"}, id : 0..MaxId] \cup {NoRow}]
  /\ nextId \in 1..(MaxId + 1)
  /\ phase \in [Arrays -> {"idle", "writing", "committed", "failed", "undone", "forgotten",
                           "removing", "removed", "unlisted"}]
  /\ hd \in Seq(Chunks \cup {NoChunk}) /\ nDisk \in Nat
  /\ DOMAIN log = {0, 1} /\ \A i \in {0, 1} : log[i] \in Seq(Chunks) /\ Len(log[i]) <= LogLimit
  /\ store \subseteq [arr : Arrays, block : Nat \ {0}, id : Ids, coord : Coords]
  /\ loose \subseteq Arrays \X (Nat \ {0})
  /\ up \in {"up", "down", "undone", "unlocked"}
  /\ chunkMap \subseteq Chunks /\ freeHeaders \subseteq Nat \ {0}
  /\ nMem \in Nat /\ logSize \in 0..LogLimit /\ currLog \in {0, 1}
  /\ written \subseteq [arr : Arrays, id : Ids, coord : Coords, tomb : BOOLEAN]
  /\ risk \subseteq Windows

Init ==
  /\ status \in [Arrays -> {"new", "exists"}] \* made by store, or by create array
  /\ versions = [a \in Arrays |-> {}] /\ row = [a \in Arrays |-> NoRow] /\ nextId = 1
  /\ phase = [a \in Arrays |-> "idle"]
  /\ hd = <<>> /\ nDisk = 0 /\ log = [i \in {0, 1} |-> <<>>] /\ store = {} /\ loose = {}
  /\ up = "up" /\ chunkMap = {} /\ freeHeaders = {} /\ nMem = 0 /\ logSize = 0 /\ currLog = 0
  /\ written = {} /\ risk = {}

-----------------------------------------------------------------------------
\* Looking chunks up

Same(e, f) == e.arr = f.arr /\ e.coord = f.coord

\* findChunk: the id of the chunk that version v of a has at c; 0: none
Found(S, a, v, c) ==
  LET older == {e \in S : e.arr = a /\ e.coord = c /\ e.id <= v}
      newest == CHOOSE e \in older : \A f \in older : f.id <= e.id
  IN IF older = {} \/ newest.tomb THEN 0 ELSE newest.id

Content(S) == {[arr |-> e.arr, id |-> e.id, coord |-> e.coord, tomb |-> IsTombstone(e)] : e \in S}

\* An update that was not recorded: its version is rolled back if the query fails
Unrecorded(a) == row[a] # NoRow /\ row[a].mode = "WR" /\ row[a].id \notin versions[a]

Records == UNION {{log[i][k] : k \in 1..Len(log[i])} : i \in {0, 1}}

\* MUTANT of Undone: the version of the record is not looked at
UndoneAnyVersion(A) == {r \in Records : r.arr \in A}

\* The undo records that rollback applies for the arrays of A
Undone(A) == {r \in Records : r.arr \in A /\ row[r.arr].id <= r.id}

-----------------------------------------------------------------------------
\* Updates

\* The update has its row in the catalog, with the id of the new version
Begin(a) ==
  /\ up = "up" /\ row[a] = NoRow /\ status[a] # "gone" /\ nextId <= MaxId
  /\ row' = [row EXCEPT ![a] = [mode |-> "WR", id |-> nextId]]
  /\ nextId' = nextId + 1 /\ phase' = [phase EXCEPT ![a] = "writing"]
  /\ UNCHANGED <<status, versions, fileVars, up, memVars, ghostVars>>

Own(a) == {e \in chunkMap : e.arr = a /\ e.id = row[a].id}

\* createChunk
CreateChunk(a, c) ==
  /\ up = "up" /\ phase[a] = "writing"
  /\ \A e \in Own(a) : e.coord # c
  /\ chunkMap' = chunkMap \cup {[arr |-> a, id |-> row[a].id, coord |-> c, slot |-> 0, block |-> 0]}
  /\ UNCHANGED <<catalogVars, phase, fileVars, up, freeHeaders, nMem, logSize, currLog, ghostVars>>

\* The slot of the next descriptor, and nChunks with it
NewCount == IF freeHeaders = {} THEN nMem + 1 ELSE nMem
Slot == IF freeHeaders = {} THEN nMem + 1 ELSE Min(freeHeaders)

\* allocateSpace
AllocateSpace(a) ==
  CHOOSE b \in 1..(Cardinality(store) + 1) :
    /\ \A s \in store : s.arr = a => s.block # b
    /\ \A d \in 1..(b - 1) : \E s \in store : s.arr = a /\ s.block = d

\* What writeChunk and removeLocalChunkVersion write: chunks that were created ...
NewChunks(a) == {[e EXCEPT !.slot = Slot, !.block = AllocateSpace(a)] : e \in {f \in Own(a) : f.slot = 0}}

\* ... and tombstones for the chunks of the version before that the new one has not
NewTombstones(a) ==
  {[arr |-> a, id |-> row[a].id, coord |-> c, slot |-> Slot, block |-> 0] :
     c \in {d \in Coords : /\ \A e \in Own(a) : e.coord # d
                           /\ Found(Content(chunkMap), a, row[a].id, d) # 0}}

LogFull == logSize + 1 > LogLimit
NextLog == IF LogFull THEN 1 - currLog ELSE currLog
LogPos == IF LogFull THEN 0 ELSE logSize

\* The windows in which the files cannot undo an update or a removal any more, or undo
\* another one's with it.  "log": the log wraps over a record of an update that is still running
\* or not yet undone.
LosesRecord ==
  LogFull /\ \E k \in 1..Len(log[1 - currLog]) :
    LET r == log[1 - currLog][k]
    IN r \in Undone({a \in Arrays : Unrecorded(a) /\ phase[a] \in {"writing", "failed"}})

\* "slot": a slot is taken again while the row of an update whose undo record names it,
\* and that has been rolled back, is still there.
TakesNamedSlot(e) ==
  \E r \in Undone({a \in Arrays : Unrecorded(a) /\ phase[a] \in {"undone", "forgotten"}}) :
    r.slot = e.slot /\ r.arr # e.arr

\* "header": nChunks on disk does not count a slot that the restart will undo.
CrashRisk(records, counted) ==
  IF \E r \in records : Unrecorded(r.arr) /\ row[r.arr].id <= r.id /\ r.slot > counted
  THEN {"header"} ELSE {}

PutRisk(e, n) == (IF n >= 1 /\ LosesRecord THEN {"log"} ELSE {})
                 \cup (IF TakesNamedSlot(e) THEN {"slot"} ELSE {})

\* The first n of the file operations of a write: the undo record with its sentinel,
\* the descriptor (after the data), the storage header.
PutFiles(e, n) ==
  /\ log' = IF n < 1 THEN log
            ELSE [log EXCEPT ![NextLog] = Append(SubSeq(log[NextLog], 1, LogPos), e)]
  /\ hd' = IF n < 2 THEN hd
           ELSE [s \in 1..Max({Len(hd), e.slot}) |->
                   IF s = e.slot THEN e ELSE IF s <= Len(hd) THEN hd[s] ELSE NoChunk]
  /\ nDisk' = IF n < 3 THEN nDisk ELSE NewCount
  /\ store' = IF IsTombstone(e) THEN store
              ELSE store \cup {[arr |-> e.arr, block |-> e.block, id |-> e.id, coord |-> e.coord]}
  /\ loose' = IF IsTombstone(e) THEN loose ELSE {b \in loose : b[1] # e.arr}

\* MUTANT of PutMemory: the slot stays in the list of free ones
PutMemoryKeepsSlot(e, n) ==
  /\ chunkMap' = {f \in chunkMap : ~(Same(e, f) /\ e.id = f.id)} \cup {e}
  /\ nMem' = NewCount /\ UNCHANGED freeHeaders
  /\ logSize' = (IF n < 1 THEN logSize ELSE LogPos + 1)
  /\ currLog' = (IF n < 1 THEN currLog ELSE NextLog)

PutMemory(e, n) ==
  /\ chunkMap' = {f \in chunkMap : ~(Same(e, f) /\ e.id = f.id)} \cup {e}
  /\ freeHeaders' = freeHeaders \ {e.slot} /\ nMem' = NewCount
  /\ logSize' = (IF n < 1 THEN logSize ELSE LogPos + 1)
  /\ currLog' = (IF n < 1 THEN currLog ELSE NextLog)

Put(e, n) == PutFiles(e, n) /\ PutMemory(e, n) /\ risk' = risk \cup PutRisk(e, n)

\* MUTANT of WriteChunk: the query is not validated once _mutex is held
WriteChunkUnvalidated(a) ==
  /\ up = "up" /\ phase[a] \in {"writing", "failed", "undone"}
  /\ \E e \in NewChunks(a) : Put(e, 3)
  /\ UNCHANGED <<catalogVars, phase, up, written>>

\* writeChunk
WriteChunk(a) ==
  /\ up = "up" /\ phase[a] = "writing"
  /\ \E e \in NewChunks(a) : Put(e, 3)
  /\ UNCHANGED <<catalogVars, phase, up, written>>

\* removeDeadChunks, removeLocalChunkVersion
RemoveDeadChunk(a) ==
  /\ up = "up" /\ phase[a] = "writing"
  /\ \E e \in NewTombstones(a) : Put(e, 3)
  /\ UNCHANGED <<catalogVars, phase, up, written>>

\* A write that stops half-way with an exception, which fails the query
WriteFails(a) ==
  /\ up = "up" /\ phase[a] = "writing"
  /\ \E e \in NewChunks(a) \cup NewTombstones(a), n \in 0..2 : Put(e, n)
  /\ phase' = [phase EXCEPT ![a] = "failed"]
  /\ UNCHANGED <<catalogVars, up, written>>

\* The query fails elsewhere; from then on validateQueryPtr throws
Fail(a) ==
  /\ up = "up" /\ phase[a] = "writing"
  /\ phase' = [phase EXCEPT ![a] = "failed"]
  /\ UNCHANGED <<catalogVars, fileVars, up, memVars, ghostVars>>

\* The new version is recorded
Commit(a) ==
  /\ up = "up" /\ phase[a] = "writing" /\ \A e \in Own(a) : e.slot # 0
  /\ versions' = [versions EXCEPT ![a] = @ \cup {row[a].id}]
  /\ status' = [status EXCEPT ![a] = "exists"]
  /\ phase' = [phase EXCEPT ![a] = "committed"]
  /\ written' = written \cup Content(Own(a))
  /\ UNCHANGED <<row, nextId, fileVars, up, memVars, risk>>

\* rollback, for the updates of the arrays of A.  A store that held no version is removed.
Undo(A) ==
  LET slots == {r.slot : r \in Undone(A)}
      freed == {<<r.arr, r.block>> : r \in {s \in Undone(A) : ~IsTombstone(s)}}
      removed == {a \in A : versions[a] = {}}
  IN /\ hd' = [s \in 1..Len(hd) |-> IF s \in slots THEN NoChunk ELSE hd[s]]
     /\ freeHeaders' = freeHeaders \cup slots
     /\ store' = {s \in store : s.arr \notin removed /\ <<s.arr, s.block>> \notin freed}
     /\ loose' = {b \in loose \cup freed : b[1] \notin removed}

\* doRollback, first half; runRestartableWork repeats it after an exception
Rollback(a) ==
  /\ up = "up" /\ phase[a] \in {"failed", "undone"}
  /\ Undo({a})
  /\ phase' = [phase EXCEPT ![a] = "undone"]
  /\ UNCHANGED <<catalogVars, nDisk, log, up, chunkMap, nMem, logSize, currLog, ghostVars>>

\* doRollback, second half: removeVersionFromMemory
RemoveVersionFromMemory(a) ==
  /\ up = "up" /\ phase[a] = "undone"
  /\ chunkMap' = chunkMap \ Own(a)
  /\ phase' = [phase EXCEPT ![a] = "forgotten"]
  /\ UNCHANGED <<catalogVars, fileVars, up, freeHeaders, nMem, logSize, currLog, ghostVars>>

\* releaseLocks
Release(a) ==
  /\ up = "up" /\ phase[a] \in {"committed", "forgotten", "unlisted"}
  /\ row' = [row EXCEPT ![a] = NoRow] /\ phase' = [phase EXCEPT ![a] = "idle"]
  /\ UNCHANGED <<status, versions, nextId, fileVars, up, memVars, ghostVars>>

-----------------------------------------------------------------------------
\* Removing versions

\* The removal has its row, with the oldest version to keep
LockForRemoval(a, keep) ==
  /\ up = "up" /\ row[a] = NoRow /\ status[a] = "exists"
  /\ row' = [row EXCEPT ![a] = [mode |-> "RM", id |-> keep]]
  /\ phase' = [phase EXCEPT ![a] = "removing"]
  /\ UNCHANGED <<status, versions, nextId, fileVars, up, memVars, ghostVars>>

\* remove
BeginRemove(a) == LockForRemoval(a, 0)

\* remove_versions
BeginRemoveVersions(a, keep) == keep \in versions[a] /\ LockForRemoval(a, keep)

\* MUTANT of Victims: everything older than the version to keep
VictimsOlder(a, keep) == {e \in chunkMap : e.arr = a /\ (keep # 0 => e.id < keep)}

\* The chunks that no version from keep on reads
Victims(a, keep) ==
  {e \in chunkMap : /\ e.arr = a
                    /\ keep # 0 => \E f \in chunkMap : Same(e, f) /\ e.id < f.id /\ f.id <= keep}

\* markChunkAsFree for the chunks of S, of which those of F have come as far as freeChunk
\* at least; the data stores of the arrays of A are removed
MarkAsFree(S, F, A) ==
  /\ hd' = [s \in 1..Len(hd) |-> IF \E e \in S : e.slot = s THEN NoChunk ELSE hd[s]]
  /\ store' = {s \in store : s.arr \notin A /\ ~\E e \in F : s.arr = e.arr /\ s.block = e.block}
  /\ loose' = {b \in loose \cup {<<e.arr, e.block>> : e \in {f \in F : ~IsTombstone(f)}} : b[1] \notin A}

RemoveVersions(a) ==
  LET keep == row[a].id
      victims == Victims(a, keep)
  IN /\ up = "up" /\ phase[a] = "removing"
     /\ phase' = [phase EXCEPT ![a] = "removed"]
     /\ IF \A e \in chunkMap : e.arr # a THEN UNCHANGED <<fileVars, memVars>>
        ELSE /\ MarkAsFree(victims, victims, IF keep = 0 THEN {a} ELSE {}) /\ nDisk' = nMem
             /\ freeHeaders' = freeHeaders \cup {e.slot : e \in victims}
             /\ chunkMap' = chunkMap \ victims
             /\ UNCHANGED <<log, nMem, logSize, currLog>>
     /\ UNCHANGED <<catalogVars, up, ghostVars>>

\* The first victims: for each position the newest chunk goes first
FirstVictims(a) ==
  {S \in SUBSET Victims(a, row[a].id) \ {{}} :
     \A e \in S, f \in Victims(a, row[a].id) : Same(e, f) /\ f.id > e.id => f \in S}

\* An exception of a file operation ends removeVersions: chunks of S are marked, or all but
\* the last one, F, whose descriptor could not be written.  All stay in the chunk map, so
\* that a later removal frees them once more: the window "removal".
RemoveVersionsFails(a) ==
  /\ up = "up" /\ phase[a] = "removing"
  /\ \E F \in FirstVictims(a) : \E S \in (FirstVictims(a) \cup {{}}) \cap SUBSET F :
       /\ Cardinality(F \ S) <= 1
       /\ MarkAsFree(S, F, {})
       /\ freeHeaders' = freeHeaders \cup {e.slot : e \in S}
  /\ phase' = [phase EXCEPT ![a] = "removed"]
  /\ risk' = risk \cup {"removal"}
  /\ UNCHANGED <<catalogVars, nDisk, log, up, chunkMap, nMem, logSize, currLog, written>>

Unlist(a) ==
  /\ versions' = [versions EXCEPT ![a] = IF row[a].id = 0 THEN {} ELSE {v \in @ : v >= row[a].id}]
  /\ status' = [status EXCEPT ![a] = IF row[a].id = 0 THEN "gone" ELSE @]

\* handleRemoveLock, at the end of the query or, when it failed before, as its error handler
DeleteFromCatalog(a) ==
  /\ up = "up" /\ phase[a] \in {"removing", "removed"}
  /\ Unlist(a)
  /\ phase' = [phase EXCEPT ![a] = "unlisted"]
  /\ UNCHANGED <<row, nextId, fileVars, up, memVars, ghostVars>>

-----------------------------------------------------------------------------
\* Crash and restart

LoseMemory ==
  /\ chunkMap' = {} /\ freeHeaders' = {} /\ nMem' = 0 /\ logSize' = 0 /\ currLog' = 0
  /\ up' = "down" /\ phase' = [a \in Arrays |-> "idle"]

\* The slots that initChunkMap reads: nChunks, but not past the end of the file
Readable == Min({nDisk, Len(hd)})

Crash ==
  /\ up # "down" /\ LoseMemory
  /\ risk' = risk \cup CrashRisk(Records, Readable)
  /\ UNCHANGED <<catalogVars, fileVars, written>>

CrashInWrite(a) ==
  /\ up = "up" /\ phase[a] = "writing"
  /\ \E e \in NewChunks(a) \cup NewTombstones(a), n \in 0..2 :
       /\ PutFiles(e, n)
       /\ risk' = risk \cup PutRisk(e, n)
                       \cup CrashRisk(Records \cup (IF n < 1 THEN {} ELSE {e}), Min({nDisk, Len(hd')}))
  /\ LoseMemory
  /\ UNCHANGED <<catalogVars, written>>

\* In the middle of removeVersions
CrashInRemove(a) ==
  /\ up = "up" /\ phase[a] = "removing"
  /\ \E S \in FirstVictims(a) : MarkAsFree(S, S, {})
  /\ risk' = risk \cup CrashRisk(Records, Readable)
  /\ LoseMemory
  /\ UNCHANGED <<catalogVars, nDisk, log, written>>

\* doTxnRecoveryOnStartup up to rollback
DoTxnRecovery ==
  LET RM == {a \in Arrays : row[a] # NoRow /\ row[a].mode = "RM"}
  IN /\ up = "down" /\ up' = "undone"
     /\ versions' = [a \in Arrays |-> IF a \notin RM THEN versions[a] ELSE
                       IF row[a].id = 0 THEN {} ELSE {v \in versions[a] : v >= row[a].id}]
     /\ status' = [a \in Arrays |-> IF a \in RM /\ row[a].id = 0 THEN "gone" ELSE status[a]]
     /\ Undo({a \in Arrays : Unrecorded(a)})
     /\ nMem' = nDisk
     /\ UNCHANGED <<row, nextId, phase, nDisk, log, chunkMap, logSize, currLog, ghostVars>>

\* deleteCoordArrayLocks, deleteWorkerArrayLocks
DeleteArrayLocks ==
  /\ up = "undone" /\ up' = "unlocked"
  /\ row' = [a \in Arrays |-> NoRow]
  /\ UNCHANGED <<status, versions, nextId, phase, fileVars, memVars, ghostVars>>

Descriptors == {hd[s] : s \in {t \in 1..Readable : hd[t] # NoChunk}}
Oldest(a) == IF versions[a] = {} THEN 0 ELSE Min(versions[a])

\* The descriptors that initChunkMap wipes: their array is not in the catalog, or the
\* oldest version reads a newer chunk, or the same from an earlier slot
Orphans == {d \in Descriptors : status[d.arr] # "exists"}
Outdated == {d \in Descriptors \ Orphans :
               \E f \in Descriptors : /\ Same(d, f) /\ f.id <= Oldest(d.arr)
                                      /\ d.id < f.id \/ (d.id = f.id /\ f.slot < d.slot)}

\* Wiped by its own descriptor, not by a newer one: this branch frees the block of a
\* tombstone as well, with allocatedSize 0.
FreesNothing == {d \in Outdated : /\ IsTombstone(d)
                                  /\ \E f \in Descriptors : /\ Same(d, f) /\ d.id <= f.id
                                                            /\ f.id <= Oldest(d.arr) /\ f.slot < d.slot}

\* "smgr open: NOT unique chunk" and checkExtentsForOverlaps: what open() demands of the
\* descriptors that it does not wipe
Unique == \A d, f \in Descriptors \ (Orphans \cup Outdated) :
            Same(d, f) /\ d.id = f.id /\ d.slot < f.slot => IsTombstone(d)
NoExtentsOverlap ==
  \A d, f \in {e \in Descriptors \ (Orphans \cup Outdated) : ~IsTombstone(e)} :
    d.arr = f.arr /\ d.block = f.block => d = f

\* Where the two checks fail, open() throws and the instance does not come up.
InitChunkMap ==
  LET gone == {d.arr : d \in Orphans}
      wiped == Orphans \cup Outdated
      freed == {<<d.arr, d.block>> : d \in {e \in Outdated : ~IsTombstone(e)}}
  IN /\ up = "unlocked" /\ Unique /\ NoExtentsOverlap
     /\ up' = "up"
     /\ hd' = [s \in 1..Len(hd) |-> IF s <= Readable /\ hd[s] \in wiped THEN NoChunk ELSE hd[s]]
     /\ chunkMap' = Descriptors \ wiped
     /\ freeHeaders' = freeHeaders \cup {s \in 1..Readable : hd'[s] = NoChunk}
     /\ nMem' = Readable
     /\ store' = {s \in store : s.arr \notin gone /\ <<s.arr, s.block>> \notin freed}
     /\ loose' = {b \in loose \cup freed : b[1] \notin gone}
     /\ UNCHANGED <<catalogVars, phase, nDisk, log, logSize, currLog, ghostVars>>

\* addToFreelist divides by the size of the block, twice: the process dies.  The
\* descriptor has been wiped by then.
InitChunkMapDies ==
  /\ up = "unlocked"
  /\ \E d \in FreesNothing :
       hd' = [s \in 1..Len(hd) |->
                IF s <= d.slot /\ hd[s] \in Orphans \cup Outdated THEN NoChunk ELSE hd[s]]
  /\ LoseMemory
  /\ UNCHANGED <<catalogVars, nDisk, log, store, loose, ghostVars>>

-----------------------------------------------------------------------------
Next ==
  /\ risk \subseteq Followed
  /\ \/ \E a \in Arrays :
          \/ Begin(a) \/ WriteChunk(a) \/ RemoveDeadChunk(a) \/ WriteFails(a) \/ Fail(a)
          \/ Commit(a) \/ Rollback(a) \/ RemoveVersionFromMemory(a) \/ Release(a)
          \/ RemoveVersions(a) \/ DeleteFromCatalog(a) \/ CrashInWrite(a) \/ CrashInRemove(a)
          \/ \E c \in Coords : CreateChunk(a, c)
          \/ BeginRemove(a) \/ RemoveVersionsFails(a)
          \/ \E keep \in Ids : BeginRemoveVersions(a, keep)
     \/ Crash \/ DoTxnRecovery \/ DeleteArrayLocks \/ InitChunkMap \/ InitChunkMapDies

Spec == Init /\ [][Next]_vars

-----------------------------------------------------------------------------
\* Properties

\* The versions that a query may read: a removal excludes readers of what it removes.
Readers(a) == IF row[a] # NoRow /\ row[a].mode = "RM"
              THEN {v \in versions[a] : row[a].id # 0 /\ v >= row[a].id}
              ELSE versions[a]

\* initChunkMap reads "information about all locally available chunks" into the map: in
\* every recorded version findChunk finds the chunk that this version, or the last one
\* before it that wrote there, has written, and none where that was a tombstone.
FindsChunks ==
  up = "up" =>
    \A a \in Arrays, c \in Coords : \A v \in Readers(a) :
      Found(Content(chunkMap), a, v, c) = Found(written, a, v, c)

\* The same, outside the four windows: whatever is rolled back, removed or cut off by a
\* crash, recorded versions keep their chunks and show no others.
ReadsCommitted == risk = {} => FindsChunks

\* The chunk is neither waiting for its rollback nor half-way through it.
Settled(e) == e.slot # 0 /\ ~(Unrecorded(e.arr) /\ e.id = row[e.arr].id
                              /\ phase[e.arr] \in {"failed", "undone"})

\* The chunk map and the header file agree: a chunk in memory has a slot that nobody else
\* can get, that nChunks on disk counts and that holds its descriptor; _freeHeaders has
\* only slots that nChunks counts.
MapOnDisk ==
  /\ TypeOK
  /\ risk = {} /\ up = "up" =>
       /\ freeHeaders \subseteq 1..nMem
       /\ \A e \in chunkMap : Settled(e) =>
            e.slot \notin freeHeaders /\ e.slot <= nDisk /\ hd[e.slot] = e

\* The note of rollback: updates are validated under _mutex "to avoid leaving chunks
\* behind".  Every chunk in the map or in the header file was written by a version that was
\* recorded, or belongs to an update whose row is still there.
NothingLeftBehind ==
  risk = {} =>
    \A e \in chunkMap \cup ({hd[s] : s \in 1..Len(hd)} \ {NoChunk}) :
      Content({e}) \subseteq written \/ (Unrecorded(e.arr) /\ e.id = row[e.arr].id)

\* What DataStore expects of its client.  The block of a chunk in the map is allocated, to
\* this chunk; a block that a rollback frees, now or after a crash, is still the block of
\* the chunk of the undo record, or was freed since the last allocation of its store.  A
\* restart gets past the two checks of initChunkMap: no chunk has two descriptors, no
\* block two chunks.
BlocksAgree ==
  risk = {} =>
    /\ up = "unlocked" => Unique /\ NoExtentsOverlap
    /\ up = "up" => \A e \in chunkMap : Settled(e) /\ ~IsTombstone(e) =>
         [arr |-> e.arr, block |-> e.block, id |-> e.id, coord |-> e.coord] \in store
    /\ \A r \in Undone({a \in Arrays : Unrecorded(a)}) :
         \/ IsTombstone(r) \/ versions[r.arr] = {} \/ <<r.arr, r.block>> \in loose
         \/ [arr |-> r.arr, block |-> r.block, id |-> r.id, coord |-> r.coord] \in store
=============================================================================
