----------------------------- MODULE DataStore ------------------------------
(***************************************************************************)
(* The data store of one array: a file of power-of-two blocks, its free    *)
(* lists, which live in memory and are written to a .fl file when they     *)
(* have not changed for a while, and the job that flushes it in the        *)
(* background, which is there only when sync-io-interval is positive (it   *)
(* is 0 by default; both cases are modelled).  The storage manager         *)
(* allocates a block for each chunk and frees it when the chunk goes;      *)
(* after a crash it may free again what it has freed since the last        *)
(* allocation.                                                             *)
(*                                                                         *)
(* A step is what one thread does while it holds _dslock or                *)
(* _dataStoreLock, except for the recursions of searchFreelist and         *)
(* addToFreelist and the loop of makeMoreSpace: they go one level per      *)
(* step, with _dslock held (pc # "none"), and may be cut off by a crash.   *)
(***************************************************************************)
EXTENDS Integers, Sequences, FiniteSets

CONSTANTS Sizes,     \* the powers of two a block, or the file, can have (bounded)
          MinAlloc,  \* getMinAllocSize()
          Requests,  \* chunk sizes that are asked for
          MaxChunks, \* bound: chunks of the store when another one is allocated
          NoList,    \* a .fl file that is missing, empty, corrupt or names no bucket
          NoBlock

\* roundUpPowerOf2
RoundUpPowerOf2(n) == CHOOSE s \in Sizes : s >= n /\ \A t \in Sizes : t >= n => s <= t

\* The size of the block that allocateSpace looks for
Required(n) == RoundUpPowerOf2(IF n < MinAlloc THEN MinAlloc ELSE n)

Blocks == [size : Nat \ {0}, off : Nat]
Block(s, o) == [size |-> s, off |-> o]

ASSUME SizesAssumption ==
  /\ Sizes \subseteq Nat \ {0} /\ Requests \subseteq Nat /\ MaxChunks \in Nat
  /\ MinAlloc \in Sizes /\ \A s \in Sizes : s >= MinAlloc
  /\ \A n \in Requests : Required(n) \in Sizes
  /\ NoBlock \notin Blocks

VARIABLES open,      \* the DataStore object is in the map
          free,      \* _freelists: its blocks
          alloc,     \* _allocatedSize
          dirty, fldirty,
          pc, want, level, path, blk, \* the operation that holds _dslock
          fileSize,  \* of the data file that has the name of the store; 0: there is none
          fl,        \* what the .fl file holds
          running,   \* _running of the flusher
          scheduled, \* the store is in _datastores of the flusher
          flusher,   \* where FlushJob::run is with this store
          used,      \* the blocks of the chunks that the storage manager knows
          freed,     \* the blocks that it has freed since its last allocation
          leaky,     \* ghost: a crash has cost blocks that nobody knows any more
          severed    \* ghost: the file was unlinked under an open store

opVars == <<pc, want, level, path, blk>>
listVars == <<open, free, alloc, dirty, fldirty>>
diskVars == <<fileSize, fl>>
flusherVars == <<running, scheduled, flusher>>
clientVars == <<used, freed>>
vars == <<listVars, opVars, diskVars, flusherVars, clientVars, leaky, severed>>

TypeOK ==
  /\ open \in BOOLEAN /\ dirty \in BOOLEAN /\ fldirty \in BOOLEAN
  /\ free \subseteq Blocks /\ used \subseteq Blocks /\ freed \subseteq Blocks
  /\ alloc \in Sizes /\ fileSize \in Sizes \cup {0}
  /\ pc \in {"none", "grow", "search", "split", "merge"}
  /\ want \in Nat /\ level \in Nat /\ path \in Seq(Nat)
  /\ blk \in Blocks \cup {NoBlock}
  /\ fl = NoList \/ fl \subseteq Blocks
  /\ running \in BOOLEAN /\ scheduled \in BOOLEAN /\ leaky \in BOOLEAN /\ severed \in BOOLEAN
  /\ flusher \in {"idle", "picked", "got", "flushed", "stale"}

\* initDataStores starts the flusher if it is configured.
Init ==
  /\ running \in BOOLEAN
  /\ open = FALSE /\ free = {} /\ alloc = MinAlloc /\ dirty = FALSE /\ fldirty = FALSE
  /\ pc = "none" /\ want = 0 /\ level = 0 /\ path = <<>> /\ blk = NoBlock
  /\ fileSize = 0 /\ fl = NoList
  /\ scheduled = FALSE /\ flusher = "idle"
  /\ used = {} /\ freed = {} /\ leaky = FALSE /\ severed = FALSE

-----------------------------------------------------------------------------
\* Opening and flushing

\* The constructor: initializeFreelist and readFreelistFromFile
OpenFile ==
  /\ open' = TRUE /\ dirty' = FALSE /\ fldirty' = FALSE
  /\ IF fileSize < MinAlloc
     THEN /\ alloc' = RoundUpPowerOf2(MinAlloc)
          /\ fileSize' = RoundUpPowerOf2(MinAlloc)
          /\ free' = {Block(RoundUpPowerOf2(MinAlloc), 0)}
     ELSE /\ alloc' = RoundUpPowerOf2(fileSize)
          /\ free' = IF fl = NoList THEN {} ELSE fl
          /\ UNCHANGED fileSize

\* getDataStore, called by the storage manager for a store that is not in the map
GetDataStore ==
  /\ ~open
  /\ OpenFile
  /\ UNCHANGED <<opVars, fl, flusherVars, clientVars, leaky, severed>>

\* MUTANT of FlushStore: the list is left for later
FlushStoreDataOnly == dirty' = FALSE /\ UNCHANGED <<fldirty, fl>>

\* flush() and persistFreelists; a crash in the middle leaves a file that is not read.
FlushStore ==
  /\ dirty' = FALSE /\ fldirty' = FALSE
  /\ fl' = IF fldirty THEN free ELSE fl

\* Storage::flush, flushAllDataStores
Flush ==
  /\ open /\ pc = "none"
  /\ FlushStore
  /\ UNCHANGED <<open, free, alloc, opVars, fileSize, flusherVars, clientVars, leaky, severed>>

\* DataStoreFlusher::add, of a store that becomes dirty
Add(clean) == scheduled' = (scheduled \/ (running /\ clean))

\* MUTANT of InvalidateFreelistFile: the file is left as it is
NoInvalidation ==
  /\ fldirty' = TRUE
  /\ Add(~fldirty)
  /\ UNCHANGED fl

\* invalidateFreelistFile
InvalidateFreelistFile ==
  /\ fldirty' = TRUE
  /\ Add(~fldirty)
  /\ fl' = IF fldirty THEN fl ELSE NoList

\* It fails between the truncation and the end, and the operation with it.
InvalidationFails ==
  /\ open /\ pc = "none" /\ ~fldirty
  /\ fl' = NoList
  /\ UNCHANGED <<listVars, opVars, fileSize, flusherVars, clientVars, leaky, severed>>

-----------------------------------------------------------------------------
\* allocateSpace

\* The bounds on the number of chunks and on the size of the file
WithinBounds(s) ==
  /\ Cardinality(used) < MaxChunks
  /\ (\E b \in free : b.size >= s) \/ 2 * (IF alloc < s THEN s ELSE alloc) \in Sizes

AllocateSpace(n) ==
  /\ open /\ pc = "none" /\ WithinBounds(Required(n))
  /\ InvalidateFreelistFile
  /\ pc' = "grow" /\ want' = Required(n)
  /\ freed' = {}
  /\ UNCHANGED <<open, free, alloc, dirty, level, path, blk, fileSize, running, flusher, used,
                 leaky, severed>>

\* want <= _largestFreeChunk
LargeEnough == \E b \in free : b.size >= want

GrowDone ==
  /\ pc = "grow" /\ LargeEnough
  /\ pc' = "search" /\ level' = want /\ path' = <<>>
  /\ UNCHANGED <<listVars, want, blk, diskVars, flusherVars, clientVars, leaky, severed>>

\* One round of makeMoreSpace, while the file is within the bound
MakeMoreSpace ==
  /\ pc = "grow" /\ ~LargeEnough
  /\ 2 * alloc \in Sizes
  /\ free' = free \cup {Block(alloc, alloc)}
  /\ alloc' = 2 * alloc
  /\ fileSize' = IF fileSize = 0 THEN 0 ELSE 2 * alloc
  /\ UNCHANGED <<open, dirty, fldirty, opVars, fl, flusherVars, clientVars, leaky, severed>>

\* searchFreelist: the recursive case calls itself with twice the size ...
SearchLarger ==
  /\ pc = "search" /\ \A b \in free : b.size # level
  /\ path' = Append(path, level) /\ level' = 2 * level
  /\ UNCHANGED <<listVars, pc, want, blk, diskVars, flusherVars, clientVars, leaky, severed>>

\* ... the base case takes the first block of the bucket ...
SearchTakes ==
  /\ pc = "search"
  /\ \E b \in free :
       /\ b.size = level /\ \A c \in free : c.size = level => b.off <= c.off
       /\ free' = free \ {b} /\ blk' = b
  /\ pc' = "split"
  /\ UNCHANGED <<open, alloc, dirty, fldirty, want, level, path, diskVars, flusherVars, clientVars,
                 leaky, severed>>

UpperHalf(b, half) == Block(half, b.off + half)

\* ... and on the way back each call leaves the upper half of the block in the list.
Split ==
  /\ pc = "split" /\ path # <<>>
  /\ LET half == path[Len(path)]
     IN  /\ free' = free \cup {UpperHalf(blk, half)}
         /\ blk' = Block(half, blk.off)
  /\ path' = SubSeq(path, 1, Len(path) - 1)
  /\ UNCHANGED <<open, alloc, dirty, fldirty, pc, want, level, diskVars, flusherVars, clientVars,
                 leaky, severed>>

\* The block is the caller's; it may be more than the request needs.
Allocated ==
  /\ pc = "split" /\ path = <<>>
  /\ used' = used \cup {blk}
  /\ pc' = "none" /\ blk' = NoBlock /\ want' = 0 /\ level' = 0
  /\ UNCHANGED <<listVars, path, diskVars, flusherVars, freed, leaky, severed>>

-----------------------------------------------------------------------------
\* writeData and freeChunk

WriteData(b) ==
  /\ open /\ pc = "none" /\ b \in used
  /\ dirty' = TRUE
  /\ Add(~dirty)
  /\ UNCHANGED <<open, free, alloc, fldirty, opVars, diskVars, running, flusher, clientVars, leaky,
                 severed>>

\* freeChunk.  A rollback that is repeated after a crash frees a block again.
FreeChunk(b) ==
  /\ open /\ pc = "none" /\ b \in used \cup freed
  /\ InvalidateFreelistFile
  /\ pc' = "merge" /\ blk' = b
  /\ used' = used \ {b} /\ freed' = freed \cup {b}
  /\ UNCHANGED <<open, free, alloc, dirty, want, level, path, fileSize, running, flusher, leaky,
                 severed>>

\* MUTANT of IsParentBlockFree: addToFreelist does not look for parent blocks
NoParentBlock(b) == FALSE

IsParentBlockFree(b) ==
  \E p \in free : p.size > b.size /\ p.off = b.off - (b.off % p.size)

Buddy(b) == Block(b.size, IF b.off % (2 * b.size) = 0 THEN b.off + b.size ELSE b.off - b.size)

\* MUTANT of Merged: the merged block starts where the freed one does
MergedHere(b) == Block(2 * b.size, b.off)

Merged(b) == Block(2 * b.size, IF b.off < Buddy(b).off THEN b.off ELSE Buddy(b).off)

\* addToFreelist: the recursive call with the block merged with its buddy
MergeBuddy ==
  /\ pc = "merge" /\ ~IsParentBlockFree(blk) /\ Buddy(blk) \in free
  /\ free' = free \ {Buddy(blk)}
  /\ blk' = Merged(blk)
  /\ UNCHANGED <<open, alloc, dirty, fldirty, pc, want, level, path, diskVars, flusherVars,
                 clientVars, leaky, severed>>

\* The block goes into the list, unless a parent is there.
Freed ==
  /\ pc = "merge"
  /\ \/ IsParentBlockFree(blk) /\ UNCHANGED free
     \/ /\ ~IsParentBlockFree(blk) /\ Buddy(blk) \notin free
        /\ free' = free \cup {blk}
  /\ pc' = "none" /\ blk' = NoBlock
  /\ UNCHANGED <<open, alloc, dirty, fldirty, want, level, path, diskVars, flusherVars, clientVars,
                 leaky, severed>>

-----------------------------------------------------------------------------
\* FlushJob::run

\* The job copies the set and clears it.
FlusherCollects ==
  /\ flusher = "idle" /\ scheduled
  /\ flusher' = "picked" /\ scheduled' = FALSE
  /\ UNCHANGED <<listVars, opVars, diskVars, running, clientVars, leaky, severed>>

\* getDataStore: a store that was removed meanwhile is made anew.
FlusherGets ==
  /\ flusher = "picked"
  /\ flusher' = "got"
  /\ IF open THEN UNCHANGED <<listVars, fileSize>> ELSE OpenFile
  /\ UNCHANGED <<opVars, fl, running, scheduled, clientVars, leaky, severed>>

FlusherFlushes ==
  /\ flusher = "got" /\ pc = "none"
  /\ FlushStore
  /\ flusher' = "flushed"
  /\ UNCHANGED <<open, free, alloc, opVars, fileSize, running, scheduled, clientVars, leaky,
                 severed>>

\* The job drops its reference.
FlusherDrops ==
  /\ flusher = "flushed"
  /\ flusher' = "idle"
  /\ UNCHANGED <<listVars, opVars, diskVars, running, scheduled, clientVars, leaky, severed>>

\* The last reference to a removed store: its File unlinks the name, whatever has it now.
FlusherUnlinks ==
  /\ flusher = "stale"
  /\ flusher' = "idle"
  /\ fileSize' = 0
  /\ severed' = (severed \/ open) /\ leaky' = (leaky /\ open)
  /\ UNCHANGED <<listVars, opVars, fl, running, scheduled, clientVars>>

\* closeDataStore(guid, true): the array, or its first version, is gone.  The file goes
\* with the last reference to the object.
CloseDataStore ==
  /\ open /\ pc = "none"
  /\ open' = FALSE /\ dirty' = FALSE /\ fldirty' = FALSE /\ free' = {}
  /\ fl' = NoList
  /\ IF flusher \in {"got", "flushed"}
     THEN flusher' = "stale" /\ leaky' = TRUE /\ UNCHANGED fileSize
     ELSE fileSize' = 0 /\ leaky' = FALSE /\ UNCHANGED flusher
  /\ used' = {} /\ freed' = {}
  /\ UNCHANGED <<alloc, opVars, running, scheduled, severed>>

-----------------------------------------------------------------------------
\* The process dies.  Some blocks are known to nobody afterwards: those of chunks whose
\* descriptor was not yet written, and those of a list that cannot be read.
Crash ==
  /\ open' = FALSE /\ free' = {} /\ dirty' = FALSE /\ fldirty' = FALSE
  /\ pc' = "none" /\ want' = 0 /\ level' = 0 /\ path' = <<>> /\ blk' = NoBlock
  /\ scheduled' = FALSE /\ flusher' = "idle"
  /\ \E kept \in SUBSET used :
       /\ used' = kept
       /\ leaky' = (leaky \/ kept # used \/ blk # NoBlock \/ (open /\ fl = NoList))
  /\ UNCHANGED <<alloc, diskVars, running, freed, severed>>

Operation ==
  \/ GrowDone \/ MakeMoreSpace \/ SearchLarger \/ SearchTakes \/ Split \/ Allocated
  \/ MergeBuddy \/ Freed

FlushJob == FlusherCollects \/ FlusherGets \/ FlusherFlushes \/ FlusherDrops \/ FlusherUnlinks

\* bound: a store whose file has lost its name is not followed any further.
Next ==
  /\ ~severed
  /\ \/ GetDataStore \/ Flush \/ InvalidationFails
     \/ \E n \in Requests : AllocateSpace(n)
     \/ \E b \in used : WriteData(b)
     \/ \E b \in used \cup freed : FreeChunk(b)
     \/ Operation \/ FlushJob \/ CloseDataStore \/ Crash

Spec == Init /\ [][Next]_vars

\* Operations end, the job runs (while _running, the only case in which it has a store
\* scheduled), and a mutex that is free again and again is granted: weak
\* fairness of Operation and of the job, strong fairness of FlusherFlushes, with the
\* enabling conditions written out.
Fairness ==
  /\ []<>(severed \/ pc = "none") \/ []<><<opVars' # opVars>>_vars
  /\ \/ []<>(severed \/ flusher = "got" \/ (flusher = "idle" /\ ~scheduled))
     \/ []<><<flusher' # flusher>>_vars
  /\ \/ <>[](severed \/ flusher # "got" \/ pc # "none")
     \/ []<><<flusher = "got" /\ flusher' # "got">>_vars

FairSpec == Spec /\ Fairness

-----------------------------------------------------------------------------
Apart(b, c) == b.off + b.size <= c.off \/ c.off + c.size <= b.off

\* No two chunks share a byte of the file, and no free block is part of a chunk or of
\* another free block, whatever was freed twice, merged, split, lost or read back after a
\* crash.
NoOverlap ==
  /\ \A b \in free \cup used, c \in free \cup used : b # c => Apart(b, c)
  /\ free \cap used = {}

\* A .fl file that can be read never offers a block of a chunk: it is invalid on disk before
\* the first block of the list is given away.
ListOnDiskSafe ==
  fl = NoList \/ \A b \in fl, c \in used : Apart(b, c)

\* The asserts of searchFreelist and addToFreelist: there is a block to split at every level
\* of the recursion, and a merged block is aligned.
AllocatorAsserts ==
  /\ pc = "search" => \E b \in free : b.size >= level
  /\ pc = "merge" => blk.size \in Sizes /\ blk.off % blk.size = 0

\* makeMoreSpace, splitting and merging keep those asserts and lose nothing: unless a crash
\* came in between, every byte of the file is in a chunk, in the list or in the hands of the
\* running operation.
Accounted ==
  /\ AllocatorAsserts
  /\ open /\ ~leaky =>
       \A x \in 0 .. alloc - 1 :
         \E b \in free \cup used \cup ({blk} \ {NoBlock}) : b.off <= x /\ x < b.off + b.size

\* Where the flusher runs (sync-io-interval > 0), a store that is written to is flushed some
\* time, unless it is closed before or its file has lost its name.
EventuallyFlushed == (running /\ (dirty \/ fldirty)) ~> ((~dirty /\ ~fldirty) \/ severed)
=============================================================================
