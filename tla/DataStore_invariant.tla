------------------------ MODULE DataStore_invariant -------------------------
(***************************************************************************)
(* The inductive invariant behind the theorems on data stores, the         *)
(* arithmetic of aligned blocks, and the steps that take no block from the *)
(* list and put none into it.  DataStore_proofs has the other steps and    *)
(* the theorems.                                                           *)
(***************************************************************************)
EXTENDS DataStore, TLAPS

-----------------------------------------------------------------------------
(* Arithmetic of aligned blocks                                            *)

\* The remainder of a division is unique.
LEMMA Unique ==
  ASSUME NEW B \in Nat \ {0}, NEW k \in Nat, NEW r \in Nat, r < B
  PROVE  (B * k + r) % B = r
BY Z3

\* An aligned offset is a multiple of the block size.
LEMMA Multiple ==
  ASSUME NEW B \in Nat \ {0}, NEW o \in Nat, o % B = 0
  PROVE  \E k \in Nat : o = B * k
<1>1. o \div B \in Nat /\ o = B * (o \div B) BY Z3
<1> QED BY <1>1

\* isParentBlockFree computes the offset of the block of size B that holds o.
LEMMA AlignDown ==
  ASSUME NEW B \in Nat \ {0}, NEW p \in Nat, NEW o \in Nat, p % B = 0, p <= o, o < p + B
  PROVE  o - (o % B) = p
<1>1. PICK k \in Nat : p = B * k BY ZenonT(60), Multiple
<1>2. (B * k + (o - p)) % B = o - p BY Unique
<1> QED BY <1>1, <1>2, Z3

\* A block that is split leaves aligned halves: the lower one ...
LEMMA HalfAligned ==
  ASSUME NEW s \in Nat \ {0}, NEW o \in Nat, o % (2 * s) = 0
  PROVE  o % s = 0
<1>1. PICK k \in Nat : o = (2 * s) * k BY Multiple
<1>2. o = s * (2 * k) + 0 BY <1>1, Z3
<1>3. (s * (2 * k) + 0) % s = 0 BY Unique
<1> QED BY <1>2, <1>3

\* ... and the upper one.
LEMMA NextAligned ==
  ASSUME NEW s \in Nat \ {0}, NEW o \in Nat, o % s = 0
  PROVE  (o + s) % s = 0
<1>1. PICK k \in Nat : o = s * k BY ZenonT(60), Multiple
<1>2. o + s = s * (k + 1) + 0 BY <1>1, Z3
<1>3. (s * (k + 1) + 0) % s = 0 BY Unique
<1> QED BY <1>2, <1>3

\* The buddy of an upper half is aligned to the merged block.
LEMMA OddMultiple ==
  ASSUME NEW s \in Nat \ {0}, NEW o \in Nat, o % s = 0, o % (2 * s) # 0
  PROVE  o >= s /\ (o - s) % (2 * s) = 0
<1>1. PICK k \in Nat : o = s * k BY Multiple
<1>2. PICK j \in Nat : k = 2 * j \/ k = 2 * j + 1
  <2>1. k \div 2 \in Nat /\ (k = 2 * (k \div 2) \/ k = 2 * (k \div 2) + 1) BY Z3
  <2> QED BY <2>1
<1>3. k # 2 * j
  <2> SUFFICES ASSUME k = 2 * j PROVE FALSE OBVIOUS
  <2>1. o = (2 * s) * j + 0 BY <1>1, Z3
  <2>2. ((2 * s) * j + 0) % (2 * s) = 0 BY Unique
  <2> QED BY <2>1, <2>2
<1>4. o - s = (2 * s) * j + 0 /\ o >= s BY <1>1, <1>2, <1>3, Z3
<1>5. ((2 * s) * j + 0) % (2 * s) = 0 BY Unique
<1> QED BY <1>4, <1>5

\* The buddy of a lower half is not aligned to the merged block.
LEMMA EvenNext ==
  ASSUME NEW s \in Nat \ {0}, NEW o \in Nat, o % (2 * s) = 0
  PROVE  (o + s) % (2 * s) # 0
<1>1. PICK k \in Nat : o = (2 * s) * k BY Multiple
<1>2. 2 * s \in Nat \ {0} /\ s < 2 * s BY Z3
<1>3. ((2 * s) * k + s) % (2 * s) = s BY ZenonT(60), <1>2, Unique
<1> QED BY <1>1, <1>3
-----------------------------------------------------------------------------
(* The inductive invariant                                                 *)

Aligned(b) == b.off % b.size = 0
Contains(c, b) == c.off <= b.off /\ b.off + b.size <= c.off + c.size
Clear(b, S) == \A c \in S : Apart(b, c)
Within(b, S) == \E c \in S : c.size > b.size /\ Contains(c, b)

\* The free blocks: of the open store, or as it will read them when it is opened
List == IF open THEN free ELSE IF fl = NoList THEN {} ELSE fl
Limit == IF open THEN alloc ELSE fileSize
Hand == IF blk = NoBlock THEN {} ELSE {blk}

\* What the object knows agrees with its files.
Files ==
  /\ open /\ ~severed => fileSize = alloc
  /\ ~open /\ (fileSize = 0 \/ flusher = "stale") => used = {} /\ freed = {} /\ fl = NoList
  /\ ~open => free = {}
  /\ flusher \in {"got", "flushed"} => open
  /\ open /\ fl # NoList => fl = free /\ pc = "none"
  /\ fldirty => fl = NoList
  /\ pc # "none" => open /\ fldirty

\* The state of the operation that holds the lock: the calls of searchFreelist are for
\* sizes that double.
Stack ==
  /\ blk # NoBlock <=> pc \in {"split", "merge"}
  /\ pc \in {"grow", "search", "split"} => freed = {}
  /\ pc \in {"grow", "search"} => want > 0
  /\ \A i \in 1 .. Len(path) : path[i] > 0
  /\ \A i \in 1 .. Len(path) - 1 : path[i + 1] = 2 * path[i]
  /\ pc = "search" => level > 0 /\ (path # <<>> => level = 2 * path[Len(path)])
  /\ pc = "split" /\ path # <<>> => blk.size = 2 * path[Len(path)]

\* Every block is aligned and in the file.
Placed ==
  \A b \in List \cup used \cup freed \cup Hand : Aligned(b) /\ b.off + b.size <= Limit

Separate ==
  /\ \A b \in List, c \in List : b # c => Apart(b, c)
  /\ \A b \in used, c \in used : b # c => Apart(b, c)
  /\ \A b \in used : Clear(b, List)

\* The block in hand.  One that is freed again is still clear of the list, is part of a
\* larger free block, or is in the list and its buddy is not.
InHand ==
  /\ pc = "split" => Clear(blk, free) /\ Clear(blk, used)
  /\ pc = "merge" =>
       /\ Clear(blk, used)
       /\ Clear(blk, free) \/ Within(blk, free) \/ (blk \in free /\ Buddy(blk) \notin free)

\* The blocks that may be freed again
FreedAgain ==
  /\ \A x \in freed, y \in freed : x # y => Apart(x, y)
  /\ \A x \in freed :
       /\ Clear(x, used)
       /\ \/ Clear(x, List \cup Hand)
          \/ Within(x, List \cup Hand)
          \/ x = blk
          \/ x \in List /\ Buddy(x) \notin List

Inv == TypeOK /\ Files /\ Stack /\ Placed /\ Separate /\ InHand /\ FreedAgain

-----------------------------------------------------------------------------
(* Blocks                                                                  *)

\* A power of two is not rounded.
LEMMA RoundUpFixed == \A s \in Sizes : RoundUpPowerOf2(s) = s
<1> SUFFICES ASSUME NEW s \in Sizes PROVE RoundUpPowerOf2(s) = s OBVIOUS
<1> DEFINE r == RoundUpPowerOf2(s)
<1>1. \E t \in Sizes : t >= s /\ \A u \in Sizes : u >= s => t <= u BY SizesAssumption
<1>2. r \in Sizes /\ r >= s /\ \A u \in Sizes : u >= s => r <= u BY <1>1 DEF RoundUpPowerOf2
<1> HIDE DEF r
<1>3. r = s BY <1>2, SizesAssumption
<1> QED BY <1>3 DEF r

\* A block and its buddy are the halves of the merged block.
LEMMA BuddyFacts ==
  ASSUME NEW b \in Blocks, Aligned(b)
  PROVE  /\ Buddy(b) \in Blocks /\ Buddy(b).size = b.size /\ Buddy(b) # b
         /\ Aligned(Buddy(b)) /\ Buddy(Buddy(b)) = b
         /\ Merged(b) \in Blocks /\ Merged(b).size = 2 * b.size /\ Aligned(Merged(b))
         /\ Contains(Merged(b), b) /\ Contains(Merged(b), Buddy(b))
         /\ \/ Merged(b).off + Merged(b).size = b.off + b.size
            \/ Merged(b).off + Merged(b).size = Buddy(b).off + Buddy(b).size
         /\ \A c \in Blocks : Apart(c, b) /\ Apart(c, Buddy(b)) => Apart(c, Merged(b))
<1>1. b.size \in Nat \ {0} /\ b.off \in Nat /\ b = Block(b.size, b.off) BY DEF Blocks, Block
<1>2. CASE b.off % (2 * b.size) = 0
  <2>1. Buddy(b) = Block(b.size, b.off + b.size) BY <1>1, <1>2 DEF Buddy
  <2>2. Merged(b) = Block(2 * b.size, b.off) BY <1>1, <2>1 DEF Merged, Block
  <2>3. (b.off + b.size) % (2 * b.size) # 0 BY <1>1, <1>2, EvenNext
  <2>4. (b.off + b.size) % b.size = 0 BY <1>1, NextAligned DEF Aligned
  <2>5. Buddy(Buddy(b)) = b BY <1>1, <2>1, <2>3 DEF Buddy, Block
  <2> QED BY <1>1, <1>2, <2>1, <2>2, <2>4, <2>5 DEF Block, Blocks, Aligned, Contains, Apart
<1>3. CASE b.off % (2 * b.size) # 0
  <2>1. Buddy(b) = Block(b.size, b.off - b.size) BY <1>1, <1>3 DEF Buddy
  <2>2. b.off >= b.size /\ (b.off - b.size) % (2 * b.size) = 0
    BY ZenonT(60), <1>1, <1>3, OddMultiple DEF Aligned
  <2>3. Merged(b) = Block(2 * b.size, b.off - b.size) BY <1>1, <2>1 DEF Merged, Block
  <2>4. (b.off - b.size) % b.size = 0
    <3>1. b.off - b.size \in Nat BY <1>1, <2>2
    <3> QED BY <1>1, <2>2, <3>1, HalfAligned
  <2>5. Buddy(Buddy(b)) = b BY <1>1, <2>1, <2>2 DEF Buddy, Block
  <2> QED BY <1>1, <2>1, <2>2, <2>3, <2>4, <2>5 DEF Block, Blocks, Aligned, Contains, Apart
<1> QED BY <1>2, <1>3

\* The two blocks that searchFreelist makes of one: they are apart, aligned and in its place.
LEMMA Halves ==
  ASSUME NEW b \in Blocks, NEW h \in Nat \ {0}, b.size = 2 * h, Aligned(b),
         NEW up, up = Block(h, b.off + h), NEW low, low = Block(h, b.off)
  PROVE  /\ up \in Blocks /\ low \in Blocks /\ up.size = h /\ low.size = h
         /\ Aligned(up) /\ Aligned(low) /\ Apart(up, low) /\ Apart(low, up)
         /\ Contains(b, up) /\ Contains(b, low)
         /\ \A c \in Blocks : Apart(c, b) => /\ Apart(c, up) /\ Apart(c, low)
                                           /\ Apart(up, c) /\ Apart(low, c)
<1>1. /\ b.off \in Nat /\ up.off = b.off + h /\ low.off = b.off /\ up.size = h /\ low.size = h
      /\ up \in Blocks /\ low \in Blocks
  BY DEF Block, Blocks
<1>2. b.off % h = 0 BY <1>1, HalfAligned DEF Aligned
<1>3. (b.off + h) % h = 0 BY <1>1, <1>2, NextAligned
<1>4. Apart(up, low) /\ Apart(low, up) /\ Contains(b, up) /\ Contains(b, low)
  BY <1>1 DEF Apart, Contains
<1>5. ASSUME NEW c \in Blocks, Apart(c, b)
      PROVE  Apart(c, up) /\ Apart(c, low) /\ Apart(up, c) /\ Apart(low, c)
  <2>1. c.off \in Nat /\ c.size \in Nat BY DEF Blocks
  <2> QED BY <1>1, <1>5, <2>1 DEF Apart
<1> QED BY <1>1, <1>2, <1>3, <1>4, <1>5 DEF Aligned

\* A part of a block that is in the file is in the file.
LEMMA PartFits ==
  ASSUME NEW b \in Blocks, NEW c \in Blocks, NEW a \in Nat, Contains(b, c), b.off + b.size <= a
  PROVE  c.off + c.size <= a
BY DEF Contains, Blocks

\* The path without its last element
LEMMA Shorter ==
  ASSUME NEW p \in Seq(Nat), p # <<>>
  PROVE  LET q == SubSeq(p, 1, Len(p) - 1)
         IN  q \in Seq(Nat) /\ Len(q) = Len(p) - 1 /\ \A i \in 1 .. Len(p) - 1 : q[i] = p[i]
<1> DEFINE n == Len(p) - 1
<1>1. n \in Nat /\ n < Len(p) OBVIOUS
<1> HIDE DEF n
<1>2. SubSeq(p, 1, n) \in Seq(Nat) /\ Len(SubSeq(p, 1, n)) = n BY <1>1
<1>3. ASSUME NEW i \in 1 .. n PROVE SubSeq(p, 1, n)[i] = p[i] BY <1>1
<1> QED BY <1>2, <1>3 DEF n

\* isParentBlockFree finds a larger block that contains b ...
LEMMA ParentFound ==
  ASSUME NEW b \in Blocks, NEW p \in Blocks, Aligned(p), p.size > b.size, Contains(p, b)
  PROVE  p.off = b.off - (b.off % p.size)
<1>1. /\ p.size \in Nat \ {0} /\ p.off \in Nat /\ b.off \in Nat
      /\ p.off <= b.off /\ b.off < p.off + p.size
  BY DEF Blocks, Contains
<1>2. p.off % p.size = 0 BY DEF Aligned
<1> QED BY <1>1, <1>2, AlignDown

\* ... and nothing that is apart from it.
LEMMA ParentOverlaps ==
  ASSUME NEW b \in Blocks, NEW p \in Blocks, p.size > b.size, p.off = b.off - (b.off % p.size)
  PROVE  ~Apart(p, b) /\ ~Apart(b, p)
<1>1. p.size \in Nat \ {0} /\ p.off \in Nat /\ b.off \in Nat /\ b.size \in Nat \ {0}
  BY DEF Blocks
<1>2. b.off % p.size \in Nat /\ b.off % p.size < p.size BY <1>1, Z3
<1> QED BY <1>1, <1>2 DEF Apart

\* Being apart is symmetric ...
LEMMA ApartSymmetric ==
  ASSUME NEW b \in Blocks, NEW c \in Blocks
  PROVE  Apart(b, c) <=> Apart(c, b)
BY DEF Apart

\* ... and no block is apart from itself.
LEMMA NotApartFromItself == ASSUME NEW b \in Blocks PROVE ~Apart(b, b)
BY DEF Apart, Blocks

-----------------------------------------------------------------------------
(* Every step preserves the invariant                                      *)

\* Opening: the list that is read is the one the files stand for.
LEMMA GetDataStoreStep == ASSUME Inv, ~severed, GetDataStore PROVE Inv'
<1> USE SizesAssumption
    DEF Inv, GetDataStore, OpenFile, vars, listVars, opVars, diskVars, flusherVars, clientVars
<1>a. /\ RoundUpPowerOf2(MinAlloc) = MinAlloc
      /\ (fileSize # 0 => RoundUpPowerOf2(fileSize) = fileSize)
  BY RoundUpFixed DEF TypeOK
<1>b. (used = {} /\ freed = {}) \/ (fileSize # 0 /\ List' = List) BY DEF TypeOK, Files, List
<1>c. Hand' = Hand BY DEF Hand
<1>d. Block(MinAlloc, 0) \in Blocks BY DEF Block, Blocks
<1>e. free' \subseteq Blocks
  <2>1. CASE fileSize < MinAlloc BY <1>a, <1>d, <2>1
  <2>2. CASE ~(fileSize < MinAlloc) BY <2>2 DEF TypeOK
  <2> QED BY <2>1, <2>2
<1>1. TypeOK'
  <2>1. open' \in BOOLEAN /\ dirty' \in BOOLEAN /\ fldirty' \in BOOLEAN BY ZenonT(60) DEF TypeOK
  <2>2. free' \subseteq Blocks BY <1>e
  <2>3. used' \subseteq Blocks /\ freed' \subseteq Blocks BY DEF TypeOK
  <2>4. alloc' \in Sizes /\ fileSize' \in Sizes \cup {0} BY <1>a DEF TypeOK
  <2>5. pc' \in {"none", "grow", "search", "split", "merge"} BY DEF TypeOK
  <2>6. want' \in Nat /\ level' \in Nat /\ path' \in Seq(Nat) BY DEF TypeOK
  <2>7. blk' \in Blocks \cup {NoBlock} BY DEF TypeOK
  <2>8. fl' = NoList \/ fl' \subseteq Blocks BY DEF TypeOK
  <2>9. running' \in BOOLEAN /\ scheduled' \in BOOLEAN /\ leaky' \in BOOLEAN /\ severed' \in BOOLEAN
    BY DEF TypeOK
  <2>10. flusher' \in {"idle", "picked", "got", "flushed", "stale"} BY DEF TypeOK
  <2> QED BY <2>1, <2>2, <2>3, <2>4, <2>5, <2>6, <2>7, <2>8, <2>9, <2>10 DEF TypeOK
<1>2. Files' BY <1>a DEF TypeOK, Files, Stack
<1>3. Stack' BY DEF TypeOK, Stack, Files
<1>4. Placed' BY <1>a, <1>b DEF TypeOK, Files, Stack, Placed, List, Limit, Hand, Aligned, Block
<1>5. Separate' BY <1>b DEF TypeOK, Separate, Files, List, Clear, Block
<1>6. InHand' BY DEF Files, InHand
<1>7. FreedAgain' BY <1>b, <1>c DEF FreedAgain
<1> QED BY <1>1, <1>2, <1>3, <1>4, <1>5, <1>6, <1>7

\* A crash during an operation leaves no list, at any other time the list of the files.
LEMMA CrashStep == ASSUME Inv, ~severed, Crash PROVE Inv'
<1> USE SizesAssumption
    DEF Inv, Crash, vars, listVars, opVars, diskVars, flusherVars, clientVars
<1>a. PICK kept \in SUBSET used : used' = kept OBVIOUS
<1>b. List' = {} \/ (List' = List /\ Hand = {} /\ blk = NoBlock)
  BY DEF TypeOK, Files, Stack, List, Hand
<1>c. Hand' = {} BY DEF Hand
<1>1. TypeOK'
  <2>1. open' \in BOOLEAN /\ dirty' \in BOOLEAN /\ fldirty' \in BOOLEAN BY ZenonT(60) DEF TypeOK
  <2>2. free' \subseteq Blocks OBVIOUS
  <2>3. used' \subseteq Blocks /\ freed' \subseteq Blocks BY <1>a DEF TypeOK
  <2>4. alloc' \in Sizes /\ fileSize' \in Sizes \cup {0} BY DEF TypeOK
  <2>5. pc' \in {"none", "grow", "search", "split", "merge"} BY DEF TypeOK
  <2>6. want' \in Nat /\ level' \in Nat /\ path' \in Seq(Nat) BY DEF TypeOK
  <2>7. blk' \in Blocks \cup {NoBlock} BY DEF TypeOK
  <2>8. fl' = NoList \/ fl' \subseteq Blocks BY DEF TypeOK
  <2>9. running' \in BOOLEAN /\ scheduled' \in BOOLEAN /\ leaky' \in BOOLEAN /\ severed' \in BOOLEAN
    BY ZenonT(60) DEF TypeOK
  <2>10. flusher' \in {"idle", "picked", "got", "flushed", "stale"} BY DEF TypeOK
  <2> QED BY <2>1, <2>2, <2>3, <2>4, <2>5, <2>6, <2>7, <2>8, <2>9, <2>10 DEF TypeOK
<1>2. Files' BY DEF TypeOK, Files, Stack
<1>3. Stack' BY DEF TypeOK, Stack, Files
<1>4. Placed' BY DEF TypeOK, Placed, Files, Stack, List, Limit, Hand, Aligned
<1>5. Separate' BY DEF TypeOK, Separate, Files, Stack, List, Clear
<1>6. InHand' BY DEF TypeOK, Files, Stack, InHand
<1>7. FreedAgain'
  <2>1. \A x \in freed : Clear(x, used') BY <1>a DEF FreedAgain, Clear
  <2>2. CASE List' = {} BY <1>c, <2>1, <2>2 DEF FreedAgain, Clear
  <2>3. CASE List' = List /\ Hand = {} /\ blk = NoBlock BY <1>c, <2>1, <2>3 DEF FreedAgain
  <2> QED BY <1>b, <2>2, <2>3
<1> QED BY <1>1, <1>2, <1>3, <1>4, <1>5, <1>6, <1>7

\* flush() writes the list it holds.
LEMMA FlushStep == ASSUME Inv, ~severed, Flush PROVE Inv'
<1> USE SizesAssumption
    DEF Inv, Flush, FlushStore, vars, listVars, opVars, diskVars, flusherVars, clientVars
<1>1. TypeOK' BY ZenonT(60) DEF TypeOK, Stack, Files
<1>2. Files' BY DEF TypeOK, Files, Stack
<1>3. Stack' BY DEF TypeOK, Stack, Files
<1>4. Placed' BY DEF TypeOK, Placed, Files, Stack, List, Limit, Hand, Aligned
<1>5. Separate' BY DEF TypeOK, Separate, Files, Stack, List, Clear
<1>6. InHand' BY DEF TypeOK, Files, Stack, InHand
<1>7. FreedAgain' BY DEF TypeOK, Files, Stack, FreedAgain, List, Hand
<1> QED BY SMTT(60), <1>1, <1>2, <1>3, <1>4, <1>5, <1>6, <1>7

\* A failed invalidateFreelistFile leaves no list on disk.
LEMMA InvalidationFailsStep == ASSUME Inv, ~severed, InvalidationFails PROVE Inv'
<1> USE SizesAssumption
    DEF Inv, InvalidationFails, vars, listVars, opVars, diskVars, flusherVars, clientVars
<1>1. TypeOK' BY DEF TypeOK, Stack, Files
<1>2. Files' BY DEF TypeOK, Files, Stack
<1>3. Stack' BY DEF TypeOK, Stack, Files
<1>4. Placed' BY DEF TypeOK, Placed, Files, Stack, List, Limit, Hand, Aligned
<1>5. Separate' BY DEF TypeOK, Separate, Files, Stack, List, Clear
<1>6. InHand' BY DEF TypeOK, Files, Stack, InHand
<1>7. FreedAgain' BY DEF TypeOK, Files, Stack, FreedAgain, List, Hand
<1> QED BY <1>1, <1>2, <1>3, <1>4, <1>5, <1>6, <1>7

\* allocateSpace starts: the list on disk is gone before anything is taken.
LEMMA AllocateSpaceStep == ASSUME Inv, ~severed, NEW n \in Requests, AllocateSpace(n) PROVE Inv'
<1> USE SizesAssumption
    DEF Inv, AllocateSpace, InvalidateFreelistFile, Add,
        vars, listVars, opVars, diskVars, flusherVars, clientVars
<1>a. Required(n) \in Nat \ {0} OBVIOUS
<1>1. TypeOK' BY ZenonT(60) DEF TypeOK, Stack, Files
<1>2. Files' BY DEF TypeOK, Files, Stack
<1>3. Stack' BY <1>a DEF TypeOK, Stack, Files
<1>4. Placed' BY DEF TypeOK, Placed, Files, Stack, List, Limit, Hand, Aligned
<1>5. Separate' BY DEF TypeOK, Separate, Files, Stack, List, Clear
<1>6. InHand' BY SMTT(60) DEF TypeOK, Files, Stack, InHand
<1>7. FreedAgain' BY DEF TypeOK, Files, Stack, FreedAgain, List, Hand
<1> QED BY <1>1, <1>2, <1>3, <1>4, <1>5, <1>6, <1>7

\* writeData changes no block.
LEMMA WriteDataStep == ASSUME Inv, ~severed, NEW b \in used, WriteData(b) PROVE Inv'
<1> USE SizesAssumption
    DEF Inv, WriteData, Add,
        vars, listVars, opVars, diskVars, flusherVars, clientVars
<1>1. TypeOK' BY DEF TypeOK, Stack, Files
<1>2. Files' BY DEF TypeOK, Files, Stack
<1>3. Stack' BY DEF TypeOK, Stack, Files
<1>4. Placed' BY DEF TypeOK, Placed, Files, Stack, List, Limit, Hand, Aligned
<1>5. Separate' BY DEF TypeOK, Separate, Files, Stack, List, Clear
<1>6. InHand' BY SMTT(60) DEF TypeOK, Files, Stack, InHand
<1>7. FreedAgain' BY DEF TypeOK, Files, Stack, FreedAgain, List, Hand
<1> QED BY SMTT(60), <1>1, <1>2, <1>3, <1>4, <1>5, <1>6, <1>7

\* The search starts at the size that is wanted.
LEMMA GrowDoneStep == ASSUME Inv, ~severed, GrowDone PROVE Inv'
<1> USE SizesAssumption
    DEF Inv, GrowDone, LargeEnough, vars, listVars, opVars, diskVars, flusherVars, clientVars
<1>1. TypeOK' BY DEF TypeOK, Stack, Files
<1>2. Files' BY DEF TypeOK, Files, Stack
<1>3. Stack' BY DEF TypeOK, Stack, Files
<1>4. Placed' BY DEF TypeOK, Placed, Files, Stack, List, Limit, Hand, Aligned
<1>5. Separate' BY DEF TypeOK, Separate, Files, Stack, List, Clear
<1>6. InHand' BY SMTT(60) DEF TypeOK, Files, Stack, InHand
<1>7. FreedAgain' BY DEF TypeOK, Files, Stack, FreedAgain, List, Hand
<1> QED BY <1>1, <1>2, <1>3, <1>4, <1>5, <1>6, <1>7

\* The job takes the store from its set.
LEMMA FlusherCollectsStep == ASSUME Inv, ~severed, FlusherCollects PROVE Inv'
<1> USE SizesAssumption
    DEF Inv, FlusherCollects, vars, listVars, opVars, diskVars, flusherVars, clientVars
<1>1. TypeOK' BY ZenonT(60) DEF TypeOK, Stack, Files
<1>2. Files' BY DEF TypeOK, Files, Stack
<1>3. Stack' BY DEF TypeOK, Stack, Files
<1>4. Placed' BY DEF TypeOK, Placed, Files, Stack, List, Limit, Hand, Aligned
<1>5. Separate' BY DEF TypeOK, Separate, Files, Stack, List, Clear
<1>6. InHand' BY SMTT(60) DEF TypeOK, Files, Stack, InHand
<1>7. FreedAgain' BY ZenonT(60) DEF TypeOK, Files, Stack, FreedAgain, List, Hand
<1> QED BY SMTT(60), <1>1, <1>2, <1>3, <1>4, <1>5, <1>6, <1>7

\* The job drops its reference.
LEMMA FlusherDropsStep == ASSUME Inv, ~severed, FlusherDrops PROVE Inv'
<1> USE SizesAssumption
    DEF Inv, FlusherDrops, vars, listVars, opVars, diskVars, flusherVars, clientVars
<1>1. TypeOK' BY DEF TypeOK, Stack, Files
<1>2. Files' BY DEF TypeOK, Files, Stack
<1>3. Stack' BY DEF TypeOK, Stack, Files
<1>4. Placed' BY SMTT(60) DEF TypeOK, Placed, Files, Stack, List, Limit, Hand, Aligned
<1>5. Separate' BY DEF TypeOK, Separate, Files, Stack, List, Clear
<1>6. InHand' BY SMTT(60) DEF TypeOK, Files, Stack, InHand
<1>7. FreedAgain' BY ZenonT(60) DEF TypeOK, Files, Stack, FreedAgain, List, Hand
<1> QED BY <1>1, <1>2, <1>3, <1>4, <1>5, <1>6, <1>7

\* The job flushes a store that is open.
LEMMA FlusherFlushesStep == ASSUME Inv, ~severed, FlusherFlushes PROVE Inv'
<1> USE SizesAssumption
    DEF Inv, FlusherFlushes, FlushStore, vars, listVars, opVars, diskVars, flusherVars, clientVars
<1>1. TypeOK' BY ZenonT(60) DEF TypeOK, Stack, Files
<1>2. Files' BY DEF TypeOK, Files, Stack
<1>3. Stack' BY DEF TypeOK, Stack, Files
<1>4. Placed' BY SMTT(60) DEF TypeOK, Placed, Files, Stack, List, Limit, Hand, Aligned
<1>5. Separate' BY SMTT(60) DEF TypeOK, Separate, Files, Stack, List, Clear
<1>6. InHand' BY SMTT(60) DEF TypeOK, Files, Stack, InHand
<1>7. FreedAgain' BY DEF TypeOK, Files, Stack, FreedAgain, List, Hand
<1> QED BY <1>1, <1>2, <1>3, <1>4, <1>5, <1>6, <1>7

\* A file that loses its name under a closed store held no chunk.
LEMMA FlusherUnlinksStep == ASSUME Inv, ~severed, FlusherUnlinks PROVE Inv'
<1> USE SizesAssumption
    DEF Inv, FlusherUnlinks, vars, listVars, opVars, diskVars, flusherVars, clientVars
<1>1. TypeOK' BY SMTT(60) DEF TypeOK, Stack, Files
<1>2. Files' BY SMTT(60) DEF TypeOK, Files, Stack
<1>3. Stack' BY SMTT(60) DEF TypeOK, Stack, Files
<1>4. Placed' BY SMTT(60) DEF TypeOK, Placed, Files, Stack, List, Limit, Hand, Aligned
<1>5. Separate' BY SMTT(60) DEF TypeOK, Separate, Files, Stack, List, Clear
<1>6. InHand' BY SMTT(60) DEF TypeOK, Files, Stack, InHand
<1>7. FreedAgain' BY ZenonT(60) DEF TypeOK, Files, Stack, FreedAgain, List, Hand
<1> QED BY SMTT(60), <1>1, <1>2, <1>3, <1>4, <1>5, <1>6, <1>7

\* closeDataStore leaves no chunk and no list.
LEMMA CloseDataStoreStep == ASSUME Inv, ~severed, CloseDataStore PROVE Inv'
<1> USE SizesAssumption
    DEF Inv, CloseDataStore, vars, listVars, opVars, diskVars, flusherVars, clientVars
<1>1. TypeOK' BY ZenonT(60) DEF TypeOK, Stack, Files
<1>2. Files' BY DEF TypeOK, Files, Stack
<1>3. Stack' BY DEF TypeOK, Stack, Files
<1>4. Placed' BY SMTT(60) DEF TypeOK, Placed, Files, Stack, List, Limit, Hand, Aligned
<1>5. Separate' BY SMTT(60) DEF TypeOK, Separate, Files, Stack, List, Clear
<1>6. InHand' BY SMTT(60) DEF TypeOK, Files, Stack, InHand
<1>7. FreedAgain' BY DEF TypeOK, Files, Stack, FreedAgain, List, Hand
<1> QED BY <1>1, <1>2, <1>3, <1>4, <1>5, <1>6, <1>7

\* getDataStore of the job: the store is open, or it is opened as above.
LEMMA FlusherGetsStep == ASSUME Inv, ~severed, FlusherGets PROVE Inv'
<1> USE SizesAssumption
    DEF Inv, FlusherGets, vars, listVars, opVars, diskVars, flusherVars, clientVars
<1>0. CASE open
  <2> USE <1>0
  <2>1. List' = List /\ Limit' = Limit /\ Hand' = Hand BY DEF List, Limit, Hand
  <2>2. TypeOK' BY DEF TypeOK
  <2>3. Files' BY DEF Files
  <2>4. Stack' BY DEF Stack
  <2>5. Placed' BY <2>1 DEF Placed
  <2>6. Separate' BY <2>1 DEF Separate
  <2>7. InHand' BY DEF InHand, Clear, Within
  <2>8. FreedAgain' BY <2>1 DEF FreedAgain
  <2> QED BY <2>2, <2>3, <2>4, <2>5, <2>6, <2>7, <2>8
<1>1. CASE ~open
  <2> USE <1>1 DEF OpenFile
  <2>a. /\ RoundUpPowerOf2(MinAlloc) = MinAlloc
        /\ (fileSize # 0 => RoundUpPowerOf2(fileSize) = fileSize)
    BY SMTT(60), RoundUpFixed DEF TypeOK
  <2>b. (used = {} /\ freed = {}) \/ (fileSize # 0 /\ List' = List) BY DEF TypeOK, Files, List
  <2>c. Hand' = Hand BY DEF Hand
  <2>d. Block(MinAlloc, 0) \in Blocks BY DEF Block, Blocks
  <2>e. free' \subseteq Blocks
    <3>1. CASE fileSize < MinAlloc BY SMTT(60), <2>a, <2>d, <3>1
    <3>2. CASE ~(fileSize < MinAlloc) BY SMTT(60), <3>2 DEF TypeOK
    <3> QED BY <3>1, <3>2
  <2>1. TypeOK'
    <3>1. open' \in BOOLEAN /\ dirty' \in BOOLEAN /\ fldirty' \in BOOLEAN BY ZenonT(60) DEF TypeOK
    <3>2. free' \subseteq Blocks BY <2>e
    <3>3. used' \subseteq Blocks /\ freed' \subseteq Blocks BY DEF TypeOK
    <3>4. alloc' \in Sizes /\ fileSize' \in Sizes \cup {0} BY <2>a DEF TypeOK
    <3>5. pc' \in {"none", "grow", "search", "split", "merge"} BY DEF TypeOK
    <3>6. want' \in Nat /\ level' \in Nat /\ path' \in Seq(Nat) BY DEF TypeOK
    <3>7. blk' \in Blocks \cup {NoBlock} BY DEF TypeOK
    <3>8. fl' = NoList \/ fl' \subseteq Blocks BY DEF TypeOK
    <3>9. running' \in BOOLEAN /\ scheduled' \in BOOLEAN /\ leaky' \in BOOLEAN /\ severed' \in BOOLEAN
      BY DEF TypeOK
    <3>10. flusher' \in {"idle", "picked", "got", "flushed", "stale"} BY SMTT(60) DEF TypeOK
    <3> QED BY SMTT(60), <3>1, <3>2, <3>3, <3>4, <3>5, <3>6, <3>7, <3>8, <3>9, <3>10 DEF TypeOK
  <2>2. Files' BY SMTT(60), <2>a DEF TypeOK, Files, Stack
  <2>3. Stack' BY SMTT(60) DEF TypeOK, Stack, Files
  <2>4. Placed' BY SMTT(60), <2>a, <2>b DEF TypeOK, Files, Stack, Placed, List, Limit, Hand, Aligned, Block
  <2>5. Separate' BY SMTT(60), <2>b DEF TypeOK, Separate, Files, List, Clear, Block
  <2>6. InHand' BY SMTT(60) DEF Files, InHand
  <2>7. FreedAgain' BY <2>b, <2>c DEF FreedAgain
  <2> QED BY SMTT(60), <2>1, <2>2, <2>3, <2>4, <2>5, <2>6, <2>7
<1> QED BY <1>0, <1>1

\* freeChunk starts: a block that is freed again is in one of the three states of InHand.
LEMMA FreeChunkStep == ASSUME Inv, ~severed, NEW b \in used \cup freed, FreeChunk(b) PROVE Inv'
<1> USE SizesAssumption
    DEF Inv, FreeChunk, InvalidateFreelistFile, Add,
        vars, listVars, opVars, diskVars, flusherVars, clientVars
<1>a. b \in Blocks /\ b # NoBlock /\ Hand = {} /\ Hand' = {b} /\ List' = free /\ List = free
  BY SMTT(60) DEF TypeOK, Hand, List, Stack
<1>b. ASSUME b \in used PROVE Clear(b, used') /\ Clear(b, free)
  BY SMTT(60), <1>a, <1>b DEF TypeOK, Separate, Clear
<1>c. ASSUME b \in freed PROVE Clear(b, used')
  BY SMTT(60), <1>a, <1>c DEF FreedAgain, Clear
<1>d. ASSUME b \in freed
      PROVE  Clear(b, free) \/ Within(b, free) \/ (b \in free /\ Buddy(b) \notin free)
  BY SMTT(60), <1>a, <1>d DEF FreedAgain, Stack
<1>1. TypeOK' BY SMTT(60) DEF TypeOK, Stack, Files
<1>2. Files' BY SMTT(60) DEF TypeOK, Files, Stack
<1>3. Stack' BY SMTT(60) DEF TypeOK, Stack, Files
<1>4. Placed' BY SMTT(60) DEF TypeOK, Placed, Files, Stack, List, Limit, Hand, Aligned
<1>5. Separate' BY SMTT(60) DEF TypeOK, Separate, Files, Stack, List, Clear
<1>6. InHand' BY SMTT(60), <1>b, <1>c, <1>d DEF InHand, Clear, Within
<1>7. FreedAgain'
  <2>1. \A x \in freed' : Clear(x, used')
    <3> SUFFICES ASSUME NEW x \in freed' PROVE Clear(x, used') OBVIOUS
    <3>1. CASE x = b BY <1>b, <1>c, <3>1
    <3>2. CASE x \in freed /\ x # b BY <3>2 DEF FreedAgain, Clear
    <3> QED BY <3>1, <3>2
  <2>2. \A x \in freed', y \in freed' : x # y => Apart(x, y)
    <3>1. ASSUME b \in used PROVE \A x \in freed : Apart(x, b) BY SMTT(60), <3>1 DEF FreedAgain, Clear
    <3>2. \A x \in freed : Apart(x, b) => Apart(b, x) BY SMTT(60), <1>a, ApartSymmetric DEF TypeOK
    <3> QED BY SMTT(60), <3>1, <3>2 DEF FreedAgain
  <2>3. ASSUME NEW x \in freed', x # b
        PROVE  \/ Clear(x, List' \cup Hand') \/ Within(x, List' \cup Hand')
               \/ (x \in List' /\ Buddy(x) \notin List')
    <3>1. x \in freed BY <2>3
    <3>2. Apart(x, b) BY SMTT(60), <1>a, <2>2, <2>3
    <3>3. CASE Clear(x, free) BY SMTT(60), <1>a, <3>2, <3>3 DEF Clear
    <3>4. CASE Within(x, free) BY SMTT(60), <1>a, <3>4 DEF Within
    <3>5. CASE x \in free /\ Buddy(x) \notin free BY SMTT(60), <1>a, <3>5
    <3>6. x # blk BY <3>1 DEF TypeOK, Stack
    <3> QED BY SMTT(60), <1>a, <3>1, <3>3, <3>4, <3>5, <3>6 DEF FreedAgain
  <2> QED BY ZenonT(60), <2>1, <2>2, <2>3 DEF FreedAgain
<1> QED BY SMTT(60), <1>1, <1>2, <1>3, <1>4, <1>5, <1>6, <1>7

\* The recursion of searchFreelist doubles the size.
LEMMA SearchLargerStep == ASSUME Inv, ~severed, SearchLarger PROVE Inv'
<1> USE SizesAssumption
    DEF Inv, SearchLarger, vars, listVars, opVars, diskVars, flusherVars, clientVars
<1>1. TypeOK' BY SMTT(60) DEF TypeOK, Stack, Files
<1>2. Files' BY SMTT(60) DEF TypeOK, Files, Stack
<1>3. Stack'
  <2> DEFINE n == Len(path)
  <2>1. n \in Nat /\ path' \in Seq(Nat) /\ Len(path') = n + 1 /\ path'[n + 1] = level
        /\ \A i \in 1 .. n : path'[i] = path[i]
    BY SMTT(60) DEF TypeOK
  <2>2. level \in Nat /\ level > 0 BY SMTT(60) DEF Stack, TypeOK
  <2>3. \A i \in 1 .. Len(path') : path'[i] > 0 BY SMTT(60), <2>1, <2>2 DEF Stack
  <2>4. n > 0 => path # <<>> BY DEF TypeOK
  <2>5. \A i \in 1 .. Len(path') - 1 : path'[i + 1] = 2 * path'[i]
    <3> SUFFICES ASSUME NEW i \in 1 .. n PROVE path'[i + 1] = 2 * path'[i] BY SMTT(60), <2>1
    <3>1. CASE i = n BY <2>1, <2>4, <3>1 DEF Stack
    <3>2. CASE i < n BY SMTT(60), <2>1, <3>2 DEF Stack
    <3> QED BY <3>1, <3>2
  <2>6. level' = 2 * path'[Len(path')] /\ level' > 0 BY <2>1, <2>2
  <2>7. freed' = freed /\ blk' = blk /\ pc' = "search" /\ want' = want OBVIOUS
  <2> HIDE DEF n
  <2> QED BY SMTT(60), <2>3, <2>5, <2>6, <2>7 DEF Stack
<1>4. Placed' BY SMTT(60) DEF TypeOK, Placed, Files, Stack, List, Limit, Hand, Aligned
<1>5. Separate' BY SMTT(60) DEF TypeOK, Separate, Files, Stack, List, Clear
<1>6. InHand' BY SMTT(60) DEF TypeOK, Files, Stack, InHand
<1>7. FreedAgain' BY DEF TypeOK, Files, Stack, FreedAgain, List, Hand
<1> QED BY SMTT(60), <1>1, <1>2, <1>3, <1>4, <1>5, <1>6, <1>7
=============================================================================
