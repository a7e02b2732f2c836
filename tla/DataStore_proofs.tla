-------------------------- MODULE DataStore_proofs ---------------------------
(***************************************************************************)
(* Proof that the blocks of a data store never overlap, for files of any   *)
(* size and any sequence of allocations, frees, repeated frees, flushes,   *)
(* removals and crashes.                                                   *)
(***************************************************************************)
EXTENDS DataStore_invariant

-----------------------------------------------------------------------------
(* The steps that change the list                                          *)

\* makeMoreSpace appends a block past every other one.
LEMMA MakeMoreSpaceStep == ASSUME Inv, ~severed, MakeMoreSpace PROVE Inv'
<1> USE SizesAssumption
    DEF Inv, MakeMoreSpace, LargeEnough, vars, listVars, opVars, diskVars, flusherVars, clientVars
<1> DEFINE b == Block(alloc, alloc)
<1>a. alloc \in Nat \ {0} /\ b \in Blocks /\ b.size = alloc /\ b.off = alloc
  BY DEF TypeOK, Block, Blocks
<1>b. Aligned(b) BY <1>a, Z3 DEF Aligned
<1>c. /\ open /\ List = free /\ List' = free \cup {b} /\ Limit = alloc /\ Limit' = 2 * alloc
      /\ Hand = {} /\ Hand' = {} /\ freed = {} /\ freed' = {}
  BY DEF Files, Stack, List, Limit, Hand
<1>d. \A c \in free \cup used : 
        c \in Blocks /\ c.off \in Nat /\ c.size \in Nat /\ c.off + c.size <= alloc
  BY <1>c DEF TypeOK, Placed, Blocks
<1>e. \A c \in free \cup used : Apart(c, b) /\ Apart(b, c) BY <1>a, <1>d DEF Apart
<1> HIDE DEF b
<1>1. TypeOK'
  <2>1. free' \subseteq Blocks BY <1>a DEF TypeOK, b
  <2> QED BY <1>a, <2>1 DEF TypeOK
<1>2. Files' BY DEF TypeOK, Files, Stack
<1>3. Stack' BY DEF TypeOK, Stack, Files
<1>4. Placed' BY <1>a, <1>b, <1>c, <1>d DEF Placed
<1>5. Separate' BY <1>c, <1>e DEF Separate, Clear
<1>6. InHand' BY DEF TypeOK, Files, Stack, InHand
<1>7. FreedAgain' BY <1>c DEF FreedAgain
<1> QED BY <1>1, <1>2, <1>3, <1>4, <1>5, <1>6, <1>7

\* The block that is taken was apart from the other ones.
LEMMA SearchTakesStep == ASSUME Inv, ~severed, SearchTakes PROVE Inv'
<1> USE SizesAssumption
    DEF Inv, SearchTakes, vars, listVars, opVars, diskVars, flusherVars, clientVars
<1>a. PICK b \in free : b.size = level /\ free' = free \ {b} /\ blk' = b OBVIOUS
<1>b. b \in Blocks /\ b # NoBlock BY DEF TypeOK
<1>1. TypeOK' BY <1>a, <1>b DEF TypeOK
<1>2. Files' BY DEF TypeOK, Files, Stack
<1>3. Stack' BY <1>a, <1>b DEF TypeOK, Stack, Files
<1>4. Placed' BY <1>a, <1>b DEF TypeOK, Placed, Files, Stack, List, Limit, Hand, Aligned
<1>5. Separate' BY <1>a DEF Separate, List, Clear
<1>6. InHand' BY <1>a, <1>b, ApartSymmetric DEF TypeOK, Separate, InHand, Clear, List, Files
<1>7. FreedAgain' BY DEF Stack, FreedAgain
<1> QED BY <1>1, <1>2, <1>3, <1>4, <1>5, <1>6, <1>7

\* The block becomes a chunk's.
LEMMA AllocatedStep == ASSUME Inv, ~severed, Allocated PROVE Inv'
<1> USE SizesAssumption
    DEF Inv, Allocated, vars, listVars, opVars, diskVars, flusherVars, clientVars
<1>a. blk \in Blocks /\ blk # NoBlock BY DEF TypeOK, Stack
<1>1. TypeOK'
  <2>1. used' \subseteq Blocks BY <1>a DEF TypeOK
  <2> QED BY <2>1 DEF TypeOK
<1>2. Files' BY DEF TypeOK, Files, Stack
<1>3. Stack' BY DEF TypeOK, Stack, Files
<1>4. Placed' BY DEF TypeOK, Placed, Files, Stack, List, Limit, Hand, Aligned
<1>5. Separate'
  <2>1. \A c \in free \cup used : Apart(blk, c) /\ Apart(c, blk)
    BY <1>a, ApartSymmetric DEF InHand, Clear, TypeOK
  <2> QED BY <2>1 DEF Separate, Files, List, Clear
<1>6. InHand' BY DEF TypeOK, Files, Stack, InHand
<1>7. FreedAgain' BY DEF TypeOK, Files, Stack, FreedAgain, List, Hand
<1> QED BY <1>1, <1>2, <1>3, <1>4, <1>5, <1>6, <1>7

\* The two halves take the place of the block in hand.
LEMMA SplitStep == ASSUME Inv, ~severed, Split PROVE Inv'
<1> USE SizesAssumption
    DEF Inv, Split, UpperHalf, vars, listVars, opVars, diskVars, flusherVars, clientVars
<1> DEFINE n == Len(path)
           half == path[n]
           up == Block(half, blk.off + half)
           low == Block(half, blk.off)
<1>a. /\ n \in Nat \ {0} /\ half \in Nat \ {0} /\ blk.size = 2 * half
      /\ blk \in Blocks /\ blk # NoBlock /\ blk.off \in Nat
  <2>1. blk \in Blocks /\ blk # NoBlock BY DEF TypeOK, Stack
  <2>2. n \in Nat \ {0} /\ half \in Nat BY DEF TypeOK
  <2>3. half > 0 /\ blk.size = 2 * half BY <2>2 DEF Stack
  <2> QED BY <2>1, <2>2, <2>3 DEF Blocks
<1>b. free' = free \cup {up} /\ blk' = low /\ path' = SubSeq(path, 1, n - 1) OBVIOUS
<1>d. path' \in Seq(Nat) /\ Len(path') = n - 1 /\ \A i \in 1 .. n - 1 : path'[i] = path[i]
  BY <1>b, Shorter DEF TypeOK
<1>f. Aligned(blk) /\ blk.off + blk.size <= alloc BY <1>a DEF Placed, Hand, Limit, Files
<1>c. /\ up \in Blocks /\ low \in Blocks /\ up.size = half /\ low.size = half
      /\ Aligned(up) /\ Aligned(low) /\ Apart(up, low) /\ Apart(low, up)
      /\ Contains(blk, up) /\ Contains(blk, low)
      /\ \A c \in Blocks : Apart(c, blk) => /\ Apart(c, up) /\ Apart(c, low)
                                          /\ Apart(up, c) /\ Apart(low, c)
  BY SMTT(60), <1>a, <1>f, Halves
<1> HIDE DEF n, half, up, low
<1>e. up # NoBlock /\ low # NoBlock BY <1>c
<1>g. up.off + up.size <= alloc /\ low.off + low.size <= alloc
  <2>1. alloc \in Nat BY DEF TypeOK
  <2> QED BY <1>a, <1>c, <1>f, <2>1, PartFits
<1>h. open /\ List = free /\ List' = free' /\ Hand' = {low} /\ Limit' = alloc /\ Limit = alloc
  BY <1>b, <1>e DEF Files, List, Hand, Limit
<1>i. freed = {} /\ freed' = {} /\ used' = used BY DEF Stack
<1>j. \A c \in free \cup used : Apart(blk, c) /\ Apart(c, blk)
  BY <1>a, ApartSymmetric DEF InHand, Clear, TypeOK
<1>1. TypeOK' BY <1>b, <1>c, <1>d DEF TypeOK
<1>2. Files' BY DEF TypeOK, Files, Stack
<1>3. Stack'
  <2>1. \A i \in 1 .. Len(path') : path'[i] > 0 BY <1>a, <1>d DEF Stack, n
  <2>2. \A i \in 1 .. Len(path') - 1 : path'[i + 1] = 2 * path'[i]
    <3> SUFFICES ASSUME NEW i \in 1 .. (n - 1) - 1 PROVE path'[i + 1] = 2 * path'[i] BY ZenonT(60), <1>d
    <3>1. i \in 1 .. n - 1 /\ i + 1 \in 1 .. n - 1 BY <1>a
    <3>2. path[i + 1] = 2 * path[i] BY <3>1 DEF Stack, n
    <3> QED BY <1>d, <3>1, <3>2
  <2>3. path' # <<>> => blk'.size = 2 * path'[Len(path')]
    <3> SUFFICES ASSUME path' # <<>> PROVE blk'.size = 2 * path'[Len(path')] OBVIOUS
    <3>1. Len(path') # 0 BY <1>d
    <3>2. n - 1 \in 1 .. n - 1 BY <1>a, <1>d, <3>1
    <3>3. path[(n - 1) + 1] = 2 * path[n - 1] BY <3>2 DEF Stack, n
    <3>4. (n - 1) + 1 = n BY <1>a
    <3> QED BY <1>b, <1>c, <1>d, <3>2, <3>3, <3>4 DEF half
  <2> QED BY <1>b, <1>e, <1>i, <2>1, <2>2, <2>3 DEF Stack
<1>4. Placed'
  <2>1. \A b \in free' \cup used \cup {low} : Aligned(b) /\ b.off + b.size <= alloc
    BY <1>b, <1>c, <1>g, <1>h DEF Placed
  <2> QED BY <1>h, <1>i, <2>1 DEF Placed
<1>5. Separate'
  <2>1. \A c \in free \cup used : Apart(c, up) /\ Apart(up, c) BY <1>c, <1>j DEF TypeOK
  <2> QED BY <1>b, <1>h, <1>i, <2>1 DEF Separate, Clear
<1>6. InHand'
  <2>1. \A c \in free \cup used : Apart(low, c) BY <1>c, <1>j DEF TypeOK
  <2> QED BY <1>b, <1>c, <1>i, <2>1 DEF InHand, Clear
<1>7. FreedAgain' BY <1>i DEF FreedAgain
<1> QED BY <1>1, <1>2, <1>3, <1>4, <1>5, <1>6, <1>7

\* A block whose buddy is free is clear of the list, and so is the merged block.
LEMMA MergeBuddyStep == ASSUME Inv, ~severed, MergeBuddy PROVE Inv'
<1> USE SizesAssumption
    DEF Inv, MergeBuddy, vars, listVars, opVars, diskVars, flusherVars, clientVars
<1> DEFINE u == Buddy(blk)
           g == Merged(blk)
<1>a. /\ blk \in Blocks /\ blk # NoBlock /\ open /\ Hand = {blk} /\ List = free /\ Limit = alloc
      /\ free \subseteq Blocks /\ used \subseteq Blocks /\ freed \subseteq Blocks
  BY DEF TypeOK, Stack, Files, Hand, List, Limit
<1>b. Aligned(blk) BY <1>a DEF Placed
<1>c. \A p \in free : Aligned(p) BY <1>a DEF Placed
<1>d. ASSUME ~IsParentBlockFree(blk) PROVE ~Within(blk, free)
  <2> SUFFICES ASSUME NEW p \in free, p.size > blk.size, Contains(p, blk) PROVE FALSE BY DEF Within
  <2>1. p.off = blk.off - (blk.off % p.size) BY <1>a, <1>c, ParentFound
  <2> QED BY <1>d, <2>1 DEF IsParentBlockFree
<1>e. Clear(blk, free) BY <1>d DEF InHand
<1>f. /\ u \in Blocks /\ u.size = blk.size /\ u # blk
      /\ g \in Blocks /\ g.size = 2 * blk.size /\ Aligned(g)
      /\ Contains(g, blk) /\ Contains(g, u)
      /\ g.off + g.size = blk.off + blk.size \/ g.off + g.size = u.off + u.size
      /\ \A c \in Blocks : Apart(c, blk) /\ Apart(c, u) => Apart(c, g)
  BY <1>a, <1>b, BuddyFacts
<1>g. u \in free /\ free' = free \ {u} /\ blk' = g /\ used' = used /\ freed' = freed OBVIOUS
<1> HIDE DEF u, g
<1>h. g # NoBlock /\ Hand' = {g} /\ List' = free' /\ Limit' = alloc
  BY <1>a, <1>f, <1>g DEF Hand, List, Limit
<1>i. g.off + g.size <= alloc
  <2>1. blk.off + blk.size <= alloc /\ u.off + u.size <= alloc BY <1>a, <1>g DEF Placed
  <2> QED BY <1>f, <2>1
<1>j. \A c \in free : c # u => Apart(c, g) /\ Apart(g, c)
  <2> SUFFICES ASSUME NEW c \in free, c # u PROVE Apart(c, g) /\ Apart(g, c) OBVIOUS
  <2>1. Apart(c, blk) BY <1>a, <1>e, ApartSymmetric DEF Clear
  <2>2. Apart(c, u) BY <1>a, <1>g DEF Separate
  <2> QED BY <1>a, <1>f, <2>1, <2>2, ApartSymmetric
<1>k. \A c \in used : Apart(c, g) /\ Apart(g, c)
  <2> SUFFICES ASSUME NEW c \in used PROVE Apart(c, g) /\ Apart(g, c) OBVIOUS
  <2>1. Apart(c, blk) BY <1>a, ApartSymmetric DEF InHand, Clear
  <2>2. Apart(c, u) BY <1>a, <1>g DEF Separate, Clear
  <2> QED BY <1>a, <1>f, <2>1, <2>2, ApartSymmetric
<1>l. \A c \in Blocks : Contains(u, c) \/ Contains(blk, c) => Contains(g, c)
  BY <1>a, <1>f DEF Contains, Blocks
<1>1. TypeOK' BY SMTT(60), <1>a, <1>f, <1>g DEF TypeOK
<1>2. Files' BY DEF TypeOK, Files, Stack
<1>3. Stack' BY <1>g, <1>h DEF Stack
<1>4. Placed' BY <1>a, <1>f, <1>g, <1>h, <1>i DEF Placed
<1>5. Separate' BY <1>a, <1>g, <1>h DEF Separate, Clear
<1>6. InHand' BY SMTT(60), <1>g, <1>j, <1>k DEF InHand, Clear
<1>7. FreedAgain'
  <2> SUFFICES ASSUME NEW x \in freed
               PROVE  \/ Clear(x, free' \cup {g}) \/ Within(x, free' \cup {g})
                      \/ x \in free' /\ Buddy(x) \notin free'
    BY SMTT(60), <1>a, <1>g, <1>h DEF FreedAgain
  <2>1. x \in Blocks /\ x.size \in Nat \ {0} BY <1>a DEF Blocks
  <2>2. CASE x = blk \/ x = u
    <3>1. Contains(g, x) /\ g.size > x.size BY <1>f, <2>1, <2>2
    <3> QED BY <3>1 DEF Within
  <2>3. CASE Clear(x, free \cup {blk})
    <3>1. Apart(x, blk) /\ Apart(x, u) BY <1>g, <2>3 DEF Clear
    <3>2. Apart(x, g) BY <1>f, <2>1, <3>1
    <3> QED BY <1>g, <2>3, <3>2 DEF Clear
  <2>4. CASE Within(x, free \cup {blk})
    <3>1. PICK p \in free \cup {blk} : p.size > x.size /\ Contains(p, x) BY <2>4 DEF Within
    <3>2. CASE p = blk \/ p = u
      <4>1. Contains(g, x) /\ g.size > x.size BY <1>a, <1>f, <1>l, <2>1, <3>1, <3>2 DEF Blocks
      <4> QED BY SMTT(60), <4>1 DEF Within
    <3>3. CASE p # blk /\ p # u BY <1>g, <3>1, <3>3 DEF Within
    <3> QED BY <3>2, <3>3
  <2>5. CASE x # u /\ x \in free /\ Buddy(x) \notin free BY <1>g, <2>5
  <2> QED BY SMTT(60), <1>a, <2>2, <2>3, <2>4, <2>5 DEF FreedAgain
<1> QED BY <1>1, <1>2, <1>3, <1>4, <1>5, <1>6, <1>7

\* The block goes into the list only if nothing there overlaps it.
LEMMA FreedStep == ASSUME Inv, ~severed, Freed PROVE Inv'
<1> USE SizesAssumption
    DEF Inv, Freed, vars, listVars, opVars, diskVars, flusherVars, clientVars
<1> DEFINE u == Buddy(blk)
           g == Merged(blk)
<1>a. /\ blk \in Blocks /\ blk # NoBlock /\ open /\ Hand = {blk} /\ List = free /\ Limit = alloc
      /\ free \subseteq Blocks /\ used \subseteq Blocks /\ freed \subseteq Blocks
  BY DEF TypeOK, Stack, Files, Hand, List, Limit
<1>b. Aligned(blk) BY <1>a DEF Placed
<1>c. \A p \in free : Aligned(p) BY <1>a DEF Placed
<1>d. ASSUME ~IsParentBlockFree(blk) PROVE ~Within(blk, free)
  <2> SUFFICES ASSUME NEW p \in free, p.size > blk.size, Contains(p, blk) PROVE FALSE BY DEF Within
  <2>1. p.off = blk.off - (blk.off % p.size) BY SMTT(60), <1>a, <1>c, ParentFound
  <2> QED BY <1>d, <2>1 DEF IsParentBlockFree
<1>e. Hand' = {} /\ List' = free' /\ Limit' = alloc /\ used' = used /\ freed' = freed
  BY <1>a DEF Hand, List, Limit
<1>f. ASSUME IsParentBlockFree(blk) PROVE Within(blk, free)
  <2>1. PICK p \in free : p.size > blk.size /\ p.off = blk.off - (blk.off % p.size)
    BY <1>f DEF IsParentBlockFree
  <2>2. ~Apart(p, blk) /\ ~Apart(blk, p) BY <1>a, <2>1, ParentOverlaps
  <2>3. ~Clear(blk, free) BY <2>1, <2>2 DEF Clear
  <2>4. blk \notin free
    <3>1. p.size \in Nat /\ blk.size \in Nat BY <1>a DEF Blocks
    <3>2. p # blk BY SMTT(60), <2>1, <3>1
    <3> QED BY <1>a, <2>2, <3>2 DEF Separate
  <2> QED BY <2>3, <2>4 DEF InHand
<1>g. ASSUME ~IsParentBlockFree(blk)
      PROVE  \A c \in free : c = blk \/ (Apart(c, blk) /\ Apart(blk, c))
  <2>1. Clear(blk, free) \/ blk \in free BY <1>d, <1>g DEF InHand
  <2> QED BY <1>a, <2>1, ApartSymmetric DEF Clear, Separate
<1>h. free' \subseteq free \cup {blk} /\ free \subseteq free' OBVIOUS
<1>i. \A c \in used : Apart(c, blk) BY SMTT(60), <1>a, ApartSymmetric DEF InHand, Clear
<1>1. TypeOK' BY SMTT(60), <1>a, <1>h DEF TypeOK
<1>2. Files' BY SMTT(60) DEF TypeOK, Files, Stack
<1>3. Stack' BY DEF TypeOK, Stack, Files
<1>4. Placed' BY <1>a, <1>e, <1>h DEF Placed
<1>5. Separate'
  <2>1. \A b \in free', c \in free' : b # c => Apart(b, c) BY SMTT(60), <1>a, <1>g DEF Separate
  <2>2. \A b \in used : Clear(b, free') BY SMTT(60), <1>a, <1>h, <1>i DEF Separate, Clear
  <2> QED BY SMTT(60), <1>e, <2>1, <2>2 DEF Separate
<1>6. InHand' BY DEF TypeOK, Files, Stack, InHand
<1>7. FreedAgain'
  <2> SUFFICES ASSUME NEW x \in freed
               PROVE  \/ Clear(x, free') \/ Within(x, free')
                      \/ x \in free' /\ Buddy(x) \notin free'
    BY <1>e DEF FreedAgain
  <2>1. x \in Blocks /\ x.size \in Nat \ {0} BY <1>a DEF Blocks
  <2>2. CASE Clear(x, free \cup {blk}) BY SMTT(60), <1>h, <2>2 DEF Clear
  <2>3. CASE IsParentBlockFree(blk)
    <3>0. free' = free BY <2>3
    <3>1. PICK p \in free : p.size > blk.size /\ Contains(p, blk) BY <1>f, <2>3 DEF Within
    <3>2. CASE x = blk BY <3>0, <3>1, <3>2 DEF Within
    <3>3. CASE Within(x, free) BY <3>0, <3>3
    <3>4. CASE blk.size > x.size /\ Contains(blk, x)
      <4>1. p.size > x.size /\ Contains(p, x) BY SMTT(60), <1>a, <2>1, <3>1, <3>4 DEF Contains, Blocks
      <4> QED BY SMTT(60), <3>0, <3>1, <4>1 DEF Within
    <3>5. CASE x \in free /\ Buddy(x) \notin free BY SMTT(60), <3>0, <3>5
    <3> QED BY <1>a, <2>2, <3>2, <3>3, <3>4, <3>5 DEF FreedAgain, Within
  <2>4. CASE ~IsParentBlockFree(blk)
    <3>0. free' = free \cup {blk} /\ u \notin free BY SMTT(60), <2>4
    <3>1. u # blk BY <1>a, <1>b, BuddyFacts
    <3>2. CASE x = blk BY <3>0, <3>1, <3>2
    <3>3. CASE Within(x, free \cup {blk}) BY <3>0, <3>3
    <3>4. CASE x \in free /\ Buddy(x) \notin free
      <4>1. Buddy(Buddy(x)) = x BY <1>c, <2>1, <3>4, BuddyFacts
      <4>2. Buddy(x) # blk BY <3>0, <3>4, <4>1
      <4> QED BY SMTT(60), <3>0, <3>4, <4>2
    <3> QED BY <1>a, <2>2, <3>2, <3>3, <3>4 DEF FreedAgain
  <2> QED BY SMTT(60), <2>3, <2>4
<1> QED BY SMTT(60), <1>1, <1>2, <1>3, <1>4, <1>5, <1>6, <1>7

-----------------------------------------------------------------------------
(* The theorems                                                            *)

\* Nothing exists at the start.
LEMMA InitInv == Init => Inv
<1> SUFFICES ASSUME Init PROVE Inv OBVIOUS
<1> USE SizesAssumption DEF Init
<1>1. TypeOK
  <2>1. path \in Seq(Nat) /\ blk \in Blocks \cup {NoBlock} OBVIOUS
  <2>2. alloc \in Sizes /\ fileSize \in Sizes \cup {0} OBVIOUS
  <2> QED BY ZenonT(60), <2>1, <2>2 DEF TypeOK
<1>5. Files BY DEF Files
<1>2. Stack BY DEF Stack
<1>3. Placed /\ Separate BY DEF Placed, Separate, List, Limit, Hand
<1>4. InHand /\ FreedAgain BY DEF InHand, FreedAgain
<1> QED BY <1>1, <1>2, <1>3, <1>4, <1>5 DEF Inv

\* One case per action.
LEMMA NextInv == Inv /\ [Next]_vars => Inv'
<1> SUFFICES ASSUME Inv, [Next]_vars PROVE Inv' OBVIOUS
<1>1. CASE UNCHANGED vars
  <2>1. List' = List /\ Limit' = Limit /\ Hand' = Hand
    BY SMTT(60), <1>1 DEF List, Limit, Hand, vars, listVars, opVars, diskVars, flusherVars, clientVars
  <2>2. TypeOK' /\ Files'
    BY SMTT(60), <1>1 DEF Inv, TypeOK, Files, vars, listVars, opVars, diskVars, flusherVars, clientVars
  <2>3. Stack' BY <1>1 DEF Inv, Stack, vars, listVars, opVars, diskVars, flusherVars, clientVars
  <2>4. Placed' /\ Separate'
    BY SMTT(60), <1>1, <2>1 DEF Inv, Placed, Separate, vars, listVars, opVars, diskVars, flusherVars, clientVars
  <2>5. InHand' /\ FreedAgain'
    BY <1>1, <2>1 DEF Inv, InHand, FreedAgain, Clear, Within, vars, listVars, opVars,
        diskVars, flusherVars, clientVars
  <2> QED BY <2>2, <2>3, <2>4, <2>5 DEF Inv
<1>2. CASE Next
  <2>1. ~severed BY <1>2 DEF Next
  <2>2. CASE GetDataStore \/ Flush \/ InvalidationFails
    BY <2>1, <2>2, GetDataStoreStep, FlushStep, InvalidationFailsStep
  <2>3. CASE \E n \in Requests : AllocateSpace(n) BY <2>1, <2>3, AllocateSpaceStep
  <2>4. CASE \E b \in used : WriteData(b) BY <2>1, <2>4, WriteDataStep
  <2>5. CASE \E b \in used \cup freed : FreeChunk(b) BY <2>1, <2>5, FreeChunkStep
  <2>6. CASE Operation
    BY <2>1, <2>6, GrowDoneStep, MakeMoreSpaceStep, SearchLargerStep, SearchTakesStep, SplitStep,
       AllocatedStep, MergeBuddyStep, FreedStep DEF Operation
  <2>7. CASE FlushJob
    BY <2>1, <2>7, FlusherCollectsStep, FlusherGetsStep, FlusherFlushesStep, FlusherDropsStep,
       FlusherUnlinksStep DEF FlushJob
  <2>8. CASE CloseDataStore \/ Crash BY <2>1, <2>8, CloseDataStoreStep, CrashStep
  <2> QED BY <1>2, <2>2, <2>3, <2>4, <2>5, <2>6, <2>7, <2>8 DEF Next
<1> QED BY <1>1, <1>2

\* What the invariant says of chunks, lists and files.
LEMMA InvImplies == Inv => NoOverlap /\ ListOnDiskSafe
<1> SUFFICES ASSUME Inv PROVE NoOverlap /\ ListOnDiskSafe OBVIOUS
<1>1. used \subseteq Blocks /\ free \subseteq Blocks /\ (fl = NoList \/ fl \subseteq Blocks)
  BY DEF Inv, TypeOK
<1>2. \A b \in used, c \in List : Apart(b, c) BY DEF Inv, Separate, Clear
<1>3. free = {} \/ free = List BY DEF Inv, Files, List
<1>4. fl = NoList \/ fl = List BY DEF Inv, Files, List
<1>5. \A b \in used : b \notin free BY <1>1, <1>2, <1>3, NotApartFromItself
<1>6. \A b \in used, c \in free : Apart(b, c) /\ Apart(c, b) BY <1>1, <1>2, <1>3, ApartSymmetric
<1>7. NoOverlap BY <1>3, <1>5, <1>6 DEF Inv, Separate, NoOverlap
<1>8. ListOnDiskSafe BY <1>1, <1>2, <1>4, ApartSymmetric DEF ListOnDiskSafe
<1> QED BY <1>7, <1>8

\* No two chunks of a store share a byte and no free block is part of a chunk, for files of
\* any size, through allocateSpace, freeChunk, repeated frees, flushes and crashes.
THEOREM BlocksNeverOverlap == Spec => []NoOverlap
<1>1. Inv => NoOverlap BY InvImplies
<1> QED BY InitInv, NextInv, <1>1, PTL DEF Spec

\* The .fl file, whenever it can be read, offers no block of a chunk: what
\* readFreelistFromFile loads after a crash is safe to allocate from.
THEOREM ListOnDiskNeverStale == Spec => []ListOnDiskSafe
<1>1. Inv => ListOnDiskSafe BY InvImplies
<1> QED BY InitInv, NextInv, <1>1, PTL DEF Spec
=============================================================================
