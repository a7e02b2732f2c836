-------------------------- MODULE WorkQueue_moves ---------------------------
(***************************************************************************)
(* Handing an item from one queue to another keeps the inductive invariant *)
(* of WorkQueue_owners.                                                    *)
(***************************************************************************)
EXTENDS WorkQueue_owners

\* The ghosts keep their types.
LEMMA HandOverType ==
  ASSUME Library, TypeOK, NEW x \in Items, NEW a \in Queues, NEW b \in Queues, HandOver(x, a, b)
  PROVE  source' \in [Items -> SomeQueue] /\ ahead' \in [Items -> SUBSET Items]
<1>1. workq[b] \in Seq(Items) /\ overflow[b] \in Seq(Items) /\ a \in SomeQueue
  BY DEF TypeOK, SomeQueue
<1>2. Pending(b) \in Seq(Items)
  BY <1>1, SeqConcat DEF Pending
<1>3. Elements(Pending(b)) \in SUBSET Items
  BY <1>2, SeqLen
<1> QED BY SMTT(60), <1>1, <1>3 DEF HandOver, TypeOK

\* A forwarded item uses the place reserved for it.
LEMMA ForwardKeeps ==
  ASSUME Library, QueueInv, NEW x \in Items, NEW a \in Queues, Forward(x, a)
  PROVE  QueueInv'
<1> DEFINE b == resv[x]
<1>0. /\ TypeOK /\ x \in active[a] /\ Leave(x, a, FALSE)
      /\ b \in Queues /\ Push(x, b) /\ CallSpawn(b) /\ HandOver(x, a, b)
  BY ZenonT(60) DEF QueueInv, Forward, TypeOK, SomeQueue
<1>a. /\ resv' \in [Items -> SomeQueue] /\ reserved' \in [Queues -> Nat]
      /\ reserved'[b] = reserved[b] - 1
      /\ \A q \in Queues : Holders(q)' + reserved[q] <= Holders(q) + reserved'[q]
  BY ZenonT(60), <1>0, ResvGone DEF Forward
<1>1. TypeOK'
  <2>1. /\ active' \in [Queues -> SUBSET Items] /\ ctx' \in [Items -> Tally]
        /\ toRelease' \in [Queues -> Nat]
    BY ZenonT(60), <1>0, LeaveKeeps
  <2>2. toSpawn' \in [Queues -> Nat] /\ workq' \in [Queues -> Seq(Items)]
    BY <1>0, CallSpawnType, PushOnce
  <2>3. source' \in [Items -> SomeQueue] /\ ahead' \in [Items -> SUBSET Items]
    BY <1>0, HandOverType
  <2> QED BY ZenonT(60), <1>0, <1>a, <2>1, <2>2, <2>3 DEF TypeOK, Forward
<1>2. ASSUME NEW q \in Queues PROVE Owned(q)' /\ Limits(q)'
  <2>1. outstanding'[q] = outstanding[q] /\ from' = from
    BY DEF Forward
  <2>2. /\ outstanding[q] \in Nat /\ reserved[q] \in Nat /\ toRelease[q] \in Nat
        /\ Queued(q) \in Nat /\ Owners(q) \in Nat /\ toRelease'[q] \in Nat
        /\ reserved'[q] \in Nat /\ Queued(q)' \in Nat
    BY <1>0, <1>1, Counts, CountsNext, Sums
  <2>3. outstanding'[q] <= MaxOutstanding[q]
    BY <2>1 DEF QueueInv, Limits
  <2>4. Owners(q)' = Owners(q)
    BY ZenonT(60), <1>0, <2>1, LeaveOwners
  <2>5. toRelease'[q] >= toRelease[q]
    <3>1. toRelease'[q] >= toRelease[q] + IF q = a THEN 1 ELSE 0
      BY ZenonT(60), <1>0, LeaveKeeps
    <3> QED BY <3>1, <2>2
  <2>6. reserved'[q] + Queued(q)' = reserved[q] + Queued(q)
    <3>1. CASE q = b
      <4>1. Queued(q)' = Queued(q) + 1 /\ reserved'[q] = reserved[q] - 1
        BY SMTT(60), <1>0, <1>a, <3>1, PushOnce
      <4> QED BY <2>2, <4>1
    <3>2. CASE q # b
      BY ZenonT(60), <1>0, <2>2, <3>2, PushOnce DEF Forward, TypeOK
    <3> QED BY <3>1, <3>2
  <2>7. Size(q)' + toRelease[q] <= Size(q) + toRelease'[q]
    BY <2>1, <2>2, <2>5, <2>6, SizeSum
  <2> QED BY <1>a, <1>1, <2>1, <2>2, <2>3, <2>4, <2>7, Kept
<1> QED BY <1>1, <1>2 DEF QueueInv

\* An item that is serialized leaves queue a, which stays recorded in its context.
LEMMA LeaveRecorded ==
  ASSUME Library, TypeOK, NEW a \in Queues, NEW x \in active[a],
         active' = [active EXCEPT ![a] = @ \ {x}], Record(x, a),
         toRelease' = toRelease, from' = from
  PROVE  /\ active' \in [Queues -> SUBSET Items] /\ ctx' \in [Items -> Tally]
         /\ toRelease' \in [Queues -> Nat]
         /\ \A q \in Queues : Owners(q)' <= Owners(q)
<1>0. x \in Items
  BY DEF TypeOK
<1>1. /\ active' \in [Queues -> SUBSET Items] /\ ctx' \in [Items -> Tally]
      /\ toRelease' \in [Queues -> Nat]
  <2>1. ctx' \in [Items -> Tally]
    BY ZenonT(60), <1>0, CtxRecorded
  <2> QED BY <1>0, <2>1 DEF TypeOK
<1>2. ASSUME NEW q \in Queues PROVE Owners(q)' <= Owners(q)
  <2>1. /\ toRelease[q] \in Nat /\ Cardinality(active[q]) \in Nat
        /\ Cardinality(Naming(from, q)) \in Nat /\ Cardinality(InCtx(q)) \in Nat
    BY Counts, OwnersNat
  <2>2. /\ Cardinality(active'[q]) = Cardinality(active[q]) - IF q = a THEN 1 ELSE 0
        /\ Cardinality(active'[q]) \in Nat
    BY ZenonT(60), ActiveLeft
  <2>3. /\ Cardinality(InCtx(q)') = Cardinality(InCtx(q)) + IF q = a THEN 1 ELSE 0
        /\ Cardinality(InCtx(q)') \in Nat
    BY ZenonT(60), <1>0, CtxRecorded
  <2>4. toRelease'[q] = toRelease[q] /\ Naming(from, q)' = Naming(from, q)
    BY DEF Naming
  <2>5. Cardinality(active'[q]) + Cardinality(InCtx(q)')
          <= Cardinality(active[q]) + Cardinality(InCtx(q))
    BY <2>1, <2>2, <2>3
  <2> QED BY <2>1, <2>2, <2>3, <2>4, <2>5 DEF Owners
<1> QED BY <1>1, <1>2

\* reEnqueue() with room in b: the guard has found the place, and a keeps or
\* gives up the one that the item had.
LEMMA ReEnqueueKeeps ==
  ASSUME Library, QueueInv, NEW x \in Items, NEW a \in Queues, NEW b \in Queues,
         NEW s \in BOOLEAN, ReEnqueue(x, a, b, s)
  PROVE  QueueInv'
<1>0. /\ TypeOK /\ x \in active[a] /\ Push(x, b) /\ CallSpawn(b)
      /\ from' = from /\ toRelease \in [Queues -> Nat]
  BY ZenonT(60) DEF QueueInv, ReEnqueue, TypeOK
<1>a. /\ active' \in [Queues -> SUBSET Items] /\ ctx' \in [Items -> Tally]
      /\ toRelease' \in [Queues -> Nat]
      /\ \A q \in Queues : Owners(q)' <= Owners(q) /\ toRelease'[q] >= toRelease[q]
  <2>1. ASSUME NEW kept \in BOOLEAN, Leave(x, a, kept)
        PROVE  /\ active' \in [Queues -> SUBSET Items] /\ ctx' \in [Items -> Tally]
               /\ toRelease' \in [Queues -> Nat]
               /\ \A q \in Queues : Owners(q)' <= Owners(q) /\ toRelease'[q] >= toRelease[q]
    <3>1. /\ active' \in [Queues -> SUBSET Items] /\ ctx' \in [Items -> Tally]
          /\ toRelease' \in [Queues -> Nat]
      BY <1>0, <2>1, LeaveKeeps
    <3>2. ASSUME NEW q \in Queues
          PROVE  Owners(q)' <= Owners(q) /\ toRelease'[q] >= toRelease[q]
      <4>1. Owners(q)' = Owners(q)
        BY <1>0, <2>1, LeaveOwners
      <4>2. Owners(q) \in Nat
        <5>1. /\ toRelease[q] \in Nat /\ Cardinality(active[q]) \in Nat
              /\ Cardinality(Naming(from, q)) \in Nat /\ Cardinality(InCtx(q)) \in Nat
          BY <1>0, Counts, OwnersNat
        <5> QED BY <5>1 DEF Owners
      <4>3. toRelease'[q] >= toRelease[q] + IF q = a THEN 1 ELSE 0
        BY <1>0, <2>1, LeaveKeeps
      <4>4. toRelease[q] \in Nat /\ toRelease'[q] \in Nat
        BY <1>0, <3>1
      <4> QED BY <4>1, <4>2, <4>3, <4>4
    <3> QED BY <3>1, <3>2
  <2>2. CASE \E kept \in BOOLEAN : Leave(x, a, kept)
    BY <2>1, <2>2
  <2>3. CASE /\ active' = [active EXCEPT ![a] = @ \ {x}]
             /\ Record(x, a) /\ UNCHANGED toRelease
    <3>1. /\ active' \in [Queues -> SUBSET Items] /\ ctx' \in [Items -> Tally]
          /\ toRelease' \in [Queues -> Nat]
          /\ \A q \in Queues : Owners(q)' <= Owners(q)
      BY ZenonT(60), <1>0, <2>3, LeaveRecorded
    <3>2. \A q \in Queues : toRelease'[q] >= toRelease[q]
      BY <1>0, <2>3
    <3> QED BY <3>1, <3>2
  <2>4. \/ \E kept \in BOOLEAN : Leave(x, a, kept)
        \/ /\ active' = [active EXCEPT ![a] = @ \ {x}]
           /\ Record(x, a) /\ UNCHANGED toRelease
    BY ZenonT(60) DEF ReEnqueue
  <2> QED BY <2>2, <2>3, <2>4
<1>1. TypeOK'
  <2>1. toSpawn' \in [Queues -> Nat] /\ workq' \in [Queues -> Seq(Items)]
    BY <1>0, CallSpawnType, PushOnce
  <2>2. source' \in [Items -> SomeQueue] /\ ahead' \in [Items -> SUBSET Items]
    <3>1. CASE HandOver(x, a, b)
      BY <1>0, <3>1, HandOverType
    <3>2. CASE UNCHANGED ghostVars
      BY SMTT(60), <1>0, <3>2 DEF TypeOK, ghostVars
    <3> QED BY <3>1, <3>2 DEF ReEnqueue
  <2> QED BY ZenonT(60), <1>0, <1>a, <2>1, <2>2 DEF TypeOK, ReEnqueue
<1>2. ASSUME NEW q \in Queues PROVE Owned(q)' /\ Limits(q)'
  <2>1. /\ outstanding'[q] = outstanding[q] /\ reserved'[q] = reserved[q]
        /\ Holders(q)' = Holders(q)
    BY SMTT(60) DEF ReEnqueue, Holders, Naming
  <2>2. /\ outstanding[q] \in Nat /\ reserved[q] \in Nat /\ toRelease[q] \in Nat
        /\ Queued(q) \in Nat /\ Owners(q) \in Nat /\ Holders(q) \in Nat
        /\ toRelease'[q] \in Nat /\ Owners(q)' \in Nat
    BY SMTT(60), <1>0, <1>1, Counts, CountsNext, Sums
  <2>3. outstanding'[q] <= MaxOutstanding[q]
    BY <2>1 DEF QueueInv, Limits
  <2>4. Owners(q)' <= Owners(q) /\ toRelease'[q] >= toRelease[q]
    BY <1>a
  <2>5. \/ Size(q)' + toRelease[q] <= Size(q) + toRelease'[q]
        \/ Size(q)' <= MaxSize[q]
    <3>1. CASE q = b
      <4>1. Queued(q)' = Queued(q) + 1
        BY SMTT(60), <1>0, <3>1, PushOnce
      <4>2. Size(q)' = Size(q) + 1
        BY SMTT(60), <2>1, <2>2, <4>1, SizeSum
      <4> QED BY SMTT(60), <4>2, <3>1 DEF ReEnqueue, Fits
    <3>2. CASE q # b
      <4>1. Queued(q)' = Queued(q)
        BY <1>0, <3>2, PushOnce
      <4> QED BY SMTT(60), <2>1, <2>2, <2>4, <4>1, SizeSum
    <3> QED BY <3>1, <3>2
  <2> QED BY SMTT(60), <1>1, <2>1, <2>2, <2>3, <2>4, <2>5, Kept
<1> QED BY <1>1, <1>2 DEF QueueInv

\* A context that is destroyed, or kept: the queues recorded in it keep an owner.
LEMMA CtxOwners ==
  ASSUME Library, TypeOK, NEW x \in Items, NEW n, NEW q \in Queues,
         toRelease' = DueEach(toRelease, n),
         \/ n = NoRecord /\ ctx' = ctx
         \/ n = ctx[x] /\ ctx' = [ctx EXCEPT ![x] = NoRecord]
  PROVE  /\ toRelease' \in [Queues -> Nat] /\ ctx' \in [Items -> Tally]
         /\ toRelease'[q] \in Nat /\ Cardinality(InCtx(q)') \in Nat
         /\ toRelease'[q] >= toRelease[q]
         /\ toRelease'[q] + Cardinality(InCtx(q)') = toRelease[q] + Cardinality(InCtx(q))
<1>1. /\ toRelease \in [Queues -> Nat] /\ toRelease[q] \in Nat
      /\ Cardinality(InCtx(q)) \in Nat
  BY SMTT(60), OwnersNat DEF TypeOK
<1>a. n \in [Queues -> Nat] /\ n[q] \in Nat
  <2>1. ctx[x] \in Tally /\ NoRecord \in Tally
    BY QueueAssumption, TallyNat DEF NoRecord, Tally
  <2>2. n \in Tally
    BY <2>1
  <2> QED BY <2>2, QueueAssumption DEF Tally
<1>2. toRelease' \in [Queues -> Nat] /\ toRelease'[q] = toRelease[q] + n[q]
  BY ZenonT(60), <1>1, <1>a, DueTally
<1>3. CASE n = NoRecord /\ ctx' = ctx
  <2>1. InCtx(q)' = InCtx(q) /\ ctx' \in [Items -> Tally]
    BY <1>3 DEF InCtx, Entries, TypeOK
  <2>2. n[q] = 0
    BY <1>3 DEF NoRecord
  <2> QED BY <1>1, <1>2, <2>1, <2>2
<1>4. CASE n = ctx[x] /\ ctx' = [ctx EXCEPT ![x] = NoRecord]
  <2>1. /\ ctx' \in [Items -> Tally]
        /\ Cardinality(InCtx(q)') = Cardinality(InCtx(q)) - n[q]
        /\ Cardinality(InCtx(q)') \in Nat
    BY ZenonT(60), <1>4, CtxDropped
  <2> QED BY SMTT(60), <1>1, <1>a, <1>2, <2>1
<1> QED BY SMTT(60), <1>3, <1>4

\* An item that gives up its turn is an owner less, and one waiting item more.
LEMMA ReEnqueueSelfKeeps ==
  ASSUME Library, QueueInv, NEW x \in Items, NEW a \in Queues, NEW s \in BOOLEAN,
         ReEnqueueSelf(x, a, s)
  PROVE  QueueInv'
<1> DEFINE n == IF s THEN NoRecord ELSE ctx[x]
<1>0. /\ TypeOK /\ x \in active[a] /\ Push(x, a)
      /\ active' = [active EXCEPT ![a] = @ \ {x}]
      /\ toRelease' = DueEach(toRelease, n)
      /\ \/ n = NoRecord /\ ctx' = ctx
         \/ n = ctx[x] /\ ctx' = [ctx EXCEPT ![x] = NoRecord]
  BY DEF QueueInv, ReEnqueueSelf, TypeOK
<1> HIDE DEF n
<1>a. ASSUME NEW q \in Queues
      PROVE  /\ toRelease' \in [Queues -> Nat] /\ ctx' \in [Items -> Tally]
             /\ toRelease'[q] \in Nat /\ Cardinality(InCtx(q)') \in Nat
             /\ toRelease'[q] >= toRelease[q]
             /\ toRelease'[q] + Cardinality(InCtx(q)') = toRelease[q] + Cardinality(InCtx(q))
  BY <1>0, CtxOwners
<1>b. ASSUME NEW q \in Queues
      PROVE  /\ outstanding[q] \in Nat /\ reserved[q] \in Nat /\ toRelease[q] \in Nat
             /\ Queued(q) \in Nat /\ MaxOutstanding[q] \in Nat
             /\ Cardinality(active[q]) \in Nat
             /\ Cardinality(Naming(from, q)) \in Nat /\ Cardinality(InCtx(q)) \in Nat
  BY <1>0, Counts, OwnersNat
<1>c. outstanding[a] > 0
  <2>1. outstanding[a] >= Owners(a)
    BY DEF QueueInv, Owned
  <2>2. Cardinality(active[a]) > 0
    BY ZenonT(60), <1>0, CardRemove DEF TypeOK
  <2>3. /\ outstanding[a] \in Nat /\ toRelease[a] \in Nat
        /\ Cardinality(active[a]) \in Nat
        /\ Cardinality(Naming(from, a)) \in Nat /\ Cardinality(InCtx(a)) \in Nat
    BY <1>b
  <2> QED BY <2>1, <2>2, <2>3 DEF Owners
<1>1. TypeOK'
  <2>1. workq' \in [Queues -> Seq(Items)]
    BY <1>0, PushOnce
  <2>2. outstanding' \in [Queues -> Nat] /\ active' \in [Queues -> SUBSET Items]
    BY SMTT(60), <1>0, <1>c DEF ReEnqueueSelf, TypeOK
  <2>3. toRelease' \in [Queues -> Nat] /\ ctx' \in [Items -> Tally]
    BY <1>a
  <2> QED BY SMTT(60), <1>0, <2>1, <2>2, <2>3 DEF TypeOK, ReEnqueueSelf, ghostVars
<1>2. ASSUME NEW q \in Queues PROVE Owned(q)' /\ Limits(q)'
  <2>1. /\ reserved'[q] = reserved[q] /\ Holders(q)' = Holders(q)
        /\ Naming(from, q)' = Naming(from, q)
    BY SMTT(60) DEF ReEnqueueSelf, Holders, Naming
  <2>2. /\ outstanding[q] \in Nat /\ reserved[q] \in Nat /\ toRelease[q] \in Nat
        /\ Queued(q) \in Nat /\ MaxOutstanding[q] \in Nat /\ Holders(q) \in Nat
        /\ Cardinality(active[q]) \in Nat
        /\ Cardinality(Naming(from, q)) \in Nat /\ Cardinality(InCtx(q)) \in Nat
    BY <1>0, <1>1, <1>b, Sums
  <2>3. /\ toRelease'[q] \in Nat /\ Cardinality(InCtx(q)') \in Nat
        /\ toRelease'[q] >= toRelease[q]
        /\ toRelease'[q] + Cardinality(InCtx(q)') = toRelease[q] + Cardinality(InCtx(q))
    BY SMTT(60), <1>a
  <2>4. outstanding[q] <= MaxOutstanding[q]
    BY DEF QueueInv, Limits
  <2>5. /\ Cardinality(active'[q]) = Cardinality(active[q]) - IF q = a THEN 1 ELSE 0
        /\ Cardinality(active'[q]) \in Nat
    BY ZenonT(60), <1>0, ActiveLeft
  <2>6. CASE q = a
    <3>1. /\ outstanding'[q] = outstanding[q] - 1 /\ Queued(q)' = Queued(q) + 1
          /\ Cardinality(active'[q]) = Cardinality(active[q]) - 1
      BY SMTT(60), <1>0, <2>5, <2>6, PushOnce DEF ReEnqueueSelf, TypeOK
    <3>2. Size(q)' + toRelease[q] <= Size(q) + toRelease'[q]
      <4>1. /\ Size(q) = outstanding[q] + reserved[q] + Queued(q)
            /\ Size(q)' = outstanding'[q] + reserved'[q] + Queued(q)'
        BY SMTT(60), SizeSum
      <4> QED BY SMTT(60), <2>1, <2>2, <2>3, <3>1, <4>1
    <3>3. Owners(q)' + outstanding[q] <= Owners(q) + outstanding'[q]
      BY SMTT(60), <2>1, <2>2, <2>3, <2>5, <3>1 DEF Owners
    <3>4. outstanding'[q] <= MaxOutstanding[q]
      BY SMTT(60), <2>2, <2>4, <3>1
    <3> QED BY <1>1, <2>1, <2>2, <3>2, <3>3, <3>4, Kept
  <2>7. CASE q # a
    <3>1. /\ outstanding'[q] = outstanding[q] /\ Queued(q)' = Queued(q)
          /\ Cardinality(active'[q]) = Cardinality(active[q])
      <4>1. outstanding'[q] = outstanding[q] /\ active'[q] = active[q]
        BY <1>0, <2>7 DEF ReEnqueueSelf, TypeOK
      <4>2. Queued(q)' = Queued(q)
        BY SMTT(60), <1>0, <2>7, PushOnce
      <4> QED BY SMTT(60), <4>1, <4>2
    <3>2. Size(q)' + toRelease[q] <= Size(q) + toRelease'[q]
      <4>1. /\ Size(q) = outstanding[q] + reserved[q] + Queued(q)
            /\ Size(q)' = outstanding'[q] + reserved'[q] + Queued(q)'
        BY SizeSum
      <4> QED BY SMTT(60), <2>1, <2>2, <2>3, <3>1, <4>1
    <3>3. Owners(q)' + outstanding[q] <= Owners(q) + outstanding'[q]
      BY SMTT(60), <2>1, <2>2, <2>3, <3>1 DEF Owners
    <3> QED BY SMTT(60), <1>1, <2>1, <2>2, <2>4, <3>1, <3>2, <3>3, Kept
  <2> QED BY SMTT(60), <2>6, <2>7
<1> QED BY <1>1, <1>2 DEF QueueInv

\* An item that is pushed back still counts on fromQueue: the pair in the overflow
\* queue, or the context, owns the unit that it had.
LEMMA PushBackKeeps ==
  ASSUME Library, QueueInv, NEW x \in Items, NEW a \in Queues, NEW b \in Queues,
         NEW s \in BOOLEAN, PushBack(x, a, b, s)
  PROVE  QueueInv'
<1>0. /\ TypeOK /\ x \in active[a] /\ HandOver(x, a, b)
      /\ active' = [active EXCEPT ![a] = @ \ {x}]
      /\ toRelease \in [Queues -> Nat] /\ from \in [Items -> SomeQueue] /\ a \in SomeQueue
  BY ZenonT(60) DEF QueueInv, PushBack, TypeOK, SomeQueue
<1>a. /\ active' \in [Queues -> SUBSET Items] /\ ctx' \in [Items -> Tally]
      /\ toRelease' \in [Queues -> Nat] /\ from' \in [Items -> SomeQueue]
      /\ \A q \in Queues : Owners(q)' <= Owners(q) /\ toRelease'[q] >= toRelease[q]
  <2>1. CASE Record(x, a) /\ UNCHANGED <<from, toRelease>>
    <3>1. /\ active' \in [Queues -> SUBSET Items] /\ ctx' \in [Items -> Tally]
          /\ toRelease' \in [Queues -> Nat]
          /\ \A q \in Queues : Owners(q)' <= Owners(q)
      BY ZenonT(60), <1>0, <2>1, LeaveRecorded
    <3>2. \A q \in Queues : toRelease'[q] >= toRelease[q]
      BY <1>0, <2>1
    <3> QED BY <1>0, <2>1, <3>1, <3>2
  <2>2. CASE /\ from' = [from EXCEPT ![x] = a] /\ toRelease' = DueEach(toRelease, ctx[x])
             /\ ctx' = [ctx EXCEPT ![x] = NoRecord]
    <3>1. active' \in [Queues -> SUBSET Items] /\ from' \in [Items -> SomeQueue]
      BY SMTT(60), <1>0, <2>2 DEF TypeOK
    <3>2. ASSUME NEW q \in Queues
          PROVE  /\ toRelease' \in [Queues -> Nat] /\ ctx' \in [Items -> Tally]
                 /\ Owners(q)' <= Owners(q) /\ toRelease'[q] >= toRelease[q]
      <4>1. /\ toRelease' \in [Queues -> Nat] /\ ctx' \in [Items -> Tally]
            /\ toRelease'[q] \in Nat /\ Cardinality(InCtx(q)') \in Nat
            /\ toRelease'[q] >= toRelease[q]
            /\ toRelease'[q] + Cardinality(InCtx(q)') = toRelease[q] + Cardinality(InCtx(q))
        BY ZenonT(60), <1>0, <2>2, CtxOwners
      <4>2. /\ Cardinality(active'[q]) = Cardinality(active[q]) - IF q = a THEN 1 ELSE 0
            /\ Cardinality(active'[q]) \in Nat
        BY ZenonT(60), <1>0, ActiveLeft
      <4>3. /\ q = a => Cardinality(Naming(from', q)) <= Cardinality(Naming(from, q)) + 1
            /\ q # a => Cardinality(Naming(from', q)) <= Cardinality(Naming(from, q))
        BY ZenonT(60), <1>0, <2>2, NamingSet
      <4>4. Naming(from', q) \in SUBSET Items /\ Naming(from, q)' = Naming(from', q)
        BY DEF Naming
      <4>5. /\ toRelease[q] \in Nat /\ Cardinality(active[q]) \in Nat
            /\ Cardinality(Naming(from, q)) \in Nat /\ Cardinality(InCtx(q)) \in Nat
            /\ Cardinality(Naming(from', q)) \in Nat
        BY ZenonT(60), <1>0, <4>4, Counts, OwnersNat, CardNat
      <4>6. Cardinality(active'[q]) + Cardinality(Naming(from', q))
              <= Cardinality(active[q]) + Cardinality(Naming(from, q))
        BY <4>2, <4>3, <4>5
      <4>7. Owners(q)' <= Owners(q)
        BY SMTT(60), <4>1, <4>2, <4>4, <4>5, <4>6 DEF Owners
      <4> QED BY SMTT(60), <4>1, <4>7
    <3> QED BY <3>1, <3>2
  <2> QED BY <2>1, <2>2 DEF PushBack
<1>1. TypeOK'
  <2>1. source' \in [Items -> SomeQueue] /\ ahead' \in [Items -> SUBSET Items]
    BY <1>0, HandOverType
  <2>2. overflow' \in [Queues -> Seq(Items)]
    <3>1. overflow \in [Queues -> Seq(Items)] /\ overflow[b] \in Seq(Items)
      BY <1>0 DEF TypeOK
    <3>2. Append(overflow[b], x) \in Seq(Items)
      BY SMTT(60), <3>1, SeqAppend
    <3> QED BY <3>1, <3>2 DEF PushBack
  <2> QED BY ZenonT(60), <1>0, <1>a, <2>1, <2>2 DEF TypeOK, PushBack
<1>2. ASSUME NEW q \in Queues PROVE Owned(q)' /\ Limits(q)'
  <2>1. /\ outstanding'[q] = outstanding[q] /\ reserved'[q] = reserved[q]
        /\ Holders(q)' = Holders(q) /\ Queued(q)' = Queued(q)
    BY ZenonT(60) DEF PushBack, Holders, Naming, Queued
  <2>2. /\ outstanding[q] \in Nat /\ reserved[q] \in Nat /\ toRelease[q] \in Nat
        /\ Queued(q) \in Nat /\ Owners(q) \in Nat /\ Holders(q) \in Nat
        /\ toRelease'[q] \in Nat /\ Owners(q)' \in Nat
    BY SMTT(60), <1>0, <1>1, Counts, CountsNext, Sums
  <2>3. outstanding'[q] <= MaxOutstanding[q]
    BY <2>1 DEF QueueInv, Limits
  <2>4. Owners(q)' <= Owners(q) /\ toRelease'[q] >= toRelease[q]
    BY SMTT(60), <1>a
  <2>5. Size(q)' + toRelease[q] <= Size(q) + toRelease'[q]
    BY <2>1, <2>2, <2>4, SizeSum
  <2> QED BY SMTT(60), <1>1, <2>1, <2>2, <2>3, <2>4, <2>5, Kept
<1> QED BY <1>1, <1>2 DEF QueueInv

=============================================================================
