-------------------------- MODULE WorkQueue_calls ---------------------------
(***************************************************************************)
(* Each call on a queue, and the end of an item's run, keeps the inductive *)
(* invariant of WorkQueue_owners.                                          *)
(***************************************************************************)
EXTENDS WorkQueue_owners

\* One lemma per action: it keeps the inductive invariant.

\* enqueue() takes room that the guard has found.
LEMMA EnqueueKeeps ==
  ASSUME Library, QueueInv, NEW x \in Items, NEW b \in Queues, Enqueue(x, b)
  PROVE  QueueInv'
<1>0. /\ TypeOK /\ Push(x, b) /\ CallSpawn(b) /\ Fits(b) /\ fresh' \subseteq fresh
      /\ UNCHANGED <<from, active, timer, resv, ctx, overflow, outstanding, reserved, started,
                     toRelease, ghostVars>>
  BY DEF QueueInv, Enqueue
<1>1. TypeOK'
  <2>1. toSpawn' \in [Queues -> Nat] /\ workq' \in [Queues -> Seq(Items)]
    BY <1>0, CallSpawnType, PushOnce, Zenon
  <2> QED BY SMTT(60), <1>0, <2>1 DEF TypeOK, ghostVars
<1>2. ASSUME NEW q \in Queues PROVE Owned(q)' /\ Limits(q)'
  <2>1. /\ outstanding'[q] = outstanding[q] /\ reserved'[q] = reserved[q]
        /\ toRelease'[q] = toRelease[q]
        /\ Owners(q)' = Owners(q) /\ Holders(q)' = Holders(q)
    BY <1>0 DEF Owners, Holders, InCtx, Naming
  <2>2. /\ reserved[q] \in Nat /\ toRelease[q] \in Nat /\ Queued(q) \in Nat
    BY <1>0, Counts, Zenon
  <2>3. Owners(q) \in Nat /\ Holders(q) \in Nat
    BY <1>0, <1>1, Sums, Zenon
  <2>4. /\ Owners(q)' <= Owners(q)
        /\ Holders(q)' + reserved[q] <= Holders(q) + reserved'[q]
    BY <2>1, <2>2, <2>3
  <2>5. \/ reserved'[q] + Queued(q)' + toRelease[q] <= reserved[q] + Queued(q) + toRelease'[q]
        \/ Fits(q) /\ reserved'[q] + Queued(q)' <= reserved[q] + Queued(q) + 1
    <3>1. /\ q = b => Queued(q)' = Queued(q) + 1
          /\ q # b => Queued(q)' = Queued(q)
      BY <1>0, PushOnce, Zenon
    <3> QED BY <1>0, <2>1, <2>2, <3>1
  <2> QED BY <1>1, <2>1, <2>4, <2>5, KeptSame, Zenon
<1> QED BY <1>1, <1>2 DEF QueueInv

\* reserve() takes room that the guard has found, for the item that owns it.
LEMMA ReserveKeeps ==
  ASSUME Library, QueueInv, NEW x \in Items, NEW b \in Queues, Reserve(x, b)
  PROVE  QueueInv'
<1>0. TypeOK /\ resv \in [Items -> SomeQueue] /\ b \in SomeQueue
  BY DEF QueueInv, TypeOK, SomeQueue
<1>1. TypeOK'
  BY SMTT(60), <1>0 DEF TypeOK, Reserve, ghostVars
<1>2. ASSUME NEW q \in Queues PROVE Owned(q)' /\ Limits(q)'
  <2>1. /\ outstanding'[q] = outstanding[q] /\ toRelease'[q] = toRelease[q]
        /\ Owners(q)' = Owners(q) /\ Queued(q)' = Queued(q)
        /\ Naming(timer', q) = Naming(timer, q) /\ resv' = [resv EXCEPT ![x] = b]
    BY DEF Reserve, Owners, InCtx, Naming, Queued
  <2>2. /\ outstanding[q] \in Nat /\ reserved[q] \in Nat /\ toRelease[q] \in Nat
        /\ Queued(q) \in Nat /\ Owners(q) \in Nat /\ MaxSize[q] \in Nat
        /\ Cardinality(Naming(resv, q)) \in Nat /\ Cardinality(Naming(timer, q)) \in Nat
        /\ Cardinality(Naming(resv', q)) \in Nat
    BY <1>0, <1>1, Counts, OwnersNat, CountsNext, Sums
  <2>3. outstanding'[q] <= MaxOutstanding[q]
    BY <2>1 DEF QueueInv, Limits
  <2>4. Holders(q)' = Cardinality(Naming(resv', q)) + Cardinality(Naming(timer', q))
    BY DEF Holders, Naming
  <2>5. CASE q = b
    <3>1. reserved'[q] = reserved[q] + 1
      BY <2>5, <1>0 DEF Reserve, TypeOK
    <3>2. Cardinality(Naming(resv', q)) <= Cardinality(Naming(resv, q)) + 1
      BY ZenonT(60), <2>5, <1>0, <2>1, NamingSet
    <3>3. Size(q)' = Size(q) + 1
      BY <2>1, <2>2, <3>1, SizeSum
    <3>4. Size(q)' <= MaxSize[q]
      BY <3>3, <2>5 DEF Reserve, Fits
    <3>5. Holders(q)' + reserved[q] <= Holders(q) + reserved'[q]
      BY <2>1, <2>2, <2>4, <3>1, <3>2 DEF Holders
    <3> QED BY <1>1, <2>1, <2>2, <2>3, <3>4, <3>5, Kept
  <2>6. CASE q # b
    <3>1. reserved'[q] = reserved[q]
      BY <2>6, <1>0 DEF Reserve, TypeOK
    <3>2. Cardinality(Naming(resv', q)) <= Cardinality(Naming(resv, q))
      BY ZenonT(60), <2>6, <1>0, <2>1, NamingSet
    <3>3. Size(q)' + toRelease[q] <= Size(q) + toRelease'[q]
      BY <2>1, <2>2, <3>1, SizeSum
    <3>5. Holders(q)' + reserved[q] <= Holders(q) + reserved'[q]
      BY <2>1, <2>2, <2>4, <3>1, <3>2 DEF Holders
    <3> QED BY <1>1, <2>1, <2>2, <2>3, <3>3, <3>5, Kept
  <2> QED BY <2>5, <2>6
<1> QED BY <1>1, <1>2 DEF QueueInv

\* A delay ends: the place kept for the item was counted.
LEMMA TimerGone ==
  ASSUME Library, QueueInv, NEW x \in Items, NEW b \in Queues, timer[x] = b,
         timer' = [timer EXCEPT ![x] = NoQueue], resv' = resv,
         reserved' = [reserved EXCEPT ![b] = @ - 1]
  PROVE  /\ timer' \in [Items -> SomeQueue] /\ reserved' \in [Queues -> Nat]
         /\ reserved'[b] = reserved[b] - 1
         /\ \A q \in Queues : Holders(q)' + reserved[q] <= Holders(q) + reserved'[q]
<1>0. /\ TypeOK /\ timer \in [Items -> SomeQueue] /\ NoQueue \in SomeQueue
      /\ reserved \in [Queues -> Nat]
  BY ZenonT(60) DEF QueueInv, TypeOK, SomeQueue
<1>1. ASSUME NEW q \in Queues
      PROVE  /\ Cardinality(Naming(timer, q)) \in Nat /\ Cardinality(Naming(resv, q)) \in Nat
             /\ Cardinality(Naming(timer', q)) \in Nat /\ reserved[q] \in Nat
  <2>1. Naming(timer', q) \in SUBSET Items
    BY DEF Naming
  <2> QED BY ZenonT(60), <1>0, <2>1, OwnersNat, CardNat
<1>2. ASSUME NEW q \in Queues
      PROVE  /\ q = b => Cardinality(Naming(timer', q)) + 1 = Cardinality(Naming(timer, q))
             /\ q # b => Cardinality(Naming(timer', q)) <= Cardinality(Naming(timer, q))
  BY ZenonT(60), <1>0, PlaceGone
<1>3. reserved[b] > 0
  <2>1. reserved[b] >= Holders(b)
    BY DEF QueueInv, Owned
  <2>2. Holders(b) = Cardinality(Naming(resv, b)) + Cardinality(Naming(timer, b))
    BY DEF Holders
  <2>3. Cardinality(Naming(timer', b)) + 1 = Cardinality(Naming(timer, b))
    BY ZenonT(60), <1>2
  <2> QED BY <1>1, <2>1, <2>2, <2>3
<1>4. /\ reserved' \in [Queues -> Nat] /\ reserved'[b] = reserved[b] - 1
      /\ \A q \in Queues : q # b => reserved'[q] = reserved[q]
  BY <1>0, <1>3
<1>5. ASSUME NEW q \in Queues
      PROVE  Holders(q)' + reserved[q] <= Holders(q) + reserved'[q]
  <2>1. /\ Holders(q)' = Cardinality(Naming(resv', q)) + Cardinality(Naming(timer', q))
        /\ Holders(q) = Cardinality(Naming(resv, q)) + Cardinality(Naming(timer, q))
        /\ Naming(resv', q) = Naming(resv, q)
    BY DEF Holders, Naming
  <2>2. /\ Cardinality(Naming(timer, q)) \in Nat /\ Cardinality(Naming(resv, q)) \in Nat
        /\ Cardinality(Naming(timer', q)) \in Nat /\ reserved[q] \in Nat
    BY ZenonT(60), <1>1
  <2>3. CASE q = b
    <3>1. /\ Cardinality(Naming(timer', q)) + 1 = Cardinality(Naming(timer, q))
          /\ reserved'[q] = reserved[q] - 1
      BY ZenonT(60), <1>2, <1>4, <2>3
    <3> QED BY <2>1, <2>2, <3>1
  <2>4. CASE q # b
    <3>1. /\ Cardinality(Naming(timer', q)) <= Cardinality(Naming(timer, q))
          /\ reserved'[q] = reserved[q]
      BY ZenonT(60), <1>2, <1>4, <2>4
    <3> QED BY <2>1, <2>2, <3>1
  <2> QED BY <2>3, <2>4
<1>6. timer' \in [Items -> SomeQueue]
  BY <1>0
<1> QED BY <1>4, <1>5, <1>6

\* The Reservation that is destroyed gives its place back.
LEMMA UnreserveKeeps ==
  ASSUME Library, QueueInv, NEW x \in Items, Unreserve(x)
  PROVE  QueueInv'
<1> DEFINE b == resv[x]
<1>0. TypeOK /\ b \in Queues
  BY DEF QueueInv, TypeOK, SomeQueue, Unreserve
<1>a. /\ resv' \in [Items -> SomeQueue] /\ reserved' \in [Queues -> Nat]
      /\ reserved'[b] = reserved[b] - 1
      /\ \A q \in Queues : Holders(q)' + reserved[q] <= Holders(q) + reserved'[q]
  BY ZenonT(60), <1>0, ResvGone DEF Unreserve
<1>1. TypeOK'
  BY <1>0, <1>a DEF TypeOK, Unreserve, ghostVars
<1>2. ASSUME NEW q \in Queues PROVE Owned(q)' /\ Limits(q)'
  <2>1. /\ outstanding'[q] = outstanding[q] /\ toRelease'[q] = toRelease[q]
        /\ Owners(q)' = Owners(q) /\ Queued(q)' = Queued(q)
    BY DEF Unreserve, Owners, InCtx, Naming, Queued
  <2>2. /\ outstanding[q] \in Nat /\ reserved[q] \in Nat /\ toRelease[q] \in Nat
        /\ Queued(q) \in Nat /\ Owners(q) \in Nat /\ reserved'[q] \in Nat
    BY <1>0, <1>1, Counts, CountsNext, Sums
  <2>3. outstanding'[q] <= MaxOutstanding[q]
    BY <2>1 DEF QueueInv, Limits
  <2>4. reserved'[q] <= reserved[q]
    BY SMTT(60), <1>0, <2>2 DEF Unreserve, TypeOK
  <2>5. Size(q)' + toRelease[q] <= Size(q) + toRelease'[q]
    BY <2>1, <2>2, <2>4, SizeSum
  <2> QED BY <1>a, <1>1, <2>1, <2>2, <2>3, <2>5, Kept
<1> QED BY <1>1, <1>2 DEF QueueInv

\* The item that comes back uses the place that was kept for it.
LEMMA TimeoutKeeps ==
  ASSUME Library, QueueInv, NEW x \in Items, Timeout(x)
  PROVE  QueueInv'
<1> DEFINE b == timer[x]
<1>0. TypeOK /\ b \in Queues /\ Push(x, b) /\ CallSpawn(b)
  BY DEF QueueInv, TypeOK, SomeQueue, Timeout
<1>a. /\ timer' \in [Items -> SomeQueue] /\ reserved' \in [Queues -> Nat]
      /\ reserved'[b] = reserved[b] - 1
      /\ \A q \in Queues : Holders(q)' + reserved[q] <= Holders(q) + reserved'[q]
  BY ZenonT(60), <1>0, TimerGone DEF Timeout
<1>1. TypeOK'
  <2>1. toSpawn' \in [Queues -> Nat] /\ workq' \in [Queues -> Seq(Items)]
    BY <1>0, CallSpawnType, PushOnce
  <2> QED BY SMTT(60), <1>0, <1>a, <2>1 DEF TypeOK, Timeout, ghostVars
<1>2. ASSUME NEW q \in Queues PROVE Owned(q)' /\ Limits(q)'
  <2>1. /\ outstanding'[q] = outstanding[q] /\ toRelease'[q] = toRelease[q]
        /\ Owners(q)' = Owners(q)
    BY DEF Timeout, Owners, InCtx, Naming
  <2>2. /\ outstanding[q] \in Nat /\ reserved[q] \in Nat /\ toRelease[q] \in Nat
        /\ Queued(q) \in Nat /\ Owners(q) \in Nat
    BY SMTT(60), <1>0, <1>1, Counts, Sums
  <2>3. outstanding'[q] <= MaxOutstanding[q]
    BY <2>1 DEF QueueInv, Limits
  <2>4. reserved'[q] + Queued(q)' = reserved[q] + Queued(q)
    <3>1. CASE q = b
      <4>1. Queued(q)' = Queued(q) + 1 /\ reserved'[q] = reserved[q] - 1
        BY SMTT(60), <1>0, <1>a, <3>1, PushOnce
      <4> QED BY SMTT(60), <2>2, <4>1
    <3>2. CASE q # b
      BY ZenonT(60), <1>0, <2>2, <3>2, PushOnce DEF Timeout, TypeOK
    <3> QED BY <3>1, <3>2
  <2>5. reserved'[q] \in Nat /\ Queued(q)' \in Nat
    BY <1>1, CountsNext
  <2>6. Size(q)' + toRelease[q] <= Size(q) + toRelease'[q]
    BY <2>1, <2>2, <2>4, <2>5, SizeSum
  <2> QED BY SMTT(60), <1>a, <1>1, <2>1, <2>2, <2>3, <2>6, Kept
<1> QED BY <1>1, <1>2 DEF QueueInv

\* start() and stop() touch no counter.
LEMMA StartStopKeeps ==
  ASSUME Library, QueueInv, NEW b \in Queues, Start(b) \/ Stop(b) \/ SpawnStopped(b)
  PROVE  QueueInv'
<1>1. TypeOK'
  <2>0. TypeOK
    BY DEF QueueInv
  <2>1. CASE Start(b)
    <3>1. toSpawn' \in [Queues -> Nat]
      BY <2>0, <2>1, CallSpawnType DEF Start
    <3> QED BY ZenonT(60), <2>0, <2>1, <3>1 DEF TypeOK, Start, itemVars, ghostVars
  <2>2. CASE Stop(b)
    BY <2>0, <2>2 DEF TypeOK, Stop, itemVars, ghostVars
  <2>3. CASE SpawnStopped(b)
    BY SMTT(60), <2>0, <2>3 DEF TypeOK, SpawnStopped, itemVars, queueVars, ghostVars
  <2> QED BY <2>1, <2>2, <2>3
<1>2. UNCHANGED <<from, active, timer, resv, ctx, workq, outstanding, reserved, toRelease>>
  BY SMTT(60) DEF Start, Stop, SpawnStopped, itemVars, queueVars
<1>3. ASSUME NEW q \in Queues PROVE Owned(q)' /\ Limits(q)'
  BY ZenonT(60), <1>2 DEF QueueInv, Owned, Limits, Owners, Holders, Size, Naming, InCtx
<1> QED BY <1>1, <1>3 DEF QueueInv

\* release() gives back what its caller owns.
LEMMA ReleaseKeeps ==
  ASSUME Library, QueueInv, NEW b \in Queues, Release(b)
  PROVE  QueueInv'
<1>0. TypeOK /\ toRelease[b] > 0
  BY DEF QueueInv, Release
<1>a. outstanding[b] > 0
  <2>1. outstanding[b] >= Owners(b)
    BY DEF QueueInv, Owned
  <2>2. /\ toRelease[b] \in Nat /\ outstanding[b] \in Nat /\ Cardinality(active[b]) \in Nat
        /\ Cardinality(Naming(from, b)) \in Nat /\ Cardinality(InCtx(b)) \in Nat
    BY <1>0, Counts, OwnersNat
  <2> QED BY <1>0, <2>1, <2>2 DEF Owners
<1>b. outstanding' \in [Queues -> Nat] /\ toRelease' \in [Queues -> Nat]
  BY SMTT(60), <1>0, <1>a DEF TypeOK, Release
<1>1. TypeOK'
  <2>1. toSpawn' \in [Queues -> Nat]
    <3>1. toSpawn \in [Queues -> Nat] /\ toSpawn' = Due(toSpawn, {b})
      BY <1>0 DEF TypeOK, Release
    <3> QED BY <3>1, DueOnce
  <2> QED BY ZenonT(60), <1>0, <1>b, <2>1 DEF TypeOK, Release, itemVars, ghostVars
<1>2. ASSUME NEW q \in Queues PROVE Owned(q)' /\ Limits(q)'
  <2>1. /\ reserved'[q] = reserved[q] /\ Queued(q)' = Queued(q) /\ Holders(q)' = Holders(q)
        /\ active'[q] = active[q] /\ Naming(from, q)' = Naming(from, q)
        /\ InCtx(q)' = InCtx(q)
    BY DEF Release, Queued, Holders, Naming, InCtx, itemVars
  <2>2. /\ outstanding[q] \in Nat /\ reserved[q] \in Nat /\ toRelease[q] \in Nat
        /\ Queued(q) \in Nat /\ Holders(q) \in Nat /\ MaxOutstanding[q] \in Nat
        /\ outstanding'[q] \in Nat /\ toRelease'[q] \in Nat
    BY <1>0, <1>1, Counts, CountsNext, Sums
  <2>3. /\ outstanding'[q] <= outstanding[q]
        /\ outstanding'[q] + toRelease[q] = outstanding[q] + toRelease'[q]
    <3>1. CASE q = b
      <4>1. outstanding'[q] = outstanding[q] - 1 /\ toRelease'[q] = toRelease[q] - 1
        BY SMTT(60), <1>0, <3>1 DEF Release, TypeOK
      <4> QED BY SMTT(60), <2>2, <4>1
    <3>2. CASE q # b
      BY SMTT(60), <1>0, <2>2, <3>2 DEF Release, TypeOK
    <3> QED BY SMTT(60), <3>1, <3>2
  <2>4. outstanding'[q] <= MaxOutstanding[q]
    <3>1. outstanding[q] <= MaxOutstanding[q]
      BY SMTT(60) DEF QueueInv, Limits
    <3> QED BY <2>2, <2>3, <3>1
  <2>5. Size(q)' + toRelease[q] <= Size(q) + toRelease'[q]
    BY SMTT(60), <2>1, <2>2, <2>3, SizeSum
  <2>6. Owners(q)' + outstanding[q] <= Owners(q) + outstanding'[q]
    <3>1. /\ Cardinality(active[q]) \in Nat
          /\ Cardinality(Naming(from, q)) \in Nat /\ Cardinality(InCtx(q)) \in Nat
      BY SMTT(60), <1>0, OwnersNat
    <3> QED BY SMTT(60), <2>1, <2>2, <2>3, <3>1 DEF Owners
  <2> QED BY <1>1, <2>1, <2>2, <2>4, <2>5, <2>6, Kept
<1> QED BY <1>1, <1>2 DEF QueueInv

\* An item that ends only leaves its queue.
LEMMA FinishKeeps ==
  ASSUME Library, QueueInv, NEW x \in Items, NEW a \in Queues, Finish(x, a)
  PROVE  QueueInv'
<1>0. TypeOK /\ x \in active[a] /\ Leave(x, a, FALSE)
  BY ZenonT(60) DEF QueueInv, Finish
<1>1. TypeOK'
  <2>1. /\ active' \in [Queues -> SUBSET Items] /\ ctx' \in [Items -> Tally]
        /\ toRelease' \in [Queues -> Nat]
    BY ZenonT(60), <1>0, LeaveKeeps
  <2> QED BY <1>0, <2>1 DEF TypeOK, Finish, queueVars, ghostVars
<1>2. ASSUME NEW q \in Queues PROVE Owned(q)' /\ Limits(q)'
  <2>1. /\ outstanding'[q] = outstanding[q] /\ reserved'[q] = reserved[q]
        /\ Queued(q)' = Queued(q) /\ Holders(q)' = Holders(q) /\ from' = from
    BY DEF Finish, Queued, Holders, Naming, queueVars
  <2>2. /\ outstanding[q] \in Nat /\ reserved[q] \in Nat /\ toRelease[q] \in Nat
        /\ Queued(q) \in Nat /\ Holders(q) \in Nat /\ Owners(q) \in Nat
        /\ toRelease'[q] \in Nat
    BY <1>0, <1>1, Counts, CountsNext, Sums
  <2>3. outstanding'[q] <= MaxOutstanding[q]
    BY SMTT(60), <2>1 DEF QueueInv, Limits
  <2>4. Owners(q)' = Owners(q)
    BY ZenonT(60), <1>0, <2>1, LeaveOwners
  <2>5. toRelease'[q] >= toRelease[q]
    <3>1. toRelease'[q] >= toRelease[q] + IF q = a THEN 1 ELSE 0
      BY ZenonT(60), <1>0, LeaveKeeps
    <3> QED BY <3>1, <2>2
  <2>6. Size(q)' + toRelease[q] <= Size(q) + toRelease'[q]
    BY <2>1, <2>2, <2>5, SizeSum
  <2> QED BY <1>1, <2>1, <2>2, <2>3, <2>4, <2>6, Kept
<1> QED BY <1>1, <1>2 DEF QueueInv

\* The place that a rescheduled item keeps is the one that its release() gives up.
LEMMA RescheduleKeeps ==
  ASSUME Library, QueueInv, NEW x \in Items, NEW a \in Queues, Reschedule(x, a)
  PROVE  QueueInv'
<1>0. /\ TypeOK /\ x \in active[a] /\ Leave(x, a, TRUE)
      /\ timer \in [Items -> SomeQueue] /\ a \in SomeQueue
  BY ZenonT(60) DEF QueueInv, Reschedule, TypeOK, SomeQueue
<1>1. TypeOK'
  <2>1. /\ active' \in [Queues -> SUBSET Items] /\ ctx' \in [Items -> Tally]
        /\ toRelease' \in [Queues -> Nat]
    BY ZenonT(60), <1>0, LeaveKeeps
  <2> QED BY SMTT(60), <1>0, <2>1 DEF TypeOK, Reschedule, ghostVars
<1>2. ASSUME NEW q \in Queues PROVE Owned(q)' /\ Limits(q)'
  <2>1. /\ outstanding'[q] = outstanding[q] /\ Queued(q)' = Queued(q) /\ from' = from
        /\ Naming(resv', q) = Naming(resv, q) /\ timer' = [timer EXCEPT ![x] = a]
    BY DEF Reschedule, Queued, Naming
  <2>2. /\ outstanding[q] \in Nat /\ reserved[q] \in Nat /\ toRelease[q] \in Nat
        /\ Queued(q) \in Nat /\ Owners(q) \in Nat /\ toRelease'[q] \in Nat
        /\ Cardinality(Naming(resv, q)) \in Nat /\ Cardinality(Naming(timer, q)) \in Nat
        /\ Cardinality(Naming(timer', q)) \in Nat
    BY <1>0, <1>1, Counts, CountsNext, OwnersNat, Sums
  <2>3. outstanding'[q] <= MaxOutstanding[q]
    BY <2>1 DEF QueueInv, Limits
  <2>4. Owners(q)' = Owners(q)
    BY ZenonT(60), <1>0, <2>1, LeaveOwners
  <2>5. toRelease'[q] >= toRelease[q] + IF q = a THEN 1 ELSE 0
    BY ZenonT(60), <1>0, LeaveKeeps
  <2>6. Holders(q)' = Cardinality(Naming(resv', q)) + Cardinality(Naming(timer', q))
    BY DEF Holders, Naming
  <2>7. CASE q = a
    <3>1. reserved'[q] = reserved[q] + 1
      BY SMTT(60), <2>7, <1>0 DEF Reschedule, TypeOK
    <3>2. Cardinality(Naming(timer', q)) <= Cardinality(Naming(timer, q)) + 1
      BY ZenonT(60), <2>7, <1>0, <2>1, NamingSet
    <3>3. toRelease'[q] >= toRelease[q] + 1
      BY <2>5, <2>7
    <3>4. Size(q)' + toRelease[q] <= Size(q) + toRelease'[q]
      BY <2>1, <2>2, <3>1, <3>3, SizeSum
    <3>5. Holders(q)' + reserved[q] <= Holders(q) + reserved'[q]
      BY SMTT(60), <2>1, <2>2, <2>6, <3>1, <3>2 DEF Holders
    <3> QED BY <1>1, <2>1, <2>2, <2>3, <2>4, <3>4, <3>5, Kept
  <2>8. CASE q # a
    <3>1. reserved'[q] = reserved[q]
      BY SMTT(60), <2>8, <1>0 DEF Reschedule, TypeOK
    <3>2. Cardinality(Naming(timer', q)) <= Cardinality(Naming(timer, q))
      BY ZenonT(60), <2>8, <1>0, <2>1, NamingSet
    <3>3. toRelease'[q] >= toRelease[q]
      BY <2>2, <2>5, <2>8
    <3>4. Size(q)' + toRelease[q] <= Size(q) + toRelease'[q]
      BY <2>1, <2>2, <3>1, <3>3, SizeSum
    <3>5. Holders(q)' + reserved[q] <= Holders(q) + reserved'[q]
      BY <2>1, <2>2, <2>6, <3>1, <3>2 DEF Holders
    <3> QED BY <1>1, <2>1, <2>2, <2>3, <2>4, <3>4, <3>5, Kept
  <2> QED BY <2>7, <2>8
<1> QED BY <1>1, <1>2 DEF QueueInv

=============================================================================
