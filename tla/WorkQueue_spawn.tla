-------------------------- MODULE WorkQueue_spawn ---------------------------
(***************************************************************************)
(* Spawning keeps the inductive invariant of WorkQueue_owners.             *)
(***************************************************************************)
EXTENDS WorkQueue_calls, WorkQueue_moves

\* std::min of two counts
LEMMA LeastOf ==
  ASSUME NEW m \in Nat, NEW n \in Nat
  PROVE  Least(m, n) \in Nat /\ Least(m, n) <= m /\ Least(m, n) <= n
BY DEF Least

\* A sequence cut in two
LEMMA Cut ==
  ASSUME Library, NEW s \in Seq(Items), NEW n \in Nat, n <= Len(s)
  PROVE  /\ SubSeq(s, 1, n) \in Seq(Items) /\ Len(SubSeq(s, 1, n)) = n
         /\ SubSeq(s, n + 1, Len(s)) \in Seq(Items)
         /\ Len(SubSeq(s, n + 1, Len(s))) = Len(s) - n
BY DEF Library, Cutting

\* The pairs that leave the overflow queue: a release() takes the place of each.
LEMMA MovedUpOwners ==
  ASSUME Library, TypeOK, NEW M \in SUBSET Items, NEW a \in Queues,
         from' = [x \in Items |-> IF x \in M THEN NoQueue ELSE from[x]]
  PROVE  /\ Cardinality({x \in M : from[x] = a}) \in Nat
         /\ Cardinality(Naming(from', a)) \in Nat
         /\ Cardinality(Naming(from', a)) + Cardinality({x \in M : from[x] = a})
              = Cardinality(Naming(from, a))
<1>1. /\ Naming(from', a) = Naming(from, a) \ M
      /\ {x \in M : from[x] = a} = Naming(from, a) \cap M
  BY QueueAssumption DEF Naming
<1>2. /\ Naming(from, a) \in SUBSET Items /\ Naming(from, a) \ M \in SUBSET Items
      /\ Naming(from, a) \cap M \in SUBSET Items
  BY DEF Naming
<1>3. /\ Cardinality(Naming(from, a) \ M) \in Nat
      /\ Cardinality(Naming(from, a) \cap M) \in Nat
  BY <1>2, CardNat
<1>4. Cardinality(Naming(from, a) \ M) + Cardinality(Naming(from, a) \cap M)
        = Cardinality(Naming(from, a))
  BY ZenonT(60), <1>2 DEF Library, Counting
<1> QED BY <1>1, <1>3, <1>4, Zenon

\* Items that are given to the job queue
LEMMA MovedOnOwners ==
  ASSUME Library, NEW S \in SUBSET Items, NEW s \in Seq(Items)
  PROVE  Cardinality(S \cup Elements(s)) <= Cardinality(S) + Len(s)
BY DEF Library, Counting

\* spawn(): overflow items take the room there is, and hand the unit they own on
\* fromQueue to a release(); items take the turns that are free.
LEMMA SpawnKeeps ==
  ASSUME Library, QueueInv, NEW b \in Queues, Spawn(b)
  PROVE  QueueInv'
<1> DEFINE up      == Least(Room(b), Len(overflow[b]))
           first   == SubSeq(overflow[b], 1, up)
           movedUp == Elements(first)
           queue   == workq[b] \o first
           out     == Least(MaxOutstanding[b] - outstanding[b], Len(queue))
           turn    == SubSeq(queue, 1, out)
           movedOn == Elements(turn)
<1>0. TypeOK /\ Limits(b)
  BY DEF QueueInv
<1>1. /\ outstanding[b] \in Nat /\ reserved[b] \in Nat /\ toRelease[b] \in Nat
      /\ Queued(b) \in Nat /\ MaxSize[b] \in Nat /\ MaxOutstanding[b] \in Nat
      /\ Size(b) \in Nat
  <2>1. /\ outstanding[b] \in Nat /\ reserved[b] \in Nat /\ toRelease[b] \in Nat
        /\ Queued(b) \in Nat /\ MaxSize[b] \in Nat /\ MaxOutstanding[b] \in Nat
    BY <1>0, Counts
  <2> QED BY <2>1, SizeSum
<1>s. workq[b] \in Seq(Items) /\ overflow[b] \in Seq(Items) /\ Len(overflow[b]) \in Nat
  BY <1>0, Counts
<1>r. Room(b) \in Nat /\ (Room(b) > 0 => Size(b) + Room(b) = MaxSize[b])
  BY <1>1 DEF Room
<1>2. up \in Nat /\ (up > 0 => Size(b) + up <= MaxSize[b])
  <2>1. up \in Nat /\ up <= Room(b)
    BY ZenonT(60), <1>r, <1>s, LeastOf
  <2> HIDE DEF up
  <2> QED BY <1>1, <1>r, <2>1
<1>3. /\ first \in Seq(Items) /\ Len(first) = up
      /\ SubSeq(overflow[b], up + 1, Len(overflow[b])) \in Seq(Items)
  <2>1. up <= Len(overflow[b])
    BY ZenonT(60), <1>r, <1>s, LeastOf
  <2> HIDE DEF up
  <2> QED BY <1>s, <1>2, <2>1, Cut
<1>4. queue \in Seq(Items)
  BY <1>s, <1>3, SeqConcat
<1>q. Len(queue) = Queued(b) + up
  <2>1. Len(workq[b] \o first) = Len(workq[b]) + Len(first)
    BY <1>s, <1>3, SeqConcat
  <2> QED BY <1>3, <2>1 DEF Queued
<1>5. out \in Nat /\ outstanding[b] + out <= MaxOutstanding[b]
  <2>1. outstanding[b] <= MaxOutstanding[b]
    BY <1>0 DEF Limits
  <2>2. MaxOutstanding[b] - outstanding[b] \in Nat
    BY <1>1, <2>1
  <2>3. Len(queue) \in Nat
    BY <1>4, SeqLen
  <2>4. out \in Nat /\ out <= MaxOutstanding[b] - outstanding[b]
    BY ZenonT(60), <2>2, <2>3, LeastOf
  <2> HIDE DEF out
  <2> QED BY <1>1, <2>4
<1>o. out <= Len(queue)
  <2>1. outstanding[b] <= MaxOutstanding[b]
    BY <1>0 DEF Limits
  <2>2. MaxOutstanding[b] - outstanding[b] \in Nat
    BY <1>1, <2>1
  <2>3. Len(queue) \in Nat
    BY <1>4, SeqLen
  <2> QED BY ZenonT(60), <2>2, <2>3, LeastOf
<1>6. /\ turn \in Seq(Items) /\ Len(turn) = out
      /\ SubSeq(queue, out + 1, Len(queue)) \in Seq(Items)
      /\ Len(SubSeq(queue, out + 1, Len(queue))) = Len(queue) - out
  <2> HIDE DEF out, queue
  <2> QED BY SMTT(60), <1>4, <1>5, <1>o, Cut
<1>7. movedUp \in SUBSET Items /\ movedOn \in SUBSET Items
  BY ZenonT(60), <1>3, <1>6, SeqLen
<1>8. /\ started[b] /\ toSpawn[b] > 0
      /\ toSpawn' = [toSpawn EXCEPT ![b] = @ - 1]
      /\ overflow' = [overflow EXCEPT ![b] = SubSeq(overflow[b], up + 1, Len(overflow[b]))]
      /\ from' = [x \in Items |-> IF x \in movedUp THEN NoQueue ELSE from[x]]
      /\ toRelease' = [a \in Queues |->
                         toRelease[a] + Cardinality({x \in movedUp : from[x] = a})]
      /\ workq' = [workq EXCEPT ![b] = SubSeq(queue, out + 1, Len(queue))]
      /\ outstanding' = [outstanding EXCEPT ![b] = @ + out]
      /\ active' = [active EXCEPT ![b] = @ \cup movedOn]
      /\ source' = [x \in Items |-> IF x \in movedOn THEN NoQueue ELSE source[x]]
      /\ ahead' = [x \in Items |-> IF x \in movedOn THEN {} ELSE ahead[x] \ movedOn]
      /\ UNCHANGED <<fresh, timer, resv, ctx, reserved, started>>
  BY DEF Spawn
<1> HIDE DEF up, first, movedUp, queue, out, turn, movedOn
<1>9. ASSUME NEW a \in Queues
      PROVE  /\ Cardinality({x \in movedUp : from[x] = a}) \in Nat
             /\ Cardinality(Naming(from', a)) \in Nat
             /\ Cardinality(Naming(from', a)) + Cardinality({x \in movedUp : from[x] = a})
                  = Cardinality(Naming(from, a))
  BY ZenonT(60), <1>0, <1>7, <1>8, MovedUpOwners
<1>10. TypeOK'
  <2>1. toRelease' \in [Queues -> Nat]
    <3>1. ASSUME NEW a \in Queues
          PROVE  toRelease[a] + Cardinality({x \in movedUp : from[x] = a}) \in Nat
      <4>1. toRelease[a] \in Nat /\ Cardinality({x \in movedUp : from[x] = a}) \in Nat
        BY ZenonT(60), <1>0, <1>9, Counts
      <4> QED BY <4>1
    <3> QED BY <1>8, <3>1
  <2>2. /\ from' \in [Items -> SomeQueue] /\ source' \in [Items -> SomeQueue]
        /\ ahead' \in [Items -> SUBSET Items]
    BY <1>0, <1>7, <1>8 DEF TypeOK, SomeQueue
  <2>3. /\ workq' \in [Queues -> Seq(Items)] /\ overflow' \in [Queues -> Seq(Items)]
    BY ZenonT(60), <1>0, <1>3, <1>6, <1>8 DEF TypeOK
  <2>4. /\ outstanding' \in [Queues -> Nat] /\ toSpawn' \in [Queues -> Nat]
        /\ active' \in [Queues -> SUBSET Items]
    BY SMTT(60), <1>0, <1>5, <1>7, <1>8 DEF TypeOK
  <2> QED BY ZenonT(60), <1>0, <1>8, <2>1, <2>2, <2>3, <2>4 DEF TypeOK
<1>11. ASSUME NEW q \in Queues PROVE Owned(q)' /\ Limits(q)'
  <2>1. /\ reserved'[q] = reserved[q] /\ Holders(q)' = Holders(q) /\ InCtx(q)' = InCtx(q)
        /\ Naming(from, q)' = Naming(from', q)
    BY SMTT(60), <1>8 DEF Holders, Naming, InCtx
  <2>2. /\ outstanding[q] \in Nat /\ reserved[q] \in Nat /\ toRelease[q] \in Nat
        /\ Queued(q) \in Nat /\ Holders(q) \in Nat /\ Size(q) \in Nat
        /\ Cardinality(active[q]) \in Nat
        /\ Cardinality(Naming(from, q)) \in Nat /\ Cardinality(InCtx(q)) \in Nat
        /\ toRelease'[q] \in Nat /\ Cardinality(active'[q]) \in Nat
        /\ Cardinality(Naming(from', q)) \in Nat
    BY SMTT(60), <1>0, <1>10, Counts, CountsNext, OwnersNat, Sums
  <2>3. toRelease'[q] + Cardinality(Naming(from', q)) = toRelease[q] + Cardinality(Naming(from, q))
    <3> DEFINE c == Cardinality({x \in movedUp : from[x] = q})
    <3>1. toRelease'[q] = toRelease[q] + c
      BY <1>8
    <3>2. c \in Nat /\ Cardinality(Naming(from', q)) + c = Cardinality(Naming(from, q))
      BY <1>9
    <3> HIDE DEF c
    <3> QED BY SMTT(60), <2>2, <3>1, <3>2
  <2>4. toRelease'[q] >= toRelease[q]
    <3> DEFINE c == Cardinality({x \in movedUp : from[x] = q})
    <3>1. toRelease'[q] = toRelease[q] + c /\ c \in Nat
      BY ZenonT(60), <1>8, <1>9
    <3> HIDE DEF c
    <3> QED BY SMTT(60), <2>2, <3>1
  <2>5. CASE q = b
    <3>1. /\ outstanding'[q] = outstanding[q] + out
          /\ active'[q] = active[q] \cup movedOn
      BY <1>0, <1>8, <2>5 DEF TypeOK
    <3>2. Queued(q)' = Queued(q) + up - out
      <4>1. Queued(q)' = Len(SubSeq(queue, out + 1, Len(queue)))
        BY ZenonT(60), <1>0, <1>8, <2>5 DEF TypeOK, Queued
      <4> DEFINE n == Len(queue)
      <4>2. Queued(q)' = n - out
        BY <4>1, <1>6
      <4>3. n = Queued(q) + up
        BY <1>q, <2>5
      <4> HIDE DEF n
      <4> QED BY <1>2, <1>5, <2>2, <4>2, <4>3
    <3>3. Cardinality(active'[q]) <= Cardinality(active[q]) + out
      <4>1. active[q] \in SUBSET Items
        BY <1>0 DEF TypeOK
      <4> QED BY ZenonT(60), <3>1, <4>1, <1>6, MovedOnOwners DEF movedOn
    <3>4. Size(q)' = Size(q) + up
      <4>1. /\ outstanding'[q] + Queued(q)' = outstanding[q] + Queued(q) + up
            /\ outstanding'[q] \in Nat /\ Queued(q)' \in Int
        BY SMTT(60), <1>2, <1>5, <2>2, <3>1, <3>2
      <4>2. /\ Size(q)' = outstanding'[q] + reserved[q] + Queued(q)'
            /\ Size(q) = outstanding[q] + reserved[q] + Queued(q)
        BY SMTT(60), <2>1, SizeSum
      <4> QED BY <1>2, <2>2, <4>1, <4>2
    <3>5. \/ Size(q)' + toRelease[q] <= Size(q) + toRelease'[q]
          \/ Size(q)' <= MaxSize[q]
      <4>1. CASE up = 0
        BY SMTT(60), <2>2, <2>4, <3>4, <4>1
      <4>2. CASE up > 0
        BY SMTT(60), <1>2, <2>5, <3>4, <4>2
      <4> QED BY SMTT(60), <1>2, <4>1, <4>2
    <3>6. Owners(q)' + outstanding[q] <= Owners(q) + outstanding'[q]
      <4>1. Owners(q)' = (toRelease'[q] + Cardinality(Naming(from', q)))
                           + (Cardinality(active'[q]) + Cardinality(InCtx(q)))
        BY SMTT(60), <2>1, <2>2 DEF Owners
      <4>2. Owners(q) = (toRelease[q] + Cardinality(Naming(from, q)))
                           + (Cardinality(active[q]) + Cardinality(InCtx(q)))
        BY SMTT(60), <2>2 DEF Owners
      <4>3. Owners(q)' <= Owners(q) + out
        BY SMTT(60), <1>5, <2>2, <2>3, <3>3, <4>1, <4>2
      <4>4. Owners(q) \in Nat /\ Owners(q)' \in Nat
        BY <1>0, <1>10, Sums
      <4> QED BY SMTT(60), <1>5, <2>2, <3>1, <4>3, <4>4
    <3>7. outstanding'[q] <= MaxOutstanding[q]
      BY SMTT(60), <1>5, <2>5, <3>1
    <3> QED BY <1>10, <2>1, <2>2, <3>5, <3>6, <3>7, Kept
  <2>6. CASE q # b
    <3>1. /\ outstanding'[q] = outstanding[q] /\ Queued(q)' = Queued(q)
          /\ active'[q] = active[q]
      BY SMTT(60), <1>0, <1>8, <2>6 DEF TypeOK, Queued
    <3>2. Size(q)' + toRelease[q] <= Size(q) + toRelease'[q]
      BY SMTT(60), <2>1, <2>2, <2>4, <3>1, SizeSum
    <3>3. Owners(q)' + outstanding[q] <= Owners(q) + outstanding'[q]
      BY SMTT(60), <2>1, <2>2, <2>3, <3>1 DEF Owners
    <3>4. outstanding'[q] <= MaxOutstanding[q]
      BY <3>1 DEF QueueInv, Limits
    <3> QED BY SMTT(60), <1>10, <2>1, <2>2, <3>2, <3>3, <3>4, Kept
  <2> QED BY SMTT(60), <2>5, <2>6
<1> QED BY <1>10, <1>11 DEF QueueInv

-----------------------------------------------------------------------------
\* The queues start empty.
LEMMA InitQueueInv ==
  ASSUME Library, Init
  PROVE  QueueInv
<1>1. TypeOK
  <2>1. NoRecord \in Tally
    BY QueueAssumption DEF NoRecord, Tally
  <2> QED BY <2>1 DEF Init, TypeOK, SomeQueue
<1>2. ASSUME NEW q \in Queues PROVE Owned(q) /\ Limits(q)
  <2>1. /\ active[q] = {} /\ Naming(from, q) = {}
        /\ Naming(resv, q) = {} /\ Naming(timer, q) = {}
        /\ outstanding[q] = 0 /\ reserved[q] = 0 /\ toRelease[q] = 0
    BY SMTT(60), QueueAssumption DEF Init, Naming
  <2>a. InCtx(q) = {}
    BY SMTT(60), QueueAssumption DEF Init, InCtx, Entries, NoRecord
  <2>2. Owners(q) = 0 /\ Holders(q) = 0
    BY <2>1, <2>a DEF Owners, Holders, Library, Counting
  <2>3. Queued(q) = 0
    BY DEF Init, Queued
  <2>4. Size(q) = 0
    BY <2>1, <2>3, SizeSum
  <2>5. MaxSize[q] \in Nat /\ MaxOutstanding[q] \in Nat
    BY QueueAssumption
  <2> QED BY <2>1, <2>2, <2>4, <2>5 DEF Owned, Limits
<1> QED BY <1>1, <1>2 DEF QueueInv

\* Every step keeps the inductive invariant.
LEMMA NextQueueInv ==
  ASSUME Library, QueueInv, [Next]_vars
  PROVE  QueueInv'
<1>1. ASSUME NEW x \in Items, Unreserve(x) \/ Timeout(x) PROVE QueueInv'
  BY <1>1, UnreserveKeeps, TimeoutKeeps
<1>2. ASSUME NEW q \in Queues,
             Start(q) \/ Stop(q) \/ Release(q) \/ Spawn(q) \/ SpawnStopped(q)
      PROVE  QueueInv'
  BY SMTT(60), <1>2, StartStopKeeps, ReleaseKeeps, SpawnKeeps
<1>3. ASSUME NEW x \in Items, NEW q \in Queues,
             Enqueue(x, q) \/ Reserve(x, q) \/ Finish(x, q) \/ Reschedule(x, q) \/ Forward(x, q)
      PROVE  QueueInv'
  BY SMTT(60), <1>3, EnqueueKeeps, ReserveKeeps, FinishKeeps, RescheduleKeeps, ForwardKeeps
<1>4. ASSUME NEW x \in Items, NEW q \in Queues, NEW s \in BOOLEAN,
             \/ ReEnqueueSelf(x, q, s)
             \/ \E b \in Queues : ReEnqueue(x, q, b, s) \/ PushBack(x, q, b, s)
      PROVE  QueueInv'
  BY <1>4, ReEnqueueSelfKeeps, ReEnqueueKeeps, PushBackKeeps
<1>5. CASE UNCHANGED vars
  <2>1. TypeOK'
    BY <1>5 DEF QueueInv, TypeOK, vars, itemVars, queueVars, ghostVars
  <2>2. UNCHANGED <<from, active, timer, resv, ctx, workq, outstanding, reserved, toRelease>>
    BY SMTT(60), <1>5 DEF vars, itemVars, queueVars
  <2>3. ASSUME NEW q \in Queues PROVE Owned(q)' /\ Limits(q)'
    BY ZenonT(60), <2>2 DEF QueueInv, Owned, Limits, Owners, Holders, Size, Naming, InCtx
  <2> QED BY SMTT(60), <2>1, <2>3 DEF QueueInv
<1> QED BY SMTT(60), <1>1, <1>2, <1>3, <1>4, <1>5 DEF Next

\* The invariant implies what the asserts say.
LEMMA QueueInvAsserts ==
  ASSUME Library, QueueInv
  PROVE  AssertsHold
<1> SUFFICES ASSUME NEW q \in Queues
             PROVE  /\ outstanding[q] <= MaxOutstanding[q]
                    /\ Size(q) <= MaxSize[q] + outstanding[q]
                    /\ toRelease[q] > 0 => outstanding[q] > 0
                    /\ (\E x \in Items : q \in {resv[x], timer[x]}) => reserved[q] > 0
                    /\ active[q] # {} => outstanding[q] > 0
  BY DEF AssertsHold
<1>0. TypeOK /\ Owned(q) /\ Limits(q)
  BY DEF QueueInv
<1>1. /\ outstanding[q] \in Nat /\ reserved[q] \in Nat /\ toRelease[q] \in Nat
      /\ Queued(q) \in Nat /\ MaxSize[q] \in Nat /\ MaxOutstanding[q] \in Nat
  BY <1>0, Counts
<1>2. /\ Cardinality(active[q]) \in Nat
      /\ Cardinality(Naming(from, q)) \in Nat /\ Cardinality(InCtx(q)) \in Nat
      /\ Cardinality(Naming(resv, q)) \in Nat /\ Cardinality(Naming(timer, q)) \in Nat
  BY <1>0, OwnersNat
<1>3. /\ toRelease[q] <= outstanding[q] /\ Cardinality(active[q]) <= outstanding[q]
  BY <1>0, <1>1, <1>2 DEF Owned, Owners
<1>4. /\ Cardinality(Naming(resv, q)) <= reserved[q]
      /\ Cardinality(Naming(timer, q)) <= reserved[q]
  BY SMTT(60), <1>0, <1>1, <1>2 DEF Owned, Holders
<1>5. Size(q) <= MaxSize[q] + outstanding[q]
  <2>1. Size(q) <= MaxSize[q] + toRelease[q] /\ Size(q) \in Nat
    BY <1>0, <1>1, SizeSum DEF Limits
  <2> QED BY <1>1, <1>3, <2>1
<1>6. ASSUME active[q] # {} PROVE outstanding[q] > 0
  <2>1. PICK x \in active[q] : TRUE
    BY <1>6
  <2>2. active[q] \in SUBSET Items
    BY <1>0 DEF TypeOK
  <2>3. Cardinality(active[q]) > 0
    BY ZenonT(60), <2>1, <2>2, CardRemove
  <2> QED BY <1>1, <1>2, <1>3, <2>3
<1>7. ASSUME NEW x \in Items, q \in {resv[x], timer[x]} PROVE reserved[q] > 0
  <2>1. CASE resv[x] = q
    <3>1. Naming(resv, q) \in SUBSET Items /\ x \in Naming(resv, q)
      BY <2>1 DEF Naming
    <3>2. Cardinality(Naming(resv, q)) > 0
      BY ZenonT(60), <3>1, CardRemove
    <3> QED BY <1>1, <1>2, <1>4, <3>2
  <2>2. CASE timer[x] = q
    <3>1. Naming(timer, q) \in SUBSET Items /\ x \in Naming(timer, q)
      BY <2>2 DEF Naming
    <3>2. Cardinality(Naming(timer, q)) > 0
      BY ZenonT(60), <3>1, CardRemove
    <3> QED BY <1>1, <1>2, <1>4, <3>2
  <2> QED BY <1>7, <2>1, <2>2
<1>8. toRelease[q] > 0 => outstanding[q] > 0
  BY <1>1, <1>3
<1>9. outstanding[q] <= MaxOutstanding[q]
  BY <1>0 DEF Limits
<1> QED BY <1>5, <1>6, <1>7, <1>8, <1>9

=============================================================================
