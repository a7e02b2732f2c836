-------------------------- MODULE WorkQueue_owners --------------------------
(***************************************************************************)
(* The inductive invariant behind the asserts of WorkQueue, for any number *)
(* of queues and items. The asserts are not inductive: what makes them     *)
(* hold is that every unit of _outstanding and of _reserved has an owner   *)
(* (Owned), and that a queue is over its limit only by items that are      *)
(* about to be released (Limits).                                          *)
(***************************************************************************)
EXTENDS WorkQueue, TLAPS

\* The items for which f names queue q
Naming(f, q) == {x \in Items : f[x] = q}

\* One member for each entry of queue q in the contexts c
Entries(c, q) == {e \in Items \X (1 .. MaxRecords) : e[2] <= c[e[1]][q]}
InCtx(q) == Entries(ctx, q)

\* The contexts c after record() of queue a in that of x
Recording(c, x, a) == [c EXCEPT ![x][a] = @ + 1]

Queued(q) == Len(workq[q])

\* The owners of the units of _outstanding, and those of _reserved
Owners(q) ==
  Cardinality(active[q]) + toRelease[q] + Cardinality(Naming(from, q)) + Cardinality(InCtx(q))
Holders(q) == Cardinality(Naming(resv, q)) + Cardinality(Naming(timer, q))

Owned(q) == outstanding[q] >= Owners(q) /\ reserved[q] >= Holders(q)

Limits(q) ==
  /\ outstanding[q] <= MaxOutstanding[q]
  /\ Size(q) <= MaxSize[q] + toRelease[q]

\* The inductive invariant
QueueInv == TypeOK /\ \A q \in Queues : Owned(q) /\ Limits(q)

-----------------------------------------------------------------------------
\* What the lemmas use of finite sets and of sequences of items (see
\* WorkQueue_theorems for its proof from the library)
Counting ==
  /\ \A S \in SUBSET Items : Cardinality(S) \in Nat
  /\ \A S \in SUBSET Items : \A x \in S :
       Cardinality(S \ {x}) = Cardinality(S) - 1 /\ Cardinality(S) > 0
  /\ \A S \in SUBSET Items : \A x \in Items :
       Cardinality(S \cup {x}) <= Cardinality(S) + 1
  /\ \A S \in SUBSET Items : \A T \in SUBSET S : Cardinality(T) <= Cardinality(S)
  /\ \A S, T \in SUBSET Items :
       Cardinality(S \ T) + Cardinality(S \cap T) = Cardinality(S)
  /\ Cardinality({}) = 0
  /\ \A S \in SUBSET Items : \A s \in Seq(Items) :
       /\ Elements(s) \in SUBSET Items
       /\ Cardinality(S \cup Elements(s)) <= Cardinality(S) + Len(s)

Cutting ==
  /\ \A s \in Seq(Items) : Len(s) \in Nat
  /\ \A s \in Seq(Items) : \A x \in Items :
       Append(s, x) \in Seq(Items) /\ Len(Append(s, x)) = Len(s) + 1
  /\ \A s, t \in Seq(Items) :
       s \o t \in Seq(Items) /\ Len(s \o t) = Len(s) + Len(t)
  /\ \A s \in Seq(Items) : \A n \in Nat : n <= Len(s) =>
       /\ SubSeq(s, 1, n) \in Seq(Items) /\ Len(SubSeq(s, 1, n)) = n
       /\ SubSeq(s, n + 1, Len(s)) \in Seq(Items)
       /\ Len(SubSeq(s, n + 1, Len(s))) = Len(s) - n

Tallying ==
  \A c \in [Items -> Tally] : \A q \in Queues :
    /\ Cardinality(Entries(c, q)) \in Nat
    /\ \A x \in Items :
         Cardinality(Entries([c EXCEPT ![x] = NoRecord], q)) = Cardinality(Entries(c, q)) - c[x][q]
    /\ \A x \in Items, a \in Queues : c[x][a] < MaxRecords =>
         Cardinality(Entries(Recording(c, x, a), q))
           = Cardinality(Entries(c, q)) + IF q = a THEN 1 ELSE 0

Library == Counting /\ Cutting /\ Tallying

\* Sets of items can be counted.
LEMMA CardNat ==
  ASSUME Library, NEW S \in SUBSET Items
  PROVE  Cardinality(S) \in Nat
BY DEF Library, Counting

\* One item less
LEMMA CardRemove ==
  ASSUME Library, NEW S \in SUBSET Items, NEW x \in S
  PROVE  Cardinality(S \ {x}) = Cardinality(S) - 1 /\ Cardinality(S) > 0
BY ZenonT(60) DEF Library, Counting

\* At most one item more
LEMMA CardAdd ==
  ASSUME Library, NEW S \in SUBSET Items, NEW x \in Items
  PROVE  Cardinality(S \cup {x}) <= Cardinality(S) + 1
BY ZenonT(60) DEF Library, Counting

\* A subset has no more items.
LEMMA CardMono ==
  ASSUME Library, NEW S \in SUBSET Items, NEW T \in SUBSET S
  PROVE  Cardinality(T) <= Cardinality(S)
BY DEF Library, Counting

\* Sequences of items
LEMMA SeqLen ==
  ASSUME Library, NEW s \in Seq(Items)
  PROVE  Len(s) \in Nat /\ Elements(s) \in SUBSET Items
<1>1. {} \in SUBSET Items
  OBVIOUS
<1> QED BY ZenonT(60), <1>1 DEF Library, Counting, Cutting

\* One more item
LEMMA SeqAppend ==
  ASSUME Library, NEW s \in Seq(Items), NEW x \in Items
  PROVE  Append(s, x) \in Seq(Items) /\ Len(Append(s, x)) = Len(s) + 1
BY DEF Library, Cutting

\* Two sequences in a row
LEMMA SeqConcat ==
  ASSUME Library, NEW s \in Seq(Items), NEW t \in Seq(Items)
  PROVE  s \o t \in Seq(Items) /\ Len(s \o t) = Len(s) + Len(t)
BY DEF Library, Cutting

\* Setting one field to v adds at most one owner to v and none to other queues.
LEMMA NamingSet ==
  ASSUME Library, NEW f \in [Items -> SomeQueue], NEW x \in Items, NEW v \in SomeQueue,
         NEW q \in Queues
  PROVE  /\ q = v => Cardinality(Naming([f EXCEPT ![x] = v], q)) <= Cardinality(Naming(f, q)) + 1
         /\ q # v => Cardinality(Naming([f EXCEPT ![x] = v], q)) <= Cardinality(Naming(f, q))
<1>0. Naming(f, q) \in SUBSET Items /\ Naming([f EXCEPT ![x] = v], q) \in SUBSET Items
  BY DEF Naming
<1>1. CASE v = q
  <2>1. Naming([f EXCEPT ![x] = v], q) \in SUBSET (Naming(f, q) \cup {x})
    BY DEF Naming
  <2>2. Naming(f, q) \cup {x} \in SUBSET Items
    BY <1>0
  <2>3. Cardinality(Naming([f EXCEPT ![x] = v], q)) <= Cardinality(Naming(f, q) \cup {x})
    BY <2>1, <2>2, CardMono, Zenon
  <2>4. Cardinality(Naming(f, q) \cup {x}) <= Cardinality(Naming(f, q)) + 1
    BY <1>0, CardAdd
  <2>5. /\ Cardinality(Naming(f, q)) \in Nat
        /\ Cardinality(Naming(f, q) \cup {x}) \in Nat
        /\ Cardinality(Naming([f EXCEPT ![x] = v], q)) \in Nat
    BY ZenonT(60), <1>0, <2>2, CardNat
  <2> QED BY <2>3, <2>4, <2>5, <1>1
<1>2. CASE v # q
  <2>1. Naming([f EXCEPT ![x] = v], q) \in SUBSET Naming(f, q)
    BY <1>2 DEF Naming
  <2>2. Cardinality(Naming([f EXCEPT ![x] = v], q)) <= Cardinality(Naming(f, q))
    BY <1>0, <2>1, CardMono, Zenon
  <2>3. /\ Cardinality(Naming(f, q)) \in Nat
        /\ Cardinality(Naming([f EXCEPT ![x] = v], q)) \in Nat
    BY ZenonT(60), <1>0, CardNat
  <2> QED BY <2>2, <2>3, <1>2
<1> QED BY <1>1, <1>2

\* Clearing the field that names q takes that owner away.
LEMMA NamingClear ==
  ASSUME Library, NEW f \in [Items -> SomeQueue], NEW x \in Items, NEW q \in Queues, f[x] = q
  PROVE  /\ Cardinality(Naming([f EXCEPT ![x] = NoQueue], q)) = Cardinality(Naming(f, q)) - 1
         /\ Cardinality(Naming(f, q)) > 0
<1>1. Naming([f EXCEPT ![x] = NoQueue], q) = Naming(f, q) \ {x}
  BY QueueAssumption DEF Naming
<1>2. Naming(f, q) \in SUBSET Items /\ x \in Naming(f, q)
  BY DEF Naming
<1> QED BY <1>1, <1>2, CardRemove, Zenon

\* The owners of a queue can be counted.
LEMMA OwnersNat ==
  ASSUME Library, TypeOK, NEW q \in Queues
  PROVE  /\ Cardinality(active[q]) \in Nat
         /\ Cardinality(Naming(from, q)) \in Nat /\ Cardinality(InCtx(q)) \in Nat
         /\ Cardinality(Naming(resv, q)) \in Nat /\ Cardinality(Naming(timer, q)) \in Nat
<1>1. /\ active[q] \in SUBSET Items
      /\ Naming(from, q) \in SUBSET Items /\ Naming(resv, q) \in SUBSET Items
      /\ Naming(timer, q) \in SUBSET Items
  BY DEF TypeOK, Naming
<1>2. Cardinality(InCtx(q)) \in Nat
  BY ZenonT(60) DEF TypeOK, InCtx, Library, Tallying
<1> QED BY <1>1, <1>2, CardNat

\* A tally is a number for each queue.
LEMMA TallyNat ==
  ASSUME TypeOK, NEW x \in Items, NEW q \in Queues
  PROVE  ctx[x] \in Tally /\ ctx[x][q] \in Nat
BY SMTT(60), QueueAssumption DEF TypeOK, Tally

\* The context of x is destroyed: its entries are gone.
LEMMA CtxDropped ==
  ASSUME Library, TypeOK, NEW x \in Items, NEW q \in Queues, ctx' = [ctx EXCEPT ![x] = NoRecord]
  PROVE  /\ ctx' \in [Items -> Tally]
         /\ Cardinality(InCtx(q)') = Cardinality(InCtx(q)) - ctx[x][q]
         /\ Cardinality(InCtx(q)') \in Nat
<1>1. ctx \in [Items -> Tally]
  BY DEF TypeOK
<1>2. NoRecord \in Tally
  BY QueueAssumption DEF NoRecord, Tally
<1>3. ctx' \in [Items -> Tally]
  BY <1>1, <1>2
<1>4. InCtx(q)' = Entries(ctx', q)
  BY DEF InCtx, Entries
<1> QED BY ZenonT(60), <1>1, <1>3, <1>4 DEF InCtx, Library, Tallying

\* Queue a is recorded in the context of x.
LEMMA CtxRecorded ==
  ASSUME Library, TypeOK, NEW x \in Items, NEW a \in Queues, NEW q \in Queues, Record(x, a)
  PROVE  /\ ctx' \in [Items -> Tally]
         /\ Cardinality(InCtx(q)') = Cardinality(InCtx(q)) + IF q = a THEN 1 ELSE 0
         /\ Cardinality(InCtx(q)') \in Nat
<1>1. ctx \in [Items -> Tally]
  BY DEF TypeOK
<1>2. /\ ctx[x][a] < MaxRecords
      /\ ctx' = Recording(ctx, x, a)
  BY DEF Record, Recording
<1>3. ctx[x] \in Tally /\ ctx[x][a] \in Nat
  BY TallyNat
<1> DEFINE t == [ctx[x] EXCEPT ![a] = ctx[x][a] + 1]
<1>a. t \in Tally
  BY SMTT(60), <1>2, <1>3, QueueAssumption DEF Tally
<1>b. ctx' = [ctx EXCEPT ![x] = t]
  BY <1>2 DEF Recording
<1> HIDE DEF t
<1>4. ctx' \in [Items -> Tally]
  BY <1>1, <1>a, <1>b
<1>5. InCtx(q)' = Entries(ctx', q)
  BY DEF InCtx, Entries
<1> QED BY ZenonT(60), <1>1, <1>2, <1>4, <1>5 DEF InCtx, Library, Tallying

\* Item x is taken off queue a.
LEMMA ActiveLeft ==
  ASSUME Library, TypeOK, NEW a \in Queues, NEW x \in active[a], NEW q \in Queues,
         active' = [active EXCEPT ![a] = @ \ {x}]
  PROVE  /\ Cardinality(active'[q]) = Cardinality(active[q]) - IF q = a THEN 1 ELSE 0
         /\ Cardinality(active'[q]) \in Nat
<1>0. active[q] \in SUBSET Items /\ active'[q] \in SUBSET Items
  BY SMTT(60) DEF TypeOK
<1>1. Cardinality(active[q]) \in Nat /\ Cardinality(active'[q]) \in Nat
  BY <1>0, CardNat
<1>2. CASE q = a
  <2>1. active'[q] = active[q] \ {x} /\ x \in active[q]
    BY <1>2 DEF TypeOK
  <2>2. Cardinality(active[q] \ {x}) = Cardinality(active[q]) - 1
    BY <1>0, <2>1, CardRemove
  <2> QED BY <2>1, <2>2, <1>1, <1>2
<1>3. CASE q # a
  BY <1>1, <1>3 DEF TypeOK
<1> QED BY <1>2, <1>3

\* What Due adds
LEMMA DueOnce ==
  ASSUME NEW f \in [Queues -> Nat], NEW S \in SUBSET Queues, NEW q \in Queues
  PROVE  /\ Due(f, S) \in [Queues -> Nat]
         /\ Due(f, S)[q] = f[q] + IF q \in S THEN 1 ELSE 0
BY DEF Due

\* What DueEach adds
LEMMA DueTally ==
  ASSUME NEW f \in [Queues -> Nat], NEW n \in [Queues -> Nat], NEW q \in Queues
  PROVE  /\ DueEach(f, n) \in [Queues -> Nat]
         /\ DueEach(f, n)[q] = f[q] + n[q]
BY DEF DueEach

\* Leave keeps the count of owners of every queue.
LEMMA LeaveKeeps ==
  ASSUME Library, TypeOK, NEW a \in Queues, NEW x \in active[a], NEW kept \in BOOLEAN, NEW q \in Queues,
         Leave(x, a, kept)
  PROVE  /\ active' \in [Queues -> SUBSET Items] /\ ctx' \in [Items -> Tally]
         /\ toRelease' \in [Queues -> Nat]
         /\ toRelease'[q] >= toRelease[q] + IF q = a THEN 1 ELSE 0
         /\ Cardinality(active'[q]) \in Nat /\ Cardinality(InCtx(q)') \in Nat
         /\ Cardinality(active'[q]) + toRelease'[q] + Cardinality(InCtx(q)')
              = Cardinality(active[q]) + toRelease[q] + Cardinality(InCtx(q))
<1> DEFINE n == IF kept THEN NoRecord ELSE ctx[x]
<1>0. x \in Items /\ ctx[x] \in Tally /\ ctx[x][q] \in Nat
  BY TallyNat DEF TypeOK
<1>a. n \in [Queues -> Nat] /\ n[q] = IF kept THEN 0 ELSE ctx[x][q]
  BY SMTT(60), <1>0, QueueAssumption DEF NoRecord, Tally
<1>1. active' \in [Queues -> SUBSET Items]
  BY SMTT(60), <1>0 DEF Leave, TypeOK
<1>2. /\ Cardinality(active'[q]) = Cardinality(active[q]) - IF q = a THEN 1 ELSE 0
      /\ Cardinality(active'[q]) \in Nat
  <2>1. active' = [active EXCEPT ![a] = @ \ {x}]
    BY DEF Leave
  <2> QED BY <2>1, ActiveLeft, Zenon
<1>3. /\ ctx' \in [Items -> Tally]
      /\ Cardinality(InCtx(q)') = Cardinality(InCtx(q)) - n[q]
      /\ Cardinality(InCtx(q)') \in Nat
  <2>1. CASE kept
    <3>1. InCtx(q)' = InCtx(q) /\ ctx' \in [Items -> Tally]
      BY <2>1 DEF Leave, InCtx, Entries, TypeOK
    <3> QED BY <1>a, <3>1, <2>1, OwnersNat
  <2>2. CASE ~kept
    <3>1. ctx' = [ctx EXCEPT ![x] = NoRecord]
      BY <2>2 DEF Leave
    <3>2. n[q] = ctx[x][q]
      BY <1>a, <2>2
    <3> HIDE DEF n
    <3> QED BY ZenonT(60), <3>1, <3>2, <1>0, CtxDropped
  <2> QED BY <2>1, <2>2
<1>4. /\ toRelease' \in [Queues -> Nat]
      /\ toRelease'[q] = toRelease[q] + (IF q = a THEN 1 ELSE 0) + n[q]
  <2>1. toRelease \in [Queues -> Nat]
    BY DEF TypeOK
  <2>2. /\ Due(toRelease, {a}) \in [Queues -> Nat]
        /\ Due(toRelease, {a})[q] = toRelease[q] + IF q = a THEN 1 ELSE 0
    BY <2>1, DueOnce
  <2>4. toRelease' = DueEach(Due(toRelease, {a}), n)
    BY DEF Leave
  <2> HIDE DEF n
  <2>5. /\ toRelease' \in [Queues -> Nat]
        /\ toRelease'[q] = Due(toRelease, {a})[q] + n[q]
    BY <1>a, <2>2, <2>4, DueTally, Zenon
  <2> QED BY <2>1, <2>2, <2>5
<1>b. n[q] \in Nat
  BY <1>a
<1> HIDE DEF n
<1>5. Cardinality(active[q]) \in Nat /\ Cardinality(InCtx(q)) \in Nat /\ toRelease[q] \in Nat
  <2>1. Cardinality(active[q]) \in Nat /\ Cardinality(InCtx(q)) \in Nat
    BY OwnersNat, Zenon
  <2> QED BY <2>1 DEF TypeOK
<1> QED BY SMTT(60), <1>1, <1>2, <1>3, <1>4, <1>5, <1>b

\* The counters of a queue are numbers.
LEMMA Counts ==
  ASSUME Library, TypeOK, NEW q \in Queues
  PROVE  /\ outstanding[q] \in Nat /\ reserved[q] \in Nat /\ toRelease[q] \in Nat
         /\ workq[q] \in Seq(Items) /\ Queued(q) \in Nat
         /\ overflow[q] \in Seq(Items) /\ Len(overflow[q]) \in Nat
         /\ MaxSize[q] \in Nat /\ MaxOutstanding[q] \in Nat
BY QueueAssumption, SeqLen DEF TypeOK, Queued

\* The sum that Size stands for, before and after a step
LEMMA SizeSum ==
  ASSUME NEW q \in Queues
  PROVE  /\ Size(q) = outstanding[q] + reserved[q] + Queued(q)
         /\ Size(q)' = outstanding'[q] + reserved'[q] + Queued(q)'
BY DEF Size, Queued

\* What Push adds
LEMMA PushOnce ==
  ASSUME Library, TypeOK, NEW x \in Items, NEW b \in Queues, NEW q \in Queues, Push(x, b)
  PROVE  /\ workq' \in [Queues -> Seq(Items)]
         /\ q = b => Queued(q)' = Queued(q) + 1
         /\ q # b => Queued(q)' = Queued(q)
<1>1. workq[q] \in Seq(Items) /\ workq[b] \in Seq(Items)
  BY DEF TypeOK
<1>2. /\ Append(workq[b], x) \in Seq(Items)
      /\ Len(Append(workq[b], x)) = Len(workq[b]) + 1
  BY <1>1, SeqAppend
<1>3. workq' = [workq EXCEPT ![b] = Append(workq[b], x)]
  BY DEF Push
<1> QED BY SMTT(60), <1>1, <1>2, <1>3 DEF TypeOK, Queued

\* Calls of spawn() are counted.
LEMMA CallSpawnType ==
  ASSUME Library, TypeOK, NEW b \in Queues, CallSpawn(b)
  PROVE  toSpawn' \in [Queues -> Nat]
<1>1. toSpawn \in [Queues -> Nat] /\ toSpawn' = Due(toSpawn, {b})
  BY DEF TypeOK, CallSpawn
<1> QED BY <1>1, DueOnce

\* The counters after the step are numbers, too.
LEMMA CountsNext ==
  ASSUME Library, TypeOK', NEW q \in Queues
  PROVE  /\ outstanding'[q] \in Nat /\ reserved'[q] \in Nat /\ toRelease'[q] \in Nat
         /\ Queued(q)' \in Nat
         /\ Cardinality(active'[q]) \in Nat
         /\ Cardinality(Naming(from', q)) \in Nat /\ Cardinality(InCtx(q)') \in Nat
         /\ Cardinality(Naming(resv', q)) \in Nat /\ Cardinality(Naming(timer', q)) \in Nat
<1>1. /\ active'[q] \in SUBSET Items
      /\ Naming(from', q) \in SUBSET Items /\ Naming(resv', q) \in SUBSET Items
      /\ Naming(timer', q) \in SUBSET Items
  BY DEF TypeOK, Naming
<1>a. Cardinality(InCtx(q)') \in Nat
  <2>1. InCtx(q)' = Entries(ctx', q) /\ ctx' \in [Items -> Tally]
    BY DEF TypeOK, InCtx, Entries, Tally
  <2> QED BY ZenonT(60), <2>1 DEF Library, Tallying
<1>2. /\ outstanding'[q] \in Nat /\ reserved'[q] \in Nat /\ toRelease'[q] \in Nat
      /\ workq'[q] \in Seq(Items)
  BY DEF TypeOK
<1> QED BY <1>1, <1>a, <1>2, CardNat, SeqLen DEF Queued

\* The same of the sums
LEMMA Sums ==
  ASSUME Library, TypeOK, TypeOK', NEW q \in Queues
  PROVE  /\ Owners(q) \in Nat /\ Holders(q) \in Nat /\ Size(q) \in Nat
         /\ Owners(q)' \in Nat /\ Holders(q)' \in Nat /\ Size(q)' \in Nat
<1>1. /\ outstanding[q] \in Nat /\ reserved[q] \in Nat /\ toRelease[q] \in Nat
      /\ Queued(q) \in Nat
  BY Counts
<1>2. /\ outstanding'[q] \in Nat /\ reserved'[q] \in Nat /\ toRelease'[q] \in Nat
      /\ Queued(q)' \in Nat
  BY CountsNext
<1>3. /\ Cardinality(active[q]) \in Nat
      /\ Cardinality(Naming(from, q)) \in Nat /\ Cardinality(InCtx(q)) \in Nat
      /\ Cardinality(Naming(resv, q)) \in Nat /\ Cardinality(Naming(timer, q)) \in Nat
  BY OwnersNat
<1>4. /\ Cardinality(active'[q]) \in Nat
      /\ Cardinality(Naming(from', q)) \in Nat /\ Cardinality(InCtx(q)') \in Nat
      /\ Cardinality(Naming(resv', q)) \in Nat /\ Cardinality(Naming(timer', q)) \in Nat
  BY CountsNext
<1>5. /\ Naming(from, q)' = Naming(from', q) /\ Naming(resv, q)' = Naming(resv', q)
      /\ Naming(timer, q)' = Naming(timer', q)
  BY DEF Naming
<1>6. Owners(q) \in Nat
  BY <1>1, <1>3 DEF Owners
<1>7. Owners(q)' \in Nat
  BY <1>2, <1>4, <1>5 DEF Owners
<1>8. Holders(q) \in Nat /\ Holders(q)' \in Nat
  BY <1>3, <1>4, <1>5 DEF Holders
<1>9. Size(q) \in Nat
  BY <1>1, SizeSum
<1>10. Size(q)' \in Nat
  BY <1>2, SizeSum
<1> QED BY <1>6, <1>7, <1>8, <1>9, <1>10

\* What an action has to show: it takes room that is there or that is about to be
\* released, and adds no owner without counting it.
LEMMA Kept ==
  ASSUME Library, QueueInv, TypeOK', NEW q \in Queues,
         outstanding'[q] <= MaxOutstanding[q],
         \/ Size(q)' + toRelease[q] <= Size(q) + toRelease'[q]
         \/ Size(q)' <= MaxSize[q],
         Owners(q)' + outstanding[q] <= Owners(q) + outstanding'[q],
         Holders(q)' + reserved[q] <= Holders(q) + reserved'[q]
  PROVE  Owned(q)' /\ Limits(q)'
<1>0. TypeOK
  BY DEF QueueInv
<1>1. /\ outstanding[q] \in Nat /\ reserved[q] \in Nat /\ toRelease[q] \in Nat
      /\ MaxSize[q] \in Nat
  BY <1>0, Counts, Zenon
<1>2. /\ outstanding'[q] \in Nat /\ reserved'[q] \in Nat /\ toRelease'[q] \in Nat
  BY CountsNext, Zenon
<1>3. /\ Owners(q) \in Nat /\ Holders(q) \in Nat /\ Size(q) \in Nat
      /\ Owners(q)' \in Nat /\ Holders(q)' \in Nat /\ Size(q)' \in Nat
  BY <1>0, Sums, Zenon
<1>4. /\ outstanding[q] >= Owners(q) /\ reserved[q] >= Holders(q)
      /\ Size(q) <= MaxSize[q] + toRelease[q]
  BY DEF QueueInv, Owned, Limits
<1>5. outstanding'[q] >= Owners(q)' /\ reserved'[q] >= Holders(q)'
  BY <1>1, <1>2, <1>3, <1>4
<1>6. Size(q)' <= MaxSize[q] + toRelease'[q]
  BY <1>1, <1>2, <1>3, <1>4
<1> QED BY <1>5, <1>6 DEF Owned, Limits

\* The same for an action that leaves _outstanding alone
LEMMA KeptSame ==
  ASSUME Library, QueueInv, TypeOK', NEW q \in Queues,
         outstanding'[q] = outstanding[q],
         \/ reserved'[q] + Queued(q)' + toRelease[q] <= reserved[q] + Queued(q) + toRelease'[q]
         \/ Fits(q) /\ reserved'[q] + Queued(q)' <= reserved[q] + Queued(q) + 1,
         Owners(q)' <= Owners(q),
         Holders(q)' + reserved[q] <= Holders(q) + reserved'[q]
  PROVE  Owned(q)' /\ Limits(q)'
<1>0. TypeOK
  BY DEF QueueInv
<1>1. /\ outstanding[q] \in Nat /\ reserved[q] \in Nat /\ toRelease[q] \in Nat
      /\ Queued(q) \in Nat /\ MaxSize[q] \in Nat
  BY <1>0, Counts, Zenon
<1>2. /\ reserved'[q] \in Nat /\ toRelease'[q] \in Nat /\ Queued(q)' \in Nat
  BY CountsNext, Zenon
<1>3. Owners(q) \in Nat /\ Owners(q)' \in Nat
  BY <1>0, Sums, Zenon
<1>4. outstanding'[q] <= MaxOutstanding[q]
  BY DEF QueueInv, Limits
<1>5. Owners(q)' + outstanding[q] <= Owners(q) + outstanding'[q]
  BY SMTT(60), <1>1, <1>3
<1>6. /\ Size(q) = outstanding[q] + reserved[q] + Queued(q)
      /\ Size(q)' = outstanding[q] + reserved'[q] + Queued(q)'
  BY SizeSum
<1>7. \/ Size(q)' + toRelease[q] <= Size(q) + toRelease'[q]
      \/ Size(q)' <= MaxSize[q]
  <2>1. CASE reserved'[q] + Queued(q)' + toRelease[q] <= reserved[q] + Queued(q) + toRelease'[q]
    BY SMTT(60), <1>1, <1>2, <1>6, <2>1
  <2>2. CASE Fits(q) /\ reserved'[q] + Queued(q)' <= reserved[q] + Queued(q) + 1
    <3>1. Size(q) + 1 <= MaxSize[q]
      BY SMTT(60), <2>2 DEF Fits
    <3> QED BY SMTT(60), <1>1, <1>2, <1>6, <2>2, <3>1
  <2> QED BY <2>1, <2>2
<1> QED BY <1>4, <1>5, <1>7, Kept, Zenon

\* The item leaves its queue: the release() that is due takes its place as an owner.
LEMMA LeaveOwners ==
  ASSUME Library, TypeOK, NEW a \in Queues, NEW x \in active[a], NEW kept \in BOOLEAN,
         Leave(x, a, kept), from' = from, NEW q \in Queues
  PROVE  Owners(q)' = Owners(q)
<1>1. /\ toRelease[q] \in Nat /\ Cardinality(active[q]) \in Nat
      /\ Cardinality(Naming(from, q)) \in Nat /\ Cardinality(InCtx(q)) \in Nat
  BY SMTT(60), Counts, OwnersNat
<1>2. /\ toRelease' \in [Queues -> Nat]
      /\ Cardinality(active'[q]) \in Nat /\ Cardinality(InCtx(q)') \in Nat
      /\ Cardinality(active'[q]) + toRelease'[q] + Cardinality(InCtx(q)')
              = Cardinality(active[q]) + toRelease[q] + Cardinality(InCtx(q))
  BY LeaveKeeps
<1>3. toRelease'[q] \in Nat /\ Naming(from, q)' = Naming(from, q)
  BY <1>2 DEF Naming
<1> QED BY SMTT(60), <1>1, <1>2, <1>3 DEF Owners

\* A field that names b is cleared, and _reserved of b with it.
LEMMA PlaceGone ==
  ASSUME Library, NEW f \in [Items -> SomeQueue], NEW x \in Items, NEW b \in Queues, f[x] = b,
         NEW q \in Queues
  PROVE  /\ q = b => Cardinality(Naming([f EXCEPT ![x] = NoQueue], q)) + 1
                       = Cardinality(Naming(f, q))
         /\ q # b => Cardinality(Naming([f EXCEPT ![x] = NoQueue], q))
                       <= Cardinality(Naming(f, q))
<1>1. Naming(f, q) \in SUBSET Items
  BY DEF Naming
<1>2. Cardinality(Naming(f, q)) \in Nat
  BY <1>1, CardNat
<1>3. CASE q = b
  <2>1. Cardinality(Naming([f EXCEPT ![x] = NoQueue], q)) = Cardinality(Naming(f, q)) - 1
    BY ZenonT(60), <1>3, NamingClear
  <2> QED BY <1>2, <1>3, <2>1
<1>4. CASE q # b
  <2>1. NoQueue \in SomeQueue /\ q # NoQueue
    BY QueueAssumption DEF SomeQueue
  <2> QED BY ZenonT(60), <1>4, <2>1, NamingSet
<1> QED BY <1>3, <1>4

\* A reservation is used or given back: it was counted.
LEMMA ResvGone ==
  ASSUME Library, QueueInv, NEW x \in Items, NEW b \in Queues, resv[x] = b,
         resv' = [resv EXCEPT ![x] = NoQueue], timer' = timer,
         reserved' = [reserved EXCEPT ![b] = @ - 1]
  PROVE  /\ resv' \in [Items -> SomeQueue] /\ reserved' \in [Queues -> Nat]
         /\ reserved'[b] = reserved[b] - 1
         /\ \A q \in Queues : Holders(q)' + reserved[q] <= Holders(q) + reserved'[q]
<1>0. /\ TypeOK /\ resv \in [Items -> SomeQueue] /\ NoQueue \in SomeQueue
      /\ reserved \in [Queues -> Nat]
  BY ZenonT(60) DEF QueueInv, TypeOK, SomeQueue
<1>1. ASSUME NEW q \in Queues
      PROVE  /\ Cardinality(Naming(resv, q)) \in Nat /\ Cardinality(Naming(timer, q)) \in Nat
             /\ Cardinality(Naming(resv', q)) \in Nat /\ reserved[q] \in Nat
  <2>1. Naming(resv', q) \in SUBSET Items
    BY DEF Naming
  <2> QED BY ZenonT(60), <1>0, <2>1, OwnersNat, CardNat
<1>2. ASSUME NEW q \in Queues
      PROVE  /\ q = b => Cardinality(Naming(resv', q)) + 1 = Cardinality(Naming(resv, q))
             /\ q # b => Cardinality(Naming(resv', q)) <= Cardinality(Naming(resv, q))
  BY ZenonT(60), <1>0, PlaceGone
<1>3. reserved[b] > 0
  <2>1. reserved[b] >= Holders(b)
    BY DEF QueueInv, Owned
  <2>2. Holders(b) = Cardinality(Naming(resv, b)) + Cardinality(Naming(timer, b))
    BY DEF Holders
  <2>3. Cardinality(Naming(resv', b)) + 1 = Cardinality(Naming(resv, b))
    BY ZenonT(60), <1>2
  <2> QED BY <1>1, <2>1, <2>2, <2>3
<1>4. /\ reserved' \in [Queues -> Nat] /\ reserved'[b] = reserved[b] - 1
      /\ \A q \in Queues : q # b => reserved'[q] = reserved[q]
  BY <1>0, <1>3
<1>5. ASSUME NEW q \in Queues
      PROVE  Holders(q)' + reserved[q] <= Holders(q) + reserved'[q]
  <2>1. /\ Holders(q)' = Cardinality(Naming(resv', q)) + Cardinality(Naming(timer', q))
        /\ Holders(q) = Cardinality(Naming(resv, q)) + Cardinality(Naming(timer, q))
        /\ Naming(timer', q) = Naming(timer, q)
    BY DEF Holders, Naming
  <2>2. /\ Cardinality(Naming(resv, q)) \in Nat /\ Cardinality(Naming(timer, q)) \in Nat
        /\ Cardinality(Naming(resv', q)) \in Nat /\ reserved[q] \in Nat
    BY ZenonT(60), <1>1
  <2>3. CASE q = b
    <3>1. /\ Cardinality(Naming(resv', q)) + 1 = Cardinality(Naming(resv, q))
          /\ reserved'[q] = reserved[q] - 1
      BY ZenonT(60), <1>2, <1>4, <2>3
    <3> QED BY <2>1, <2>2, <3>1
  <2>4. CASE q # b
    <3>1. /\ Cardinality(Naming(resv', q)) <= Cardinality(Naming(resv, q))
          /\ reserved'[q] = reserved[q]
      BY ZenonT(60), <1>2, <1>4, <2>4
    <3> QED BY <2>1, <2>2, <3>1
  <2> QED BY <2>3, <2>4
<1>6. resv' \in [Items -> SomeQueue]
  BY <1>0
<1> QED BY SMTT(60), <1>4, <1>5, <1>6

=============================================================================
