------------------------- MODULE WorkQueue_theorems -------------------------
(***************************************************************************)
(* The facts of finite sets and sequences that WorkQueue_owners rests on,  *)
(* from the library, and the theorems about WorkQueue.                     *)
(***************************************************************************)
EXTENDS WorkQueue_spawn, FiniteSetTheorems, SequenceTheorems

\* Sets of items are finite.
LEMMA FiniteItems ==
  ASSUME NEW S \in SUBSET Items
  PROVE  IsFiniteSet(S) /\ Cardinality(S) \in Nat
BY SMTT(60), FS_Subset, FS_CardinalityType, QueueAssumption

\* Removing an item from a set that has it
LEMMA OneLess ==
  ASSUME NEW S \in SUBSET Items, NEW x \in S
  PROVE  Cardinality(S \ {x}) = Cardinality(S) - 1 /\ Cardinality(S) > 0
<1>1. IsFiniteSet(S) /\ Cardinality(S) \in Nat
  BY SMTT(60), FiniteItems
<1>2. Cardinality(S \ {x}) = Cardinality(S) - 1 /\ S \ {x} \in SUBSET Items
  BY ZenonT(60), <1>1, FS_RemoveElement
<1>3. Cardinality(S \ {x}) \in Nat
  BY <1>2, FiniteItems
<1> QED BY SMTT(60), <1>1, <1>2, <1>3

\* A set in two parts
LEMMA TwoParts ==
  ASSUME NEW S \in SUBSET Items, NEW T \in SUBSET Items
  PROVE  Cardinality(S \ T) + Cardinality(S \cap T) = Cardinality(S)
<1>1. IsFiniteSet(S) /\ Cardinality(S) \in Nat
  BY FiniteItems
<1>2. S \ T \in SUBSET Items /\ S \cap T \in SUBSET Items
  OBVIOUS
<1>3. Cardinality(S \ T) \in Nat /\ Cardinality(S \cap T) \in Nat
  BY SMTT(60), <1>2, FiniteItems
<1>4. Cardinality(S \ T) = Cardinality(S) - Cardinality(S \cap T)
  BY ZenonT(60), <1>1, FS_Difference
<1> QED BY <1>1, <1>3, <1>4

\* A sequence has no more elements than places.
LEMMA CardElements ==
  ASSUME NEW s \in Seq(Items)
  PROVE  Elements(s) \in SUBSET Items /\ Cardinality(Elements(s)) <= Len(s)
<1>1. Len(s) \in Nat /\ s \in [1 .. Len(s) -> Items]
  BY LenProperties
<1>2. s \in Surjection(1 .. Len(s), Elements(s))
  BY <1>1 DEF Surjection, Elements
<1>3. IsFiniteSet(1 .. Len(s)) /\ Cardinality(1 .. Len(s)) = Len(s)
  BY SMTT(60), <1>1, FS_Interval
<1>4. Cardinality(Elements(s)) <= Len(s)
  BY <1>2, <1>3, FS_Surjection
<1> QED BY <1>1, <1>4 DEF Elements

\* Adding the elements of a sequence to a set
LEMMA ManyMore ==
  ASSUME NEW S \in SUBSET Items, NEW s \in Seq(Items)
  PROVE  Cardinality(S \cup Elements(s)) <= Cardinality(S) + Len(s)
<1>1. Elements(s) \in SUBSET Items /\ Cardinality(Elements(s)) <= Len(s)
  BY SMTT(60), CardElements
<1>2. S \cup Elements(s) \in SUBSET Items /\ S \cap Elements(s) \in SUBSET Items
  BY SMTT(60), <1>1
<1>3. /\ IsFiniteSet(S) /\ IsFiniteSet(Elements(s))
      /\ Cardinality(S) \in Nat /\ Cardinality(Elements(s)) \in Nat
      /\ Cardinality(S \cup Elements(s)) \in Nat
      /\ Cardinality(S \cap Elements(s)) \in Nat
  BY SMTT(60), <1>1, <1>2, FiniteItems
<1>4. Cardinality(S \cup Elements(s))
        = Cardinality(S) + Cardinality(Elements(s)) - Cardinality(S \cap Elements(s))
  BY ZenonT(60), <1>3, FS_Union
<1>5. Len(s) \in Nat
  BY LenProperties
<1> QED BY SMTT(60), <1>1, <1>3, <1>4, <1>5

\* Cutting a sequence in two
LEMMA CutInTwo ==
  ASSUME NEW s \in Seq(Items), NEW n \in Nat, n <= Len(s)
  PROVE  /\ SubSeq(s, 1, n) \in Seq(Items) /\ Len(SubSeq(s, 1, n)) = n
         /\ SubSeq(s, n + 1, Len(s)) \in Seq(Items)
         /\ Len(SubSeq(s, n + 1, Len(s))) = Len(s) - n
<1>1. Len(s) \in Nat /\ \A i \in 1 .. Len(s) : s[i] \in Items
  BY LenProperties, ElementOfSeq
<1>2. \A i \in 1 .. n : s[i] \in Items
  BY SMTT(60), <1>1
<1>3. \A i \in n + 1 .. Len(s) : s[i] \in Items
  BY SMTT(60), <1>1
<1>4. SubSeq(s, 1, n) \in Seq(Items) /\ Len(SubSeq(s, 1, n)) = IF 1 <= n THEN n - 1 + 1 ELSE 0
  BY SMTT(60), <1>2, SubSeqProperties
<1>5. /\ SubSeq(s, n + 1, Len(s)) \in Seq(Items)
      /\ Len(SubSeq(s, n + 1, Len(s)))
           = IF n + 1 <= Len(s) THEN Len(s) - (n + 1) + 1 ELSE 0
  BY SMTT(60), <1>1, <1>3, SubSeqProperties
<1> QED BY <1>1, <1>4, <1>5

\* The entries of a queue in any contexts are finite in number.
LEMMA FiniteEntries ==
  ASSUME NEW c, NEW q
  PROVE  IsFiniteSet(Entries(c, q)) /\ Cardinality(Entries(c, q)) \in Nat
<1>1. IsFiniteSet(1 .. MaxRecords)
  BY QueueAssumption, FS_Interval
<1>2. IsFiniteSet(Items \X (1 .. MaxRecords))
  BY <1>1, QueueAssumption, FS_Product, Zenon
<1>3. Entries(c, q) \in SUBSET (Items \X (1 .. MaxRecords))
  BY DEF Entries
<1>4. IsFiniteSet(Entries(c, q))
  BY <1>2, <1>3, FS_Subset, Zenon
<1> QED BY <1>4, FS_CardinalityType, Zenon

\* A context that is destroyed takes its entries along.
LEMMA EntriesDropped ==
  ASSUME NEW c \in [Items -> Tally], NEW q \in Queues, NEW x \in Items
  PROVE  Cardinality(Entries([c EXCEPT ![x] = NoRecord], q)) = Cardinality(Entries(c, q)) - c[x][q]
<1> DEFINE E == Entries(c, q)
           D == {x} \X (1 .. c[x][q])
<1>1. c[x][q] \in 0 .. MaxRecords /\ MaxRecords \in Nat
  BY QueueAssumption DEF Tally
<1>2. D \in SUBSET E
  <2> SUFFICES ASSUME NEW k \in 1 .. c[x][q] PROVE <<x, k>> \in E
    OBVIOUS
  <2> QED BY <1>1 DEF Entries
<1>3. Entries([c EXCEPT ![x] = NoRecord], q) = E \ D
  BY SMTT(60), <1>1 DEF Entries, NoRecord
<1>4. /\ IsFiniteSet(1 .. c[x][q]) /\ Cardinality(1 .. c[x][q]) = c[x][q]
      /\ IsFiniteSet({x}) /\ Cardinality({x}) = 1
  <2>1. IsFiniteSet(1 .. c[x][q]) /\ Cardinality(1 .. c[x][q]) = c[x][q]
    <3>1. ASSUME NEW n \in Nat PROVE IsFiniteSet(1 .. n) /\ Cardinality(1 .. n) = n
      BY SMTT(60), FS_Interval
    <3>2. c[x][q] \in Nat
      BY <1>1
    <3> QED BY <3>1, <3>2, Zenon
  <2>2. IsFiniteSet({x}) /\ Cardinality({x}) = 1
    BY FS_Singleton, Zenon
  <2> QED BY <2>1, <2>2
<1>5. Cardinality(D) = Cardinality({x}) * Cardinality(1 .. c[x][q])
  BY <1>4, FS_Product, Zenon
<1>6. Cardinality(D) = c[x][q]
  BY <1>1, <1>4, <1>5
<1>7. E \cap D = D
  BY <1>2
<1>8. IsFiniteSet(E)
  BY FiniteEntries, Zenon
<1> HIDE DEF E, D
<1>9. Cardinality(E \ D) = Cardinality(E) - Cardinality(E \cap D)
  BY <1>8, FS_Difference, Zenon
<1> QED BY <1>3, <1>6, <1>7, <1>9 DEF E

\* record() adds one entry.
LEMMA EntryRecorded ==
  ASSUME NEW c \in [Items -> Tally], NEW q \in Queues, NEW x \in Items, NEW a \in Queues,
         c[x][a] < MaxRecords
  PROVE  Cardinality(Entries(Recording(c, x, a), q))
           = Cardinality(Entries(c, q)) + IF q = a THEN 1 ELSE 0
<1> DEFINE E == Entries(c, q)
           e == <<x, c[x][a] + 1>>
<1>1. c[x] \in Tally /\ c[x][a] \in Nat /\ MaxRecords \in Nat
  BY QueueAssumption DEF Tally
<1>2. IsFiniteSet(E) /\ Cardinality(E) \in Nat
  BY FiniteEntries, Zenon
<1>3. CASE q = a
  <2>1. e \notin E
    BY <1>1, <1>3 DEF Entries
  <2>2. Entries(Recording(c, x, a), q) = E \cup {e}
    BY SMTT(60), <1>1, <1>3 DEF Entries, Recording, Tally
  <2> HIDE DEF E, e
  <2>3. Cardinality(E \cup {e}) = Cardinality(E) + 1
    BY <1>2, <2>1, FS_AddElement
  <2> QED BY <1>3, <2>2, <2>3 DEF E
<1>4. CASE q # a
  <2>1. Entries(Recording(c, x, a), q) = E
    BY SMTT(60), <1>1, <1>4 DEF Entries, Recording, Tally
  <2> QED BY <1>2, <1>4, <2>1
<1> QED BY <1>3, <1>4

\* The facts that the proof uses hold for every set of items.
LEMMA LibraryHolds == Library
<1>1. Counting
  <2>1. \A S \in SUBSET Items : Cardinality(S) \in Nat
    BY SMTT(60), FiniteItems
  <2>2. \A S \in SUBSET Items : \A x \in S :
          Cardinality(S \ {x}) = Cardinality(S) - 1 /\ Cardinality(S) > 0
    BY ZenonT(60), OneLess
  <2>3. \A S \in SUBSET Items : \A x \in Items : Cardinality(S \cup {x}) <= Cardinality(S) + 1
    <3> SUFFICES ASSUME NEW S \in SUBSET Items, NEW x \in Items
                 PROVE  Cardinality(S \cup {x}) <= Cardinality(S) + 1
      OBVIOUS
    <3>1. IsFiniteSet(S) /\ Cardinality(S) \in Nat
      BY SMTT(60), FiniteItems
    <3> QED BY SMTT(60), <3>1, FS_AddElement
  <2>4. \A S \in SUBSET Items : \A T \in SUBSET S : Cardinality(T) <= Cardinality(S)
    BY SMTT(60), FiniteItems, FS_Subset
  <2>5. \A S, T \in SUBSET Items :
          Cardinality(S \ T) + Cardinality(S \cap T) = Cardinality(S)
    BY ZenonT(60), TwoParts
  <2>6. Cardinality({}) = 0
    BY SMTT(60), FS_EmptySet
  <2>7. \A S \in SUBSET Items : \A s \in Seq(Items) :
          /\ Elements(s) \in SUBSET Items
          /\ Cardinality(S \cup Elements(s)) <= Cardinality(S) + Len(s)
    BY CardElements, ManyMore, Zenon
  <2> QED BY <2>1, <2>2, <2>3, <2>4, <2>5, <2>6, <2>7, Zenon DEF Counting
<1>2. Cutting
  <2>1. \A s \in Seq(Items) : Len(s) \in Nat
    BY SMTT(60), LenProperties
  <2>2. \A s \in Seq(Items) : \A x \in Items :
          Append(s, x) \in Seq(Items) /\ Len(Append(s, x)) = Len(s) + 1
    BY SMTT(60), AppendProperties
  <2>3. \A s, t \in Seq(Items) : s \o t \in Seq(Items) /\ Len(s \o t) = Len(s) + Len(t)
    BY SMTT(60), ConcatProperties
  <2>4. \A s \in Seq(Items) : \A n \in Nat : n <= Len(s) =>
          /\ SubSeq(s, 1, n) \in Seq(Items) /\ Len(SubSeq(s, 1, n)) = n
          /\ SubSeq(s, n + 1, Len(s)) \in Seq(Items)
          /\ Len(SubSeq(s, n + 1, Len(s))) = Len(s) - n
    BY CutInTwo, Zenon
  <2> QED BY <2>1, <2>2, <2>3, <2>4, Zenon DEF Cutting
<1>3. Tallying
  BY ZenonT(60), FiniteEntries, EntriesDropped, EntryRecorded DEF Tallying
<1> QED BY SMTT(60), <1>1, <1>2, <1>3 DEF Library

\* QueueInv holds in every state of WorkQueue.
LEMMA QueueInvAlways == Spec => []QueueInv
<1>1. Init => QueueInv
  BY LibraryHolds, InitQueueInv, Zenon
<1>2. QueueInv /\ [Next]_vars => QueueInv'
  BY LibraryHolds, NextQueueInv, Zenon
<1> QED BY <1>1, <1>2, PTL DEF Spec

\* The variables of any number of queues and items keep their types; above all no
\* counter of a WorkQueue goes below zero.
THEOREM TypeCorrect == Spec => []TypeOK
<1>1. QueueInv => TypeOK
  BY DEF QueueInv
<1> QED BY <1>1, QueueInvAlways, PTL

\* No assert of WorkQueue fails, whatever the threads that run its calls do.
THEOREM AssertsNeverFail == Spec => []AssertsHold
<1>1. QueueInv => AssertsHold
  BY LibraryHolds, QueueInvAsserts, Zenon
<1> QED BY <1>1, QueueInvAlways, PTL

=============================================================================
