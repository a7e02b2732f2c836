--------------------------- MODULE Redistribution ---------------------------
(***************************************************************************)
(* What a redistribution promises.  Every instance d is handed, for every  *)
(* attribute and in row-major order, the chunks that the distribution      *)
(* places on d, each with its parts from all instances that hold one; and  *)
(* it is told that an attribute has ended only when it has had them all.   *)
(***************************************************************************)
EXTENDS Integers, Sequences, SequencesExt

CONSTANTS Instances, Attrs, AllInstances

VARIABLES layout,  \* rows[i]: positions of the chunks on i; place[p]: where p goes
          got,     \* got[d][a]: chunks handed out, in order
          ended    \* ended[d]: attributes d has seen the end of

\* The positions d is to get, and the parts a chunk consists of
Wanted(d) == {p \in UNION {ToSet(layout.rows[i]) : i \in Instances} :
                layout.place[p] \in {d, AllInstances}}
Parts(p) == {i \in Instances : p \in ToSet(layout.rows[i])} \X {p}

Ordered(d) == SetToSortSeq(Wanted(d), LAMBDA p, q : p < q)

Init == /\ got = [d \in Instances |-> [a \in Attrs |-> <<>>]]
        /\ ended = [d \in Instances |-> {}]

HandOut(d, a) ==
  LET n == Len(got[d][a]) + 1
  IN /\ n <= Len(Ordered(d))
     /\ got' = [got EXCEPT ![d][a] = Append(@, Parts(Ordered(d)[n]))]
     /\ UNCHANGED <<layout, ended>>

End(d, a) ==
  /\ a \notin ended[d] /\ Len(got[d][a]) = Len(Ordered(d))
  /\ ended' = [ended EXCEPT ![d] = @ \cup {a}]
  /\ UNCHANGED <<layout, got>>

Next == \E d \in Instances, a \in Attrs : HandOut(d, a) \/ End(d, a)

Spec == Init /\ [][Next]_<<layout, got, ended>>
=============================================================================
