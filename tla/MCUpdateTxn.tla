---------------------------- MODULE MCUpdateTxn -----------------------------
(* Two queries that write the same array, each coordinated by one of two    *)
(* instances and executed by both.                                          *)
EXTENDS UpdateTxn, TLC

CONSTANTS a1, q1, q2, i1, i2

MCCoordinator == (q1 :> i1 @@ q2 :> i2)
MCTarget == [q \in {q1, q2} |-> a1]
=============================================================================
