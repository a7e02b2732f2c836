---------------------------- MODULE MCWorkQueue -----------------------------
(***************************************************************************)
(* A single-threaded queue a hands items to b, which runs two at a time    *)
(* and, in one of the runs, may hand them back.                            *)
(***************************************************************************)
EXTENDS WorkQueue, TLC

CONSTANTS a, b, x1, x2, x3, x4

MCMaxOutstanding == a :> 1 @@ b :> 2
MCMaxSize == a :> 2 @@ b :> 2
Serial == [q \in Queues |-> 1]
Tight == a :> 2 @@ b :> 1
OneWay == {<<a, b>>}
BackAndForth == {<<a, b>>, <<b, a>>, <<b, b>>}
ItemSymmetry == Permutations(Items)
=============================================================================
