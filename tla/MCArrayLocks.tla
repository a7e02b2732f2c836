---------------------------- MODULE MCArrayLocks ----------------------------
(* Two queries with different coordinators, each asking for up to two locks *)
(* on two arrays.                                                           *)
EXTENDS ArrayLocks, TLC

CONSTANTS a1, a2, q1, q2, i1, i2

MCCoordinator == (q1 :> i1 @@ q2 :> i2)

\* One namespace: names are as distinct as the arrays
MCArrayName == (a1 :> 1 @@ a2 :> 2)

\* a1 and a2 are arrays of the same name in two namespaces
MCSameName == (a1 :> 1 @@ a2 :> 1)

MCModes == {RD, WR, XCL}
=============================================================================
