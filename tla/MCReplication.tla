--------------------------- MODULE MCReplication ----------------------------
EXTENDS Replication, TLC

CONSTANTS q1, q2

\* One store with a chunk, and one without a chunk on this instance
OneWriter == (q1 :> 1) @@ (q2 :> 0)

=============================================================================
