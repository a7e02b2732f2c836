---------------------------- MODULE MCDataStore -----------------------------
(* A file of up to eight units, chunks of one and of three units.          *)
EXTENDS DataStore
=============================================================================
