---------------------------- MODULE QueryOutcome ----------------------------
(***************************************************************************)
(* What the Query object of one instance promises to the rest of the       *)
(* cluster, without its threads and its callbacks: it reaches one verdict, *)
(* never changes it, announces nothing but that verdict, and leaves the    *)
(* table of running queries only after the verdict is known.               *)
(***************************************************************************)

VARIABLES verdict,   \* _commitState
          announced, \* the verdict broadcast to the other instances, if any
          left       \* the query is no longer in Query::_queries

outcomeVars == <<verdict, announced, left>>

Verdict == {"COMMITTED", "ABORTED"}

Init ==
  /\ verdict = "UNKNOWN"
  /\ announced = "UNKNOWN"
  /\ left = FALSE

Decide ==
  /\ verdict = "UNKNOWN"
  /\ verdict' \in Verdict
  /\ UNCHANGED <<announced, left>>

Announce ==
  /\ verdict \in Verdict
  /\ announced = "UNKNOWN"
  /\ ~left
  /\ announced' = verdict
  /\ UNCHANGED <<verdict, left>>

Leave ==
  /\ verdict \in Verdict
  /\ ~left
  /\ left' = TRUE
  /\ UNCHANGED <<verdict, announced>>

Next == Decide \/ Announce \/ Leave

Spec == Init /\ [][Next]_outcomeVars
=============================================================================
