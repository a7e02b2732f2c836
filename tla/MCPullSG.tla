------------------------------ MODULE MCPullSG ------------------------------
EXTENDS PullSG

\* Two instances.  The first is sent a chunk by the other one and then one with a
\* part on each; then a chunk by the other one before a chunk of its own that goes
\* to everybody; then the same without a copy, with room for each stream to prefetch
TwoInstances ==
  {[rows |-> (0 :> <<2>> @@ 1 :> <<1, 2>>), place |-> <<0, 0>>, queue |-> 1],
   [rows |-> (0 :> <<2>> @@ 1 :> <<1>>), place |-> <<0, AllInstances>>, queue |-> 1],
   [rows |-> (0 :> <<2>> @@ 1 :> <<1>>), place |-> <<0, 0>>, queue |-> 4]}

\* One instance whose attributes are read together
OneInstance == {[rows |-> (0 :> [k \in 1 .. n |-> k]), place |-> [p \in Positions |-> 0],
                 queue |-> 2] :
                  n \in {0, NumPos}}
=============================================================================
