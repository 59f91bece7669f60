-------------------------- MODULE MCGraphSchedule --------------------------
\* Instances of GraphSchedule for TLC.
EXTENDS GraphSchedule, TLC

\* A chain of two nodes.
ChainNodes == {"n1", "n2"}
ChainInNodes == [n \in ChainNodes |-> IF n = "n1" THEN {} ELSE {"n1"}]
ChainTargetOf == [n \in ChainNodes |-> IF n = "n1" THEN "t1" ELSE "t2"]

\* Two source nodes n1 and n2 that share a target; the leaf node n3 joins their
\* outputs, and n4, a second leaf, takes what n2 writes.
JoinNodes == {"n1", "n2", "n3", "n4"}
JoinInNodes == [n \in JoinNodes |-> CASE n = "n3" -> {"n1", "n2"}
                                     [] n = "n4" -> {"n2"}
                                     [] OTHER -> {}]
JoinTargetOf == [n \in JoinNodes |-> IF n \in {"n1", "n2"} THEN "t1" ELSE "t2"]
\* The same graph with the source nodes on targets of their own, where AbandonIsOwn fails.
SplitTargetOf == [n \in JoinNodes |-> IF n = "n1" THEN "t1" ELSE "t2"]

AppSymmetry == Permutations(Apps)
=============================================================================
