---------------------------- MODULE MCGraphStream ----------------------------
\* Instances of GraphStream for TLC.
EXTENDS GraphStream

\* A chain of two nodes.
ChainNodes == {"n1", "n2"}
ChainInNodes == [n \in ChainNodes |-> IF n = "n1" THEN {} ELSE {"n1"}]
ChainTargetOf == [n \in ChainNodes |-> IF n = "n1" THEN "t1" ELSE "t2"]
=============================================================================
