--------------------------- MODULE MCGraphPipeline ---------------------------
\* Instances of GraphPipeline for TLC.
EXTENDS GraphPipeline

\* A chain of two nodes on two targets: in -> n1 -> x -> n2 -> out.
ChainNodes == {"n1", "n2"}
ChainInNodes == [n1 |-> {}, n2 |-> {"n1"}]
ChainOutNodes == [n1 |-> <<"n2">>, n2 |-> <<>>]
ChainTargetOf == [n1 |-> "t1", n2 |-> "t2"]
ChainData == {"in", "x", "out"}
ChainParams == [n1 |-> <<"in", "x">>, n2 |-> <<"x", "out">>]
ChainWriter == [in |-> "app", x |-> "n1", out |-> "n2"]
ChainBufs == [in |-> 1, x |-> 2, out |-> 1]

\* A node that feeds two nodes whose outputs are joined by a fourth.
JoinNodes == {"n1", "n2", "n3", "n4"}
JoinInNodes == [n1 |-> {}, n2 |-> {"n1"}, n3 |-> {"n1"}, n4 |-> {"n2", "n3"}]
JoinOutNodes == [n1 |-> <<"n2", "n3">>, n2 |-> <<"n4">>, n3 |-> <<"n4">>, n4 |-> <<>>]
JoinData == {"in", "x", "y", "z", "out"}
JoinParams == [n1 |-> <<"in", "x">>, n2 |-> <<"x", "y">>, n3 |-> <<"x", "z">>,
               n4 |-> <<"y", "z", "out">>]
JoinWriter == [in |-> "app", x |-> "n1", y |-> "n2", z |-> "n3", out |-> "n4"]
JoinBufs == [in |-> 2, x |-> 1, y |-> 1, z |-> 1, out |-> 1]
\* The two middle nodes share a target ...
JoinTargetOf == [n1 |-> "t1", n2 |-> "t2", n3 |-> "t2", n4 |-> "t1"]
\* ... or each has its own.
SplitTargetOf == [n1 |-> "t1", n2 |-> "t2", n3 |-> "t3", n4 |-> "t1"]

\* The only head node is n1, on the first target.
HeadN1 == [t \in Targets |-> IF t = "t1" THEN <<"n1">> ELSE <<>>]
=============================================================================
