---------------------------- MODULE MCNodeKernels ----------------------------
\* Instances of NodeKernels for TLC.
EXTENDS NodeKernels

\* Two nodes on one target, of two kernels or of one.
OneTarget == [n1 |-> "t1", n2 |-> "t1"]
OwnKernels == [n1 |-> "k1", n2 |-> "k2"]
SameKernel == [n1 |-> "k1", n2 |-> "k1"]

\* The first node may be verified again, the second is created and
\* released; or each is created and released.
TwoAndOne == [n1 |-> 2, n2 |-> 1]
OneEach == [n1 |-> 1, n2 |-> 1]
=============================================================================
