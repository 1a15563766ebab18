--------------------------- MODULE SecureStoreMC ---------------------------
(* Instances of SecureStore for TLC.                                       *)
EXTENDS SecureStore, TLC

CONSTANTS n1, n2, w1, w2, t1, t2, c1, b1

OneCycle == [t \in Tasks |-> c1]
AnyWorker == [t \in Tasks |-> Workers]
FirstWorker == [t \in Tasks |-> {w1}]

Symmetry == Permutations(Nodes)
=============================================================================
