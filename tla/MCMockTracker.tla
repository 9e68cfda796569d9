--------------------------- MODULE MCMockTracker ---------------------------
(***************************************************************************)
(* MockTracker for TLC, on the clusters of MCTracker.                      *)
(***************************************************************************)
EXTENDS MockTracker, TLC

CONSTANTS p1, p2, c1, c2, v1, v2, n1, nsA, nsB, k1, s1

OneName == [c \in PVC |-> n1]
OneNamespace == [u \in Pod \cup PVC |-> nsA]
MountN1 == [p \in Pod |-> {<<k1, n1>>}]
OneExported == [v \in PV |-> IF v = v1 THEN s1 ELSE NULL]

\* What edits change is the rest of the volume.
Unmoved == [v \in PV |-> {SourceOf[v]}]
=============================================================================
