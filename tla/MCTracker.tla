----------------------------- MODULE MCTracker -----------------------------
(***************************************************************************)
(* Small clusters for TLC.  Objects are model values.                     *)
(***************************************************************************)
EXTENDS TrackerInvariant, TLC

CONSTANTS p1, p2, c1, c2, v1, v2, n1, nsA, nsB, k1, s1, s2

AllStamped == Object
ClaimsStamped == PVC
VolumesStamped == PV
NoneMounted == [p \in Pod |-> {}]

\* All claims have one name and all objects one namespace.
OneName == [c \in PVC |-> n1]
OneNamespace == [u \in Pod \cup PVC |-> nsA]
MountN1 == [p \in Pod |-> {<<k1, n1>>}]

\* Two namespaces in which a claim of the same name is used.
TwoNamespaces == [u \in Pod \cup PVC |-> IF u \in {p1, c1} THEN nsA ELSE nsB]

\* One volume is an export, the other is neither NFS nor iSCSI.
OneExported == [v \in PV |-> IF v = v1 THEN s1 ELSE NULL]

\* Volumes that are not edited, that are but keep their export, and that are moved
\* to another one.
NoneEdited == [v \in PV |-> {}]
Unmoved == [v \in PV |-> {SourceOf[v]}]
Moved == [v \in PV |-> Source \ {SourceOf[v]}]
=============================================================================
