-------------------------- MODULE MCSharedVolumes --------------------------
(***************************************************************************)
(* Two goroutines and two volumes for TLC.                                 *)
(***************************************************************************)
EXTENDS SharedVolumes, TLC

CONSTANTS c1, v1, v2, g1, g2, n1, nsA, s1, s2, s3

NoSpec == <<>>
OneName == [c \in PVC |-> n1]
OneNamespace == [u \in Pod \cup PVC |-> nsA]

\* A volume that may be moved from one NFS export to another, which has a '_' in
\* its path that matches the first, and a volume behind an iSCSI target.
CreatedWith == (v1 :> s2) @@ (v2 :> s3)
EditedTo == (v1 :> {s1, s2}) @@ (v2 :> {s3})
Wildcard == (s1 :> {s1, s2}) @@ (s2 :> {s2}) @@ (s3 :> {s3})

\* The goroutines are interchangeable, and only invariants are checked.
Interchangeable == Permutations(Goroutine)
=============================================================================
