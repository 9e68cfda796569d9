--------------------------- MODULE MCTransactions ---------------------------
(***************************************************************************)
(* Short histories of calls for TLC.                                       *)
(***************************************************************************)
EXTENDS Transactions, TLC

CONSTANTS pods, pvcs, pvs

\* Every operation, with a pod that has mounts.
AllCalls ==
    (pods :> <<"InsertPodMounts", "DeletePod">>) @@
    (pvcs :> <<"InsertPVC", "Update">>) @@
    (pvs  :> <<"InsertPV", "BindPVC">>)

\* A pod with mounts, and a claim.
MountCalls ==
    (pods :> <<"InsertPodMounts">>) @@ (pvcs :> <<"InsertPVC">>)

\* A claim that is updated.
UpdateCalls == pvcs :> <<"InsertPVC", "Update">>
=============================================================================
