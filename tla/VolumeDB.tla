------------------------------ MODULE VolumeDB ------------------------------
(***************************************************************************)
(* The database of dbmanager/mysql: its tables, and one action for each   *)
(* transaction of the DBManager interface that commits.  A transaction    *)
(* includes the update of the resource version of the event it handles.   *)
(*                                                                         *)
(* Each table is a function of the UIDs, which are its primary keys; a    *)
(* column that is NULL in the absence of a row stands for the missing row. *)
(* Left out: the columns that are constants of the UID, the container     *)
(* table (its rows are inserted with the pod's and never change), and the *)
(* ids of the nfs and iscsi tables (a row is the export itself).           *)
(*                                                                         *)
(* Definitions marked "Slip" are not the code's: they are what a plausible *)
(* mistake would make of the definition after them, and the runs show that *)
(* the properties notice.                                                  *)
(***************************************************************************)
EXTENDS Resources

VARIABLES
    pod,                \* [create_time, delete_time] of each pod
    pvc,                \* [create_time, delete_time, bind_time, pv_uid, spec]
    pv,                 \* [create_time, delete_time, source, spec]
    pod_mount,          \* the rows of pod_mount, a table without a key
    sources,            \* the rows of nfs and iscsi
    resource_version    \* the stored version of each resource, 0 if none

dbVars == <<pod, pvc, pv, pod_mount, sources, resource_version>>

PodRow == [create_time: Time, delete_time: Time]

PVCRow == [create_time: Time, delete_time: Time, bind_time: Time,
           pv_uid: PV \cup {NULL}, spec: Nat]

PVRow == [create_time: Time, delete_time: Time, source: Source \cup {NULL},
          spec: Nat]

MountRow == [pod_uid: Pod, container_name: Container, pvc_name: Name,
             pvc_uid: PVC \cup {NULL}]

DBInit ==
    /\ pod = [p \in Pod |-> [create_time |-> NULL, delete_time |-> NULL]]
    /\ pvc = [c \in PVC |-> [create_time |-> NULL, delete_time |-> NULL,
                             bind_time |-> NULL, pv_uid |-> NULL, spec |-> 0]]
    /\ pv = [v \in PV |-> [create_time |-> NULL, delete_time |-> NULL,
                           source |-> NULL, spec |-> 0]]
    /\ pod_mount = {}
    /\ sources = {}
    /\ resource_version = [r \in Resource |-> 0]

-----------------------------------------------------------------------------
PodRecorded(p) == pod[p].create_time # NULL
PVCRecorded(c) == pvc[c].create_time # NULL
PVRecorded(v) == pv[v].create_time # NULL

\* BindPVC may insert a row of which only the UID and the binding are known.
PVCRowExists(c) == PVCRecorded(c) \/ pvc[c].pv_uid # NULL

updateRV(r, rv) == resource_version' = [resource_version EXCEPT ![r] = rv]

\* GetRV, 0 for the "" of a missing row.
GetRV(r) == resource_version[r]

-----------------------------------------------------------------------------
(* Finding the claim a pod's mount refers to.  Neither query looks at the *)
(* namespace.                                                              *)

Named(n) == {c \in PVC : PVCRecorded(c) /\ NameOf[c] = n}

\* Claims that were there when the pod was created, ...
EarlyClaims(n, t) ==
    {c \in Named(n) :
        /\ pvc[c].create_time <= t
        /\ pvc[c].delete_time = NULL \/ pvc[c].delete_time >= t}

\* ... and claims that came later.
LateClaims(n, t) ==
    {c \in Named(n) :
        /\ pvc[c].create_time >= t
        /\ pvc[c].delete_time = NULL \/ pvc[c].delete_time > t}

Newest(S) ==
    {c \in S : \A d \in S : pvc[d].create_time <= pvc[c].create_time}

Oldest(S) ==
    {c \in S : \A d \in S : pvc[d].create_time >= pvc[c].create_time}

\* The outer SELECTs take every claim of that name with the chosen
\* creation time, whatever its deletion time.
SameAge(n, S) ==
    {c \in Named(n) : \E d \in S : pvc[c].create_time = pvc[d].create_time}

\* Slip: no row for a claim that has not been seen.
ClaimsForSeenOnly(n, t) ==
    LET early == SameAge(n, Newest(EarlyClaims(n, t)))
    IN  IF early # {} THEN early ELSE SameAge(n, Oldest(LateClaims(n, t)))

\* The claims insertPodMount records: NULL when it has seen none.
ClaimsFor(n, t) ==
    LET early == SameAge(n, Newest(EarlyClaims(n, t)))
        late == SameAge(n, Oldest(LateClaims(n, t)))
    IN  IF early # {} THEN early ELSE IF late # {} THEN late ELSE {NULL}

insertPodMount(p, t) ==
    {row \in MountRow :
        /\ row.pod_uid = p
        /\ <<row.container_name, row.pvc_name>> \in MountsOf[p]
        /\ row.pvc_uid \in ClaimsFor(row.pvc_name, t)}

-----------------------------------------------------------------------------
\* A duplicate key rolls the transaction back, the resource version with it,
\* and is not an error.
InsertPod(e) ==
    \/ /\ PodRecorded(e.uid)
       /\ UNCHANGED dbVars
    \/ /\ ~PodRecorded(e.uid)
       /\ pod' = [pod EXCEPT ![e.uid].create_time = e.created]
       /\ pod_mount' = pod_mount \cup insertPodMount(e.uid, e.created)
       /\ updateRV("pods", e.rv)
       /\ UNCHANGED <<pvc, pv, sources>>

\* A mount whose claim was created after the pod was gone shows that the
\* pod never started: none of its mounts is kept.
BadMounts(e) ==
    {m \in pod_mount :
        /\ m.pod_uid = e.uid
        /\ m.pvc_uid # NULL
        /\ pvc[m.pvc_uid].create_time # NULL
        /\ pvc[m.pvc_uid].create_time > e.deletion}

DeletePodRow(e) ==
    /\ pod' = IF PodRecorded(e.uid)
                THEN [pod EXCEPT ![e.uid].delete_time = e.deletion]
                ELSE pod
    /\ pod_mount' = IF BadMounts(e) = {}
                      THEN pod_mount
                      ELSE {m \in pod_mount : m.pod_uid # e.uid}
    /\ updateRV("pods", e.rv)
    /\ UNCHANGED <<pvc, pv, sources>>

-----------------------------------------------------------------------------
\* Slip: only mounts whose claim is not known yet are filled in.
AddPVCPodMountBlanks(c) ==
    {IF m.pvc_name = NameOf[c] /\ m.pvc_uid = NULL
        /\ pod[m.pod_uid].delete_time = NULL
       THEN [m EXCEPT !.pvc_uid = c] ELSE m : m \in pod_mount}

\* Slip: the mounts of deleted pods are updated too.
AddPVCPodMountAll(c) ==
    {IF m.pvc_name = NameOf[c] THEN [m EXCEPT !.pvc_uid = c] ELSE m :
        m \in pod_mount}

\* addPVCPodMount: every mount of that name, of every pod not yet deleted.
AddPVCPodMount(c) ==
    {IF /\ m.pvc_name = NameOf[c]
        /\ PodRecorded(m.pod_uid)
        /\ pod[m.pod_uid].delete_time = NULL
       THEN [m EXCEPT !.pvc_uid = c]
       ELSE m : m \in pod_mount}

InsertPVC(e) ==
    /\ pvc' = [pvc EXCEPT ![e.uid] = [@ EXCEPT !.create_time = e.created,
                                               !.spec = e.spec]]
    /\ pod_mount' = AddPVCPodMount(e.uid)
    /\ updateRV("persistentvolumeclaims", e.rv)
    /\ UNCHANGED <<pod, pv, sources>>

UpdatePVC(e) ==
    /\ pvc' = IF PVCRowExists(e.uid)
                THEN [pvc EXCEPT ![e.uid].spec = e.spec]
                ELSE pvc
    /\ updateRV("persistentvolumeclaims", e.rv)
    /\ UNCHANGED <<pod, pv, pod_mount, sources>>

DeletePVCRow(e, t) ==
    /\ pvc' = IF PVCRowExists(e.uid)
                THEN [pvc EXCEPT ![e.uid].delete_time = t]
                ELSE pvc
    /\ updateRV("persistentvolumeclaims", e.rv)
    /\ UNCHANGED <<pod, pv, pod_mount, sources>>

\* Slip: an UPDATE, which does nothing when the claim has no row yet.
BindPVCUpdateOnly(e, t) ==
    /\ pvc' = IF PVCRecorded(e.claim)
                THEN [pvc EXCEPT ![e.claim] = [@ EXCEPT !.pv_uid = e.uid,
                                                        !.bind_time = t]]
                ELSE pvc
    /\ updateRV("persistentvolumes", e.rv)
    /\ UNCHANGED <<pod, pv, pod_mount, sources>>

\* Slip: the UIDs are swapped.
BindPVCSwapped(e, t) ==
    /\ pvc' = [pvc EXCEPT ![e.claim] = [@ EXCEPT !.pv_uid = e.claim,
                                                 !.bind_time = t]]
    /\ updateRV("persistentvolumes", e.rv)
    /\ UNCHANGED <<pod, pv, pod_mount, sources>>

\* The row of the claim is inserted if it is not there; the version stored
\* is that of the PV.
BindPVC(e, t) ==
    /\ pvc' = [pvc EXCEPT ![e.claim] = [@ EXCEPT !.pv_uid = e.uid,
                                                 !.bind_time = t]]
    /\ updateRV("persistentvolumes", e.rv)
    /\ UNCHANGED <<pod, pv, pod_mount, sources>>

-----------------------------------------------------------------------------
\* InsertNFS and InsertISCSI: find the export or insert it.
InsertSource(e) ==
    /\ sources' = sources \cup {e.source}
    /\ UNCHANGED <<pod, pvc, pv, pod_mount, resource_version>>

InsertPV(e) ==
    \/ /\ PVRecorded(e.uid)
       /\ UNCHANGED dbVars
    \/ /\ ~PVRecorded(e.uid)
       /\ pv' = [pv EXCEPT ![e.uid] = [@ EXCEPT !.create_time = e.created,
                                                !.source = e.source,
                                                !.spec = e.spec]]
       /\ updateRV("persistentvolumes", e.rv)
       /\ UNCHANGED <<pod, pvc, pod_mount, sources>>

UpdatePV(e) ==
    /\ pv' = IF PVRecorded(e.uid)
               THEN [pv EXCEPT ![e.uid] = [@ EXCEPT !.source = e.source,
                                                    !.spec = e.spec]]
               ELSE pv
    /\ updateRV("persistentvolumes", e.rv)
    /\ UNCHANGED <<pod, pvc, pod_mount, sources>>

DeletePVRow(e, t) ==
    /\ pv' = IF PVRecorded(e.uid)
               THEN [pv EXCEPT ![e.uid].delete_time = t]
               ELSE pv
    /\ updateRV("persistentvolumes", e.rv)
    /\ UNCHANGED <<pod, pvc, pod_mount, sources>>

-----------------------------------------------------------------------------
DBTypeOK ==
    /\ pod \in [Pod -> PodRow]
    /\ pvc \in [PVC -> PVCRow]
    /\ pv \in [PV -> PVRow]
    /\ pod_mount \in SUBSET MountRow
    /\ sources \in SUBSET Source
    /\ resource_version \in [Resource -> Nat]
=============================================================================
