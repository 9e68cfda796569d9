------------------------- MODULE TrackerProperties -------------------------
(***************************************************************************)
(* What the tracker of module Tracker is meant to guarantee.              *)
(***************************************************************************)
EXTENDS Tracker

\* Every variable has its type.
TypeOK ==
    /\ ClusterTypeOK
    /\ DBTypeOK
    /\ pc \in [Resource -> Step]
    /\ \A r \in Resource : pc[r] \in PVHandlerStep => r = PVs
    /\ initialize \in [Resource -> BOOLEAN]
    /\ rv \in [Resource -> Nat]
    /\ listing \in [Resource -> SUBSET Event]
    /\ \A r \in Resource : \A l \in listing[r] : l.uid \in MembersOf(r)
    /\ cursor \in [Resource -> Nat]
    /\ pc[PVs] \in PVHandlerStep =>
            event \in Event /\ event.uid \in PV
    /\ pc[PVs] = "source" => event.source # NULL
    /\ drops \in 0..MaxDrops
    /\ crashes \in 0..MaxCrashes
    /\ missed \in [Resource -> SUBSET Object]

-----------------------------------------------------------------------------
(* The stored resource version against what is stored.                     *)

\* The database shows what event e of resource r said.
Recorded(r, e) ==
    CASE r = "pods" ->
            /\ e.type = "ADDED" => PodRecorded(e.uid)
            /\ e.type = "DELETED" => pod[e.uid].delete_time # NULL
      [] r = "persistentvolumeclaims" ->
            /\ e.type = "ADDED" => PVCRecorded(e.uid)
            /\ e.type = "DELETED" => pvc[e.uid].delete_time # NULL
      [] r = "persistentvolumes" ->
            /\ e.type = "ADDED" => PVRecorded(e.uid)
            /\ e.type = "DELETED" => pv[e.uid].delete_time # NULL
            /\ (e.claim # NULL /\ (e.type = "ADDED" \/ e.phase = "Bound"))
                    => pvc[e.claim].pv_uid = e.uid

\* The goroutine still has e, or the listed object e is about, in its hands.
InHand(r, e) ==
    \/ \E l \in listing[r] : l.uid = e.uid
    \/ r = PVs /\ pc[PVs] \in PVHandlerStep /\ event = e

\* A restarted tracker resumes after the stored version, so everything up to
\* it must be in the database already: the version never gets ahead of what
\* it stands for, over crashes at any point, dropped watches, replays, lists
\* in any order and expired versions.  Excused are the objects in "missed",
\* which a fault named by Hidden, Torn or TornBind may have cost their events.
CheckpointCovers ==
    \A r \in Resource : \A e \in log[r] :
        e.rv <= resource_version[r] =>
            Recorded(r, e) \/ e.uid \in missed[r] \/ InHand(r, e)

-----------------------------------------------------------------------------
(* What is recorded against the cluster.                                   *)

\* Creation times are the objects', deletion times are never early (they may
\* be late: claims and volumes are stamped when the event is handled), no live
\* object is recorded deleted, and a claim is bound only to a volume that the
\* API server has shown to hold it.  Concerns the columns written by
\* InsertPod, InsertPVC, InsertPV, BindPVC and the three deletions.
TrueTimes(row, u) ==
    /\ row.create_time # NULL => row.create_time = object[u].created
    /\ row.delete_time # NULL =>
        /\ object[u].phase = "gone"
        /\ \E r \in Resource : \E e \in log[r] :
                /\ e.uid = u /\ e.type = "DELETED"
                /\ Stamp(e.rv) <= row.delete_time
        /\ row.delete_time <= Now

RowsAreTrue ==
    /\ \A p \in Pod : TrueTimes(pod[p], p)
    /\ \A v \in PV : TrueTimes(pv[v], v)
    /\ \A c \in PVC :
        /\ TrueTimes(pvc[c], c)
        /\ pvc[c].pv_uid # NULL =>
            \E e \in log[PVs] : e.uid = pvc[c].pv_uid /\ e.claim = c

\* The export a PV row refers to is in the nfs or iscsi table: the handler
\* records it in a transaction of its own, first.  (schema.sql declares the
\* reference, but MySQL does not enforce it.)
SourcesKnown ==
    \A v \in PV : PVRecorded(v) => pv[v].source \in sources

-----------------------------------------------------------------------------
(* Mounts.                                                                 *)

Rows(p, m) ==
    {row \in pod_mount : /\ row.pod_uid = p
                         /\ row.container_name = m[1]
                         /\ row.pvc_name = m[2]}

\* No two claims of the name have been created at the same time.
Distinct(n) ==
    \A c, d \in PVC :
        /\ NameOf[c] = n /\ NameOf[d] = n
        /\ object[c].created = object[d].created
        /\ object[c].created # NULL
        => c = d

\* Every mount of a recorded pod that has not been deleted has exactly one
\* row, whatever else was created at the time of the pod; the one error that
\* insertPodMount calls "not expected" aside, two claims of one age.
OneRowPerMount ==
    \A p \in Pod : \A m \in MountsOf[p] :
        PodRecorded(p) /\ pod[p].delete_time = NULL /\ Distinct(m[2]) =>
            \E row \in pod_mount : Rows(p, m) = {row}

\* The goroutine of r has dealt with all there is.
Drained(r) ==
    /\ pc[r] = "watch"
    /\ listing[r] = {}
    /\ \A e \in log[r] : e.rv <= cursor[r]

\* However the pod and the claim goroutines interleave, once both have caught
\* up a live pod is recorded with the claim it uses, when that claim is at
\* least as old as the pod: the convergence documentation/proposal.md promises.
LiveMountsConverge ==
    Drained("pods") /\ Drained("persistentvolumeclaims") =>
        \A p \in Pod : \A m \in MountsOf[p] : \A c \in ClaimsNamed(p, m[2]) :
            /\ Alive(p) /\ Distinct(m[2])
            /\ object[c].created <= object[p].created
            /\ p \notin missed["pods"]
            /\ c \notin missed["persistentvolumeclaims"]
            => {row.pvc_uid : row \in Rows(p, m)} = {c}

\* The claims pod p was using when it ran: those of the names it mounts that
\* were there at the revision that says it is running.
UsedClaims(p, m) ==
    {c \in PVC :
        /\ NameOf[c] = m[2] /\ NamespaceOf[c] = NamespaceOf[p]
        /\ \E run \in log["pods"] : \E add \in log["persistentvolumeclaims"] :
            /\ run.uid = p /\ run.phase = "Running"
            /\ add.uid = c /\ add.type = "ADDED" /\ add.rv < run.rv
            /\ \A del \in log["persistentvolumeclaims"] :
                del.uid = c /\ del.type = "DELETED" => del.rv > run.rv}

\* insert.go, on updating the mounts when a claim is inserted: "we won't see a
\* legit entry get clobbered".  A legit entry is one that shows a claim the pod
\* was using.
LegitEntriesKept ==
    [][\A row \in pod_mount :
            row.pvc_uid \in UsedClaims(row.pod_uid,
                                     <<row.container_name, row.pvc_name>>)
                => row \in pod_mount']_vars

-----------------------------------------------------------------------------
(* The tracker implements the ledger of module UsageLedger.                *)

World(u) ==
    CASE object[u].phase = "absent" -> "absent"
      [] object[u].phase = "gone" -> "gone"
      [] OTHER -> "live"

Entry(u) ==
    LET row == IF u \in Pod THEN pod[u] ELSE IF u \in PVC THEN pvc[u] ELSE pv[u]
    IN  IF row.delete_time # NULL THEN "closed"
        ELSE IF row.create_time # NULL THEN "open" ELSE "unknown"

ClaimsRecorded(p) ==
    {row.pvc_uid : row \in {m \in pod_mount : m.pod_uid = p}} \ {NULL}

Ledger == INSTANCE UsageLedger WITH
    Thing <- Object, User <- Pod, Claim <- PVC,
    world <- [u \in Object |-> World(u)],
    ledger <- [u \in Object |-> Entry(u)],
    usage <- [p \in Pod |-> ClaimsRecorded(p)]

\* A pod, claim or volume is opened in the database only if it has existed and
\* closed only when it is gone; closed entries stay closed and the mounts of a
\* deleted pod are never touched again, whatever is replayed.
ImplementsLedger == Ledger!Spec

-----------------------------------------------------------------------------
(* Progress.                                                               *)

\* Whatever faults occur (there are finitely many), in the end every event is
\* in the database, unless a fault named above may have cost it: no goroutine
\* is stuck, and no version keeps it from what it has not seen.  A volume that
\* is neither NFS nor iSCSI, though, ends the process again and again.
EventuallyRecorded ==
    <>[](\/ \E e \in log[PVs] : e.source = NULL
         \/ \A r \in Watched : \A e \in log[r] :
                Recorded(r, e) \/ e.uid \in missed[r])

-----------------------------------------------------------------------------
(* What the documentation says and the code does not do.                   *)

\* README.md: a tracker restarted promptly "should not miss any events".  As
\* long as no version has expired, no event at or before the stored version is
\* missing, but for the one being handled.
NothingMissed ==
    \A r \in Resource : compacted = 0 /\ pc[r] \in {"connect", "down"} =>
        \A e \in log[r] : e.rv <= resource_version[r] => Recorded(r, e)
=============================================================================
