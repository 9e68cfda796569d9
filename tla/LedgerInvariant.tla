--------------------------- MODULE LedgerInvariant ---------------------------
(***************************************************************************)
(* The inductive invariant behind RowsAreTrue, SourcesKnown,              *)
(* OneRowPerMount and ImplementsLedger: what the rows say of the objects, *)
(* on top of what the versions say of the rows (TrackerInvariant).  None  *)
(* of the four is inductive: a row is only as true as the event or the    *)
(* listed object it is made from (ListTrue, LogTrue of ClusterInvariant), *)
(* and that a replayed deletion changes nothing needs the mounts of a     *)
(* deleted pod to be older than its deletion (MountsStand).               *)
(***************************************************************************)
EXTENDS TrackerInvariant

\* Listed objects exist and carry their creation time.
ListTrue ==
    \A r \in Resource : \A l \in listing[r] :
        /\ object[l.uid].phase # "absent"
        /\ l.created = object[l.uid].created

\* Rows are of objects that exist; pods and volumes are recorded deleted only
\* after they have been recorded, and a pod's deletion time is that of its
\* deletion.
RowsStand ==
    /\ \A p \in Pod :
        /\ pod[p].create_time # NULL => object[p].phase # "absent"
        /\ pod[p].delete_time # NULL =>
            /\ pod[p].create_time # NULL
            /\ \A e \in log["pods"] :
                e.uid = p /\ e.type = "DELETED" => pod[p].delete_time = e.deletion
    /\ \A c \in PVC : pvc[c].create_time # NULL => object[c].phase # "absent"
    /\ \A v \in PV :
        /\ pv[v].create_time # NULL => object[v].phase # "absent"
        /\ pv[v].delete_time # NULL => pv[v].create_time # NULL

\* The export of the volume about to be stored is known.
SourceStands ==
    pc[PVs] = "store" => event.source \in sources \cup {NULL}

\* Mounts are of recorded pods and show recorded claims of the name they
\* mount; those of a deleted pod show no claim that is younger than the
\* deletion, or DeletePodRow would have removed them.
MountsStand ==
    \A m \in pod_mount :
        /\ PodRecorded(m.pod_uid)
        /\ <<m.container_name, m.pvc_name>> \in MountsOf[m.pod_uid]
        /\ m.pvc_uid # NULL =>
            /\ PVCRecorded(m.pvc_uid) /\ NameOf[m.pvc_uid] = m.pvc_name
            /\ pod[m.pod_uid].delete_time # NULL =>
                pvc[m.pvc_uid].create_time <= pod[m.pod_uid].delete_time

\* The inductive invariant, relative to IInv.
RInv ==
    /\ LogTrue
    /\ ListTrue
    /\ RowsStand
    /\ RowsAreTrue
    /\ SourceStands
    /\ SourcesKnown
    /\ MountsStand
    /\ OneRowPerMount

-----------------------------------------------------------------------------
(* Convergence of the mounts (LiveMountsConverge).                         *)

\* Neither query for the claim of a mount looks at the namespace: no claims of
\* different namespaces may share a name.  (The run clobber_namespaces shows
\* what happens when they do.)
NamesInOneNamespace ==
    \A c, d \in PVC :
        NameOf[c] = NameOf[d] => NamespaceOf[c] = NamespaceOf[d]

\* The goroutine of the claims is still to insert c: it has it in its list, or
\* will be sent its addition by the present watch, or by the next one.
ToCome(c) ==
    LET r == "persistentvolumeclaims"
    IN  \/ \E l \in listing[r] : l.uid = c
        \/ \E a \in log[r] :
            /\ a.uid = c /\ a.type = "ADDED"
            /\ IF Connected(r)
                 THEN a.rv > cursor[r] /\ a.rv # rv[r]
                 ELSE a.rv > resource_version[r]

\* Every mount of a live pod shows the live claim of its name, when that claim
\* is at least as old as the pod, unless the claim is still to come: whatever
\* puts another claim into the mount is followed by what puts this one back.
MountsShown ==
    \A row \in pod_mount : \A c \in ClaimsNamed(row.pod_uid, row.pvc_name) :
        /\ Alive(row.pod_uid) /\ Distinct(row.pvc_name)
        /\ object[c].created <= object[row.pod_uid].created
        /\ c \notin missed["persistentvolumeclaims"]
        => row.pvc_uid = c \/ ToCome(c)

\* The inductive invariant, relative to IInv and RInv.
MInv == NamesStand /\ MountsShown
=============================================================================
