-------------------------- MODULE ClusterInvariant --------------------------
(***************************************************************************)
(* What holds of the cluster whatever watches it: the log of the API      *)
(* server against the objects, the claims against the volumes that hold   *)
(* them, and the names of claims.                                          *)
(***************************************************************************)
EXTENDS Cluster

\* The log of a resource against its objects: revisions are distinct, objects
\* that exist were added, and those deleted were added before and have no later
\* event.
InOrder(r) ==
    /\ \A e \in log[r] :
        /\ e.created # NULL
        /\ object[e.uid].phase # "absent"
        /\ e.type = "DELETED" =>
            /\ e.phase = "gone" /\ object[e.uid].phase = "gone"
            /\ \E a \in log[r] : a.uid = e.uid /\ a.type = "ADDED"
                                    /\ a.rv < e.rv
        /\ \A f \in log[r] : e.rv = f.rv => e = f
    /\ \A u \in MembersOf(r) :
        /\ object[u].phase # "absent" =>
            /\ object[u].created # NULL
            /\ \E a \in log[r] : a.uid = u /\ a.type = "ADDED"
        /\ object[u].phase = "gone" =>
            \E d \in log[r] :
                /\ d.uid = u /\ d.type = "DELETED"
                /\ \A e \in log[r] : e.uid = u => e.rv <= d.rv
        /\ Alive(u) => object[u].rv \in 1..index

LogStands == \A r \in Resource : InOrder(r)

\* A claim is only ever held by one volume.
ClaimsStand ==
    /\ \A e \in log[PVs] : e.phase = "Bound" => e.claim # NULL
    /\ \A e \in log[PVs] : e.claim # NULL =>
        \/ object[e.claim].phase = "gone"
        \/ object[e.uid].phase = "Bound" /\ object[e.uid].claim = e.claim
    /\ \A e, f \in log[PVs] :
        e.claim # NULL /\ e.claim = f.claim => e.uid = f.uid
    /\ \A v \in PV :
        /\ object[v].phase = "Bound" => object[v].claim # NULL
        /\ object[v].claim # NULL =>
            \E e \in log[PVs] : e.uid = v /\ e.claim = object[v].claim

\* The volume's spec has changed.
Renews(e) == e.type = "MODIFIED" /\ e.phase = "Available"

\* The event that last did so; the volume is still as it says.
Latest(f) ==
    /\ f \in log[PVs] /\ Renews(f)
    /\ SpecOf(f) = SpecOf(object[f.uid])
    /\ \A h \in log[PVs] : h.uid = f.uid /\ Renews(h) => h.rv <= f.rv

\* An event that says something else of a volume's spec is followed by the
\* latest one.
SpecsStand ==
    \A e \in log[PVs] : SpecOf(e) # SpecOf(object[e.uid]) =>
        \E f \in log[PVs] : Latest(f) /\ f.uid = e.uid /\ e.rv < f.rv

\* Events carry the creation time of their object, which has one when it exists,
\* no later than the present; a deletion is stamped with its own time, if at
\* all, and is the last event of its object.
LogTrue ==
    /\ \A r \in Resource : \A e \in log[r] :
        /\ e.created = object[e.uid].created
        /\ e.type = "DELETED" =>
            /\ e.deletion \in {NULL, Stamp(e.rv)}
            /\ \A f \in log[r] : f.uid = e.uid => f.rv <= e.rv
    /\ \A u \in Object : object[u].created # NULL =>
        object[u].phase # "absent" /\ object[u].created <= Now

\* A claim had the name of another in its namespace: it is older, and had been
\* deleted before the other was added.
Precedes(d, c) ==
    /\ object[d].phase = "gone"
    /\ object[d].created <= object[c].created
    /\ \E del \in log["persistentvolumeclaims"] :
        /\ del.uid = d /\ del.type = "DELETED"
        /\ \A e \in log["persistentvolumeclaims"] : e.uid = c => del.rv < e.rv

\* Whatever else had the name of a live claim precedes it.
NamesStand ==
    \A c, d \in PVC :
        /\ c # d /\ NameOf[c] = NameOf[d] /\ NamespaceOf[c] = NamespaceOf[d]
        /\ Alive(c) /\ object[d].phase # "absent"
        => Precedes(d, c)
=============================================================================
