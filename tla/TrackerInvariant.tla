-------------------------- MODULE TrackerInvariant --------------------------
(***************************************************************************)
(* The inductive invariant behind CheckpointCovers.  CheckpointCovers     *)
(* alone is not inductive: what is at or below the stored version was put *)
(* there by goroutines that had seen everything before it, so the         *)
(* invariant has to say what a goroutine has seen (Seen, ListStands,      *)
(* EventStands), and that the API server's log is what it should be       *)
(* (LogStands and ClaimsStand of ClusterInvariant).                        *)
(***************************************************************************)
EXTENDS TrackerProperties, ClusterInvariant

Connected(r) == pc[r] \in {"watch"} \cup PVHandlerStep

\* Versions and cursors do not run ahead of the cluster, a watch that was
\* started with a version has no list and does not start before it, and the
\* stored version is not ahead of the watch, but for a volume half recorded.
VersionsStand ==
    \A r \in Resource :
        /\ resource_version[r] <= index
        /\ Connected(r) =>
            /\ cursor[r] <= index
            /\ rv[r] # 0 =>
                /\ listing[r] = {}
                /\ rv[r] <= resource_version[r]
                /\ rv[r] <= cursor[r] + 1
            /\ \/ resource_version[r] <= cursor[r]
               \/ resource_version[r] = rv[r]
               \/ /\ r = PVs /\ pc[r] = "bind"
                  /\ event.type = "ADDED" /\ event.rv = resource_version[r]
        /\ ~Connected(r) => listing[r] = {}

\* A listed object is alive in the part of the log the list stands for, and
\* the list shows what that part says of it.
ListStands ==
    \A r \in Resource : \A l \in listing[r] :
        /\ l.type = "ADDED" /\ l.created # NULL
        /\ l.rv \in 1..cursor[r]
        /\ (r = PVs /\ l.claim # NULL) =>
            \E e \in log[PVs] : e.uid = l.uid /\ e.claim = l.claim
        /\ \A e \in log[r] : e.uid = l.uid /\ e.rv <= cursor[r] =>
            /\ e.type # "DELETED"
            /\ \/ Recorded(r, e) \/ e.uid \in missed[r]
               \/ e.claim \in {NULL, l.claim}

\* The PV event in hand is the next one offered.
EventStands ==
    pc[PVs] \in PVHandlerStep =>
        /\ event \in Offered(PVs)
        /\ event.rv # rv[PVs]
        /\ pc[PVs] \in {"source", "store"} =>
            \/ event.type = "ADDED"
            \/ event.type = "MODIFIED" /\ event.phase = "Available"
        /\ pc[PVs] = "bind" =>
            /\ event.claim # NULL
            /\ \/ event.type = "ADDED" /\ PVRecorded(event.uid)
               \/ event.type = "MODIFIED" /\ event.phase = "Bound"

\* Whatever a watch has been sent is recorded, still listed, or excused.
Seen ==
    \A r \in Resource : Connected(r) =>
        \A e \in log[r] : e.rv <= cursor[r] =>
            \/ Recorded(r, e) \/ e.uid \in missed[r]
            \/ \E l \in listing[r] : l.uid = e.uid

\* The inductive invariant.
IInv ==
    /\ TypeOK
    /\ LogStands
    /\ ClaimsStand
    /\ VersionsStand
    /\ ListStands
    /\ EventStands
    /\ Seen
    /\ CheckpointCovers
=============================================================================
