---------------------------- MODULE MockInvariant ----------------------------
(***************************************************************************)
(* The inductive invariant behind MapsConverge and UpdatesFindEntries of  *)
(* MockTracker.  What the maps show is right once a goroutine has caught  *)
(* up because, before that, what would put it right is still to come      *)
(* (EntriesStand); and an event that would put something old into a map   *)
(* is followed by one that puts the new into it (SpecsTold, ListsTold).    *)
(***************************************************************************)
EXTENDS MockTracker, TrackerInvariant

\* The events that make the handler of r insert or update the entry.
Writes(r, e) ==
    \/ e.type = "ADDED"
    \/ /\ e.type = "MODIFIED"
       /\ \/ r = "persistentvolumeclaims" /\ e.phase = "Pending"
          \/ r = PVs /\ e.phase = "Available"

\* What the watch of r is still to bring: the rest of its list and the events
\* after its cursor.
Queue(r) == listing[r] \cup {f \in log[r] : f.rv > cursor[r]}

\* What of it is still to change the map: all but a volume that has been stored.
Coming(r) == {e \in Queue(r) : ~(r = PVs /\ pc[r] = "bind" /\ e = event)}

\* Events are of objects that exist and have distinct revisions, and the last
\* one of an object that is gone says so.  (InOrder of ClusterInvariant, but
\* that the claims of the initial state were never added.)
LogOrdered ==
    \A r \in Resource :
        /\ \A e \in log[r] :
            /\ object[e.uid].phase # "absent"
            /\ e.type = "DELETED" =>
                /\ object[e.uid].phase = "gone"
                /\ \A f \in log[r] : f.uid = e.uid => f.rv <= e.rv
            /\ \A f \in log[r] : e.rv = f.rv => e = f
        /\ \A u \in MembersOf(r) :
            /\ object[u].phase = "gone" =>
                \E d \in log[r] : d.uid = u /\ d.type = "DELETED"
            /\ Alive(u) => object[u].rv \in 1..index

\* f tells the present spec of its object.
Tells(r, f) == Writes(r, f) /\ f.spec = object[f.uid].spec

\* An event with an old spec is followed by one that tells the present one.
SpecsTold ==
    \A r \in Resource : \A e \in log[r] : e.spec # object[e.uid].spec =>
        \E f \in log[r] : Tells(r, f) /\ f.uid = e.uid /\ e.rv < f.rv

\* The mock knows no versions, cursors are revisions there have been, and only
\* a watch has a list.
WatchesStand ==
    \A r \in Resource :
        /\ resource_version[r] = 0 /\ rv[r] = 0
        /\ Connected(r) => cursor[r] <= index
        /\ ~Connected(r) => listing[r] = {}

\* So is a listed object with an old spec, and one that is gone by its deletion.
ListsTold ==
    \A r \in Resource : \A l \in listing[r] :
        /\ l.type = "ADDED" /\ l.rv <= cursor[r]
        /\ object[l.uid].phase # "absent"
        /\ object[l.uid].phase = "gone" =>
            \E d \in log[r] :
                d.uid = l.uid /\ d.type = "DELETED" /\ d.rv > cursor[r]
        /\ l.spec # object[l.uid].spec =>
            \E f \in log[r] : Tells(r, f) /\ f.uid = l.uid /\ f.rv > cursor[r]

\* The volume's event in hand is the next one, and is one to store before it
\* has been stored.
InHandStands ==
    pc[PVs] \in PVHandlerStep =>
        /\ event \in Offered(PVs)
        /\ pc[PVs] # "bind" => Writes(PVs, event)

\* A live object's entry is as it should be or will be made so, the entry of
\* one that is gone will be deleted, if a watch has seen it go, and an update
\* finds an entry or comes after what makes one.
EntriesOf(r) ==
    Connected(r) =>
        /\ \A u \in MembersOf(r) :
            /\ Alive(u) =>
                \/ ForUID[u] = object[u].spec
                \/ \E e \in Coming(r) : e.uid = u /\ Tells(r, e)
            /\ ForUID[u] # NULL =>
                \/ Alive(u) \/ u \in missed[r]
                \/ \E d \in Coming(r) : d.uid = u /\ d.type = "DELETED"
        /\ \A e \in Coming(r) : Writes(r, e) =>
            \/ e.type = "ADDED"
            \/ ForUID[e.uid] # NULL
            \/ \E a \in Coming(r) :
                a.uid = e.uid /\ a.type = "ADDED" /\ a.rv < e.rv

\* Only of objects that have existed is there an entry.
EntriesStand ==
    /\ \A u \in Object : ForUID[u] # NULL => object[u].phase # "absent"
    /\ \A r \in Resource : EntriesOf(r)

\* What has been read of Deletions was less than what has been deleted since.
CountsStand == \A r \in Resource : read[r] # NULL => read[r] < deleted

\* The inductive invariant.
MockInv ==
    /\ MockTypeOK
    /\ LogOrdered
    /\ SpecsTold
    /\ WatchesStand
    /\ ListsTold
    /\ InHandStands
    /\ EntriesStand
    /\ CountsStand
    /\ DeletionsSeen
    /\ UpdatesFindEntries
=============================================================================
