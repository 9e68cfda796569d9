----------------------- MODULE SharedVolumesInvariant -----------------------
(***************************************************************************)
(* The inductive invariant behind SharedVersionCovers and RowsCurrent of  *)
(* SharedVolumes: what each goroutine's cursor, list and event in hand    *)
(* stand for, and which of them still has to see what the tables do not   *)
(* show yet.                                                               *)
(***************************************************************************)
EXTENDS SharedVolumes, ClusterInvariant

\* What has an event to deal with.
Busy == ExportStep \cup {"store", "bind"}

\* Cursors and the version are revisions there have been.
CursorsStand ==
    /\ resource_version[PVs] <= index
    /\ \A g \in Goroutine :
        /\ cursor[g] <= index
        /\ ~Connected(g) => listing[g] = {}

\* A volume that is still to come in a list: it was alive when the list was
\* taken, and if the list says an old spec the latest one is still to come.
ListsStand ==
    \A g \in Goroutine : \A l \in listing[g] :
        /\ l.type = "ADDED" /\ l.created # NULL /\ l.rv <= cursor[g]
        /\ l.claim # NULL =>
            \E e \in log[PVs] : e.uid = l.uid /\ e.claim = l.claim
        /\ \A e \in log[PVs] : e.uid = l.uid /\ e.rv <= cursor[g] =>
            e.type # "DELETED"
        /\ SpecOf(l) # SpecOf(object[l.uid]) =>
            \E f \in log[PVs] :
                Latest(f) /\ f.uid = l.uid /\ cursor[g] < f.rv

\* The event in hand is the next one, and at a step it has.
EventsStand ==
    \A g \in Goroutine : pc[g] \in Busy =>
        /\ event[g] \in Offered(g)
        /\ pc[g] # "bind" => event[g].type = "ADDED" \/ Renews(event[g])
        /\ pc[g] = "bind" =>
            /\ event[g].claim # NULL
            /\ \/ event[g].type = "ADDED" /\ DB!PVRecorded(event[g].uid)
               \/ event[g].type = "MODIFIED" /\ event[g].phase = "Bound"

\* Only volumes that are gone are recorded as deleted.
DeletionsTrue ==
    \A v \in PV : pv[v].delete_time # NULL => object[v].phase = "gone"

\* The work of connected goroutines: what was read before is no version.
NothingBefore ==
    (\A g \in Goroutine : ~Connected(g)) =>
        /\ resource_version[PVs] = 0
        /\ \A g \in Goroutine : cursor[g] = 0
        /\ \A v \in PV : ~DB!PVRecorded(v)

\* Once one goroutine is connected, every event is recorded, hidden by a list,
\* or ahead of one of them.
AllCovered ==
    (\E g \in Goroutine : Connected(g)) =>
        \A e \in log[PVs] :
            \/ Recorded(e)
            \/ e.uid \in missed
            \/ \E g \in Goroutine : Ahead(g, e)

\* While a row is out of date, the event that brings it up to date is ahead of
\* one of them.
SpecsCovered ==
    \A v \in PV : DB!PVRecorded(v) /\ SpecOf(pv[v]) # SpecOf(object[v]) =>
        \E g \in Goroutine : \E f \in log[PVs] :
            /\ Latest(f) /\ f.uid = v
            /\ Connected(g) /\ cursor[g] < f.rv

Undisturbed ==
    /\ CursorsStand /\ ListsStand /\ EventsStand /\ DeletionsTrue
    /\ NothingBefore /\ AllCovered /\ SpecsCovered

SInv ==
    /\ TypeOK
    /\ InOrder(PVs) /\ ClaimsStand /\ SpecsStand
    /\ faults = 0 => Undisturbed
=============================================================================
