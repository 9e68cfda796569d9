-------------------------- MODULE CheckpointProofs --------------------------
(***************************************************************************)
(* The proof of CheckpointCovers: IInv is an inductive invariant of Spec, *)
(* for every cluster, every interleaving and any number of faults.        *)
(*                                                                         *)
(* The steps of the cluster only add events after everything a goroutine  *)
(* has seen.  The steps of a goroutine never take back what is recorded   *)
(* (Kept), and leave what the event they deal with said in the database   *)
(* (Told), so that its version may be stored and the watch move on        *)
(* (ConsumeStands).                                                        *)
(***************************************************************************)
EXTENDS TrackerProofs

\* No transaction takes back what the database shows.
Kept ==
    /\ \A r \in Resource : \A e \in log[r] : Recorded(r, e) => Recorded(r, e)'
    /\ \A v \in PV : PVRecorded(v) => PVRecorded(v)'

\* Row by row: times that are set stay set, and so does the volume of a claim
\* the log knows the volume of.
Grown ==
    /\ \A p \in Pod :
        /\ pod[p].create_time # NULL => pod'[p].create_time # NULL
        /\ pod[p].delete_time # NULL => pod'[p].delete_time # NULL
    /\ \A c \in PVC :
        /\ pvc[c].create_time # NULL => pvc'[c].create_time # NULL
        /\ pvc[c].delete_time # NULL => pvc'[c].delete_time # NULL
    /\ \A v \in PV :
        /\ pv[v].create_time # NULL => pv'[v].create_time # NULL
        /\ pv[v].delete_time # NULL => pv'[v].delete_time # NULL
    /\ \A e \in log[PVs] : e.claim # NULL /\ pvc[e.claim].pv_uid = e.uid =>
            pvc'[e.claim].pv_uid = e.uid

\* Rows that only grow keep what is recorded.
LEMMA GrownKeeps ==
    ASSUME TypeOK, Grown
    PROVE  Kept
  <1> USE DEF Recorded, PodRecorded, PVCRecorded, PVRecorded
  <1>1. \A v \in PV : PVRecorded(v) => PVRecorded(v)'
    BY DEF Grown
  <1>2. ASSUME NEW r \in Resource, NEW e \in log[r], Recorded(r, e)
        PROVE  Recorded(r, e)'
    <2>1. e.uid \in MembersOf(r)
      BY DEF TypeOK, ClusterTypeOK
    <2>2. CASE r = "pods"
      BY <1>2, <2>1, <2>2 DEF Grown, MembersOf
    <2>3. CASE r = "persistentvolumeclaims"
      BY <1>2, <2>1, <2>3 DEF Grown, MembersOf
    <2>4. CASE r = "persistentvolumes"
      BY <1>2, <2>1, <2>4 DEF Grown, MembersOf, PVs
    <2>5. QED
      BY <2>2, <2>3, <2>4 DEF Resource
  <1>3. QED
    BY <1>1, <1>2 DEF Kept

\* The transactions on pods only let rows grow.
LEMMA PodTxKeeps ==
    ASSUME TypeOK, NEW e \in Event, e.uid \in Pod,
           \/ InsertPod(e) /\ e.created # NULL
           \/ DeletePodRow(e) /\ e.deletion # NULL
           \/ UNCHANGED dbVars
    PROVE  Kept
  <1>1. pod \in [Pod -> PodRow]
    BY DEF TypeOK, DBTypeOK
  <1>2. pvc' = pvc /\ pv' = pv
    BY DEF InsertPod, DeletePodRow, dbVars
  <1>3. \A p \in Pod :
            /\ pod[p].create_time # NULL => pod'[p].create_time # NULL
            /\ pod[p].delete_time # NULL => pod'[p].delete_time # NULL
    BY <1>1 DEF InsertPod, DeletePodRow, dbVars, PodRow
  <1>4. Grown
    BY <1>2, <1>3 DEF Grown
  <1>5. QED
    BY <1>4, GrownKeeps

\* So do those on claims.
LEMMA PVCTxKeeps ==
    ASSUME TypeOK, NEW e \in Event, e.uid \in PVC, NEW t \in Time \ {NULL},
           \/ InsertPVC(e) /\ e.created # NULL
           \/ UpdatePVC(e) \/ DeletePVCRow(e, t) \/ UNCHANGED dbVars
    PROVE  Kept
  <1>1. pvc \in [PVC -> PVCRow]
    BY DEF TypeOK, DBTypeOK
  <1>2. pod' = pod /\ pv' = pv
    BY DEF InsertPVC, UpdatePVC, DeletePVCRow, dbVars
  <1>3. \A c \in PVC :
            /\ pvc[c].create_time # NULL => pvc'[c].create_time # NULL
            /\ pvc[c].delete_time # NULL => pvc'[c].delete_time # NULL
            /\ pvc'[c].pv_uid = pvc[c].pv_uid
    <2> SUFFICES ASSUME NEW c \in PVC
                 PROVE  /\ pvc[c].create_time # NULL =>
                                pvc'[c].create_time # NULL
                        /\ pvc[c].delete_time # NULL =>
                                pvc'[c].delete_time # NULL
                        /\ pvc'[c].pv_uid = pvc[c].pv_uid
      OBVIOUS
    <2>1. pvc[c] \in PVCRow /\ c \in DOMAIN pvc
      BY <1>1
    <2>2. CASE InsertPVC(e) /\ e.created # NULL
      BY <2>1, <2>2 DEF InsertPVC, PVCRow
    <2>3. CASE UpdatePVC(e)
      BY <2>1, <2>3 DEF UpdatePVC, PVCRow
    <2>4. CASE DeletePVCRow(e, t)
      BY <2>1, <2>4 DEF DeletePVCRow, PVCRow
    <2>5. QED
      BY <2>2, <2>3, <2>4 DEF dbVars
  <1>4. \A f \in log[PVs] : f.claim # NULL => f.claim \in PVC
    BY DEF TypeOK, ClusterTypeOK, PVs, Resource, Event
  <1>5. Grown
    BY <1>2, <1>3, <1>4 DEF Grown
  <1>6. QED
    BY <1>5, GrownKeeps

\* And those on volumes, other than bindings.
LEMMA PVTxKeeps ==
    ASSUME TypeOK, NEW e \in Event, e.uid \in PV, NEW t \in Time \ {NULL},
           \/ InsertPV(e) /\ e.created # NULL
           \/ UpdatePV(e) \/ DeletePVRow(e, t) \/ UNCHANGED dbVars
    PROVE  Kept
  <1>1. pv \in [PV -> PVRow]
    BY DEF TypeOK, DBTypeOK
  <1>2. pod' = pod /\ pvc' = pvc
    BY DEF InsertPV, UpdatePV, DeletePVRow, dbVars
  <1>3. \A v \in PV :
            /\ pv[v].create_time # NULL => pv'[v].create_time # NULL
            /\ pv[v].delete_time # NULL => pv'[v].delete_time # NULL
    <2> SUFFICES ASSUME NEW v \in PV
                 PROVE  /\ pv[v].create_time # NULL =>
                                pv'[v].create_time # NULL
                        /\ pv[v].delete_time # NULL =>
                                pv'[v].delete_time # NULL
      OBVIOUS
    <2>1. pv[v] \in PVRow /\ v \in DOMAIN pv
      BY <1>1
    <2>2. CASE InsertPV(e) /\ e.created # NULL
      <3>1. CASE UNCHANGED dbVars
        BY <3>1 DEF dbVars
      <3>2. CASE ~UNCHANGED dbVars
        <4>1. pv' = [pv EXCEPT ![e.uid] = [@ EXCEPT !.create_time = e.created,
                                !.source = e.source, !.spec = e.spec]]
          BY <2>2, <3>2 DEF InsertPV
        <4>2. QED
          BY <2>1, <2>2, <4>1 DEF PVRow
      <3>3. QED
        BY <3>1, <3>2
    <2>3. CASE UpdatePV(e)
      BY <2>1, <2>3 DEF UpdatePV, PVRow
    <2>4. CASE DeletePVRow(e, t)
      BY <2>1, <2>4 DEF DeletePVRow, PVRow
    <2>5. QED
      BY <2>2, <2>3, <2>4 DEF dbVars
  <1>4. Grown
    BY <1>2, <1>3 DEF Grown
  <1>5. QED
    BY <1>4, GrownKeeps

\* A binding keeps every binding the log knows of, as no two volumes ever hold
\* one claim.
LEMMA BindPVCKeeps ==
    ASSUME TypeOK, ClaimsStand, NEW e, e.claim \in PVC,
           \E f \in log[PVs] : f.uid = e.uid /\ f.claim = e.claim,
           NEW t, BindPVC(e, t)
    PROVE  Kept
  <1>1. pvc \in [PVC -> PVCRow]
    BY DEF TypeOK, DBTypeOK
  <1>2. pod' = pod /\ pv' = pv
    BY DEF BindPVC
  <1>3. \A c \in PVC :
            /\ pvc'[c].create_time = pvc[c].create_time
            /\ pvc'[c].delete_time = pvc[c].delete_time
            /\ pvc'[c].pv_uid = IF c = e.claim THEN e.uid ELSE pvc[c].pv_uid
    BY <1>1 DEF BindPVC, PVCRow
  <1>4. \A f \in log[PVs] : f.claim # NULL => f.claim \in PVC
    BY DEF TypeOK, ClusterTypeOK, PVs, Resource, Event
  <1>5. \A f \in log[PVs] : f.claim = e.claim => f.uid = e.uid
    BY KindsDisjoint DEF ClaimsStand
  <1>6. Grown
    BY <1>2, <1>3, <1>4, <1>5 DEF Grown
  <1>7. QED
    BY <1>6, GrownKeeps

-----------------------------------------------------------------------------
(* Steps of the cluster.                                                   *)

\* The cluster's steps keep the invariant.
LEMMA ClusterStepIInv ==
    ASSUME IInv, ClusterStep
    PROVE  IInv'
  <1>1. TypeOK /\ TypeOK'
    BY ClusterStepTypeOK DEF IInv
  <1>2. UNCHANGED <<pod, pvc, pv, resource_version, pc, rv, listing, cursor,
                    event, missed>>
    BY DEF ClusterStep, dbVars, trackerVars
  <1>3. /\ index \in Nat /\ index' \in Nat /\ index <= index'
        /\ \A q \in Resource :
            /\ log[q] \subseteq log'[q]
            /\ \A f \in log'[q] \ log[q] : f.rv \in Nat /\ f.rv > index
    BY <1>1, ClusterOnlyAdds DEF TypeOK, ClusterStep
  <1>4. LogStands' /\ ClaimsStand'
    <2>1. CASE Compact
      BY <2>1 DEF IInv, Compact, LogStands, InOrder, ClaimsStand, Alive
    <2>2. CASE LawfulStep
      BY <2>2, LawfulKeepsLog, LawfulKeepsClaims DEF IInv, TypeOK
    <2>3. QED
      BY <2>1, <2>2, ClusterNextIsLawful DEF IInv, TypeOK, ClusterStep
  <1>5. /\ resource_version \in [Resource -> Nat]
        /\ cursor \in [Resource -> Nat]
        /\ \A r \in Resource : \A e \in log[r] : e.rv \in Nat
    BY <1>1 DEF TypeOK, DBTypeOK, ClusterTypeOK
  <1>6. VersionsStand'
    BY <1>2, <1>3, <1>5 DEF IInv, VersionsStand, Connected
  <1>7. \A r \in Resource : listing[r] # {} \/ Connected(r) => cursor[r] <= index
    BY DEF IInv, VersionsStand
  <1>8. \A r \in Resource : \A f \in log'[r] :
            f.rv <= cursor[r] /\ (listing[r] # {} \/ Connected(r)) => f \in log[r]
    BY <1>3, <1>5, <1>7
  <1>9. \A r \in Resource : \A f \in log'[r] :
            f.rv <= resource_version[r] => f \in log[r]
    BY <1>3, <1>5 DEF IInv, VersionsStand
  <1>10. \A r \in Resource : \A e : Recorded(r, e)' <=> Recorded(r, e)
    BY <1>2 DEF Recorded, PodRecorded, PVCRecorded, PVRecorded
  <1>11. ListStands'
    <2>1. PVs \in Resource
      BY DEF PVs, Resource
    <2>2. QED
      BY <1>2, <1>3, <1>8, <1>10, <2>1 DEF IInv, ListStands
  <1>12. EventStands'
    <2> SUFFICES ASSUME pc[PVs] \in PVHandlerStep
                 PROVE  event \in Offered(PVs)'
      BY <1>2 DEF IInv, EventStands, PVRecorded
    <2>1. PVs \in Resource /\ Connected(PVs)
      BY DEF PVs, Resource, Connected
    <2>2. event \in Offered(PVs)
      BY DEF IInv, EventStands
    <2>3. CASE listing[PVs] # {}
      BY <1>2, <2>2, <2>3 DEF Offered
    <2>4. CASE listing[PVs] = {}
      <3>1. /\ event \in log[PVs] /\ event.rv > cursor[PVs]
            /\ \A f \in log[PVs] : f.rv > cursor[PVs] => event.rv <= f.rv
        BY <2>2, <2>4 DEF Offered
      <3>2. event \in log'[PVs] /\ event.rv <= index
        BY <1>1, <1>3, <2>1, <3>1 DEF TypeOK, ClusterTypeOK
      <3>3. \A f \in log'[PVs] : f.rv > cursor[PVs] => event.rv <= f.rv
        BY <1>3, <1>5, <2>1, <3>1, <3>2
      <3>4. QED
        BY <1>2, <2>4, <3>1, <3>2, <3>3 DEF Offered
    <2>5. QED
      BY <2>3, <2>4
  <1>13. Seen'
    BY <1>2, <1>8, <1>10 DEF IInv, Seen, Connected
  <1>14. CheckpointCovers'
    BY <1>2, <1>9, <1>10 DEF IInv, CheckpointCovers, InHand
  <1>15. QED
    BY <1>1, <1>4, <1>6, <1>11, <1>12, <1>13, <1>14 DEF IInv

-----------------------------------------------------------------------------
(* Starting a watch.                                                       *)

\* What lies at or below the version of a goroutine with nothing in its hands
\* is recorded or excused.
LEMMA NothingInHand ==
    ASSUME IInv, NEW r \in Resource, pc[r] \in {"connect", "down"},
           NEW e \in log[r], e.rv <= resource_version[r]
    PROVE  Recorded(r, e) \/ e.uid \in missed[r]
  <1>1. listing[r] = {}
    BY DEF IInv, VersionsStand, Connected, PVHandlerStep
  <1>2. ~InHand(r, e)
    BY <1>1 DEF InHand, PVHandlerStep
  <1>3. QED
    BY <1>2 DEF IInv, CheckpointCovers

\* A list leaves out only objects that are excused by Hidden.
LEMMA ListIInv ==
    ASSUME IInv, NEW r \in Resource, ConnectList(r)
    PROVE  IInv'
  <1>1. TypeOK /\ TypeOK'
    BY ConnectTypeOK DEF IInv, Connect
  <1>2. UNCHANGED <<clusterVars, dbVars, event>>
    BY DEF ConnectList
  <1>3. LogStands' /\ ClaimsStand'
    BY <1>2 DEF IInv, clusterVars, LogStands, InOrder, ClaimsStand, Alive
  <1>4. pc[r] = "connect" /\ r \in Resource /\ index \in Nat
    BY <1>1, BoundsAreNumbers DEF ConnectList, TypeOK, ClusterTypeOK
  <1>5. /\ pc'[r] = "watch" /\ rv'[r] = 0 /\ listing'[r] = Listing(r)
        /\ cursor'[r] = index /\ missed'[r] = missed[r] \cup Hidden(r)
        /\ \A q \in Resource \ {r} :
            /\ pc'[q] = pc[q] /\ rv'[q] = rv[q] /\ listing'[q] = listing[q]
            /\ cursor'[q] = cursor[q] /\ missed'[q] = missed[q]
    BY <1>1, <1>4 DEF ConnectList, TypeOK
  <1>6. \A q \in Resource : \A e : Recorded(q, e)' <=> Recorded(q, e)
    BY <1>2 DEF dbVars, Recorded, PodRecorded, PVCRecorded, PVRecorded
  <1>7. /\ UNCHANGED <<index, object, log, resource_version, pv>>
        /\ resource_version \in [Resource -> Nat]
        /\ \A q \in Resource : \A e \in log[q] : e.rv \in 1..index
    BY <1>1, <1>2 DEF clusterVars, dbVars, TypeOK, DBTypeOK, ClusterTypeOK
  <1>8. \A l \in Listing(r) :
            /\ l.uid \in MembersOf(r) /\ Alive(l.uid) /\ l.type = "ADDED"
            /\ l.created = object[l.uid].created /\ l.rv = object[l.uid].rv
            /\ l.claim = object[l.uid].claim
    BY DEF Listing, EventOf
  <1>9. \A u \in MembersOf(r) : Alive(u) => \E l \in Listing(r) : l.uid = u
    <2> SUFFICES ASSUME NEW u \in MembersOf(r), Alive(u)
                 PROVE  \E l \in Listing(r) : l.uid = u
      OBVIOUS
    <2>1. EventOf("ADDED", u, object[u]).uid = u
      BY DEF EventOf
    <2>2. EventOf("ADDED", u, object[u]) \in Listing(r)
      BY DEF Listing
    <2>3. QED
      BY <2>1, <2>2
  <1>10. VersionsStand'
    <2> SUFFICES ASSUME NEW q \in Resource PROVE VersionsStand!(q)'
      BY DEF VersionsStand
    <2>1. CASE q = r
      BY <1>4, <1>5, <1>7, <2>1 DEF IInv, VersionsStand, Connected
    <2>2. CASE q # r
      BY <1>2, <1>5, <1>7, <2>2 DEF IInv, VersionsStand, Connected
    <2>3. QED
      BY <2>1, <2>2
  <1>11. ASSUME NEW l \in Listing(r), NEW e \in log[r], e.uid = l.uid
         PROVE  /\ e.type # "DELETED"
                /\ \/ Recorded(r, e) \/ e.uid \in missed'[r]
                   \/ e.claim \in {NULL, l.claim}
    <2>1. e.type # "DELETED"
      BY <1>8, <1>11 DEF IInv, LogStands, InOrder, Alive
    <2>2. CASE e.rv <= resource_version[r]
      BY <1>4, <1>5, <2>1, <2>2, NothingInHand
    <2>3. CASE e.rv > resource_version[r] /\ e.claim \notin {NULL, l.claim}
      <3>1. e.uid \in Hidden(r)
        BY <1>8, <1>11, <2>3 DEF Hidden
      <3>2. QED
        BY <1>5, <2>1, <3>1
    <2>4. QED
      BY <1>7, <2>1, <2>2, <2>3
  <1>12. ListStands'
    <2>1. ASSUME NEW l \in Listing(r)
          PROVE  /\ l.type = "ADDED" /\ l.created # NULL
                 /\ l.rv \in 1..index
                 /\ (r = PVs /\ l.claim # NULL) =>
                        \E e \in log[PVs] : e.uid = l.uid /\ e.claim = l.claim
      <3>1. l.type = "ADDED" /\ l.created # NULL /\ l.rv \in 1..index
        BY <1>8 DEF IInv, LogStands, InOrder, Alive
      <3>2. ASSUME r = PVs, l.claim # NULL
            PROVE  \E e \in log[PVs] : e.uid = l.uid /\ e.claim = l.claim
        <4>1. l.uid \in PV
          BY <1>8, <3>2 DEF PVs, MembersOf
        <4>2. QED
          BY <1>8, <3>2, <4>1 DEF IInv, ClaimsStand
      <3>3. QED
        BY <3>1, <3>2
    <2>2. ASSUME NEW q \in Resource, NEW l \in listing'[q]
          PROVE  /\ l.type = "ADDED" /\ l.created # NULL
                 /\ l.rv \in 1..cursor'[q]
                 /\ (q = PVs /\ l.claim # NULL) =>
                        \E e \in log[PVs] : e.uid = l.uid /\ e.claim = l.claim
                 /\ \A e \in log[q] : e.uid = l.uid /\ e.rv <= cursor'[q] =>
                        /\ e.type # "DELETED"
                        /\ \/ Recorded(q, e) \/ e.uid \in missed'[q]
                           \/ e.claim \in {NULL, l.claim}
      <3>1. CASE q = r
        BY <1>5, <1>11, <2>1, <2>2, <3>1
      <3>2. CASE q # r
        BY <1>5, <2>2, <3>2 DEF IInv, ListStands
      <3>3. QED
        BY <3>1, <3>2
    <2>3. QED
      BY <1>6, <1>7, <2>2 DEF ListStands
  <1>13. EventStands'
    <2>1. CASE r = PVs
      BY <1>5, <2>1 DEF EventStands, PVHandlerStep
    <2>2. CASE r # PVs
      <3>1. PVs \in Resource \ {r}
        BY <2>2 DEF PVs, Resource
      <3>2. QED
        BY <1>2, <1>5, <1>7, <3>1 DEF IInv, EventStands, Offered, PVRecorded
    <2>3. QED
      BY <2>1, <2>2
  <1>14. ASSUME NEW e \in log[r]
         PROVE  \/ Recorded(r, e) \/ e.uid \in missed'[r]
                \/ \E l \in Listing(r) : l.uid = e.uid
    <2>1. e.uid \in MembersOf(r)
      BY <1>1 DEF TypeOK, ClusterTypeOK
    <2>2. CASE Alive(e.uid)
      BY <1>9, <2>1, <2>2
    <2>3. CASE ~Alive(e.uid)
      <3>1. object[e.uid].phase = "gone"
        BY <2>3 DEF IInv, LogStands, InOrder, Alive
      <3>2. PICK d \in log[r] : d.uid = e.uid /\ d.type = "DELETED"
                                /\ e.rv <= d.rv
        BY <2>1, <3>1 DEF IInv, LogStands, InOrder
      <3>3. CASE d.rv > resource_version[r]
        <4>1. e.uid \in Hidden(r)
          BY <3>2, <3>3 DEF Hidden
        <4>2. QED
          BY <1>5, <4>1
      <3>4. CASE d.rv <= resource_version[r]
        <4>1. e.rv <= resource_version[r]
          BY <1>7, <3>2, <3>4
        <4>2. QED
          BY <1>4, <1>5, <4>1, NothingInHand
      <3>5. QED
        BY <1>7, <3>3, <3>4
    <2>4. QED
      BY <2>2, <2>3
  <1>15. Seen'
    <2>1. ASSUME NEW q \in Resource, Connected(q)', NEW e \in log[q],
                 e.rv <= cursor'[q]
          PROVE  \/ Recorded(q, e) \/ e.uid \in missed'[q]
                 \/ \E l \in listing'[q] : l.uid = e.uid
      <3>1. CASE q = r
        BY <1>5, <1>14, <3>1
      <3>2. CASE q # r
        BY <1>5, <2>1, <3>2 DEF IInv, Seen, Connected
      <3>3. QED
        BY <3>1, <3>2
    <2>2. QED
      BY <1>6, <1>7, <2>1 DEF Seen
  <1>16. CheckpointCovers'
    <2>1. ASSUME NEW q \in Resource, NEW e \in log[q],
                 e.rv <= resource_version[q]
          PROVE  Recorded(q, e) \/ e.uid \in missed'[q] \/ InHand(q, e)'
      <3>1. CASE q = r
        BY <1>5, <1>14, <3>1 DEF InHand
      <3>2. CASE q # r
        BY <1>2, <1>5, <2>1, <3>2 DEF IInv, CheckpointCovers, InHand
      <3>3. QED
        BY <3>1, <3>2
    <2>2. QED
      BY <1>6, <1>7, <2>1 DEF CheckpointCovers
  <1>17. QED
    BY <1>1, <1>3, <1>10, <1>12, <1>13, <1>15, <1>16 DEF IInv

\* A watch from the stored version has seen what that version stands for.
LEMMA FromIInv ==
    ASSUME IInv, NEW r \in Resource, ConnectFrom(r) \/ ConnectExpired(r)
    PROVE  IInv'
  <1>1. TypeOK /\ TypeOK'
    BY ConnectTypeOK DEF IInv, Connect
  <1>2. UNCHANGED <<clusterVars, dbVars, listing, event, missed>>
    BY DEF ConnectFrom, ConnectExpired
  <1>3. LogStands' /\ ClaimsStand'
    BY <1>2 DEF IInv, clusterVars, LogStands, InOrder, ClaimsStand, Alive
  <1>4. pc[r] = "connect" /\ listing[r] = {}
    BY DEF IInv, VersionsStand, Connected, PVHandlerStep, ConnectFrom,
           ConnectExpired
  <1>5. \/ pc' = pc /\ rv' = rv /\ cursor' = cursor
        \/ /\ pc'[r] = "watch" /\ rv'[r] = resource_version[r]
           /\ cursor'[r] \in Nat
           /\ cursor'[r] <= resource_version[r]
           /\ rv'[r] <= cursor'[r] + 1
           /\ \A q \in Resource \ {r} : /\ pc'[q] = pc[q] /\ rv'[q] = rv[q]
                                        /\ cursor'[q] = cursor[q]
    <2>1. CASE ConnectExpired(r)
      BY <2>1 DEF ConnectExpired
    <2>2. CASE ConnectFrom(r)
      <3>1. resource_version[r] \in Nat \ {0}
        BY <1>1, <2>2 DEF TypeOK, DBTypeOK, ConnectFrom, GetRV
      <3>2. PICK back \in {0, 1} :
                cursor' = [cursor EXCEPT ![r] = resource_version[r] - back]
        BY <2>2, OverlapTyped DEF ConnectFrom, GetRV
      <3>3. cursor'[r] \in Nat /\ cursor'[r] <= resource_version[r]
            /\ resource_version[r] <= cursor'[r] + 1
        BY <1>1, <3>1, <3>2 DEF TypeOK
      <3>4. QED
        BY <1>1, <2>2, <3>2, <3>3 DEF TypeOK, ConnectFrom, GetRV
    <2>3. QED
      BY <2>1, <2>2
  <1>6. \A q \in Resource : \A e : Recorded(q, e)' <=> Recorded(q, e)
    BY <1>2 DEF dbVars, Recorded, PodRecorded, PVCRecorded, PVRecorded
  <1>7. /\ UNCHANGED <<index, log, resource_version, pv>>
        /\ resource_version \in [Resource -> Nat] /\ index \in Nat
        /\ cursor \in [Resource -> Nat]
        /\ \A q \in Resource : \A e \in log[q] : e.rv \in 1..index
    BY <1>1, <1>2, BoundsAreNumbers
       DEF clusterVars, dbVars, TypeOK, DBTypeOK, ClusterTypeOK
  <1>8. PVs \in Resource /\ (pc'[PVs] \in PVHandlerStep =>
                /\ pc'[PVs] = pc[PVs] /\ rv'[PVs] = rv[PVs]
                /\ cursor'[PVs] = cursor[PVs])
    BY <1>5 DEF PVs, Resource, PVHandlerStep
  <1>9. VersionsStand'
    <2> SUFFICES ASSUME NEW q \in Resource PROVE VersionsStand!(q)'
      BY DEF VersionsStand
    <2>1. resource_version[q] <= index /\ resource_version[q] \in Nat
      BY <1>7 DEF IInv, VersionsStand
    <2>2. CASE q = r /\ pc'[r] = "watch"
      BY <1>2, <1>4, <1>5, <1>7, <2>1, <2>2 DEF Connected
    <2>3. CASE ~(q = r /\ pc'[r] = "watch")
      <3>1. pc'[q] = pc[q] /\ rv'[q] = rv[q] /\ cursor'[q] = cursor[q]
        BY <1>4, <1>5, <2>3
      <3>2. QED
        BY <1>2, <1>7, <3>1 DEF IInv, VersionsStand, Connected
    <2>4. QED
      BY <2>2, <2>3
  <1>10. ListStands'
    <2>1. \A q \in Resource : listing[q] # {} => cursor'[q] = cursor[q]
      BY <1>4, <1>5
    <2>2. QED
      BY <1>2, <1>6, <1>7, <1>8, <2>1 DEF IInv, ListStands
  <1>11. EventStands'
    BY <1>2, <1>7, <1>8 DEF IInv, EventStands, Offered, PVRecorded
  <1>12. Seen'
    <2>1. ASSUME NEW q \in Resource, Connected(q)', NEW e \in log[q],
                 e.rv <= cursor'[q]
          PROVE  \/ Recorded(q, e) \/ e.uid \in missed[q]
                 \/ \E l \in listing[q] : l.uid = e.uid
      <3>1. CASE q = r /\ pc'[r] = "watch"
        <4>1. e.rv <= resource_version[r]
          BY <1>4, <1>5, <1>7, <2>1, <3>1
        <4>2. QED
          BY <1>4, <3>1, <4>1, NothingInHand
      <3>2. CASE ~(q = r /\ pc'[r] = "watch")
        BY <1>4, <1>5, <2>1, <3>2 DEF IInv, Seen, Connected
      <3>3. QED
        BY <3>1, <3>2
    <2>2. QED
      BY <1>2, <1>6, <1>7, <2>1 DEF Seen
  <1>13. CheckpointCovers'
    <2>1. ASSUME NEW q \in Resource, NEW e \in log[q], InHand(q, e)
          PROVE  InHand(q, e)'
      BY <1>2, <1>4, <1>5, <2>1 DEF InHand, PVHandlerStep, PVs, Resource
    <2>2. QED
      BY <1>2, <1>6, <1>7, <2>1 DEF IInv, CheckpointCovers
  <1>14. QED
    BY <1>1, <1>3, <1>9, <1>10, <1>11, <1>12, <1>13 DEF IInv

-----------------------------------------------------------------------------
(* Dealing with an event.                                                  *)

\* The database shows, or will never be asked to show, what event e said, and,
\* when e is an object of the initial list, what the log said of that object.
Told(r, e) ==
    \A f \in log[r] :
        \/ listing[r] = {} /\ f = e
        \/ listing[r] # {} /\ f.uid = e.uid /\ f.rv <= cursor[r]
        => Recorded(r, f)' \/ f.uid \in missed[r]

\* A goroutine that consumes what it was offered keeps the invariant if it
\* keeps what is recorded, has told the database, and stores no version but
\* the event's.
LEMMA ConsumeStands ==
    ASSUME IInv, TypeOK', NEW r \in Resource, NEW e \in Offered(r),
           Connected(r), pc' = [pc EXCEPT ![r] = "watch"],
           pc[r] \in PVHandlerStep => r = PVs /\ e = event,
           r # PVs => event' = event,
           Consume(r, e), Kept, Told(r, e),
           \/ resource_version' = resource_version
           \/ resource_version' = [resource_version EXCEPT ![r] = e.rv],
           UNCHANGED <<clusterVars, rv, missed>>
    PROVE  IInv'
  <1>1. TypeOK /\ PVs \in Resource
    BY DEF IInv, PVs, Resource
  <1>2. LogStands' /\ ClaimsStand'
    BY DEF IInv, clusterVars, LogStands, InOrder, ClaimsStand, Alive
  <1>3. UNCHANGED <<index, log, rv, missed>>
    BY DEF clusterVars
  <1>4. /\ resource_version \in [Resource -> Nat] /\ index \in Nat
        /\ cursor \in [Resource -> Nat] /\ rv \in [Resource -> Nat]
        /\ e.rv \in Nat
        /\ \A q \in Resource : \A f \in log[q] : f.rv \in 1..index
    BY <1>1, BoundsAreNumbers, OfferedType DEF TypeOK, DBTypeOK, ClusterTypeOK
  <1>5. /\ listing'[r] = listing[r] \ {e}
        /\ cursor'[r] = IF e.rv > cursor[r] THEN e.rv ELSE cursor[r]
        /\ \A q \in Resource \ {r} :
              listing'[q] = listing[q] /\ cursor'[q] = cursor[q]
    BY <1>1 DEF Consume, TypeOK
  <1>6. /\ pc'[r] = "watch"
        /\ \A q \in Resource \ {r} : pc'[q] = pc[q]
        /\ \A q \in Resource : Connected(q)' <=> Connected(q)
    BY <1>1 DEF TypeOK, Connected
  <1>7. /\ resource_version'[r] \in {resource_version[r], e.rv}
        /\ \A q \in Resource \ {r} : resource_version'[q] = resource_version[q]
    BY <1>4
  <1>8. cursor[r] <= index /\ resource_version[r] <= index
    BY DEF IInv, VersionsStand
  <1>9. ASSUME listing[r] # {}
        PROVE  VersionsStand' /\ ListStands' /\ Seen' /\ CheckpointCovers'
    <2>1. e \in listing[r] /\ e.rv <= cursor[r] /\ cursor'[r] = cursor[r]
      <3>1. e \in listing[r]
        BY <1>9 DEF Offered
      <3>2. e.rv <= cursor[r]
        BY <1>4, <3>1 DEF IInv, ListStands
      <3>3. QED
        BY <1>4, <1>5, <3>1, <3>2
    <2>2. rv[r] = 0
      BY <1>9 DEF IInv, VersionsStand
    <2>3. resource_version[r] <= cursor[r] /\ resource_version'[r] <= cursor[r]
      <3>1. CASE resource_version[r] <= cursor[r]
        BY <1>7, <2>1, <3>1
      <3>2. CASE r = PVs /\ pc[r] = "bind" /\ event.rv = resource_version[r]
        <4>1. e = event
          BY <3>2 DEF PVHandlerStep
        <4>2. QED
          BY <1>4, <1>7, <2>1, <3>2, <4>1
      <3>3. CASE resource_version[r] = rv[r]
        BY <1>4, <1>7, <2>1, <2>2, <3>3
      <3>4. QED
        BY <3>1, <3>2, <3>3 DEF IInv, VersionsStand
    <2>4. VersionsStand'
      <3> SUFFICES ASSUME NEW q \in Resource PROVE VersionsStand!(q)'
        BY DEF VersionsStand
      <3>1. CASE q = r
        BY <1>3, <1>4, <1>6, <1>7, <1>8, <2>1, <2>2, <2>3, <3>1
      <3>2. CASE q # r
        BY <1>3, <1>5, <1>6, <1>7, <3>2 DEF IInv, VersionsStand
      <3>3. QED
        BY <3>1, <3>2
    <2>5. ListStands'
      BY <1>1, <1>3, <1>5, <2>1 DEF IInv, ListStands, Kept
    <2>6. Seen'
      <3>1. ASSUME NEW q \in Resource, Connected(q), NEW f \in log[q],
                   f.rv <= cursor'[q]
            PROVE  \/ Recorded(q, f)' \/ f.uid \in missed[q]
                   \/ \E l \in listing'[q] : l.uid = f.uid
        <4>1. CASE q = r
          <5>1. CASE f.uid = e.uid
            BY <1>9, <2>1, <3>1, <4>1, <5>1 DEF Told
          <5>2. CASE f.uid # e.uid
            BY <1>5, <2>1, <3>1, <4>1, <5>2 DEF IInv, Seen, Kept
          <5>3. QED
            BY <5>1, <5>2
        <4>2. CASE q # r
          BY <1>5, <3>1, <4>2 DEF IInv, Seen, Kept
        <4>3. QED
          BY <4>1, <4>2
      <3>2. QED
        BY <1>3, <1>6, <3>1 DEF Seen
    <2>7. CheckpointCovers'
      <3>1. ASSUME NEW f \in log[r], f.rv <= resource_version'[r]
            PROVE  Recorded(r, f)' \/ f.uid \in missed'[r] \/ InHand(r, f)'
        <4>1. f.rv <= cursor'[r]
          BY <1>4, <1>7, <2>1, <2>3, <3>1
        <4>2. QED
          BY <1>3, <1>6, <2>6, <4>1 DEF Seen, InHand
      <3>2. QED
        BY <1>1, <1>3, <1>5, <1>6, <1>7, <3>1
           DEF IInv, CheckpointCovers, InHand, Kept
    <2>8. QED
      BY <2>4, <2>5, <2>6, <2>7
  <1>10. ASSUME listing[r] = {}
         PROVE  VersionsStand' /\ ListStands' /\ Seen' /\ CheckpointCovers'
    <2>1. /\ e \in log[r] /\ e.rv > cursor[r] /\ cursor'[r] = e.rv
          /\ \A f \in log[r] : f.rv > cursor[r] => e.rv <= f.rv
      BY <1>5, <1>10 DEF Offered
    <2>2. listing'[r] = {}
      BY <1>5, <1>10
    <2>3. VersionsStand'
      <3> SUFFICES ASSUME NEW q \in Resource PROVE VersionsStand!(q)'
        BY DEF VersionsStand
      <3>1. CASE q = r
        <4>1. e.rv <= index /\ resource_version'[r] <= index
          BY <1>4, <1>7, <1>8, <2>1
        <4>2. \/ resource_version[r] <= cursor[r]
              \/ resource_version[r] = rv[r]
              \/ resource_version[r] = e.rv
          BY DEF IInv, VersionsStand, PVHandlerStep
        <4>3. \/ resource_version'[r] <= cursor'[r]
              \/ resource_version'[r] = rv[r]
          BY <1>4, <1>7, <2>1, <4>2
        <4>4. ASSUME rv[r] # 0
              PROVE  rv[r] <= resource_version'[r] /\ rv[r] <= cursor'[r] + 1
          <5>1. rv[r] <= resource_version[r] /\ rv[r] <= cursor[r] + 1
            BY <4>4 DEF IInv, VersionsStand
          <5>2. QED
            BY <1>4, <1>7, <2>1, <5>1
        <4>5. QED
          BY <1>3, <1>6, <2>1, <2>2, <3>1, <4>1, <4>3, <4>4
      <3>2. CASE q # r
        BY <1>3, <1>5, <1>6, <1>7, <3>2 DEF IInv, VersionsStand
      <3>3. QED
        BY <3>1, <3>2
    <2>4. ListStands'
      BY <1>1, <1>3, <1>5, <2>2 DEF IInv, ListStands, Kept
    <2>5. Seen'
      <3>1. ASSUME NEW q \in Resource, Connected(q), NEW f \in log[q],
                   f.rv <= cursor'[q]
            PROVE  \/ Recorded(q, f)' \/ f.uid \in missed[q]
                   \/ \E l \in listing'[q] : l.uid = f.uid
        <4>1. CASE q = r /\ f = e
          BY <1>10, <4>1 DEF Told
        <4>2. CASE q = r /\ f # e
          <5>1. f.rv # e.rv
            BY <2>1, <4>2 DEF IInv, LogStands, InOrder
          <5>2. f.rv <= cursor[r]
            BY <1>4, <2>1, <3>1, <4>2, <5>1
          <5>3. QED
            BY <1>10, <3>1, <4>2, <5>2 DEF IInv, Seen, Kept
        <4>3. CASE q # r
          BY <1>5, <3>1, <4>3 DEF IInv, Seen, Kept
        <4>4. QED
          BY <4>1, <4>2, <4>3
      <3>2. QED
        BY <1>3, <1>6, <3>1 DEF Seen
    <2>6. CheckpointCovers'
      <3>1. ASSUME NEW f \in log[r], f.rv <= resource_version'[r]
            PROVE  Recorded(r, f)' \/ f.uid \in missed'[r] \/ InHand(r, f)'
        <4>1. CASE f.rv <= e.rv
          BY <1>3, <1>6, <2>1, <2>2, <2>5, <4>1 DEF Seen
        <4>2. CASE f.rv > e.rv
          <5>1. f.rv <= resource_version[r]
            BY <1>4, <1>7, <3>1, <4>2
          <5>2. ~InHand(r, f)
            BY <1>4, <1>10, <4>2 DEF InHand
          <5>3. QED
            BY <1>3, <5>1, <5>2 DEF IInv, CheckpointCovers, Kept
        <4>3. QED
          BY <1>4, <4>1, <4>2
      <3>2. QED
        BY <1>1, <1>3, <1>5, <1>6, <1>7, <3>1
           DEF IInv, CheckpointCovers, InHand, Kept
    <2>7. QED
      BY <2>3, <2>4, <2>5, <2>6
  <1>11. EventStands'
    <2>1. CASE r = PVs
      BY <1>6, <2>1 DEF EventStands, PVHandlerStep
    <2>2. CASE r # PVs
      <3>1. /\ event' = event /\ pc'[PVs] = pc[PVs] /\ cursor'[PVs] = cursor[PVs]
            /\ listing'[PVs] = listing[PVs]
        BY <1>1, <1>5, <1>6, <2>2
      <3>2. \A v \in PV : PVRecorded(v) => PVRecorded(v)'
        BY DEF Kept
      <3>3. pc[PVs] \in PVHandlerStep => event.uid \in PV
        BY <1>1 DEF TypeOK
      <3>4. QED
        BY <1>3, <3>1, <3>2, <3>3 DEF IInv, EventStands, Offered, PVHandlerStep
    <2>3. QED
      BY <2>1, <2>2
  <1>12. QED
    BY <1>2, <1>9, <1>10, <1>11 DEF IInv

\* What is known of an event a watch offers.
LEMMA OfferedFacts ==
    ASSUME IInv, NEW r \in Resource, NEW e \in Offered(r)
    PROVE  /\ e \in Event /\ e.uid \in MembersOf(r) /\ e.created # NULL
           /\ listing[r] # {} => e \in listing[r] /\ e.type = "ADDED"
           /\ listing[r] = {} => e \in log[r]
  <1>1. e \in Event /\ e.uid \in MembersOf(r)
    BY OfferedType DEF IInv
  <1>2. listing[r] # {} => e \in listing[r]
        /\ (listing[r] = {} => e \in log[r])
    BY DEF Offered
  <1>3. CASE listing[r] # {}
    BY <1>1, <1>3 DEF IInv, ListStands, Offered
  <1>4. CASE listing[r] = {}
    BY <1>1, <1>4 DEF IInv, LogStands, InOrder, Offered
  <1>5. QED
    BY <1>3, <1>4

\* An object whose deletion is offered was recorded or excused before.
LEMMA AddedBefore ==
    ASSUME IInv, NEW r \in Resource, NEW e \in Offered(r), Connected(r),
           e.type = "DELETED"
    PROVE  /\ listing[r] = {}
           /\ \/ e.uid \in missed[r]
              \/ \E a \in log[r] : /\ a.uid = e.uid /\ a.type = "ADDED"
                                   /\ Recorded(r, a)
  <1>1. listing[r] = {} /\ e \in log[r]
    BY OfferedFacts
  <1>2. PICK a \in log[r] : a.uid = e.uid /\ a.type = "ADDED" /\ a.rv < e.rv
    BY <1>1 DEF IInv, LogStands, InOrder
  <1>3. a.rv \in Nat /\ e.rv \in Nat /\ cursor[r] \in Nat
    BY <1>1 DEF IInv, TypeOK, ClusterTypeOK, Event
  <1>4. a.rv <= cursor[r]
    BY <1>1, <1>2, <1>3 DEF Offered
  <1>5. QED
    BY <1>1, <1>2, <1>4 DEF IInv, Seen

\* The event of the version asked for was dealt with when it was stored.
LEMMA SkipDuplicateIInv ==
    ASSUME IInv, NEW r \in Resource, SkipDuplicate(r)
    PROVE  IInv'
  <1>1. TypeOK /\ TypeOK' /\ PVs \in Resource
    BY SkipDuplicateTypeOK DEF IInv, PVs, Resource
  <1>2. PICK e \in Offered(r) : e.rv = rv[r] /\ Consume(r, e)
    BY DEF SkipDuplicate
  <1>3. /\ pc[r] = "watch" /\ Connected(r) /\ pc[r] \notin PVHandlerStep
        /\ UNCHANGED <<clusterVars, dbVars, pc, rv, event, missed>>
    BY DEF SkipDuplicate, Connected, PVHandlerStep
  <1>4. e.rv \in Nat \ {0}
    <2>1. CASE e \in log[r]
      BY <1>1, <2>1 DEF TypeOK, ClusterTypeOK
    <2>2. CASE e \in listing[r]
      <3>1. e.rv \in 1..cursor[r] /\ cursor[r] \in Nat
        BY <1>1, <2>2 DEF IInv, ListStands, TypeOK
      <3>2. QED
        BY <3>1
    <2>3. QED
      BY <2>1, <2>2 DEF Offered
  <1>5. listing[r] = {} /\ rv[r] <= resource_version[r]
    BY <1>2, <1>3, <1>4 DEF IInv, VersionsStand
  <1>6. Kept
    BY <1>3 DEF Kept, dbVars, Recorded, PodRecorded, PVCRecorded, PVRecorded
  <1>7. Told(r, e)
    <2>1. e \in log[r]
      BY <1>5, OfferedFacts
    <2>2. ~InHand(r, e)
      BY <1>3, <1>5 DEF InHand
    <2>3. Recorded(r, e) \/ e.uid \in missed[r]
      BY <1>2, <1>5, <2>1, <2>2 DEF IInv, CheckpointCovers
    <2>4. QED
      BY <1>5, <1>6, <2>1, <2>3 DEF Told, Kept
  <1>8. pc' = [pc EXCEPT ![r] = "watch"]
    BY <1>1, <1>3 DEF TypeOK
  <1>9. resource_version' = resource_version
    BY <1>3 DEF dbVars
  <1>10. QED
    BY <1>1, <1>2, <1>3, <1>6, <1>7, <1>8, <1>9, ConsumeStands

\* A handler of one transaction, or none, keeps the invariant if it keeps what
\* is recorded and tells the database.
LEMMA HandledStands ==
    ASSUME IInv, TypeOK', NEW r \in Resource, NEW e,
           Receives(r, e), Handled(r, e), Kept, Told(r, e),
           \/ resource_version' = resource_version
           \/ resource_version' = [resource_version EXCEPT ![r] = e.rv]
    PROVE  IInv'
  <1>1. e \in Offered(r) /\ pc[r] = "watch" /\ Connected(r)
        /\ pc[r] \notin PVHandlerStep
    BY DEF Receives, Connected, PVHandlerStep
  <1>2. pc' = [pc EXCEPT ![r] = "watch"]
    BY <1>1 DEF Handled, IInv, TypeOK
  <1>3. Consume(r, e) /\ event' = event /\ UNCHANGED <<clusterVars, rv, missed>>
    BY DEF Handled
  <1>4. QED
    BY <1>1, <1>2, <1>3, ConsumeStands

\* The handler of pods keeps the invariant.
LEMMA handlePodsIInv ==
    ASSUME IInv, handlePods
    PROVE  IInv'
  <1> DEFINE r == "pods"
  <1>1. TypeOK /\ TypeOK' /\ r \in Resource /\ MembersOf(r) = Pod
    BY HandlersTypeOK DEF IInv, Resource, MembersOf
  <1>2. PICK e : /\ Receives(r, e) /\ Handled(r, e)
                 /\ \/ e.type = "ADDED" /\ InsertPod(e)
                    \/ e.type = "MODIFIED" /\ UNCHANGED dbVars
                    \/ /\ e.type = "DELETED" /\ e.deletion # NULL
                       /\ DeletePodRow(e)
    BY DEF handlePods
  <1>3. e \in Offered(r) /\ Connected(r)
    BY <1>2 DEF Receives, Connected
  <1>4. /\ e \in Event /\ e.uid \in Pod /\ e.created # NULL
        /\ listing[r] # {} => e \in listing[r] /\ e.type = "ADDED"
        /\ listing[r] = {} => e \in log[r]
    BY <1>1, <1>3, OfferedFacts
  <1>5. Kept
    BY <1>1, <1>2, <1>4, PodTxKeeps
  <1>6. pod \in [Pod -> PodRow]
    BY <1>1 DEF TypeOK, DBTypeOK
  <1>7. Told(r, e)
    <2> SUFFICES ASSUME NEW f \in log[r],
                        \/ listing[r] = {} /\ f = e
                        \/ /\ listing[r] # {} /\ f.uid = e.uid
                           /\ f.rv <= cursor[r]
                 PROVE  Recorded(r, f)' \/ f.uid \in missed[r]
      BY DEF Told
    <2>1. CASE e.type = "ADDED"
      <3>1. f.type # "DELETED" /\ f.uid = e.uid
        BY <1>1, <1>4, <2>1 DEF IInv, ListStands
      <3>2. pod'[e.uid].create_time # NULL
        BY <1>2, <1>4, <1>6, <2>1 DEF InsertPod, PodRecorded, dbVars, PodRow
      <3>3. QED
        BY <3>1, <3>2 DEF Recorded, PodRecorded
    <2>2. CASE e.type = "MODIFIED"
      BY <1>4, <2>2 DEF Recorded
    <2>3. CASE e.type = "DELETED"
      <3>1. f = e
        BY <1>4, <2>3
      <3>2. CASE e.uid \in missed[r]
        BY <3>1, <3>2
      <3>3. CASE PodRecorded(e.uid)
        <4>1. pod'[e.uid].delete_time # NULL
          BY <1>2, <1>4, <1>6, <2>3, <3>3 DEF DeletePodRow, PodRow
        <4>2. QED
          BY <2>3, <3>1, <4>1 DEF Recorded
      <3>4. QED
        BY <1>1, <1>3, <2>3, <3>2, <3>3, AddedBefore DEF Recorded
    <2>4. QED
      BY <1>2, <2>1, <2>2, <2>3
  <1>8. \/ resource_version' = resource_version
        \/ resource_version' = [resource_version EXCEPT ![r] = e.rv]
    BY <1>2 DEF InsertPod, DeletePodRow, dbVars, updateRV
  <1>9. QED
    BY <1>1, <1>2, <1>5, <1>7, <1>8, HandledStands

\* The handler of claims keeps the invariant.
LEMMA handlePVCsIInv ==
    ASSUME IInv, handlePVCs
    PROVE  IInv'
  <1> DEFINE r == "persistentvolumeclaims"
  <1>1. TypeOK /\ TypeOK' /\ r \in Resource /\ MembersOf(r) = PVC
    BY HandlersTypeOK DEF IInv, Resource, MembersOf
  <1>2. PICK e : /\ Receives(r, e) /\ Handled(r, e)
                 /\ \/ e.type = "ADDED" /\ InsertPVC(e)
                    \/ e.type = "MODIFIED" /\ (UpdatePVC(e) \/ UNCHANGED dbVars)
                    \/ /\ e.type = "DELETED"
                       /\ DeletePVCRow(e, DeleteTime(e))
    BY DEF handlePVCs
  <1>3. e \in Offered(r) /\ Connected(r)
    BY <1>2 DEF Receives, Connected
  <1>4. /\ e \in Event /\ e.uid \in PVC /\ e.created # NULL
        /\ listing[r] # {} => e \in listing[r] /\ e.type = "ADDED"
        /\ listing[r] = {} => e \in log[r]
    BY <1>1, <1>3, OfferedFacts
  <1>5. DeleteTime(e) \in Time \ {NULL}
    BY <1>1, <1>4, DeleteTimeType DEF TypeOK
  <1>6. Kept
    BY <1>1, <1>2, <1>4, <1>5, PVCTxKeeps
  <1>7. pvc \in [PVC -> PVCRow]
    BY <1>1 DEF TypeOK, DBTypeOK
  <1>8. Told(r, e)
    <2> SUFFICES ASSUME NEW f \in log[r],
                        \/ listing[r] = {} /\ f = e
                        \/ /\ listing[r] # {} /\ f.uid = e.uid
                           /\ f.rv <= cursor[r]
                 PROVE  Recorded(r, f)' \/ f.uid \in missed[r]
      BY DEF Told
    <2>1. CASE e.type = "ADDED"
      <3>1. f.type # "DELETED" /\ f.uid = e.uid
        BY <1>1, <1>4, <2>1 DEF IInv, ListStands
      <3>2. pvc'[e.uid].create_time # NULL
        <4>1. InsertPVC(e)
          BY <1>2, <2>1
        <4>2. pvc[e.uid] \in PVCRow /\ e.uid \in DOMAIN pvc
          BY <1>4, <1>7
        <4>3. QED
          BY <1>4, <4>1, <4>2 DEF InsertPVC, PVCRow
      <3>3. QED
        BY <3>1, <3>2 DEF Recorded, PVCRecorded
    <2>2. CASE e.type = "MODIFIED"
      BY <1>4, <2>2 DEF Recorded
    <2>3. CASE e.type = "DELETED"
      <3>1. f = e
        BY <1>4, <2>3
      <3>2. CASE e.uid \in missed[r]
        BY <3>1, <3>2
      <3>3. CASE PVCRecorded(e.uid)
        <4>1. pvc'[e.uid].delete_time # NULL
          BY <1>2, <1>4, <1>5, <1>7, <2>3, <3>3
             DEF DeletePVCRow, PVCRowExists, PVCRow
        <4>2. QED
          BY <2>3, <3>1, <4>1 DEF Recorded
      <3>4. QED
        BY <1>1, <1>3, <2>3, <3>2, <3>3, AddedBefore DEF Recorded
    <2>4. QED
      BY <1>2, <2>1, <2>2, <2>3
  <1>9. \/ resource_version' = resource_version
        \/ resource_version' = [resource_version EXCEPT ![r] = e.rv]
    BY <1>2 DEF InsertPVC, UpdatePVC, DeletePVCRow, dbVars, updateRV
  <1>10. QED
    BY <1>1, <1>2, <1>6, <1>8, <1>9, HandledStands

-----------------------------------------------------------------------------
(* The handler of volumes.                                                 *)

\* A step inside the handler keeps the invariant if the event stays in hand,
\* what is recorded is kept, and no version but the event's is stored.
LEMMA GoesOnStands ==
    ASSUME IInv, TypeOK', NEW e \in Offered(PVs), e.rv # rv[PVs],
           pc[PVs] = "watch" \/ (pc[PVs] \in PVHandlerStep /\ event = e),
           NEW step \in PVHandlerStep, PVGoesTo(step), event' = e,
           step \in {"source", "store"} =>
                \/ e.type = "ADDED"
                \/ e.type = "MODIFIED" /\ e.phase = "Available",
           step = "bind" =>
                /\ e.claim # NULL
                /\ \/ e.type = "ADDED" /\ pv'[e.uid].create_time # NULL
                   \/ e.type = "MODIFIED" /\ e.phase = "Bound",
           Kept,
           \/ /\ resource_version' = resource_version
              /\ pc[PVs] # "bind"
           \/ /\ resource_version' = [resource_version EXCEPT ![PVs] = e.rv]
              /\ step = "bind" /\ e.type = "ADDED",
           UNCHANGED <<clusterVars, rv, listing, cursor, missed>>
    PROVE  IInv'
  <1>1. TypeOK /\ PVs \in Resource
    BY DEF IInv, PVs, Resource
  <1>2. LogStands' /\ ClaimsStand'
    BY DEF IInv, clusterVars, LogStands, InOrder, ClaimsStand, Alive
  <1>3. UNCHANGED <<index, log, rv, listing, cursor, missed>>
    BY DEF clusterVars
  <1>4. /\ resource_version \in [Resource -> Nat] /\ index \in Nat
        /\ cursor \in [Resource -> Nat] /\ rv \in [Resource -> Nat]
        /\ e.rv \in Nat
        /\ \A q \in Resource : \A f \in log[q] : f.rv \in 1..index
    BY <1>1, BoundsAreNumbers, OfferedType DEF TypeOK, DBTypeOK, ClusterTypeOK
  <1>5. /\ pc'[PVs] = step /\ Connected(PVs) /\ Connected(PVs)'
        /\ \A q \in Resource \ {PVs} : pc'[q] = pc[q]
        /\ \A q \in Resource : Connected(q)' <=> Connected(q)
    BY <1>1 DEF TypeOK, Connected, PVGoesTo
  <1>6. /\ resource_version'[PVs] \in {resource_version[PVs], e.rv}
        /\ \A q \in Resource \ {PVs} :
                resource_version'[q] = resource_version[q]
    BY <1>1, <1>4
  <1>7. cursor[PVs] <= index /\ resource_version[PVs] <= index
    BY <1>1, <1>5 DEF IInv, VersionsStand
  <1>8. e.rv <= index
    <2>1. CASE e \in log[PVs]
      BY <1>1, <1>4, <2>1
    <2>2. CASE e \in listing[PVs]
      <3>1. e.rv <= cursor[PVs]
        BY <1>1, <1>4, <2>2 DEF IInv, ListStands
      <3>2. QED
        BY <1>1, <1>4, <1>7, <3>1
    <2>3. QED
      BY <2>1, <2>2 DEF Offered
  <1>9. VersionsStand'
    <2> SUFFICES ASSUME NEW q \in Resource PROVE VersionsStand!(q)'
      BY DEF VersionsStand
    <2>1. CASE q # PVs
      BY <1>3, <1>5, <1>6, <2>1 DEF IInv, VersionsStand
    <2>2. CASE q = PVs /\ resource_version' = resource_version
                       /\ pc[PVs] # "bind"
      BY <1>3, <1>5, <2>2 DEF IInv, VersionsStand
    <2>3. CASE /\ q = PVs /\ step = "bind" /\ e.type = "ADDED"
               /\ resource_version'[PVs] = e.rv
      <3>1. ASSUME rv[PVs] # 0
            PROVE  listing[PVs] = {} /\ rv[PVs] <= cursor[PVs] + 1
        BY <1>1, <1>5, <3>1 DEF IInv, VersionsStand
      <3>2. ASSUME rv[PVs] # 0
            PROVE  rv[PVs] <= e.rv
        <4>1. e.rv > cursor[PVs]
          BY <3>1, <3>2 DEF Offered
        <4>2. QED
          BY <1>1, <1>4, <3>1, <3>2, <4>1
      <3>3. QED
        BY <1>3, <1>5, <1>7, <1>8, <2>3, <3>1, <3>2
    <2>4. QED
      BY <1>1, <1>4, <2>1, <2>2, <2>3
  <1>10. ListStands'
    BY <1>1, <1>3 DEF IInv, ListStands, Kept
  <1>11. EventStands'
    BY <1>3, <1>5 DEF EventStands, Offered, PVHandlerStep, PVRecorded
  <1>12. Seen'
    BY <1>3, <1>5 DEF IInv, Seen, Kept
  <1>13. CheckpointCovers'
    <2>1. ASSUME NEW f \in log[PVs], f.rv <= resource_version'[PVs]
          PROVE  Recorded(PVs, f)' \/ f.uid \in missed[PVs] \/ InHand(PVs, f)'
      <3>1. CASE f = e
        BY <1>5, <3>1 DEF InHand
      <3>2. CASE f # e /\ f.rv <= resource_version[PVs]
        <4>1. Recorded(PVs, f) \/ f.uid \in missed[PVs] \/ InHand(PVs, f)
          BY <1>1, <3>2 DEF IInv, CheckpointCovers
        <4>2. InHand(PVs, f) => \E l \in listing[PVs] : l.uid = f.uid
          BY <3>2 DEF InHand, PVHandlerStep
        <4>3. QED
          BY <1>1, <1>3, <4>1, <4>2 DEF Kept, InHand
      <3>3. CASE f # e /\ f.rv <= e.rv
        <4>1. f.rv <= cursor[PVs]
          <5>1. CASE listing[PVs] = {}
            <6>1. e \in log[PVs] /\ \A g \in log[PVs] :
                        g.rv > cursor[PVs] => e.rv <= g.rv
              BY <5>1 DEF Offered
            <6>2. f.rv # e.rv
              BY <1>1, <3>3, <6>1 DEF IInv, LogStands, InOrder
            <6>3. QED
              BY <1>1, <1>4, <3>3, <6>1, <6>2
          <5>2. CASE listing[PVs] # {}
            <6>1. e.rv <= cursor[PVs]
              BY <1>1, <1>4, <5>2 DEF IInv, ListStands, Offered
            <6>2. QED
              BY <1>1, <1>4, <3>3, <6>1
          <5>3. QED
            BY <5>1, <5>2
        <4>2. QED
          BY <1>1, <1>3, <1>5, <4>1 DEF IInv, Seen, Kept, InHand
      <3>4. QED
        BY <1>6, <2>1, <3>1, <3>2, <3>3
    <2>2. ASSUME NEW q \in Resource \ {PVs}, NEW f \in log[q],
                 f.rv <= resource_version'[q]
          PROVE  Recorded(q, f)' \/ f.uid \in missed[q] \/ InHand(q, f)'
      BY <1>3, <1>6, <2>2 DEF IInv, CheckpointCovers, InHand, Kept
    <2>3. QED
      BY <1>3, <2>1, <2>2 DEF CheckpointCovers
  <1>14. QED
    BY <1>2, <1>9, <1>10, <1>11, <1>12, <1>13 DEF IInv

\* The end of the handler keeps the invariant if it keeps what is recorded and
\* tells the database.
LEMMA PVDoneStands ==
    ASSUME IInv, TypeOK', NEW e \in Offered(PVs),
           pc[PVs] = "watch" \/ (pc[PVs] \in PVHandlerStep /\ event = e),
           PVDone(e), Kept, Told(PVs, e),
           \/ resource_version' = resource_version
           \/ resource_version' = [resource_version EXCEPT ![PVs] = e.rv],
           UNCHANGED <<clusterVars, rv, missed>>
    PROVE  IInv'
  <1>1. PVs \in Resource /\ Connected(PVs)
    BY DEF PVs, Resource, Connected
  <1>2. pc' = [pc EXCEPT ![PVs] = "watch"] /\ Consume(PVs, e)
    BY DEF PVDone, PVGoesTo
  <1>3. pc[PVs] \in PVHandlerStep => event = e
    BY DEF PVHandlerStep
  <1>4. QED
    BY <1>1, <1>2, <1>3, ConsumeStands

\* A volume that was stored, and bound if it has a claim, was told: an object
\* of the list is alive in all the list stands for, and has the claim it shows.
LEMMA PVAddedTold ==
    ASSUME IInv, NEW e \in Offered(PVs), Kept, e.type = "ADDED",
           pv'[e.uid].create_time # NULL,
           e.claim # NULL => pvc'[e.claim].pv_uid = e.uid
    PROVE  Told(PVs, e)
  <1>1. PVs \in Resource
    BY DEF PVs, Resource
  <1> SUFFICES ASSUME NEW f \in log[PVs],
                      \/ listing[PVs] = {} /\ f = e
                      \/ /\ listing[PVs] # {} /\ f.uid = e.uid
                         /\ f.rv <= cursor[PVs]
               PROVE  Recorded(PVs, f)' \/ f.uid \in missed[PVs]
    BY DEF Told
  <1>2. CASE f = e
    BY <1>2 DEF Recorded, PVRecorded, PVs
  <1>3. CASE f # e
    <2>1. e \in listing[PVs] /\ f.uid = e.uid
      BY <1>1, <1>3, OfferedFacts
    <2>2. /\ f.type # "DELETED"
          /\ \/ Recorded(PVs, f) \/ f.uid \in missed[PVs]
             \/ f.claim \in {NULL, e.claim}
      BY <1>1, <1>3, <2>1 DEF IInv, ListStands
    <2>3. CASE f.claim \in {NULL, e.claim}
      BY <2>1, <2>2, <2>3 DEF Recorded, PVRecorded, PVs
    <2>4. QED
      BY <1>1, <2>2, <2>3 DEF Kept
  <1>4. QED
    BY <1>2, <1>3

\* Beginning to handle a volume's event keeps the invariant.
LEMMA handlePVsIInv ==
    ASSUME IInv, handlePVs
    PROVE  IInv'
  <1>1. TypeOK /\ TypeOK' /\ PVs \in Resource /\ MembersOf(PVs) = PV
    BY PVHandlerTypeOK DEF IInv, PVHandler, PVs, Resource, MembersOf
  <1>2. PICK e : /\ Receives(PVs, e)
                 /\ \/ startPV(e)
                    \/ /\ e.type = "MODIFIED"
                       /\ e.phase \notin {"Available", "Bound"}
                       /\ PVDone(e) /\ UNCHANGED dbVars
                    \/ /\ e.type = "DELETED"
                       /\ PVDone(e) /\ DeletePVRow(e, DeleteTime(e))
                 /\ UNCHANGED <<clusterVars, rv, missed>>
    BY DEF handlePVs
  <1>3. /\ e \in Offered(PVs) /\ pc[PVs] = "watch" /\ e.rv # rv[PVs]
        /\ Connected(PVs) /\ pc[PVs] # "bind"
    BY <1>2 DEF Receives, Connected
  <1>4. /\ e \in Event /\ e.uid \in PV /\ e.created # NULL
        /\ listing[PVs] # {} => e \in listing[PVs] /\ e.type = "ADDED"
        /\ listing[PVs] = {} => e \in log[PVs]
    BY <1>1, <1>3, OfferedFacts
  <1>5. CASE startPV(e)
    <2>1. event' = e /\ UNCHANGED <<dbVars, listing, cursor>>
      BY <1>5 DEF startPV
    <2>2. \/ \E step \in {"source", "store"} : PVGoesTo(step)
             /\ \/ e.type = "ADDED"
                \/ e.type = "MODIFIED" /\ e.phase = "Available"
          \/ PVGoesTo("bind") /\ e.type = "MODIFIED" /\ e.phase = "Bound"
      BY <1>5 DEF startPV
    <2>3. Kept
      BY <2>1 DEF dbVars, Kept, Recorded, PodRecorded, PVCRecorded, PVRecorded
    <2>4. resource_version' = resource_version
      BY <2>1 DEF dbVars
    <2>5. ASSUME e.type = "MODIFIED", e.phase = "Bound" PROVE e.claim # NULL
      BY <1>4, <2>5 DEF IInv, ClaimsStand
    <2>6. CASE \E step \in {"source", "store"} : PVGoesTo(step)
             /\ \/ e.type = "ADDED"
                \/ e.type = "MODIFIED" /\ e.phase = "Available"
      BY <1>1, <1>2, <1>3, <2>1, <2>3, <2>4, <2>6, GoesOnStands
         DEF PVHandlerStep
    <2>7. CASE PVGoesTo("bind") /\ e.type = "MODIFIED" /\ e.phase = "Bound"
      BY <1>1, <1>2, <1>3, <2>1, <2>3, <2>4, <2>5, <2>7, GoesOnStands
         DEF PVHandlerStep
    <2>8. QED
      BY <2>2, <2>6, <2>7
  <1>6. CASE /\ e.type = "MODIFIED" /\ e.phase \notin {"Available", "Bound"}
             /\ PVDone(e) /\ UNCHANGED dbVars
    <2>1. Kept
      BY <1>6 DEF dbVars, Kept, Recorded, PodRecorded, PVCRecorded, PVRecorded
    <2>2. Told(PVs, e)
      BY <1>4, <1>6 DEF Told, Recorded, PVs
    <2>3. QED
      BY <1>1, <1>2, <1>3, <1>6, <2>1, <2>2, PVDoneStands DEF dbVars
  <1>7. CASE /\ e.type = "DELETED"
             /\ PVDone(e) /\ DeletePVRow(e, DeleteTime(e))
    <2>1. DeleteTime(e) \in Time \ {NULL}
      BY <1>1, <1>4, DeleteTimeType DEF TypeOK
    <2>2. Kept
      BY <1>1, <1>4, <1>7, <2>1, PVTxKeeps
    <2>3. Told(PVs, e)
      <3> SUFFICES Recorded(PVs, e)' \/ e.uid \in missed[PVs]
        BY <1>4, <1>7 DEF Told
      <3>1. CASE PVRecorded(e.uid)
        <4>1. pv[e.uid] \in PVRow /\ e.uid \in DOMAIN pv
          BY <1>1, <1>4 DEF TypeOK, DBTypeOK
        <4>2. pv'[e.uid].delete_time # NULL
          BY <1>7, <2>1, <3>1, <4>1 DEF DeletePVRow, PVRow
        <4>3. e.phase # "Bound"
          BY <1>1, <1>4, <1>7 DEF IInv, LogStands, InOrder
        <4>4. QED
          BY <1>7, <4>2, <4>3 DEF Recorded, PVs
      <3>2. QED
        BY <1>1, <1>3, <1>7, <3>1, AddedBefore DEF Recorded, PVs
    <2>4. resource_version' = [resource_version EXCEPT ![PVs] = e.rv]
      BY <1>7 DEF DeletePVRow, updateRV, PVs
    <2>5. QED
      BY <1>1, <1>2, <1>3, <1>7, <2>2, <2>3, <2>4, PVDoneStands
  <1>8. QED
    BY <1>2, <1>5, <1>6, <1>7

\* So does recording the export.
LEMMA recordSourceIInv ==
    ASSUME IInv, recordSource
    PROVE  IInv'
  <1>1. TypeOK' /\ "source" \in PVHandlerStep /\ "store" \in PVHandlerStep
    BY PVHandlerTypeOK DEF IInv, PVHandler, PVHandlerStep
  <1>2. /\ event \in Offered(PVs) /\ event.rv # rv[PVs]
        /\ pc[PVs] = "source" /\ event' = event
        /\ \/ event.type = "ADDED"
           \/ event.type = "MODIFIED" /\ event.phase = "Available"
    BY <1>1 DEF IInv, EventStands, recordSource
  <1>3. /\ UNCHANGED <<clusterVars, rv, listing, cursor, missed>>
        /\ resource_version' = resource_version
        /\ PVGoesTo("store")
    BY DEF recordSource, InsertSource
  <1>4. Kept
    BY DEF recordSource, InsertSource, Kept, Recorded, PodRecorded,
           PVCRecorded, PVRecorded
  <1>5. QED
    BY <1>1, <1>2, <1>3, <1>4, GoesOnStands

\* And storing the volume, whether or not its binding is still to come.
LEMMA storePVIInv ==
    ASSUME IInv, storePV
    PROVE  IInv'
  <1>1. /\ TypeOK /\ TypeOK' /\ PVs \in Resource /\ MembersOf(PVs) = PV
        /\ "store" \in PVHandlerStep /\ "bind" \in PVHandlerStep
    BY PVHandlerTypeOK
       DEF IInv, PVHandler, PVHandlerStep, PVs, Resource, MembersOf
  <1>2. /\ event \in Offered(PVs) /\ event.rv # rv[PVs]
        /\ pc[PVs] = "store"
        /\ \/ event.type = "ADDED"
           \/ event.type = "MODIFIED" /\ event.phase = "Available"
        /\ UNCHANGED <<clusterVars, rv, missed>>
    BY <1>1 DEF IInv, EventStands, storePV
  <1>3. event \in Event /\ event.uid \in PV /\ event.created # NULL
        /\ (listing[PVs] # {} => event.type = "ADDED")
        /\ (listing[PVs] = {} => event \in log[PVs])
    BY <1>1, <1>2, OfferedFacts
  <1>4. CASE event.type = "ADDED"
    <2>1. InsertPV(event)
      BY <1>4 DEF storePV
    <2>2. \/ /\ event.claim # NULL /\ PVGoesTo("bind")
             /\ UNCHANGED <<event, listing, cursor>>
          \/ event.claim = NULL /\ PVDone(event)
      BY <1>4 DEF storePV
    <2>3. Kept
      <3>1. 0 \in Time \ {NULL}
        BY NullIsNoNumber DEF Time
      <3>2. QED
        BY <1>1, <1>3, <2>1, <3>1, PVTxKeeps
    <2>4. pv'[event.uid].create_time # NULL
      <3>1. pv[event.uid] \in PVRow /\ event.uid \in DOMAIN pv
        BY <1>1, <1>3 DEF TypeOK, DBTypeOK
      <3>2. CASE PVRecorded(event.uid)
        BY <1>3, <2>3, <3>2 DEF Kept, PVRecorded
      <3>3. CASE ~PVRecorded(event.uid)
        BY <1>3, <2>1, <3>1, <3>3 DEF InsertPV, PVRecorded, PVRow
      <3>4. QED
        BY <3>2, <3>3
    <2>5. \/ resource_version' = resource_version
          \/ resource_version' = [resource_version EXCEPT ![PVs] = event.rv]
      BY <2>1 DEF InsertPV, dbVars, updateRV, PVs
    <2>6. CASE event.claim # NULL /\ PVGoesTo("bind")
               /\ UNCHANGED <<event, listing, cursor>>
      BY <1>1, <1>2, <1>4, <2>3, <2>4, <2>5, <2>6, GoesOnStands
    <2>7. CASE event.claim = NULL /\ PVDone(event)
      <3>1. Told(PVs, event)
        BY <1>2, <1>4, <2>3, <2>4, <2>7, PVAddedTold
      <3>2. QED
        BY <1>1, <1>2, <2>3, <2>5, <2>7, <3>1, PVDoneStands
    <2>8. QED
      BY <2>2, <2>6, <2>7
  <1>5. CASE event.type = "MODIFIED" /\ event.phase = "Available"
    <2>1. UpdatePV(event) /\ PVDone(event)
      BY <1>5 DEF storePV
    <2>2. Kept
      <3>1. 0 \in Time \ {NULL}
        BY NullIsNoNumber DEF Time
      <3>2. QED
        BY <1>1, <1>3, <2>1, <3>1, PVTxKeeps
    <2>3. Told(PVs, event)
      BY <1>3, <1>5 DEF Told, Recorded, PVs
    <2>4. resource_version' = [resource_version EXCEPT ![PVs] = event.rv]
      BY <2>1 DEF UpdatePV, updateRV, PVs
    <2>5. QED
      BY <1>1, <1>2, <2>1, <2>2, <2>3, <2>4, PVDoneStands
  <1>6. QED
    BY <1>2, <1>4, <1>5

\* And binding the claim.
LEMMA bindPVIInv ==
    ASSUME IInv, bindPV
    PROVE  IInv'
  <1>1. /\ TypeOK /\ TypeOK' /\ PVs \in Resource /\ MembersOf(PVs) = PV
        /\ "bind" \in PVHandlerStep
    BY PVHandlerTypeOK
       DEF IInv, PVHandler, PVHandlerStep, PVs, Resource, MembersOf
  <1>2. /\ event \in Offered(PVs) /\ event.claim # NULL
        /\ pc[PVs] = "bind"
        /\ \/ event.type = "ADDED" /\ PVRecorded(event.uid)
           \/ event.type = "MODIFIED" /\ event.phase = "Bound"
        /\ BindPVC(event, Now) /\ PVDone(event)
        /\ UNCHANGED <<clusterVars, rv, missed>>
    BY <1>1 DEF IInv, EventStands, bindPV
  <1>3. /\ event \in Event /\ event.uid \in PV
        /\ listing[PVs] # {} => event \in listing[PVs] /\ event.type = "ADDED"
        /\ listing[PVs] = {} => event \in log[PVs]
    BY <1>1, <1>2, OfferedFacts
  <1>4. event.claim \in PVC
    BY <1>2, <1>3 DEF Event
  <1>5. \E f \in log[PVs] : f.uid = event.uid /\ f.claim = event.claim
    BY <1>1, <1>2, <1>3 DEF IInv, ListStands
  <1>6. Kept
    BY <1>1, <1>2, <1>4, <1>5, BindPVCKeeps DEF IInv
  <1>7. pvc'[event.claim].pv_uid = event.uid
    <2>1. pvc[event.claim] \in PVCRow /\ event.claim \in DOMAIN pvc
      BY <1>1, <1>4 DEF TypeOK, DBTypeOK
    <2>2. QED
      BY <1>2, <2>1 DEF BindPVC, PVCRow
  <1>8. Told(PVs, event)
    <2>1. CASE event.type = "ADDED"
      <3>1. pv'[event.uid].create_time # NULL
        BY <1>2, <1>3, <1>6, <2>1 DEF Kept, PVRecorded
      <3>2. QED
        BY <1>2, <1>6, <1>7, <2>1, <3>1, PVAddedTold
    <2>2. CASE event.type = "MODIFIED"
      BY <1>3, <1>7, <2>2 DEF Told, Recorded, PVs
    <2>3. QED
      BY <1>2, <2>1, <2>2
  <1>9. resource_version' = [resource_version EXCEPT ![PVs] = event.rv]
    BY <1>2 DEF BindPVC, updateRV, PVs
  <1>10. QED
    BY <1>1, <1>2, <1>6, <1>8, <1>9, PVDoneStands

-----------------------------------------------------------------------------
(* Faults.                                                                 *)

\* A watch that ends excuses what its list still had to offer.
LEMMA DropIInv ==
    ASSUME IInv, NEW r \in Resource, Drop(r)
    PROVE  IInv'
  <1>1. TypeOK /\ TypeOK' /\ PVs \in Resource
    BY FaultTypeOK DEF IInv, PVs, Resource
  <1>2. UNCHANGED <<clusterVars, dbVars, event>>
    BY DEF Drop
  <1>3. LogStands' /\ ClaimsStand'
    BY <1>2 DEF IInv, clusterVars, LogStands, InOrder, ClaimsStand, Alive
  <1>4. /\ pc[r] = "watch" /\ pc'[r] = "connect" /\ listing'[r] = {}
        /\ missed'[r] = missed[r] \cup Torn(r)
        /\ \A q \in Resource \ {r} :
            /\ pc'[q] = pc[q] /\ rv'[q] = rv[q] /\ listing'[q] = listing[q]
            /\ cursor'[q] = cursor[q] /\ missed'[q] = missed[q]
    BY <1>1 DEF Drop, TypeOK
  <1>5. \A q \in Resource : \A e : Recorded(q, e)' <=> Recorded(q, e)
    BY <1>2 DEF dbVars, Recorded, PodRecorded, PVCRecorded, PVRecorded
  <1>6. UNCHANGED <<index, log, resource_version, pv>>
    BY <1>2 DEF clusterVars, dbVars
  <1>7. ~Connected(r)' /\ \A q \in Resource \ {r} : Connected(q)' <=> Connected(q)
    BY <1>4 DEF Connected, PVHandlerStep
  <1>8. VersionsStand'
    <2> SUFFICES ASSUME NEW q \in Resource PROVE VersionsStand!(q)'
      BY DEF VersionsStand
    <2>1. CASE q = r
      BY <1>4, <1>6, <1>7, <2>1 DEF IInv, VersionsStand
    <2>2. CASE q # r
      BY <1>2, <1>4, <1>6, <1>7, <2>2 DEF IInv, VersionsStand
    <2>3. QED
      BY <2>1, <2>2
  <1>9. ListStands'
    BY <1>1, <1>4, <1>5, <1>6 DEF IInv, ListStands
  <1>10. EventStands'
    <2>1. CASE r = PVs
      BY <1>4, <2>1 DEF EventStands, PVHandlerStep
    <2>2. CASE r # PVs
      <3>1. PVs \in Resource \ {r}
        BY <1>1, <2>2
      <3>2. QED
        BY <1>2, <1>4, <1>6, <3>1 DEF IInv, EventStands, Offered, PVRecorded
    <2>3. QED
      BY <2>1, <2>2
  <1>11. Seen'
    BY <1>4, <1>5, <1>6, <1>7 DEF IInv, Seen
  <1>12. CheckpointCovers'
    <2>1. ASSUME NEW e \in log[r], InHand(r, e)
          PROVE  e.uid \in missed'[r]
      BY <1>4, <2>1 DEF InHand, Torn, PVHandlerStep
    <2>2. ASSUME NEW q \in Resource \ {r}, NEW e \in log[q], InHand(q, e)
          PROVE  InHand(q, e)'
      BY <1>2, <1>4, <2>2 DEF InHand
    <2>3. QED
      BY <1>4, <1>5, <1>6, <2>1, <2>2 DEF IInv, CheckpointCovers
  <1>13. QED
    BY <1>1, <1>3, <1>8, <1>9, <1>10, <1>11, <1>12 DEF IInv

\* So does the end of the process, and what a volume's handler had still to do
\* when it had stored the volume's version.
LEMMA ExitIInv ==
    ASSUME IInv, TypeOK', Exit
    PROVE  IInv'
  <1>1. TypeOK /\ PVs \in Resource
    BY DEF IInv, PVs, Resource
  <1>2. UNCHANGED <<clusterVars, dbVars>>
    BY DEF Exit
  <1>3. LogStands' /\ ClaimsStand'
    BY <1>2 DEF IInv, clusterVars, LogStands, InOrder, ClaimsStand, Alive
  <1>4. \A q \in Resource :
            /\ pc'[q] = "down" /\ listing'[q] = {}
            /\ missed'[q] = missed[q] \cup Torn(q) \cup TornBind(q)
    BY DEF Exit
  <1>5. \A q \in Resource : \A e : Recorded(q, e)' <=> Recorded(q, e)
    BY <1>2 DEF dbVars, Recorded, PodRecorded, PVCRecorded, PVRecorded
  <1>6. UNCHANGED <<index, log, resource_version, pv>>
    BY <1>2 DEF clusterVars, dbVars
  <1>7. \A q \in Resource : ~Connected(q)'
    BY <1>4 DEF Connected, PVHandlerStep
  <1>8. VersionsStand'
    BY <1>4, <1>6, <1>7 DEF IInv, VersionsStand
  <1>9. ListStands' /\ Seen'
    BY <1>4, <1>7 DEF ListStands, Seen
  <1>10. EventStands'
    BY <1>1, <1>4 DEF EventStands, PVHandlerStep
  <1>11. CheckpointCovers'
    <2>1. ASSUME NEW q \in Resource, NEW e \in log[q],
                 e.rv <= resource_version[q], InHand(q, e)
          PROVE  e.uid \in missed'[q]
      <3>1. CASE \E l \in listing[q] : l.uid = e.uid
        BY <1>4, <3>1 DEF Torn
      <3>2. CASE /\ listing[q] = {} /\ q = PVs
                 /\ pc[PVs] \in PVHandlerStep /\ event = e
        <4>1. event \in Offered(PVs) /\ event.rv # rv[PVs]
          BY <3>2 DEF IInv, EventStands
        <4>2. event.rv > cursor[PVs] /\ event.rv <= resource_version[PVs]
          BY <2>1, <3>2, <4>1 DEF Offered
        <4>3. /\ resource_version[PVs] \in Nat /\ cursor[PVs] \in Nat
              /\ event.rv \in Nat /\ rv[PVs] \in Nat
          BY <1>1, <3>2 DEF TypeOK, DBTypeOK, Event
        <4>4. rv[PVs] <= cursor[PVs] + 1
          <5>1. Connected(PVs)
            BY <3>2 DEF Connected
          <5>2. CASE rv[PVs] = 0
            BY <4>3, <5>2
          <5>3. CASE rv[PVs] # 0
            BY <1>1, <5>1, <5>3 DEF IInv, VersionsStand
          <5>4. QED
            BY <5>2, <5>3
        <4>5. ~(resource_version[PVs] <= cursor[PVs])
              /\ resource_version[PVs] # rv[PVs]
          BY <4>1, <4>2, <4>3, <4>4
        <4>6. pc[PVs] = "bind" /\ event.type = "ADDED"
          <5>1. Connected(PVs)
            BY <3>2 DEF Connected
          <5>2. QED
            BY <1>1, <4>5, <5>1 DEF IInv, VersionsStand
        <4>7. QED
          BY <1>4, <3>2, <4>6 DEF TornBind
      <3>3. CASE /\ listing[q] # {} /\ q = PVs
                 /\ pc[PVs] \in PVHandlerStep /\ event = e
        <4>1. e \in listing[q]
          BY <3>3 DEF IInv, EventStands, Offered
        <4>2. QED
          BY <1>4, <4>1 DEF Torn
      <3>4. QED
        BY <2>1, <3>1, <3>2, <3>3 DEF InHand
    <2>2. QED
      BY <1>4, <1>5, <1>6, <2>1 DEF IInv, CheckpointCovers
  <1>12. QED
    BY <1>3, <1>8, <1>9, <1>10, <1>11 DEF IInv

\* A restarted tracker has nothing in its hands.
LEMMA RestartIInv ==
    ASSUME IInv, Restart
    PROVE  IInv'
  <1>1. TypeOK /\ TypeOK' /\ PVs \in Resource
    BY FaultTypeOK DEF IInv, PVs, Resource
  <1>2. UNCHANGED <<clusterVars, dbVars, listing, cursor, rv, event, missed>>
    BY DEF Restart
  <1>3. LogStands' /\ ClaimsStand'
    BY <1>2 DEF IInv, clusterVars, LogStands, InOrder, ClaimsStand, Alive
  <1>4. \A q \in Resource : pc[q] = "down" /\ pc'[q] \in {"connect", "down"}
    BY DEF Restart, Running, Started
  <1>5. \A q \in Resource : \A e : Recorded(q, e)' <=> Recorded(q, e)
    BY <1>2 DEF dbVars, Recorded, PodRecorded, PVCRecorded, PVRecorded
  <1>6. UNCHANGED <<index, log, resource_version, pv>>
    BY <1>2 DEF clusterVars, dbVars
  <1>7. \A q \in Resource : ~Connected(q) /\ ~Connected(q)'
    BY <1>4 DEF Connected, PVHandlerStep
  <1>8. \A q \in Resource : listing[q] = {}
    BY <1>7 DEF IInv, VersionsStand
  <1>9. VersionsStand' /\ ListStands' /\ Seen'
    BY <1>2, <1>6, <1>7, <1>8 DEF IInv, VersionsStand, ListStands, Seen
  <1>10. EventStands'
    BY <1>1, <1>4 DEF EventStands, PVHandlerStep
  <1>11. CheckpointCovers'
    <2>1. \A q \in Resource : \A e \in log[q] : ~InHand(q, e)
      BY <1>4, <1>8 DEF InHand, PVHandlerStep
    <2>2. QED
      BY <1>2, <1>5, <1>6, <2>1 DEF IInv, CheckpointCovers
  <1>12. QED
    BY <1>1, <1>3, <1>9, <1>10, <1>11 DEF IInv

-----------------------------------------------------------------------------
\* The invariant holds of the initial states.
LEMMA InitIInv == Init => IInv
  <1> SUFFICES ASSUME Init PROVE IInv
    OBVIOUS
  <1>1. TypeOK
    BY InitTypeOK
  <1>2. /\ \A r \in Resource :
            /\ log[r] = {} /\ listing[r] = {} /\ resource_version[r] = 0
            /\ ~Connected(r)
        /\ \A u \in Object : object[u].phase = "absent" /\ object[u].claim = NULL
        /\ index = 0 /\ PVs \in Resource
    BY DEF Init, TrackerInit, ClusterInit, DBInit, Started, Connected, PVHandlerStep,
           NoObject, PVs, Resource
  <1>3. LogStands
    <2>1. \A r \in Resource : \A u \in MembersOf(r) : object[u].phase = "absent"
      BY <1>2 DEF Resource, MembersOf, Object
    <2>2. QED
      BY <1>2, <2>1 DEF LogStands, InOrder, Alive
  <1>4. ClaimsStand
    <2>1. \A v \in PV : object[v].phase = "absent" /\ object[v].claim = NULL
      BY <1>2 DEF Object
    <2>2. QED
      BY <1>2, <2>1 DEF ClaimsStand
  <1>5. VersionsStand /\ ListStands /\ Seen
    BY <1>2 DEF VersionsStand, ListStands, Seen
  <1>6. EventStands
    BY <1>2 DEF EventStands, Connected
  <1>7. CheckpointCovers
    BY <1>2 DEF CheckpointCovers
  <1>8. QED
    BY <1>1, <1>3, <1>4, <1>5, <1>6, <1>7 DEF IInv

\* Stuttering keeps it.
LEMMA StutterIInv ==
    ASSUME IInv, UNCHANGED vars
    PROVE  IInv'
  <1>1. TypeOK'
    BY StutterTypeOK DEF IInv
  <1>2. UNCHANGED <<index, object, log, pod, pvc, pv, resource_version, pc, rv,
                    listing, cursor, event, missed>>
    BY DEF vars, clusterVars, dbVars, trackerVars
  <1>3. LogStands' /\ ClaimsStand'
    BY <1>2 DEF IInv, LogStands, InOrder, ClaimsStand, Alive
  <1>4. \A q \in Resource : \A e :
            /\ Recorded(q, e)' <=> Recorded(q, e)
            /\ InHand(q, e)' <=> InHand(q, e)
            /\ Connected(q)' <=> Connected(q)
    BY <1>2 DEF Recorded, PodRecorded, PVCRecorded, PVRecorded, InHand,
                Connected
  <1>5. VersionsStand' /\ Seen' /\ CheckpointCovers'
    BY <1>2, <1>4 DEF IInv, VersionsStand, Seen, CheckpointCovers
  <1>6. ListStands' /\ EventStands'
    BY <1>2, <1>4
       DEF IInv, ListStands, EventStands, Offered, PVRecorded
  <1>7. QED
    BY <1>1, <1>3, <1>5, <1>6 DEF IInv

\* Every step keeps the invariant.
LEMMA NextIInv ==
    ASSUME IInv, [Next]_vars
    PROVE  IInv'
  <1>1. CASE UNCHANGED vars
    BY <1>1, StutterIInv
  <1>2. CASE ClusterStep
    BY <1>2, ClusterStepIInv
  <1>3. ASSUME NEW r \in Resource, Connect(r) \/ SkipDuplicate(r) \/ Drop(r)
        PROVE  IInv'
    BY <1>3, ListIInv, FromIInv, SkipDuplicateIInv, DropIInv DEF Connect
  <1>4. CASE handlePods \/ handlePVCs
    BY <1>4, handlePodsIInv, handlePVCsIInv
  <1>5. CASE PVHandler
    BY <1>5, handlePVsIInv, recordSourceIInv, storePVIInv, bindPVIInv
       DEF PVHandler
  <1>6. CASE Crash \/ FatalBackend \/ PanicNoTimestamp
    <2>1. Exit
      BY <1>6 DEF Crash, FatalBackend, PanicNoTimestamp
    <2>2. TypeOK'
      BY <1>6, FaultTypeOK DEF IInv
    <2>3. QED
      BY <2>1, <2>2, ExitIInv
  <1>7. CASE Restart
    BY <1>7, RestartIInv
  <1>8. QED
    BY <1>1, <1>2, <1>3, <1>4, <1>5, <1>6, <1>7 DEF Next

\* The log, the watches, the lists and the handlers stand to the database as
\* IInv says, in every reachable state.
THEOREM InvariantHolds == Spec => []IInv
  <1>1. Init => IInv
    BY InitIInv
  <1>2. IInv /\ [Next]_vars => IInv'
    BY NextIInv
  <1>3. QED
    BY <1>1, <1>2, PTL DEF Spec

\* The stored version never gets ahead of what it stands for: whatever the
\* cluster does and however watches, crashes, lists and expired versions
\* interleave, an event at or below it is in the database, still in hand, or
\* about an object that a fault named by Hidden, Torn or TornBind excuses.
THEOREM CheckpointSafe == Spec => []CheckpointCovers
  <1>1. IInv => CheckpointCovers
    BY DEF IInv
  <1>2. QED
    BY <1>1, InvariantHolds, PTL
=============================================================================
