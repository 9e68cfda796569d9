---------------------------- MODULE TrackerProofs ----------------------------
EXTENDS TrackerInvariant, ClusterProofs

LEMMA InitTypeOK == Init => TypeOK
  <1> SUFFICES ASSUME Init PROVE TypeOK
    OBVIOUS
  <1> USE DEF Init, TrackerInit, Resource
  <1>1. ClusterTypeOK
    BY BoundsAreNumbers, SpecsTyped
       DEF ClusterInit, ClusterTypeOK, NoObject, Snapshot, Time, Phase, MembersOf,
           SourcesOf, Object
  <1>2. DBTypeOK
    BY DEF DBInit, DBTypeOK, PodRow, PVCRow, PVRow, Time, Resource
  <1>3. QED
    BY <1>1, <1>2, FaultBoundsAreNumbers
       DEF TypeOK, Started, Step, PVHandlerStep, PVs

LEMMA ClusterStepTypeOK ==
    ASSUME TypeOK, ClusterStep
    PROVE  TypeOK'
  <1>1. ClusterTypeOK'
    BY ClusterNextType DEF TypeOK, ClusterStep
  <1>2. QED
    BY <1>1 DEF TypeOK, ClusterStep, trackerVars, dbVars, DBTypeOK

-----------------------------------------------------------------------------
(* The tracker's own steps keep the types.                                 *)

\* What a watch offers is an event about an object of its resource.
LEMMA OfferedType ==
    ASSUME TypeOK, NEW r \in Resource, NEW e \in Offered(r)
    PROVE  e \in Event /\ e.uid \in MembersOf(r) /\ e.rv \in Nat
  <1>1. e \in log[r] \/ e \in listing[r]
    BY DEF Offered
  <1>2. e \in Event /\ e.uid \in MembersOf(r)
    BY <1>1 DEF TypeOK, ClusterTypeOK
  <1>3. QED
    BY <1>2 DEF Event

\* Dealing with an event keeps the types of listing and cursor.
LEMMA ConsumeType ==
    ASSUME TypeOK, NEW r \in Resource, NEW e, e.rv \in Nat, Consume(r, e)
    PROVE  /\ listing' \in [Resource -> SUBSET Event]
           /\ \A q \in Resource : \A l \in listing'[q] : l.uid \in MembersOf(q)
           /\ cursor' \in [Resource -> Nat]
  <1>1. listing' \in [Resource -> SUBSET Event]
        /\ \A q \in Resource : listing'[q] \subseteq listing[q]
    BY DEF TypeOK, Consume
  <1>2. cursor' \in [Resource -> Nat]
    BY DEF TypeOK, Consume
  <1>3. QED
    BY <1>1, <1>2 DEF TypeOK

\* A deletion is stamped with a time.
LEMMA DeleteTimeType ==
    ASSUME ClusterTypeOK, NEW e \in Event
    PROVE  DeleteTime(e) \in Time \ {NULL}
  BY NowIsTime, NullIsNoNumber DEF Event, Time, DeleteTime

\* The transactions on pods keep the tables' types.
LEMMA PodTxType ==
    ASSUME DBTypeOK, NEW e \in Event, e.uid \in Pod,
           InsertPod(e) \/ DeletePodRow(e)
    PROVE  DBTypeOK'
  <1>1. e.created \in Time /\ e.deletion \in Time /\ e.rv \in Nat
    BY DEF Event
  <1>2. "pods" \in Resource
    BY DEF Resource
  <1>3. CASE InsertPod(e)
    <2>1. insertPodMount(e.uid, e.created) \subseteq MountRow
      BY DEF insertPodMount
    <2>2. QED
      BY <1>1, <1>2, <1>3, <2>1
         DEF DBTypeOK, InsertPod, dbVars, updateRV, PodRow
  <1>4. CASE DeletePodRow(e)
    BY <1>1, <1>2, <1>4 DEF DBTypeOK, DeletePodRow, updateRV, PodRow
  <1>5. QED
    BY <1>3, <1>4

\* So does filling in the mounts of a claim's name.
LEMMA AddPVCPodMountType ==
    ASSUME DBTypeOK, NEW c \in PVC
    PROVE  AddPVCPodMount(c) \subseteq MountRow
  <1>1. \A m \in pod_mount : m \in MountRow /\ [m EXCEPT !.pvc_uid = c] \in MountRow
    BY DEF DBTypeOK, MountRow
  <1>2. QED
    BY <1>1 DEF AddPVCPodMount

\* The transactions on claims keep the tables' types.
LEMMA PVCTxType ==
    ASSUME DBTypeOK, NEW e \in Event, e.uid \in PVC, NEW t \in Time,
           InsertPVC(e) \/ UpdatePVC(e) \/ DeletePVCRow(e, t)
    PROVE  DBTypeOK'
  <1>1. e.created \in Time /\ e.spec \in Nat /\ e.rv \in Nat
    BY DEF Event
  <1>2. "persistentvolumeclaims" \in Resource
    BY DEF Resource
  <1>3. pvc[e.uid] \in PVCRow
    BY DEF DBTypeOK
  <1>4. CASE InsertPVC(e)
    <2>1. pod_mount' \subseteq MountRow
      BY <1>4, AddPVCPodMountType DEF InsertPVC
    <2>2. [pvc[e.uid] EXCEPT !.create_time = e.created, !.spec = e.spec]
            \in PVCRow
      BY <1>1, <1>3 DEF PVCRow
    <2>3. pvc' \in [PVC -> PVCRow]
      BY <1>4, <2>2 DEF InsertPVC, DBTypeOK
    <2>4. QED
      BY <1>1, <1>2, <1>4, <2>1, <2>3 DEF DBTypeOK, InsertPVC, updateRV
  <1>5. CASE UpdatePVC(e)
    BY <1>1, <1>2, <1>5 DEF DBTypeOK, UpdatePVC, updateRV, PVCRow
  <1>6. CASE DeletePVCRow(e, t)
    BY <1>1, <1>2, <1>6 DEF DBTypeOK, DeletePVCRow, updateRV, PVCRow
  <1>7. QED
    BY <1>4, <1>5, <1>6

\* The transactions on volumes keep the tables' types.
LEMMA PVTxType ==
    ASSUME DBTypeOK, NEW e \in Event, e.uid \in PV, NEW t \in Time,
           InsertPV(e) \/ UpdatePV(e) \/ DeletePVRow(e, t)
    PROVE  DBTypeOK'
  <1>1. e.created \in Time /\ e.spec \in Nat /\ e.rv \in Nat
    BY DEF Event
  <1>2. "persistentvolumes" \in Resource
    BY DEF Resource
  <1>3. pv[e.uid] \in PVRow /\ e.source \in Source \cup {NULL}
    BY DEF DBTypeOK, Event
  <1>4. CASE InsertPV(e)
    <2>1. [pv[e.uid] EXCEPT !.create_time = e.created,
              !.source = e.source, !.spec = e.spec] \in PVRow
      BY <1>1, <1>3 DEF PVRow
    <2>2. pv' \in [PV -> PVRow]
      BY <1>4, <2>1 DEF InsertPV, dbVars, DBTypeOK
    <2>3. QED
      BY <1>1, <1>2, <1>4, <2>2 DEF DBTypeOK, InsertPV, dbVars, updateRV
  <1>5. CASE UpdatePV(e)
    <2>1. [pv[e.uid] EXCEPT !.source = e.source, !.spec = e.spec]
            \in PVRow
      BY <1>1, <1>3 DEF PVRow
    <2>2. pv' \in [PV -> PVRow]
      BY <1>5, <2>1 DEF UpdatePV, DBTypeOK
    <2>3. QED
      BY <1>1, <1>2, <1>5, <2>2 DEF DBTypeOK, UpdatePV, updateRV
  <1>6. CASE DeletePVRow(e, t)
    BY <1>1, <1>2, <1>6 DEF DBTypeOK, DeletePVRow, updateRV, PVRow
  <1>7. QED
    BY <1>4, <1>5, <1>6

\* Binding a claim keeps the tables' types.
LEMMA BindPVCType ==
    ASSUME DBTypeOK, NEW e \in Event, e.uid \in PV, NEW t \in Time,
           BindPVC(e, t)
    PROVE  DBTypeOK'
  <1>1. e.rv \in Nat /\ "persistentvolumes" \in Resource
    BY DEF Event, Resource
  <1>2. \A c \in PVC : [pvc[c] EXCEPT !.pv_uid = e.uid, !.bind_time = t] \in PVCRow
    BY DEF DBTypeOK, PVCRow
  <1>3. pvc' \in [PVC -> PVCRow]
    BY <1>2 DEF BindPVC, DBTypeOK
  <1>4. QED
    BY <1>1, <1>3 DEF DBTypeOK, BindPVC, updateRV

\* Starting a watch keeps the types.
LEMMA ConnectTypeOK ==
    ASSUME TypeOK, NEW r \in Resource, Connect(r)
    PROVE  TypeOK'
  <1>1. ClusterTypeOK' /\ DBTypeOK'
    BY DEF TypeOK, Connect, ConnectList, ConnectFrom, ConnectExpired,
           clusterVars, dbVars, ClusterTypeOK, DBTypeOK
  <1>2. /\ pc' \in [Resource -> Step]
        /\ \A q \in Resource : pc'[q] \in PVHandlerStep => q = PVs
        /\ pc'[PVs] \in PVHandlerStep => pc'[PVs] = pc[PVs]
    BY DEF TypeOK, Connect, ConnectList, ConnectFrom, ConnectExpired, Step,
           PVHandlerStep, PVs, Resource
  <1>3. /\ initialize' \in [Resource -> BOOLEAN]
        /\ event' = event /\ drops' = drops /\ crashes' = crashes
    BY DEF TypeOK, Connect, ConnectList, ConnectFrom, ConnectExpired
  <1>4. CASE ConnectList(r)
    <2>1. \A l \in Listing(r) : l \in Event /\ l.uid \in MembersOf(r)
      BY ListingType DEF TypeOK
    <2>2. index \in Nat
      BY BoundsAreNumbers DEF TypeOK, ClusterTypeOK
    <2>3. Hidden(r) \subseteq Object
      <3>1. \A e \in log[r] : e.uid \in Object
        BY DEF TypeOK, ClusterTypeOK, Event
      <3>2. QED
        BY <3>1 DEF Hidden
    <2>4. /\ listing' \in [Resource -> SUBSET Event]
          /\ \A q \in Resource : \A l \in listing'[q] : l.uid \in MembersOf(q)
      BY <1>4, <2>1 DEF TypeOK, ConnectList
    <2>5. rv' \in [Resource -> Nat] /\ cursor' \in [Resource -> Nat]
      BY <1>4, <2>2 DEF TypeOK, ConnectList
    <2>6. missed' \in [Resource -> SUBSET Object]
      BY <1>4, <2>3 DEF TypeOK, ConnectList
    <2>7. QED
      BY <1>1, <1>2, <1>3, <2>4, <2>5, <2>6 DEF TypeOK, PVHandlerStep
  <1>5. CASE ConnectFrom(r)
    <2>1. GetRV(r) \in Nat \ {0}
      BY <1>5 DEF TypeOK, DBTypeOK, GetRV, ConnectFrom
    <2>2. \A back \in Overlap : GetRV(r) - back \in Nat
      BY <2>1, OverlapTyped
    <2>3. rv' \in [Resource -> Nat] /\ cursor' \in [Resource -> Nat]
      BY <1>5, <2>1, <2>2 DEF TypeOK, ConnectFrom
    <2>4. QED
      BY <1>1, <1>2, <1>3, <1>5, <2>3 DEF TypeOK, ConnectFrom, PVHandlerStep
  <1>6. CASE ConnectExpired(r)
    BY <1>1, <1>2, <1>3, <1>6 DEF TypeOK, ConnectExpired, PVHandlerStep
  <1>7. QED
    BY <1>4, <1>5, <1>6 DEF Connect

\* Skipping the event of the version asked for keeps the types.
LEMMA SkipDuplicateTypeOK ==
    ASSUME TypeOK, NEW r \in Resource, SkipDuplicate(r)
    PROVE  TypeOK'
  <1>1. PICK e \in Offered(r) : Consume(r, e)
    BY DEF SkipDuplicate
  <1>2. e.rv \in Nat
    BY OfferedType
  <1>3. QED
    BY <1>1, <1>2, ConsumeType
       DEF SkipDuplicate, TypeOK, clusterVars, ClusterTypeOK, dbVars, DBTypeOK

\* The handlers of pods and claims keep the types.
LEMMA HandlersTypeOK ==
    ASSUME TypeOK, handlePods \/ handlePVCs
    PROVE  TypeOK'
  <1>1. ASSUME NEW r \in Resource, NEW e, Receives(r, e), Handled(r, e),
               DBTypeOK'
        PROVE  TypeOK'
    <2>1. e \in Offered(r)
      BY <1>1 DEF Receives
    <2>2. e.rv \in Nat
      BY <2>1, OfferedType
    <2>3. Consume(r, e)
      BY <1>1 DEF Handled
    <2>4. QED
      BY <1>1, <2>2, <2>3, ConsumeType
         DEF Handled, TypeOK, clusterVars, ClusterTypeOK
  <1>2. CASE handlePods
    <2>1. PICK e : /\ Receives("pods", e) /\ Handled("pods", e)
                   /\ InsertPod(e) \/ UNCHANGED dbVars \/ DeletePodRow(e)
      BY <1>2 DEF handlePods
    <2>2. "pods" \in Resource /\ MembersOf("pods") = Pod
      BY DEF Resource, MembersOf
    <2>3. e \in Event /\ e.uid \in Pod
      BY <2>1, <2>2, OfferedType DEF Receives
    <2>4. DBTypeOK'
      BY <2>1, <2>3, PodTxType DEF TypeOK, dbVars, DBTypeOK
    <2>5. QED
      BY <2>1, <2>2, <2>4, <1>1
  <1>3. CASE handlePVCs
    <2> DEFINE r == "persistentvolumeclaims"
    <2>1. PICK e : /\ Receives(r, e) /\ Handled(r, e)
                   /\ \/ InsertPVC(e) \/ UpdatePVC(e) \/ UNCHANGED dbVars
                      \/ DeletePVCRow(e, DeleteTime(e))
      BY <1>3 DEF handlePVCs
    <2>2. r \in Resource /\ MembersOf(r) = PVC
      BY DEF Resource, MembersOf
    <2>3. e \in Event /\ e.uid \in PVC
      BY <2>1, <2>2, OfferedType DEF Receives
    <2>4. DeleteTime(e) \in Time
      BY <2>3, DeleteTimeType DEF TypeOK
    <2>5. DBTypeOK'
      BY <2>1, <2>3, <2>4, PVCTxType DEF TypeOK, dbVars, DBTypeOK
    <2>6. QED
      BY <2>1, <2>2, <2>5, <1>1
  <1>4. QED
    BY <1>2, <1>3

\* The end of handlePVs keeps the types.
LEMMA PVDoneTypeOK ==
    ASSUME TypeOK, NEW e, e.rv \in Nat, PVDone(e), DBTypeOK',
           UNCHANGED <<clusterVars, initialize, rv, drops, crashes, missed>>
    PROVE  TypeOK'
  <1>1. PVs \in Resource /\ "watch" \in Step /\ "watch" \notin PVHandlerStep
    BY DEF PVs, Resource, Step, PVHandlerStep
  <1>2. /\ pc' \in [Resource -> Step] /\ pc'[PVs] = "watch"
        /\ \A q \in Resource : pc'[q] \in PVHandlerStep => q = PVs
    BY <1>1 DEF TypeOK, PVDone, PVGoesTo
  <1>3. QED
    BY <1>1, <1>2, ConsumeType
       DEF TypeOK, PVDone, clusterVars, ClusterTypeOK

\* So do its steps before the end.
LEMMA PVGoesOnTypeOK ==
    ASSUME TypeOK, NEW step \in PVHandlerStep, PVGoesTo(step),
           event' \in Event, event'.uid \in PV, DBTypeOK',
           step = "source" => event'.source # NULL,
           UNCHANGED <<clusterVars, initialize, rv, listing, cursor, drops,
                       crashes, missed>>
    PROVE  TypeOK'
  <1>1. PVs \in Resource /\ step \in Step
    BY DEF PVs, Resource, Step
  <1>2. /\ pc' \in [Resource -> Step] /\ pc'[PVs] = step
        /\ \A q \in Resource : pc'[q] \in PVHandlerStep => q = PVs
    BY <1>1 DEF TypeOK, PVGoesTo
  <1>3. QED
    BY <1>1, <1>2 DEF TypeOK, clusterVars, ClusterTypeOK

\* The handler of volumes keeps the types.
LEMMA PVHandlerTypeOK ==
    ASSUME TypeOK, PVHandler
    PROVE  TypeOK'
  <1> USE DEF PVHandlerStep
  <1>1. PVs \in Resource /\ MembersOf(PVs) = PV
    BY DEF PVs, Resource, MembersOf
  <1>2. ASSUME UNCHANGED dbVars PROVE DBTypeOK'
    BY <1>2 DEF TypeOK, dbVars, DBTypeOK
  <1>3. Now \in Time
    BY NowIsTime DEF TypeOK
  <1>4. CASE handlePVs
    <2>1. PICK e : /\ Receives(PVs, e)
                   /\ \/ startPV(e)
                      \/ PVDone(e) /\ UNCHANGED dbVars
                      \/ PVDone(e) /\ DeletePVRow(e, DeleteTime(e))
                   /\ UNCHANGED <<clusterVars, initialize, rv, drops, crashes,
                                  missed>>
      BY <1>4 DEF handlePVs
    <2>2. e \in Event /\ e.uid \in PV /\ e.rv \in Nat
      BY <1>1, <2>1, OfferedType DEF Receives
    <2>3. CASE startPV(e)
      <3>1. \E step \in PVHandlerStep :
                PVGoesTo(step) /\ (step = "source" => e.source # NULL)
        BY <2>3 DEF startPV
      <3>2. QED
        BY <1>2, <2>1, <2>2, <2>3, <3>1, PVGoesOnTypeOK DEF startPV
    <2>4. CASE PVDone(e) /\ UNCHANGED dbVars
      BY <1>2, <2>1, <2>2, <2>4, PVDoneTypeOK
    <2>5. CASE PVDone(e) /\ DeletePVRow(e, DeleteTime(e))
      <3>1. DeleteTime(e) \in Time
        BY <2>2, DeleteTimeType DEF TypeOK
      <3>2. DBTypeOK'
        BY <2>2, <2>5, <3>1, PVTxType DEF TypeOK
      <3>3. QED
        BY <2>1, <2>2, <2>5, <3>2, PVDoneTypeOK
    <2>6. QED
      BY <2>1, <2>3, <2>4, <2>5
  <1>5. ASSUME pc[PVs] \in PVHandlerStep
        PROVE  event \in Event /\ event.uid \in PV /\ event.rv \in Nat
    BY <1>5 DEF TypeOK, Event
  <1>6. CASE recordSource
    <2>1. event.source \in Source
      BY <1>5, <1>6 DEF recordSource, TypeOK, Event
    <2>2. DBTypeOK'
      BY <1>6, <2>1 DEF recordSource, InsertSource, TypeOK, DBTypeOK
    <2>3. QED
      BY <1>5, <1>6, <2>2, PVGoesOnTypeOK DEF recordSource
  <1>7. CASE storePV
    <2>1. event \in Event /\ event.uid \in PV /\ event.rv \in Nat
      BY <1>5, <1>7 DEF storePV
    <2>2. DBTypeOK'
      BY <1>3, <1>7, <2>1, PVTxType DEF storePV, TypeOK
    <2>3. CASE PVDone(event)
      BY <1>7, <2>1, <2>2, <2>3, PVDoneTypeOK DEF storePV
    <2>4. CASE PVGoesTo("bind") /\ UNCHANGED <<event, listing, cursor>>
      BY <1>7, <2>1, <2>2, <2>4, PVGoesOnTypeOK DEF storePV
    <2>5. QED
      BY <1>7, <2>3, <2>4 DEF storePV
  <1>8. CASE bindPV
    <2>1. event \in Event /\ event.uid \in PV /\ event.rv \in Nat
      BY <1>5, <1>8 DEF bindPV
    <2>2. DBTypeOK'
      BY <1>3, <1>8, <2>1, BindPVCType DEF bindPV, TypeOK
    <2>3. QED
      BY <1>8, <2>1, <2>2, PVDoneTypeOK DEF bindPV
  <1>9. QED
    BY <1>4, <1>6, <1>7, <1>8 DEF PVHandler

\* A torn list or binding is about objects.
LEMMA TornType ==
    ASSUME TypeOK, NEW r \in Resource
    PROVE  Torn(r) \subseteq Object /\ TornBind(r) \subseteq Object
  BY DEF TypeOK, Torn, TornBind, PVHandlerStep, Event

\* Faults and the restart keep the types.
LEMMA FaultTypeOK ==
    ASSUME TypeOK,
           \/ \E r \in Resource : Drop(r)
           \/ Crash \/ FatalBackend \/ PanicNoTimestamp \/ Restart
    PROVE  TypeOK'
  <1> USE FaultBoundsAreNumbers DEF Step, PVHandlerStep
  <1>1. CASE \E r \in Resource : Drop(r)
    <2>1. PICK r \in Resource : Drop(r)
      BY <1>1
    <2>2. missed' \in [Resource -> SUBSET Object]
      BY <2>1, TornType DEF TypeOK, Drop
    <2>3. drops' \in 0..MaxDrops
      BY <2>1 DEF TypeOK, Drop
    <2>4. ClusterTypeOK' /\ DBTypeOK'
      BY <2>1 DEF TypeOK, Drop, clusterVars, ClusterTypeOK, dbVars, DBTypeOK
    <2>5. /\ pc' \in [Resource -> Step]
          /\ \A q \in Resource : pc'[q] \in PVHandlerStep => q = PVs
          /\ pc'[PVs] \in PVHandlerStep => pc'[PVs] = pc[PVs]
      BY <2>1 DEF TypeOK, Drop
    <2>6. QED
      BY <2>1, <2>2, <2>3, <2>4, <2>5 DEF TypeOK, Drop
  <1>2. ASSUME Exit, crashes' \in 0..MaxCrashes PROVE TypeOK'
    <2>1. missed' \in [Resource -> SUBSET Object]
      BY <1>2, TornType DEF TypeOK, Exit
    <2>2. ClusterTypeOK' /\ DBTypeOK'
      BY <1>2 DEF TypeOK, Exit, clusterVars, ClusterTypeOK, dbVars, DBTypeOK
    <2>3. PVs \in Resource
      BY DEF PVs, Resource
    <2>4. QED
      BY <1>2, <2>1, <2>2, <2>3 DEF TypeOK, Exit
  <1>3. CASE Crash
    BY <1>2, <1>3 DEF TypeOK, Crash
  <1>4. CASE FatalBackend
    BY <1>2, <1>4 DEF TypeOK, FatalBackend
  <1>5. CASE PanicNoTimestamp
    BY <1>2, <1>5 DEF TypeOK, PanicNoTimestamp
  <1>6. CASE Restart
    <2>1. pc' \in [Resource -> {"connect", "down"}]
      BY <1>6 DEF Restart, Started
    <2>2. PVs \in Resource
      BY DEF PVs, Resource
    <2>3. ClusterTypeOK' /\ DBTypeOK'
      BY <1>6 DEF TypeOK, Restart, clusterVars, ClusterTypeOK, dbVars, DBTypeOK
    <2>4. QED
      BY <1>6, <2>1, <2>2, <2>3 DEF TypeOK, Restart
  <1>7. QED
    BY <1>1, <1>3, <1>4, <1>5, <1>6

\* Stuttering keeps everything.
LEMMA StutterTypeOK ==
    ASSUME TypeOK, UNCHANGED vars
    PROVE  TypeOK'
  BY DEF TypeOK, vars, clusterVars, dbVars, trackerVars, ClusterTypeOK, DBTypeOK

\* Every step keeps the types.
LEMMA NextTypeOK ==
    ASSUME TypeOK, [Next]_vars
    PROVE  TypeOK'
  BY ClusterStepTypeOK, ConnectTypeOK, SkipDuplicateTypeOK, HandlersTypeOK,
     PVHandlerTypeOK, FaultTypeOK, StutterTypeOK DEF Next

\* Every variable of the tracker and its environment keeps its type; events
\* and listed objects belong to the resource whose log or list they are in,
\* and only the goroutine of the volumes is ever inside a handler.
THEOREM TypeCorrect == Spec => []TypeOK
  <1>1. Init => TypeOK
    BY InitTypeOK
  <1>2. TypeOK /\ [Next]_vars => TypeOK'
    BY NextTypeOK
  <1>3. QED
    BY <1>1, <1>2, PTL DEF Spec
=============================================================================
