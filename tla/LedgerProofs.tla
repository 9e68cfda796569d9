----------------------------- MODULE LedgerProofs -----------------------------
(***************************************************************************)
(* What the rows say of the cluster, for every cluster and every schedule: *)
(* RowsAreTrue, SourcesKnown, OneRowPerMount, and that the tracker         *)
(* implements the ledger of module UsageLedger.  The invariant is that of  *)
(* module LedgerInvariant; every transaction of VolumeDB keeps it when it  *)
(* is given an event that a watch has offered.                             *)
(***************************************************************************)
EXTENDS LedgerInvariant, CheckpointProofs

\* The part of the invariant that is about the tables.
RowsInv == RowsStand /\ RowsAreTrue /\ SourcesKnown /\ MountsStand
                     /\ OneRowPerMount

\* An event a handler may rely on: it says of its object what is the case.
TrueEvent(r, e) ==
    /\ e \in Event /\ e.uid \in MembersOf(r) /\ e.uid \in Object
    /\ object[e.uid].phase # "absent"
    /\ e.created # NULL /\ e.created = object[e.uid].created
    /\ e.type = "DELETED" => e \in log[r]
    /\ r = PVs /\ e.claim # NULL =>
        \E f \in log[PVs] : f.uid = e.uid /\ f.claim = e.claim

\* What a watch offers is true.
LEMMA OfferedTrue ==
    ASSUME IInv, LogTrue, ListTrue, NEW r \in Resource, NEW e \in Offered(r)
    PROVE  TrueEvent(r, e)
  <1>1. /\ e \in Event /\ e.uid \in MembersOf(r) /\ e.created # NULL
        /\ listing[r] # {} => e \in listing[r] /\ e.type = "ADDED"
        /\ listing[r] = {} => e \in log[r]
    BY OfferedFacts
  <1>2. e.uid \in Object
    BY <1>1 DEF Event
  <1>3. CASE listing[r] # {}
    BY <1>1, <1>2, <1>3 DEF TrueEvent, ListTrue, IInv, ListStands
  <1>4. CASE listing[r] = {}
    BY <1>1, <1>2, <1>4 DEF TrueEvent, LogTrue, IInv, LogStands, InOrder
  <1>5. QED
    BY <1>3, <1>4

\* A deletion is handled after it has been made, and stamped in between.
LEMMA DeleteTimeTrue ==
    ASSUME TypeOK, LogStands, LogTrue, NEW r \in Resource, NEW e \in log[r],
           e.type = "DELETED", NEW t \in {e.deletion, DeleteTime(e)}, t # NULL
    PROVE  /\ object[e.uid].phase = "gone"
           /\ t \in Nat /\ Stamp(e.rv) \in Nat /\ Stamp(e.rv) <= t
           /\ Now \in Nat /\ t <= Now
  <1>1. e.rv \in 1..index /\ index \in Nat
    BY BoundsAreNumbers DEF TypeOK, ClusterTypeOK
  <1>2. /\ Stamp(e.rv) \in Nat /\ Now \in Nat /\ Stamp(e.rv) <= Now
    BY <1>1, StampIsNat, StampMonotone DEF Now
  <1>3. e.deletion \in {NULL, Stamp(e.rv)}
    BY DEF LogTrue
  <1>4. t \in {Stamp(e.rv), Now}
    BY <1>3 DEF DeleteTime
  <1>5. QED
    BY <1>2, <1>4 DEF LogStands, InOrder

-----------------------------------------------------------------------------
(* Steps that leave the tables alone.                                      *)

LEMMA RowsUnchanged ==
    ASSUME RowsInv, UNCHANGED <<clusterVars, dbVars>>
    PROVE  RowsInv'
  <1>1. UNCHANGED <<index, object, log, pod, pvc, pv, pod_mount, sources>>
    BY DEF clusterVars, dbVars
  <1>2. RowsStand' /\ SourcesKnown' /\ MountsStand'
    BY <1>1 DEF RowsInv, RowsStand, SourcesKnown, MountsStand, PVRecorded,
                PVCRecorded, PodRecorded
  <1>3. RowsAreTrue'
    BY <1>1 DEF RowsInv, RowsAreTrue, TrueTimes, Now
  <1>4. OneRowPerMount'
    BY <1>1 DEF RowsInv, OneRowPerMount, PodRecorded, Rows, Distinct
  <1>5. QED
    BY <1>2, <1>3, <1>4 DEF RowsInv

\* What the database says of the cluster stays true when the cluster changes.
LEMMA ClusterKeepsRows ==
    ASSUME TypeOK, LogStands, LogTrue, RowsInv, ClusterStep
    PROVE  RowsInv'
  <1>1. UNCHANGED <<pod, pvc, pv, pod_mount, sources>>
    BY DEF ClusterStep, dbVars
  <1>2. /\ \A u \in Object :
            /\ object[u].phase # "absent" =>
                /\ object'[u].phase # "absent"
                /\ object'[u].created = object[u].created
            /\ object[u].phase = "gone" => object'[u].phase = "gone"
        /\ Now \in Nat /\ Now' \in Nat /\ Now <= Now'
    BY ClusterKeepsObjects DEF ClusterStep, TypeOK
  <1>3. \A r \in Resource : log[r] \subseteq log'[r]
    BY ClusterOnlyAdds DEF ClusterStep, TypeOK
  <1>4. Pod \subseteq Object /\ PVC \subseteq Object /\ PV \subseteq Object
        /\ "pods" \in Resource /\ MembersOf("pods") = Pod /\ PVs \in Resource
    BY DEF Object, Resource, MembersOf, PVs
  <1>5. SourcesKnown' /\ MountsStand'
    BY <1>1 DEF RowsInv, SourcesKnown, MountsStand, PVRecorded, PVCRecorded,
                PodRecorded
  <1>6. ASSUME NEW row, NEW u \in Object, TrueTimes(row, u),
               row.delete_time \in Time,
               row.create_time # NULL => object[u].phase # "absent"
        PROVE  TrueTimes(row, u)'
    <2>1. row.create_time # NULL => row.create_time = object'[u].created
      BY <1>2, <1>6 DEF TrueTimes
    <2>2. ASSUME row.delete_time # NULL
          PROVE  /\ object'[u].phase = "gone"
                 /\ \E r \in Resource : \E e \in log'[r] :
                        /\ e.uid = u /\ e.type = "DELETED"
                        /\ Stamp(e.rv) <= row.delete_time
                 /\ row.delete_time <= Now'
      <3>1. row.delete_time \in Nat
        BY <1>6, <2>2 DEF Time
      <3>2. QED
        BY <1>2, <1>3, <1>6, <2>2, <3>1 DEF TrueTimes
    <2>3. QED
      BY <2>1, <2>2 DEF TrueTimes
  <1>7. RowsAreTrue'
    <2>1. \A p \in Pod : pod[p].delete_time \in Time
      BY DEF TypeOK, DBTypeOK, PodRow
    <2>2. \A c \in PVC : pvc[c].delete_time \in Time
      BY DEF TypeOK, DBTypeOK, PVCRow
    <2>3. \A v \in PV : pv[v].delete_time \in Time
      BY DEF TypeOK, DBTypeOK, PVRow
    <2>4. \A p \in Pod : TrueTimes(pod[p], p)'
      BY <1>1, <1>4, <1>6, <2>1 DEF RowsInv, RowsAreTrue, RowsStand
    <2>5. \A v \in PV : TrueTimes(pv[v], v)'
      BY <1>1, <1>4, <1>6, <2>3 DEF RowsInv, RowsAreTrue, RowsStand
    <2>6. ASSUME NEW c \in PVC
          PROVE  /\ TrueTimes(pvc[c], c)'
                 /\ pvc'[c].pv_uid # NULL =>
                     \E e \in log'[PVs] : e.uid = pvc'[c].pv_uid /\ e.claim = c
      BY <1>1, <1>3, <1>4, <1>6, <2>2 DEF RowsInv, RowsAreTrue, RowsStand
    <2>7. QED
      BY <2>4, <2>5, <2>6 DEF RowsAreTrue
  <1>8. RowsStand'
    <2>1. ASSUME NEW p \in Pod, pod[p].delete_time # NULL,
                 NEW e \in log'["pods"], e.uid = p, e.type = "DELETED"
          PROVE  pod[p].delete_time = e.deletion
      <3>1. object[p].phase = "gone"
        BY <2>1 DEF RowsInv, RowsAreTrue, TrueTimes
      <3>2. PICK d \in log["pods"] : d.uid = p /\ d.type = "DELETED"
        BY <1>4, <3>1 DEF LogStands, InOrder
      <3>3. LogTrue' /\ LogStands'
        BY ClusterKeepsTrue, ClusterNextIsLawful, LawfulKeepsLog
           DEF ClusterStep, TypeOK, LogStands, InOrder, Compact, Alive
      <3>4. d.rv \in Nat /\ e.rv \in Nat /\ d \in log'["pods"]
        BY <1>3, <1>4, <3>2, ClusterStepTypeOK DEF TypeOK, ClusterTypeOK, Event
      <3>5. d.rv = e.rv
        BY <1>4, <2>1, <3>2, <3>3, <3>4 DEF LogTrue
      <3>6. d = e
        BY <1>4, <3>3, <3>4, <3>5 DEF LogStands, InOrder
      <3>7. QED
        BY <2>1, <3>2, <3>6 DEF RowsInv, RowsStand
    <2>2. QED
      BY <1>1, <1>2, <1>4, <2>1 DEF RowsInv, RowsStand
  <1>9. OneRowPerMount'
    <2>1. ASSUME NEW n, Distinct(n)' PROVE Distinct(n)
      <3>1. \A c \in PVC : object[c].created # NULL =>
                object'[c].created = object[c].created
        BY <1>2, <1>4 DEF LogTrue
      <3>2. QED
        BY <2>1, <3>1 DEF Distinct
    <2>2. \A p, m : Rows(p, m)' = Rows(p, m)
      BY <1>1 DEF Rows
    <2>3. QED
      BY <1>1, <2>1, <2>2 DEF RowsInv, OneRowPerMount, PodRecorded
  <1>10. QED
    BY <1>5, <1>7, <1>8, <1>9 DEF RowsInv

-----------------------------------------------------------------------------
(* The transactions on pods.                                               *)

\* Claims of the same age and name are the same, when the name is distinct.
LEMMA SameAgeOne ==
    ASSUME DBTypeOK, RowsAreTrue, NEW n, Distinct(n), NEW S,
           \A c, d \in S : pvc[c].create_time = pvc[d].create_time,
           SameAge(n, S) # {}
    PROVE  \E c \in Named(n) : SameAge(n, S) = {c}
  <1>1. PICK c \in SameAge(n, S) : TRUE
    OBVIOUS
  <1>2. ASSUME NEW d \in SameAge(n, S)
        PROVE  d = c
    <2>1. c \in Named(n) /\ d \in Named(n)
          /\ pvc[c].create_time = pvc[d].create_time
      BY <1>2 DEF SameAge
    <2>2. /\ object[c].created = pvc[c].create_time
          /\ object[d].created = pvc[d].create_time
          /\ pvc[c].create_time # NULL
          /\ c \in PVC /\ d \in PVC /\ NameOf[c] = n /\ NameOf[d] = n
      BY <2>1 DEF Named, PVCRecorded, RowsAreTrue, TrueTimes
    <2>3. QED
      BY <2>1, <2>2 DEF Distinct
  <1>3. c \in Named(n)
    BY <1>1 DEF SameAge
  <1>4. QED
    BY <1>1, <1>2, <1>3

\* insertPodMount finds one claim, or none.
LEMMA ClaimsForOne ==
    ASSUME DBTypeOK, RowsAreTrue, NEW n, Distinct(n), NEW t
    PROVE  \E x \in Named(n) \cup {NULL} : ClaimsFor(n, t) = {x}
  <1>1. \A c \in Named(n) : pvc[c].create_time \in Nat
    BY DEF Named, PVCRecorded, DBTypeOK, PVCRow, Time
  <1> DEFINE early == SameAge(n, Newest(EarlyClaims(n, t)))
             late == SameAge(n, Oldest(LateClaims(n, t)))
  <1>2. \A c, d \in Newest(EarlyClaims(n, t)) :
            pvc[c].create_time = pvc[d].create_time
    BY <1>1 DEF Newest, EarlyClaims
  <1>3. \A c, d \in Oldest(LateClaims(n, t)) :
            pvc[c].create_time = pvc[d].create_time
    BY <1>1 DEF Oldest, LateClaims
  <1>4. early # {} => \E x \in Named(n) : early = {x}
    BY <1>2, SameAgeOne
  <1>5. late # {} => \E x \in Named(n) : late = {x}
    BY <1>3, SameAgeOne
  <1>6. ClaimsFor(n, t) =
            IF early # {} THEN early ELSE IF late # {} THEN late ELSE {NULL}
    BY DEF ClaimsFor
  <1> HIDE DEF early, late
  <1>7. QED
    BY <1>4, <1>5, <1>6

\* A pod is recorded with its own mounts.
LEMMA InsertPodRows ==
    ASSUME TypeOK, RowsInv, NEW e, TrueEvent("pods", e), InsertPod(e),
           UNCHANGED clusterVars
    PROVE  RowsInv'
  <1> DEFINE p == e.uid
             new == insertPodMount(e.uid, e.created)
  <1>0. CASE UNCHANGED dbVars
    BY <1>0, RowsUnchanged
  <1>1. CASE ~PodRecorded(e.uid)
    <2>1. /\ pod' = [pod EXCEPT ![p].create_time = e.created]
          /\ pod_mount' = pod_mount \cup new
          /\ UNCHANGED <<pvc, pv, sources>>
          /\ UNCHANGED <<index, object, log>>
      BY <1>1 DEF InsertPod, clusterVars
    <2>2. /\ p \in Pod /\ object[p].phase # "absent"
          /\ e.created # NULL /\ e.created = object[p].created
      BY DEF TrueEvent, Resource, MembersOf
    <2>3. pod[p].create_time = NULL /\ pod[p].delete_time = NULL
      BY <1>1, <2>2 DEF RowsInv, RowsStand, PodRecorded
    <2>4. /\ pod'[p].create_time = e.created /\ pod'[p].delete_time = NULL
          /\ \A q \in Pod \ {p} : pod'[q] = pod[q]
      BY <2>1, <2>2, <2>3 DEF TypeOK, DBTypeOK, PodRow
    <2>5. RowsStand'
      BY <2>1, <2>2, <2>4 DEF RowsInv, RowsStand
    <2>6. RowsAreTrue'
      BY <2>1, <2>2, <2>4 DEF RowsInv, RowsAreTrue, TrueTimes, Now
    <2>7. SourcesKnown'
      BY <2>1 DEF RowsInv, SourcesKnown, PVRecorded
    <2>8. ASSUME NEW m \in new
          PROVE  /\ m.pod_uid = p
                 /\ <<m.container_name, m.pvc_name>> \in MountsOf[p]
                 /\ m.pvc_uid # NULL =>
                     PVCRecorded(m.pvc_uid) /\ NameOf[m.pvc_uid] = m.pvc_name
      BY DEF insertPodMount, ClaimsFor, SameAge, Named
    <2>9. MountsStand'
      <3> SUFFICES ASSUME NEW m \in pod_mount'
                   PROVE  /\ pod'[m.pod_uid].create_time # NULL
                          /\ <<m.container_name, m.pvc_name>>
                                \in MountsOf[m.pod_uid]
                          /\ m.pvc_uid # NULL =>
                              /\ PVCRecorded(m.pvc_uid)
                              /\ NameOf[m.pvc_uid] = m.pvc_name
                              /\ pod'[m.pod_uid].delete_time # NULL =>
                                  pvc[m.pvc_uid].create_time
                                    <= pod'[m.pod_uid].delete_time
        BY <2>1 DEF MountsStand, PodRecorded, PVCRecorded
      <3>1. CASE m \in new
        BY <2>2, <2>4, <2>8, <3>1
      <3>2. CASE m \in pod_mount
        <4>1. m.pod_uid \in Pod \ {p}
          BY <1>1, <3>2 DEF RowsInv, MountsStand, TypeOK, DBTypeOK, MountRow
        <4>2. QED
          BY <2>4, <3>2, <4>1 DEF RowsInv, MountsStand, PodRecorded
      <3>3. QED
        BY <2>1, <3>1, <3>2
    <2>10. OneRowPerMount'
      <3> SUFFICES ASSUME NEW q \in Pod, NEW m \in MountsOf[q],
                          pod'[q].create_time # NULL,
                          pod'[q].delete_time = NULL, Distinct(m[2])
                   PROVE  \E row \in pod_mount' : Rows(q, m)' = {row}
        BY <2>1 DEF OneRowPerMount, PodRecorded, Distinct
      <3>1. CASE q # p
        <4>1. Rows(q, m)' = Rows(q, m)
          BY <2>1, <2>8, <3>1 DEF Rows
        <4>2. QED
          BY <2>1, <2>4, <3>1, <4>1 DEF RowsInv, OneRowPerMount, PodRecorded
      <3>2. CASE q = p
        <4>1. /\ m \in Container \X Name /\ m = <<m[1], m[2]>>
              /\ m[1] \in Container /\ m[2] \in Name
          BY <2>2, <3>2, SpecsTyped
        <4>2. PICK x \in Named(m[2]) \cup {NULL} :
                    ClaimsFor(m[2], e.created) = {x}
          BY ClaimsForOne DEF TypeOK, RowsInv
        <4> DEFINE row == [pod_uid |-> p, container_name |-> m[1],
                           pvc_name |-> m[2], pvc_uid |-> x]
        <4>3. row \in MountRow
          BY <2>2, <4>1 DEF MountRow, Named
        <4>4. row \in new
          BY <3>2, <4>1, <4>2, <4>3 DEF insertPodMount
        <4>5. ASSUME NEW z \in Rows(q, m)'
              PROVE  z = row
          <5>1. z \in pod_mount' /\ z.pod_uid = p /\ z.container_name = m[1]
                /\ z.pvc_name = m[2]
            BY <3>2, <4>5 DEF Rows
          <5>2. z \notin pod_mount
            BY <1>1, <5>1 DEF RowsInv, MountsStand
          <5>3. z \in MountRow /\ z.pvc_uid \in ClaimsFor(m[2], e.created)
            BY <2>1, <5>1, <5>2 DEF insertPodMount
          <5>4. z.pvc_uid = x
            BY <4>2, <5>3
          <5>5. QED
            BY <5>1, <5>3, <5>4 DEF MountRow
        <4>6. row \in Rows(q, m)'
          BY <2>1, <3>2, <4>4 DEF Rows
        <4>7. QED
          BY <2>1, <4>4, <4>5, <4>6
      <3>3. QED
        BY <3>1, <3>2
    <2>11. QED
      BY <2>5, <2>6, <2>7, <2>9, <2>10 DEF RowsInv
  <1>2. QED
    BY <1>0, <1>1 DEF InsertPod

\* A pod's deletion removes the mounts of claims that came too late.
LEMMA DeletePodRowRows ==
    ASSUME TypeOK, LogStands, LogTrue, RowsInv, NEW e, TrueEvent("pods", e),
           e.type = "DELETED", e.deletion # NULL, DeletePodRow(e),
           UNCHANGED clusterVars
    PROVE  RowsInv'
  <1> DEFINE p == e.uid
  <1>1. /\ p \in Pod /\ e \in log["pods"]
        /\ "pods" \in Resource /\ MembersOf("pods") = Pod
    BY DEF TrueEvent, Resource, MembersOf
  <1>2. /\ object[p].phase = "gone"
        /\ e.deletion \in Nat /\ Stamp(e.rv) <= e.deletion
        /\ e.deletion <= Now
    BY <1>1, DeleteTimeTrue
  <1>3. \A d \in log["pods"] : d.uid = p /\ d.type = "DELETED" => d = e
    <2> SUFFICES ASSUME NEW d \in log["pods"], d.uid = p, d.type = "DELETED"
                 PROVE  d = e
      OBVIOUS
    <2>1. d.rv \in Nat /\ e.rv \in Nat
      BY <1>1 DEF TypeOK, ClusterTypeOK, Event
    <2>2. d.rv = e.rv
      BY <1>1, <2>1 DEF LogTrue
    <2>3. QED
      BY <1>1, <2>2 DEF LogStands, InOrder
  <1>4. UNCHANGED <<pvc, pv, sources, index, object, log>>
    BY DEF DeletePodRow, clusterVars
  <1>5. SourcesKnown'
    BY <1>4 DEF RowsInv, SourcesKnown, PVRecorded
  <1>6. CASE ~PodRecorded(p)
    <2>1. pod' = pod /\ pod_mount' = pod_mount
      <3>1. \A m \in pod_mount : m.pod_uid # p
        BY <1>6 DEF RowsInv, MountsStand
      <3>2. BadMounts(e) = {}
        BY <3>1 DEF BadMounts
      <3>3. QED
        BY <1>6, <3>2 DEF DeletePodRow
    <2>2. RowsStand' /\ MountsStand' /\ RowsAreTrue'
      BY <1>4, <2>1 DEF RowsInv, RowsStand, MountsStand, RowsAreTrue,
                        TrueTimes, Now, PodRecorded, PVCRecorded
    <2>3. OneRowPerMount'
      BY <1>4, <2>1 DEF RowsInv, OneRowPerMount, PodRecorded, Rows, Distinct
    <2>4. QED
      BY <1>5, <2>2, <2>3 DEF RowsInv
  <1>7. CASE PodRecorded(p)
    <2>1. pod' = [pod EXCEPT ![p].delete_time = e.deletion]
      BY <1>7 DEF DeletePodRow
    <2>2. /\ pod'[p].create_time = pod[p].create_time
          /\ pod'[p].create_time # NULL
          /\ pod'[p].delete_time = e.deletion
          /\ \A q \in Pod \ {p} : pod'[q] = pod[q]
      BY <1>1, <1>7, <2>1 DEF TypeOK, DBTypeOK, PodRow, PodRecorded
    <2>3. /\ pod_mount' \subseteq pod_mount
          /\ \A m \in pod_mount : m.pod_uid # p => m \in pod_mount'
          /\ \A m \in pod_mount' : m.pod_uid = p => m \notin BadMounts(e)
      BY DEF DeletePodRow, BadMounts
    <2>4. RowsStand'
      BY <1>2, <1>3, <1>4, <2>2 DEF RowsInv, RowsStand
    <2>5. RowsAreTrue'
      BY <1>1, <1>2, <1>4, <2>2 DEF RowsInv, RowsAreTrue, TrueTimes, Now
    <2>6. MountsStand'
      <3> SUFFICES ASSUME NEW m \in pod_mount'
                   PROVE  /\ pod'[m.pod_uid].create_time # NULL
                          /\ <<m.container_name, m.pvc_name>>
                                \in MountsOf[m.pod_uid]
                          /\ m.pvc_uid # NULL =>
                              /\ PVCRecorded(m.pvc_uid)
                              /\ NameOf[m.pvc_uid] = m.pvc_name
                              /\ pod'[m.pod_uid].delete_time # NULL =>
                                  pvc[m.pvc_uid].create_time
                                    <= pod'[m.pod_uid].delete_time
        BY <1>4 DEF MountsStand, PodRecorded, PVCRecorded
      <3>1. /\ m \in pod_mount /\ m.pod_uid \in Pod
            /\ m.pvc_uid \in PVC \cup {NULL}
        BY <2>3 DEF TypeOK, DBTypeOK, MountRow
      <3>2. CASE m.pod_uid # p
        BY <2>2, <3>1, <3>2 DEF RowsInv, MountsStand, PodRecorded
      <3>3. CASE m.pod_uid = p
        <4>1. ASSUME m.pvc_uid # NULL
              PROVE  pvc[m.pvc_uid].create_time <= e.deletion
          <5>1. PVCRecorded(m.pvc_uid) /\ pvc[m.pvc_uid].create_time \in Nat
            BY <3>1, <4>1 DEF RowsInv, MountsStand, PVCRecorded, TypeOK,
                              DBTypeOK, PVCRow, Time
          <5>2. ~(pvc[m.pvc_uid].create_time > e.deletion)
            BY <2>3, <3>1, <3>3, <4>1, <5>1 DEF BadMounts, PVCRecorded
          <5>3. QED
            BY <1>2, <5>1, <5>2
        <4>2. QED
          BY <2>2, <3>1, <3>3, <4>1 DEF RowsInv, MountsStand
      <3>4. QED
        BY <3>2, <3>3
    <2>7. OneRowPerMount'
      <3> SUFFICES ASSUME NEW q \in Pod, NEW m \in MountsOf[q],
                          pod'[q].create_time # NULL,
                          pod'[q].delete_time = NULL, Distinct(m[2])
                   PROVE  \E row \in pod_mount' : Rows(q, m)' = {row}
        BY <1>4 DEF OneRowPerMount, PodRecorded, Distinct
      <3>1. q # p
        BY <1>2, <2>2, NullIsNoNumber
      <3>2. Rows(q, m)' = Rows(q, m)
        BY <2>3, <3>1 DEF Rows
      <3>3. PICK row \in pod_mount : Rows(q, m) = {row}
        BY <2>2, <3>1 DEF RowsInv, OneRowPerMount, PodRecorded
      <3>4. row.pod_uid = q
        BY <3>3 DEF Rows
      <3>5. QED
        BY <2>3, <3>1, <3>2, <3>3, <3>4
    <2>8. QED
      BY <1>5, <2>4, <2>5, <2>6, <2>7 DEF RowsInv
  <1>8. QED
    BY <1>6, <1>7

-----------------------------------------------------------------------------
(* The transactions on claims.                                             *)

\* A claim that is inserted is entered in the mounts of its name, of pods not
\* yet deleted.
LEMMA InsertPVCRows ==
    ASSUME TypeOK, RowsInv, NEW e, TrueEvent("persistentvolumeclaims", e),
           InsertPVC(e), UNCHANGED clusterVars
    PROVE  RowsInv'
  <1> DEFINE c == e.uid
             Due(m) == /\ m.pvc_name = NameOf[c] /\ PodRecorded(m.pod_uid)
                       /\ pod[m.pod_uid].delete_time = NULL
             New(m) == IF Due(m) THEN [m EXCEPT !.pvc_uid = c] ELSE m
  <1>1. /\ c \in PVC /\ object[c].phase # "absent"
        /\ e.created # NULL /\ e.created = object[c].created
    BY DEF TrueEvent, Resource, MembersOf
  <1>2. /\ UNCHANGED <<pod, pv, sources, index, object, log>>
        /\ pod_mount' = {New(m) : m \in pod_mount}
        /\ pvc' = [pvc EXCEPT ![c] = [@ EXCEPT !.create_time = e.created,
                                               !.spec = e.spec]]
    BY DEF InsertPVC, AddPVCPodMount, clusterVars
  <1>3. /\ pvc'[c].create_time = e.created
        /\ pvc'[c].delete_time = pvc[c].delete_time
        /\ pvc'[c].pv_uid = pvc[c].pv_uid
        /\ \A d \in PVC \ {c} : pvc'[d] = pvc[d]
    BY <1>1, <1>2 DEF TypeOK, DBTypeOK, PVCRow
  <1>4. \A d \in PVC : PVCRecorded(d) =>
            /\ pvc'[d].create_time # NULL
            /\ pvc'[d].create_time = pvc[d].create_time
    BY <1>1, <1>3 DEF RowsInv, RowsAreTrue, TrueTimes, PVCRecorded
  <1>5. ASSUME NEW m \in pod_mount
        PROVE  /\ m \in MountRow /\ New(m) \in MountRow
               /\ New(m).pod_uid = m.pod_uid
               /\ New(m).container_name = m.container_name
               /\ New(m).pvc_name = m.pvc_name
               /\ New(m).pvc_uid = IF Due(m) THEN c ELSE m.pvc_uid
    BY <1>1 DEF TypeOK, DBTypeOK, MountRow
  <1> HIDE DEF New
  <1>6. RowsStand' /\ SourcesKnown'
    BY <1>1, <1>2, <1>3 DEF RowsInv, RowsStand, SourcesKnown, PVRecorded
  <1>7. RowsAreTrue'
    BY <1>1, <1>2, <1>3 DEF RowsInv, RowsAreTrue, TrueTimes, Now
  <1>8. MountsStand'
    <2> SUFFICES ASSUME NEW x \in pod_mount'
                 PROVE  /\ PodRecorded(x.pod_uid)
                        /\ <<x.container_name, x.pvc_name>>
                              \in MountsOf[x.pod_uid]
                        /\ x.pvc_uid # NULL =>
                            /\ pvc'[x.pvc_uid].create_time # NULL
                            /\ NameOf[x.pvc_uid] = x.pvc_name
                            /\ pod[x.pod_uid].delete_time # NULL =>
                                pvc'[x.pvc_uid].create_time
                                  <= pod[x.pod_uid].delete_time
      BY <1>2 DEF MountsStand, PodRecorded, PVCRecorded
    <2>1. PICK m \in pod_mount : x = New(m)
      BY <1>2
    <2>2. /\ PodRecorded(x.pod_uid)
          /\ <<x.container_name, x.pvc_name>> \in MountsOf[x.pod_uid]
      BY <1>5, <2>1 DEF RowsInv, MountsStand
    <2>3. CASE Due(m)
      <3>1. x.pvc_uid = c /\ x.pvc_name = NameOf[c]
            /\ pod[x.pod_uid].delete_time = NULL
        BY <1>5, <2>1, <2>3
      <3>2. QED
        BY <1>1, <1>3, <2>2, <3>1
    <2>4. CASE ~Due(m)
      <3>1. x.pvc_uid = m.pvc_uid /\ x.pvc_uid \in PVC \cup {NULL}
        BY <1>5, <2>1, <2>4 DEF MountRow
      <3>2. QED
        BY <1>4, <1>5, <2>1, <2>2, <3>1 DEF RowsInv, MountsStand
    <2>5. QED
      BY <2>3, <2>4
  <1>9. OneRowPerMount'
    <2> SUFFICES ASSUME NEW q \in Pod, NEW m \in MountsOf[q], PodRecorded(q),
                        pod[q].delete_time = NULL, Distinct(m[2])
                 PROVE  \E row \in pod_mount' : Rows(q, m)' = {row}
      BY <1>2 DEF OneRowPerMount, PodRecorded, Distinct
    <2>1. PICK row \in pod_mount : Rows(q, m) = {row}
      BY DEF RowsInv, OneRowPerMount
    <2>2. New(row) \in Rows(q, m)'
      BY <1>2, <1>5, <2>1 DEF Rows
    <2>3. \A x \in Rows(q, m)' : x = New(row)
      BY <1>2, <1>5, <2>1 DEF Rows
    <2>4. QED
      BY <1>2, <2>1, <2>2, <2>3
  <1>10. QED
    BY <1>6, <1>7, <1>8, <1>9 DEF RowsInv

\* Other transactions on claims change no creation time.
LEMMA ClaimRowsKept ==
    ASSUME RowsInv, UNCHANGED <<clusterVars, pod, pv, pod_mount, sources>>,
           \A c \in PVC : /\ pvc'[c].create_time = pvc[c].create_time
                          /\ TrueTimes(pvc'[c], c),
           \A c \in PVC : pvc'[c].pv_uid # NULL =>
                \E e \in log[PVs] : e.uid = pvc'[c].pv_uid /\ e.claim = c,
           DBTypeOK
    PROVE  RowsInv'
  <1>1. UNCHANGED <<index, object, log>>
    BY DEF clusterVars
  <1>2. \A c \in PVC : PVCRecorded(c)' <=> PVCRecorded(c)
    BY DEF PVCRecorded
  <1>3. RowsStand' /\ SourcesKnown'
    BY <1>1 DEF RowsInv, RowsStand, SourcesKnown, PVRecorded
  <1>4. RowsAreTrue'
    BY <1>1 DEF RowsInv, RowsAreTrue, TrueTimes, Now
  <1>5. MountsStand'
    <2>1. \A m \in pod_mount : m.pvc_uid \in PVC \cup {NULL}
      BY DEF DBTypeOK, MountRow
    <2>2. QED
      BY <1>2, <2>1 DEF RowsInv, MountsStand, PodRecorded
  <1>6. OneRowPerMount'
    BY <1>1 DEF RowsInv, OneRowPerMount, PodRecorded, Rows, Distinct
  <1>7. QED
    BY <1>3, <1>4, <1>5, <1>6 DEF RowsInv

LEMMA UpdatePVCRows ==
    ASSUME TypeOK, RowsInv, NEW e, UpdatePVC(e), UNCHANGED clusterVars
    PROVE  RowsInv'
  <1>1. \A c \in PVC : /\ pvc'[c].create_time = pvc[c].create_time
                       /\ pvc'[c].delete_time = pvc[c].delete_time
                       /\ pvc'[c].pv_uid = pvc[c].pv_uid
    BY DEF UpdatePVC, TypeOK, DBTypeOK, PVCRow
  <1>2. \A c \in PVC : TrueTimes(pvc'[c], c)
    BY <1>1 DEF RowsInv, RowsAreTrue, TrueTimes
  <1>3. QED
    BY <1>1, <1>2, ClaimRowsKept DEF UpdatePVC, RowsInv, RowsAreTrue, TypeOK

LEMMA DeletePVCRowRows ==
    ASSUME TypeOK, LogStands, LogTrue, RowsInv, NEW e,
           TrueEvent("persistentvolumeclaims", e), e.type = "DELETED",
           DeletePVCRow(e, DeleteTime(e)), UNCHANGED clusterVars
    PROVE  RowsInv'
  <1> DEFINE r == "persistentvolumeclaims"
             t == DeleteTime(e)
  <1>1. e \in log[r] /\ r \in Resource /\ e.uid \in PVC
    BY DEF TrueEvent, Resource, MembersOf
  <1>2. t # NULL
    BY DeleteTimeType DEF TypeOK, TrueEvent
  <1>3. /\ object[e.uid].phase = "gone" /\ Stamp(e.rv) <= t /\ t <= Now
    BY <1>1, <1>2, DeleteTimeTrue
  <1>4. \A c \in PVC :
            /\ pvc'[c].create_time = pvc[c].create_time
            /\ pvc'[c].pv_uid = pvc[c].pv_uid
            /\ \/ pvc'[c].delete_time = pvc[c].delete_time
               \/ c = e.uid /\ pvc'[c].delete_time = t
    BY <1>1 DEF DeletePVCRow, TypeOK, DBTypeOK, PVCRow
  <1> HIDE DEF t
  <1>5. ASSUME NEW c \in PVC
        PROVE  TrueTimes(pvc'[c], c)
    BY <1>1, <1>3, <1>4 DEF RowsInv, RowsAreTrue, TrueTimes
  <1>6. QED
    BY <1>4, <1>5, ClaimRowsKept DEF DeletePVCRow, RowsInv, RowsAreTrue, TypeOK

\* A claim is bound to the volume that the event shows to hold it.
LEMMA BindPVCRows ==
    ASSUME TypeOK, RowsInv, NEW e, TrueEvent(PVs, e), e.claim # NULL, NEW t,
           BindPVC(e, t), UNCHANGED clusterVars
    PROVE  RowsInv'
  <1>1. PICK f \in log[PVs] : f.uid = e.uid /\ f.claim = e.claim
    BY DEF TrueEvent
  <1>2. e.claim \in PVC
    BY DEF TrueEvent, Event
  <1>3. \A c \in PVC :
            /\ pvc'[c].create_time = pvc[c].create_time
            /\ pvc'[c].delete_time = pvc[c].delete_time
            /\ pvc'[c].pv_uid = IF c = e.claim THEN e.uid ELSE pvc[c].pv_uid
    BY <1>2 DEF BindPVC, TypeOK, DBTypeOK, PVCRow
  <1>4. \A c \in PVC : TrueTimes(pvc'[c], c)
    BY <1>3 DEF RowsInv, RowsAreTrue, TrueTimes
  <1>5. \A c \in PVC : pvc'[c].pv_uid # NULL =>
            \E g \in log[PVs] : g.uid = pvc'[c].pv_uid /\ g.claim = c
    BY <1>1, <1>3 DEF RowsInv, RowsAreTrue
  <1>6. QED
    BY <1>3, <1>4, <1>5, ClaimRowsKept DEF BindPVC, TypeOK

-----------------------------------------------------------------------------
(* The transactions on volumes.                                            *)

\* They change rows of volumes and exports only.
LEMMA VolumeRowsKept ==
    ASSUME RowsInv, UNCHANGED <<clusterVars, pod, pvc, pod_mount>>,
           \A v \in PV :
                /\ TrueTimes(pv'[v], v)
                /\ pv'[v].create_time # NULL =>
                    /\ object[v].phase # "absent"
                    /\ pv'[v].source \in sources'
                /\ pv'[v].delete_time # NULL => pv'[v].create_time # NULL
    PROVE  RowsInv'
  <1>1. UNCHANGED <<index, object, log>>
    BY DEF clusterVars
  <1>2. RowsStand' /\ SourcesKnown' /\ MountsStand'
    BY <1>1 DEF RowsInv, RowsStand, SourcesKnown, MountsStand, PVRecorded,
                PodRecorded, PVCRecorded
  <1>3. RowsAreTrue'
    BY <1>1 DEF RowsInv, RowsAreTrue, TrueTimes, Now
  <1>4. OneRowPerMount'
    BY <1>1 DEF RowsInv, OneRowPerMount, PodRecorded, Rows, Distinct
  <1>5. QED
    BY <1>2, <1>3, <1>4 DEF RowsInv

LEMMA InsertSourceRows ==
    ASSUME RowsInv, NEW e, InsertSource(e), UNCHANGED clusterVars
    PROVE  RowsInv'
  <1>1. pv' = pv /\ sources \subseteq sources'
    BY DEF InsertSource
  <1>2. QED
    BY <1>1, VolumeRowsKept
       DEF InsertSource, RowsInv, RowsStand, RowsAreTrue, SourcesKnown, PVRecorded

LEMMA InsertPVRows ==
    ASSUME TypeOK, RowsInv, NEW e, TrueEvent(PVs, e),
           e.source \in sources, InsertPV(e), UNCHANGED clusterVars
    PROVE  RowsInv'
  <1>1. CASE UNCHANGED dbVars
    BY <1>1, RowsUnchanged
  <1>2. CASE ~PVRecorded(e.uid)
    <2> DEFINE row == [pv[e.uid] EXCEPT !.create_time = e.created,
                                        !.source = e.source,
                                        !.spec = e.spec]
    <2>1. /\ e.uid \in PV /\ pv[e.uid] \in PVRow
          /\ pv' = [pv EXCEPT ![e.uid] = row]
          /\ UNCHANGED <<pod, pvc, pod_mount, sources>>
      BY <1>2 DEF TrueEvent, PVs, Resource, MembersOf, InsertPV, TypeOK, DBTypeOK
    <2>0. /\ row.create_time = e.created /\ row.source = e.source
          /\ row.delete_time = pv[e.uid].delete_time
      BY <2>1 DEF PVRow
    <2> HIDE DEF row
    <2>2. /\ pv'[e.uid].create_time = e.created
          /\ pv'[e.uid].source = e.source
          /\ pv'[e.uid].delete_time = pv[e.uid].delete_time
          /\ \A v \in PV \ {e.uid} : pv'[v] = pv[v]
          /\ UNCHANGED <<pod, pvc, pod_mount, sources>>
      BY <2>0, <2>1 DEF TypeOK, DBTypeOK
    <2>3. ASSUME NEW v \in PV
          PROVE  /\ TrueTimes(pv'[v], v)
                 /\ pv'[v].create_time # NULL =>
                    /\ object[v].phase # "absent"
                    /\ pv'[v].source \in sources'
                 /\ pv'[v].delete_time # NULL => pv'[v].create_time # NULL
      BY <2>2 DEF TrueEvent, RowsInv, RowsStand, RowsAreTrue, TrueTimes,
                  SourcesKnown, PVRecorded
    <2>4. QED
      BY <2>2, <2>3, VolumeRowsKept
  <1>3. QED
    BY <1>1, <1>2 DEF InsertPV

LEMMA UpdatePVRows ==
    ASSUME TypeOK, RowsInv, NEW e, TrueEvent(PVs, e),
           e.source \in sources, UpdatePV(e), UNCHANGED clusterVars
    PROVE  RowsInv'
  <1>1. \A v \in PV :
            /\ pv'[v].create_time = pv[v].create_time
            /\ pv'[v].delete_time = pv[v].delete_time
            /\ \/ pv'[v].source = pv[v].source
               \/ pv'[v].source = e.source
    BY DEF UpdatePV, TypeOK, DBTypeOK, PVRow
  <1>2. ASSUME NEW v \in PV
        PROVE  /\ TrueTimes(pv'[v], v)
               /\ pv'[v].create_time # NULL =>
                  /\ object[v].phase # "absent"
                  /\ pv'[v].source \in sources
               /\ pv'[v].delete_time # NULL => pv'[v].create_time # NULL
    BY <1>1 DEF RowsInv, RowsStand, RowsAreTrue, TrueTimes, SourcesKnown,
                PVRecorded
  <1>3. QED
    BY <1>2, VolumeRowsKept DEF UpdatePV

LEMMA DeletePVRowRows ==
    ASSUME TypeOK, LogStands, LogTrue, RowsInv, NEW e, TrueEvent(PVs, e),
           e.type = "DELETED", DeletePVRow(e, DeleteTime(e)),
           UNCHANGED clusterVars
    PROVE  RowsInv'
  <1> DEFINE t == DeleteTime(e)
  <1>1. e \in log[PVs] /\ PVs \in Resource /\ e.uid \in PV
    BY DEF TrueEvent, PVs, Resource, MembersOf
  <1>2. t # NULL
    BY DeleteTimeType DEF TypeOK, TrueEvent
  <1>3. /\ object[e.uid].phase = "gone" /\ Stamp(e.rv) <= t /\ t <= Now
    BY <1>1, <1>2, DeleteTimeTrue
  <1>4. \A v \in PV :
            /\ pv'[v].create_time = pv[v].create_time
            /\ pv'[v].source = pv[v].source
            /\ \/ pv'[v].delete_time = pv[v].delete_time
               \/ v = e.uid /\ pv'[v].delete_time = t /\ PVRecorded(v)
    BY <1>1 DEF DeletePVRow, TypeOK, DBTypeOK, PVRow
  <1> HIDE DEF t
  <1>5. ASSUME NEW v \in PV
        PROVE  /\ TrueTimes(pv'[v], v)
               /\ pv'[v].create_time # NULL =>
                  /\ object[v].phase # "absent"
                  /\ pv'[v].source \in sources
               /\ pv'[v].delete_time # NULL => pv'[v].create_time # NULL
    BY <1>1, <1>3, <1>4 DEF RowsInv, RowsStand, RowsAreTrue, TrueTimes,
                            SourcesKnown, PVRecorded
  <1>6. QED
    BY <1>5, VolumeRowsKept DEF DeletePVRow

-----------------------------------------------------------------------------
(* The steps of the tracker.                                               *)

\* Steps that leave the cluster alone and list nothing new.
LEMMA TrackerStepStands ==
    ASSUME RInv, RowsInv', UNCHANGED clusterVars, SourceStands',
           \A q \in Resource : listing'[q] \subseteq listing[q]
    PROVE  RInv'
  <1>1. UNCHANGED <<index, object, log>>
    BY DEF clusterVars
  <1>2. LogTrue'
    BY <1>1 DEF RInv, LogTrue, Now
  <1>3. ListTrue'
    BY <1>1 DEF RInv, ListTrue
  <1>4. QED
    BY <1>2, <1>3 DEF RInv, RowsInv

\* In most of them no volume comes to be stored.
LEMMA QuietStepStands ==
    ASSUME RInv, RowsInv', UNCHANGED clusterVars,
           sources' = sources,
           pc'[PVs] = "store" => pc[PVs] = "store" /\ event' = event,
           \A q \in Resource : listing'[q] \subseteq listing[q]
    PROVE  RInv'
  <1>1. SourceStands'
    BY DEF RInv, SourceStands
  <1>2. QED
    BY <1>1, TrackerStepStands

\* And in many the tables do not change either.
LEMMA IdleStepStands ==
    ASSUME RInv, UNCHANGED <<clusterVars, dbVars>>,
           pc'[PVs] = "store" => pc[PVs] = "store" /\ event' = event,
           \A q \in Resource : listing'[q] \subseteq listing[q]
    PROVE  RInv'
  <1>1. RowsInv' /\ sources' = sources
    BY RowsUnchanged DEF RInv, RowsInv, dbVars
  <1>2. QED
    BY <1>1, QuietStepStands

LEMMA ClusterStepRInv ==
    ASSUME IInv, RInv, ClusterStep
    PROVE  RInv'
  <1>1. TypeOK /\ LogStands /\ LogTrue /\ RowsInv /\ ClusterTypeOK /\ ClusterNext
    BY DEF IInv, RInv, RowsInv, TypeOK, ClusterStep
  <1>2. LogTrue' /\ RowsInv'
    BY <1>1, ClusterKeepsTrue, ClusterKeepsRows
  <1>3. UNCHANGED <<listing, pc, event, sources>>
    BY DEF ClusterStep, dbVars, trackerVars
  <1>4. ListTrue'
    <2>1. \A r \in Resource : \A l \in listing[r] : l.uid \in Object
      BY <1>1 DEF TypeOK, Event
    <2>2. QED
      BY <1>1, <1>3, <2>1, ClusterKeepsObjects DEF RInv, ListTrue
  <1>5. SourceStands'
    BY <1>3 DEF RInv, SourceStands
  <1>6. QED
    BY <1>2, <1>4, <1>5 DEF RInv, RowsInv

LEMMA ConnectRInv ==
    ASSUME IInv, RInv, NEW r \in Resource, Connect(r)
    PROVE  RInv'
  <1>1. TypeOK /\ ClusterTypeOK
    BY DEF IInv, TypeOK
  <1>2. pc'[PVs] = "store" => pc[PVs] = "store" /\ event' = event
    BY <1>1 DEF Connect, ConnectList, ConnectFrom, ConnectExpired, TypeOK, PVs, Resource
  <1>3. UNCHANGED <<clusterVars, dbVars>>
    BY DEF Connect, ConnectList, ConnectFrom, ConnectExpired
  <1>4. CASE ConnectList(r)
    <2>1. /\ listing'[r] = Listing(r)
          /\ \A q \in Resource \ {r} : listing'[q] = listing[q]
      BY <1>1, <1>4 DEF ConnectList, TypeOK
    <2>2. UNCHANGED <<index, object, log, sources>>
      BY <1>3 DEF clusterVars, dbVars
    <2>3. ASSUME NEW l \in Listing(r)
          PROVE  /\ object[l.uid].phase # "absent"
                 /\ l.created = object[l.uid].created
      <3>1. PICK u \in MembersOf(r) : Alive(u) /\ l = EventOf("ADDED", u, object[u])
        BY DEF Listing
      <3>2. /\ u \in Object /\ object[u] \in Snapshot /\ "ADDED" \in EventType
            /\ u \in PV => object[u].source \in SourcesOf(u)
        BY <1>1 DEF ClusterTypeOK, Resource, MembersOf, Object, EventType
      <3>3. l.uid = u /\ l.created = object[u].created
        BY <3>1, <3>2, EventOfType
      <3>4. QED
        BY <3>1, <3>3 DEF Alive
    <2>4. ListTrue'
      BY <2>1, <2>2, <2>3 DEF RInv, ListTrue
    <2>5. LogTrue' /\ SourceStands'
      BY <1>2, <2>2 DEF RInv, LogTrue, SourceStands, Now
    <2>6. QED
      BY <1>3, <2>4, <2>5, RowsUnchanged DEF RInv, RowsInv
  <1>5. CASE ConnectFrom(r) \/ ConnectExpired(r)
    <2>1. listing' = listing
      BY <1>5 DEF ConnectFrom, ConnectExpired
    <2>2. QED
      BY <1>2, <1>3, <2>1, IdleStepStands
  <1>6. QED
    BY <1>4, <1>5 DEF Connect

\* Dealing with an event adds nothing to a list.
LEMMA ConsumeShrinks ==
    ASSUME TypeOK, NEW r \in Resource, NEW e, Consume(r, e)
    PROVE  \A q \in Resource : listing'[q] \subseteq listing[q]
  BY DEF Consume, TypeOK

LEMMA SkipDuplicateRInv ==
    ASSUME IInv, RInv, NEW r \in Resource, SkipDuplicate(r)
    PROVE  RInv'
  <1>1. \A q \in Resource : listing'[q] \subseteq listing[q]
    BY ConsumeShrinks DEF SkipDuplicate, IInv
  <1>2. QED
    BY <1>1, IdleStepStands DEF SkipDuplicate

LEMMA handlePodsRInv ==
    ASSUME IInv, RInv, handlePods
    PROVE  RInv'
  <1>1. TypeOK /\ LogStands /\ LogTrue /\ RowsInv /\ "pods" \in Resource
    BY DEF IInv, RInv, RowsInv, Resource
  <1>2. PICK e : /\ Receives("pods", e) /\ Handled("pods", e)
                 /\ \/ e.type = "ADDED" /\ InsertPod(e)
                    \/ e.type = "MODIFIED" /\ UNCHANGED dbVars
                    \/ /\ e.type = "DELETED" /\ e.deletion # NULL
                       /\ DeletePodRow(e)
    BY DEF handlePods
  <1>3. TrueEvent("pods", e)
    BY <1>1, <1>2, OfferedTrue DEF Receives, RInv
  <1>4. UNCHANGED <<clusterVars, pc, event>> /\ Consume("pods", e)
    BY <1>2 DEF Handled
  <1>5. RowsInv' /\ sources' = sources
    <2>1. CASE InsertPod(e)
      BY <1>1, <1>3, <1>4, <2>1, InsertPodRows DEF InsertPod, dbVars
    <2>2. CASE UNCHANGED dbVars
      BY <1>1, <1>4, <2>2, RowsUnchanged DEF dbVars
    <2>3. CASE e.type = "DELETED" /\ e.deletion # NULL /\ DeletePodRow(e)
      BY <1>1, <1>3, <1>4, <2>3, DeletePodRowRows DEF DeletePodRow
    <2>4. QED
      BY <1>2, <2>1, <2>2, <2>3
  <1>6. QED
    BY <1>1, <1>4, <1>5, ConsumeShrinks, QuietStepStands

LEMMA handlePVCsRInv ==
    ASSUME IInv, RInv, handlePVCs
    PROVE  RInv'
  <1> DEFINE r == "persistentvolumeclaims"
  <1>1. TypeOK /\ LogStands /\ LogTrue /\ RowsInv /\ r \in Resource
    BY DEF IInv, RInv, RowsInv, Resource
  <1>2. PICK e : /\ Receives(r, e) /\ Handled(r, e)
                 /\ \/ e.type = "ADDED" /\ InsertPVC(e)
                    \/ UpdatePVC(e) \/ UNCHANGED dbVars
                    \/ /\ e.type = "DELETED"
                       /\ DeletePVCRow(e, DeleteTime(e))
    BY DEF handlePVCs
  <1>3. TrueEvent(r, e)
    BY <1>1, <1>2, OfferedTrue DEF Receives, RInv
  <1>4. UNCHANGED <<clusterVars, pc, event>> /\ Consume(r, e)
    BY <1>2 DEF Handled
  <1>5. RowsInv' /\ sources' = sources
    <2>1. CASE InsertPVC(e)
      BY <1>1, <1>3, <1>4, <2>1, InsertPVCRows DEF InsertPVC
    <2>2. CASE UNCHANGED dbVars
      BY <1>1, <1>4, <2>2, RowsUnchanged DEF dbVars
    <2>3. CASE UpdatePVC(e)
      BY <1>1, <1>4, <2>3, UpdatePVCRows DEF UpdatePVC
    <2>4. CASE e.type = "DELETED" /\ DeletePVCRow(e, DeleteTime(e))
      BY <1>1, <1>3, <1>4, <2>4, DeletePVCRowRows DEF DeletePVCRow
    <2>5. QED
      BY <1>2, <2>1, <2>2, <2>3, <2>4
  <1>6. QED
    BY <1>1, <1>4, <1>5, ConsumeShrinks, QuietStepStands

\* The event in hand is true.
LEMMA EventTrue ==
    ASSUME IInv, RInv, pc[PVs] \in PVHandlerStep
    PROVE  TrueEvent(PVs, event)
  <1>1. PVs \in Resource /\ event \in Offered(PVs)
    BY DEF IInv, EventStands, PVs, Resource
  <1>2. QED
    BY <1>1, OfferedTrue DEF RInv

LEMMA handlePVsRInv ==
    ASSUME IInv, RInv, handlePVs
    PROVE  RInv'
  <1>1. TypeOK /\ LogStands /\ LogTrue /\ RowsInv /\ PVs \in Resource
    BY DEF IInv, RInv, RowsInv, PVs, Resource
  <1>2. PICK e : /\ Receives(PVs, e)
                 /\ \/ startPV(e)
                    \/ PVDone(e) /\ UNCHANGED dbVars
                    \/ /\ e.type = "DELETED"
                       /\ PVDone(e) /\ DeletePVRow(e, DeleteTime(e))
                 /\ UNCHANGED clusterVars
    BY DEF handlePVs
  <1>3. TrueEvent(PVs, e)
    BY <1>1, <1>2, OfferedTrue DEF Receives, RInv
  <1>4. CASE startPV(e)
    <2>1. /\ UNCHANGED <<dbVars, listing>> /\ event' = e
          /\ pc'[PVs] = "store" => e.source = NULL
      BY <1>1, <1>4 DEF startPV, PVGoesTo, TypeOK
    <2>2. SourceStands'
      BY <2>1 DEF SourceStands
    <2>3. QED
      BY <1>1, <1>2, <2>1, <2>2, RowsUnchanged, TrackerStepStands
  <1>5. CASE PVDone(e)
    <2>1. RowsInv' /\ sources' = sources
      <3>1. CASE UNCHANGED dbVars
        BY <1>1, <1>2, <3>1, RowsUnchanged DEF dbVars
      <3>2. CASE e.type = "DELETED" /\ DeletePVRow(e, DeleteTime(e))
        BY <1>1, <1>2, <1>3, <3>2, DeletePVRowRows DEF DeletePVRow
      <3>3. CASE startPV(e)
        BY <1>1, <1>2, <3>3, RowsUnchanged DEF startPV, dbVars
      <3>4. QED
        BY <1>2, <3>1, <3>2, <3>3
    <2>2. pc'[PVs] = "watch" /\ Consume(PVs, e)
      BY <1>1, <1>5 DEF PVDone, PVGoesTo, TypeOK
    <2>3. QED
      BY <1>1, <1>2, <2>1, <2>2, ConsumeShrinks, QuietStepStands
  <1>6. QED
    BY <1>2, <1>4, <1>5

LEMMA recordSourceRInv ==
    ASSUME IInv, RInv, recordSource
    PROVE  RInv'
  <1>1. /\ InsertSource(event) /\ event' = event
        /\ UNCHANGED <<clusterVars, listing>>
    BY DEF recordSource
  <1>2. RowsInv'
    BY <1>1, InsertSourceRows DEF RInv, RowsInv
  <1>3. SourceStands'
    BY <1>1 DEF InsertSource, SourceStands
  <1>4. QED
    BY <1>1, <1>2, <1>3, TrackerStepStands

LEMMA storePVRInv ==
    ASSUME IInv, RInv, storePV
    PROVE  RInv'
  <1>1. TypeOK /\ RowsInv /\ PVs \in Resource
    BY DEF IInv, RInv, RowsInv, PVs, Resource
  <1>2. /\ pc[PVs] = "store" /\ event.source # NULL
        /\ InsertPV(event) \/ UpdatePV(event)
        /\ \/ PVGoesTo("bind") /\ listing' = listing
           \/ PVDone(event)
        /\ UNCHANGED clusterVars
    BY DEF storePV
  <1>3. TrueEvent(PVs, event) /\ event.source \in sources
    BY <1>2, EventTrue DEF PVHandlerStep, RInv, SourceStands
  <1>4. RowsInv' /\ sources' = sources
    BY <1>1, <1>2, <1>3, InsertPVRows, UpdatePVRows DEF InsertPV, UpdatePV, dbVars
  <1>5. /\ pc'[PVs] # "store"
        /\ \A q \in Resource : listing'[q] \subseteq listing[q]
    BY <1>1, <1>2, ConsumeShrinks DEF PVDone, PVGoesTo, TypeOK
  <1>6. QED
    BY <1>2, <1>4, <1>5, QuietStepStands

LEMMA bindPVRInv ==
    ASSUME IInv, RInv, bindPV
    PROVE  RInv'
  <1>1. TypeOK /\ RowsInv /\ PVs \in Resource
    BY DEF IInv, RInv, RowsInv, PVs, Resource
  <1>2. /\ pc[PVs] = "bind" /\ BindPVC(event, Now) /\ PVDone(event)
        /\ UNCHANGED clusterVars
    BY DEF bindPV
  <1>3. TrueEvent(PVs, event) /\ event.claim # NULL
    BY <1>2, EventTrue DEF PVHandlerStep, IInv, EventStands
  <1>4. RowsInv' /\ sources' = sources
    BY <1>1, <1>2, <1>3, BindPVCRows DEF BindPVC
  <1>5. /\ pc'[PVs] # "store"
        /\ \A q \in Resource : listing'[q] \subseteq listing[q]
    BY <1>1, <1>2, ConsumeShrinks DEF PVDone, PVGoesTo, TypeOK
  <1>6. QED
    BY <1>2, <1>4, <1>5, QuietStepStands

\* Faults and the restart touch neither the cluster nor the tables.
LEMMA FaultRInv ==
    ASSUME IInv, RInv,
           \/ \E r \in Resource : Drop(r)
           \/ Crash \/ FatalBackend \/ PanicNoTimestamp \/ Restart
    PROVE  RInv'
  <1>1. TypeOK /\ PVs \in Resource
    BY DEF IInv, PVs, Resource
  <1>2. ASSUME NEW r \in Resource, Drop(r)
        PROVE  RInv'
    <2>1. \A q \in Resource : listing'[q] \subseteq listing[q]
      BY <1>1, <1>2 DEF Drop, TypeOK
    <2>2. pc'[PVs] = "store" => pc[PVs] = "store" /\ event' = event
      BY <1>1, <1>2 DEF Drop, TypeOK
    <2>3. QED
      BY <1>2, <2>1, <2>2, IdleStepStands DEF Drop
  <1>3. CASE Exit
    <2>1. /\ \A q \in Resource : listing'[q] = {}
          /\ pc'[PVs] = "down"
      BY <1>1, <1>3 DEF Exit
    <2>2. QED
      BY <1>3, <2>1, IdleStepStands DEF Exit
  <1>4. CASE Restart
    <2>1. listing' = listing /\ pc'[PVs] \in {"connect", "down"}
      BY <1>1, <1>4 DEF Restart, Started
    <2>2. QED
      BY <1>4, <2>1, IdleStepStands DEF Restart
  <1>5. QED
    BY <1>2, <1>3, <1>4 DEF Crash, FatalBackend, PanicNoTimestamp

LEMMA InitRInv == Init => RInv
  <1> SUFFICES ASSUME Init PROVE RInv
    OBVIOUS
  <1> USE DEF Init, ClusterInit, TrackerInit, DBInit
  <1>1. LogTrue /\ ListTrue
    BY DEF LogTrue, ListTrue, NoObject
  <1>2. RowsStand /\ RowsAreTrue /\ SourcesKnown /\ MountsStand
    BY DEF RowsStand, RowsAreTrue, TrueTimes, SourcesKnown, MountsStand, PVRecorded
  <1>3. OneRowPerMount
    BY DEF OneRowPerMount, PodRecorded
  <1>4. SourceStands
    BY DEF SourceStands, Started, PVs, Resource
  <1>5. QED
    BY <1>1, <1>2, <1>3, <1>4 DEF RInv

LEMMA NextRInv ==
    ASSUME IInv, RInv, [Next]_vars
    PROVE  RInv'
  <1>1. CASE UNCHANGED vars
    BY <1>1, IdleStepStands DEF vars, trackerVars
  <1>2. CASE ClusterStep
    BY <1>2, ClusterStepRInv
  <1>3. ASSUME NEW r \in Resource, Connect(r) \/ SkipDuplicate(r)
        PROVE  RInv'
    BY <1>3, ConnectRInv, SkipDuplicateRInv
  <1>4. CASE handlePods \/ handlePVCs
    BY <1>4, handlePodsRInv, handlePVCsRInv
  <1>5. CASE PVHandler
    BY <1>5, handlePVsRInv, recordSourceRInv, storePVRInv, bindPVRInv
       DEF PVHandler
  <1>6. CASE \/ \E r \in Resource : Drop(r)
             \/ Crash \/ FatalBackend \/ PanicNoTimestamp \/ Restart
    BY <1>6, FaultRInv
  <1>7. QED
    BY <1>1, <1>2, <1>3, <1>4, <1>5, <1>6 DEF Next

\* The invariant of module LedgerInvariant holds in every state of the tracker.
THEOREM RowsInvariant == Spec => []RInv
  <1>1. Init => RInv
    BY InitRInv
  <1>2. IInv /\ RInv /\ [Next]_vars => RInv'
    BY NextRInv
  <1>3. QED
    BY <1>1, <1>2, InvariantHolds, PTL DEF Spec

\* Whatever watches, crashes and replays do, what is recorded is the truth:
\* creation times are the objects', no live object is recorded deleted, no
\* deletion is recorded early or in the future, and a claim is bound only to a
\* volume that an event showed to hold it.
THEOREM RecordsTrue == Spec => []RowsAreTrue
  <1>1. RInv => RowsAreTrue
    BY DEF RInv
  <1>2. QED
    BY <1>1, RowsInvariant, PTL

\* A volume's row never refers to an export that is not in its table, though
\* the two are written by different transactions between which the process
\* may die.
THEOREM SourcesBeforeVolumes == Spec => []SourcesKnown
  <1>1. RInv => SourcesKnown
    BY DEF RInv
  <1>2. QED
    BY <1>1, RowsInvariant, PTL

\* A recorded pod that is not deleted has exactly one row for each mount,
\* whatever claims of the name come and go and however the handlers of pods
\* and claims interleave, as long as no two of the claims are of one age.
THEOREM MountsOnce == Spec => []OneRowPerMount
  <1>1. RInv => OneRowPerMount
    BY DEF RInv
  <1>2. QED
    BY <1>1, RowsInvariant, PTL

-----------------------------------------------------------------------------
(* The tracker implements the ledger.                                      *)

\* What the ledger sees of a row.
Mark(row) == IF row.delete_time # NULL THEN "closed"
             ELSE IF row.create_time # NULL THEN "open" ELSE "unknown"

LEMMA EntryIsMark ==
    /\ \A p \in Pod : Entry(p) = Mark(pod[p]) /\ Entry(p)' = Mark(pod'[p])
    /\ \A c \in PVC : Entry(c) = Mark(pvc[c]) /\ Entry(c)' = Mark(pvc'[c])
    /\ \A v \in PV : Entry(v) = Mark(pv[v]) /\ Entry(v)' = Mark(pv'[v])
  BY KindsDisjoint DEF Entry, Mark

\* A transaction revises the mounts of pods not yet deleted, at most.
Final ==
    \A p \in Pod : pod[p].delete_time # NULL =>
        ClaimsRecorded(p)' = ClaimsRecorded(p)

LEMMA FinalIsRevise ==
    ASSUME TypeOK', MountsStand', Final
    PROVE  Ledger!Revise
  <1>1. \A p \in Pod : p \in Object
    BY DEF Object
  <1>2. \A p \in Pod : ClaimsRecorded(p)' \subseteq PVC
    BY DEF TypeOK, DBTypeOK, MountRow, ClaimsRecorded
  <1>3. ASSUME NEW p \in Pod, Entry(p) = "closed"
        PROVE  ClaimsRecorded(p)' = ClaimsRecorded(p)
    BY <1>3, EntryIsMark DEF Mark, Final
  <1>4. ASSUME NEW p \in Pod, Entry(p)' = "unknown"
        PROVE  ClaimsRecorded(p)' = {}
    <2>1. pod'[p].create_time = NULL
      BY <1>4, EntryIsMark DEF Mark
    <2>2. \A m \in pod_mount' : m.pod_uid # p
      BY <2>1 DEF MountsStand, PodRecorded
    <2>3. QED
      BY <2>2 DEF ClaimsRecorded
  <1>5. QED
    BY <1>1, <1>2, <1>3, <1>4 DEF Ledger!Revise

\* The kinds of steps the ledger takes, in the terms of the tables.
LEMMA LedgerCorrects ==
    ASSUME TypeOK', MountsStand', Final, object' = object,
           \A u \in Object : Entry(u)' = Entry(u)
    PROVE  Ledger!Next
  <1>1. \A u \in Object : World(u)' = World(u)
    BY DEF World
  <1>2. Ledger!Correct
    BY <1>1, FinalIsRevise DEF Ledger!Correct
  <1>3. QED
    BY <1>2 DEF Ledger!Next

LEMMA LedgerOpens ==
    ASSUME TypeOK', MountsStand', Final, object' = object,
           NEW x \in Object, object[x].phase # "absent",
           Entry(x) = "unknown", Entry(x)' = "open",
           \A u \in Object \ {x} : Entry(u)' = Entry(u)
    PROVE  Ledger!Next
  <1>1. \A u \in Object : World(u)' = World(u)
    BY DEF World
  <1>2. World(x) # "absent"
    BY DEF World
  <1>3. Ledger!Open(x)
    BY <1>1, <1>2, FinalIsRevise DEF Ledger!Open
  <1>4. QED
    BY <1>3 DEF Ledger!Next

LEMMA LedgerCloses ==
    ASSUME TypeOK', MountsStand', Final, object' = object,
           NEW x \in Object, object[x].phase = "gone", Entry(x)' = "closed",
           \A u \in Object \ {x} : Entry(u)' = Entry(u)
    PROVE  Ledger!Next
  <1>1. \A u \in Object : World(u)' = World(u)
    BY DEF World
  <1>2. World(x) = "gone"
    BY DEF World
  <1>3. Ledger!Close(x)
    BY <1>1, <1>2, FinalIsRevise DEF Ledger!Close
  <1>4. QED
    BY <1>3 DEF Ledger!Next

LEMMA LedgerRests ==
    ASSUME UNCHANGED <<object, dbVars>>
    PROVE  UNCHANGED Ledger!vars
  <1>1. UNCHANGED <<object, pod, pvc, pv, pod_mount>>
    BY DEF dbVars
  <1>2. /\ \A u \in Object : World(u)' = World(u) /\ Entry(u)' = Entry(u)
        /\ \A p \in Pod : ClaimsRecorded(p)' = ClaimsRecorded(p)
    BY <1>1 DEF World, Entry, ClaimsRecorded
  <1>3. QED
    BY <1>2 DEF Ledger!vars

LEMMA LedgerStarts == Init => Ledger!Init
  <1> SUFFICES ASSUME Init PROVE Ledger!Init
    OBVIOUS
  <1>1. \A u \in Object : World(u) = "absent"
    BY DEF Init, ClusterInit, NoObject, World
  <1>2. \A u \in Object : Entry(u) = "unknown"
    BY EntryIsMark DEF Init, TrackerInit, DBInit, Mark, Object
  <1>3. \A p \in Pod : ClaimsRecorded(p) = {}
    BY DEF Init, TrackerInit, DBInit, ClaimsRecorded
  <1>4. QED
    BY <1>1, <1>2, <1>3 DEF Ledger!Init

\* The world changes by one object at a time, and only forwards.
LEMMA WorldMoves ==
    ASSUME TypeOK, ClusterStep
    PROVE  Ledger!Next \/ UNCHANGED Ledger!vars
  <1>1. UNCHANGED <<dbVars, pod, pvc, pv, pod_mount>> /\ ClusterTypeOK
        /\ ClusterNext
    BY DEF ClusterStep, dbVars, TypeOK
  <1>2. /\ \A u \in Object : Entry(u)' = Entry(u)
        /\ \A p \in Pod : ClaimsRecorded(p)' = ClaimsRecorded(p)
    BY <1>1 DEF Entry, ClaimsRecorded
  <1>3. CASE Compact
    BY <1>1, <1>3, LedgerRests DEF Compact
  <1>4. CASE LawfulStep
    <2>1. PICK r \in Resource, u \in Object, e \in Event :
            /\ Lawful(e.type, u, e)
            /\ object'[u].phase = e.phase
            /\ \A w \in Object \ {u} : object'[w] = object[w]
      BY <1>1, <1>4, LawfulEffect
    <2>2. \A w \in Object \ {u} : World(w)' = World(w)
      BY <2>1 DEF World
    <2>3. CASE e.type = "ADDED"
      <3>1. World(u) = "absent" /\ World(u)' = "live"
        BY <2>1, <2>3 DEF Lawful, World
      <3>2. Ledger!Begin(u)
        BY <1>2, <2>2, <3>1 DEF Ledger!Begin
      <3>3. QED
        BY <3>2 DEF Ledger!Next
    <2>4. CASE e.type = "MODIFIED"
      <3>1. World(u)' = World(u)
        BY <2>1, <2>4 DEF Lawful, World, Alive
      <3>2. QED
        BY <1>2, <2>2, <3>1 DEF Ledger!vars
    <2>5. CASE e.type = "DELETED"
      <3>1. World(u) = "live" /\ World(u)' = "gone"
        BY <2>1, <2>5 DEF Lawful, World, Alive
      <3>2. Ledger!End(u)
        BY <1>2, <2>2, <3>1 DEF Ledger!End
      <3>3. QED
        BY <3>2 DEF Ledger!Next
    <2>6. QED
      BY <2>3, <2>4, <2>5 DEF Event, EventType
  <1>5. QED
    BY <1>1, <1>3, <1>4, ClusterNextIsLawful

\* The pod's entry is opened when the pod is recorded and closed when its
\* deletion is; a replayed deletion finds no mount to remove.
LEMMA PodsLedger ==
    ASSUME IInv, RInv, TypeOK', MountsStand', handlePods
    PROVE  Ledger!Next \/ UNCHANGED Ledger!vars
  <1>1. TypeOK /\ "pods" \in Resource
    BY DEF IInv, Resource
  <1>2. PICK e : /\ Receives("pods", e) /\ Handled("pods", e)
                 /\ \/ InsertPod(e) \/ UNCHANGED dbVars
                    \/ e.type = "DELETED" /\ e.deletion # NULL /\ DeletePodRow(e)
    BY DEF handlePods
  <1>3. TrueEvent("pods", e)
    BY <1>1, <1>2, OfferedTrue DEF Receives, RInv
  <1>4. /\ e.uid \in Pod /\ e.uid \in Object
        /\ object' = object /\ log' = log
    BY <1>2, <1>3 DEF TrueEvent, Resource, MembersOf, Handled, clusterVars
  <1>5. CASE UNCHANGED dbVars
    BY <1>4, <1>5, LedgerRests
  <1>6. CASE InsertPod(e) /\ ~PodRecorded(e.uid)
    <2>1. /\ pod' = [pod EXCEPT ![e.uid].create_time = e.created]
          /\ pod_mount' = pod_mount \cup insertPodMount(e.uid, e.created)
          /\ UNCHANGED <<pvc, pv>>
      BY <1>6 DEF InsertPod
    <2>2. pod[e.uid].create_time = NULL /\ pod[e.uid].delete_time = NULL
      BY <1>4, <1>6 DEF RInv, RowsStand, PodRecorded
    <2>3. /\ pod'[e.uid].create_time # NULL /\ pod'[e.uid].delete_time = NULL
          /\ \A p \in Pod \ {e.uid} : pod'[p] = pod[p]
      BY <1>1, <1>3, <1>4, <2>1, <2>2 DEF TypeOK, DBTypeOK, PodRow, TrueEvent
    <2>4. Final
      <3>1. \A m \in insertPodMount(e.uid, e.created) : m.pod_uid = e.uid
        BY DEF insertPodMount
      <3>2. QED
        BY <2>1, <2>2, <3>1 DEF Final, ClaimsRecorded
    <2>5. /\ Entry(e.uid) = "unknown" /\ Entry(e.uid)' = "open"
          /\ \A u \in Object \ {e.uid} : Entry(u)' = Entry(u)
      BY <1>4, <2>1, <2>2, <2>3, EntryIsMark DEF Mark, Object
    <2>6. QED
      BY <1>3, <1>4, <2>4, <2>5, LedgerOpens DEF TrueEvent
  <1>7. CASE e.type = "DELETED" /\ e.deletion # NULL /\ DeletePodRow(e)
    <2>1. /\ e \in log["pods"] /\ object[e.uid].phase = "gone"
          /\ UNCHANGED <<pvc, pv>>
      BY <1>1, <1>3, <1>7 DEF TrueEvent, IInv, LogStands, InOrder, DeletePodRow
    <2>2. Final
      <3> SUFFICES ASSUME NEW p \in Pod, pod[p].delete_time # NULL
                   PROVE  ClaimsRecorded(p)' = ClaimsRecorded(p)
        BY DEF Final
      <3>1. CASE p # e.uid
        BY <1>7, <3>1 DEF DeletePodRow, ClaimsRecorded
      <3>2. CASE p = e.uid
        <4>1. pod[p].delete_time = e.deletion /\ e.deletion \in Nat
          BY <1>1, <1>7, <2>1, <3>2 DEF RInv, RowsStand, TypeOK,
                ClusterTypeOK, Event, Time
        <4>2. ASSUME NEW m \in pod_mount, m.pod_uid = p, m.pvc_uid # NULL
              PROVE  ~(pvc[m.pvc_uid].create_time > e.deletion)
          <5>1. m.pvc_uid \in PVC /\ PVCRecorded(m.pvc_uid)
            BY <1>1, <4>2 DEF TypeOK, DBTypeOK, MountRow, RInv, MountsStand
          <5>2. pvc[m.pvc_uid].create_time \in Nat
            BY <1>1, <5>1 DEF TypeOK, DBTypeOK, PVCRow, Time, PVCRecorded
          <5>3. pvc[m.pvc_uid].create_time <= e.deletion
            BY <1>7, <4>1, <4>2 DEF RInv, MountsStand
          <5>4. QED
            BY <4>1, <5>2, <5>3
        <4>3. BadMounts(e) = {}
          BY <3>2, <4>2 DEF BadMounts
        <4>4. QED
          BY <1>7, <4>3 DEF DeletePodRow, ClaimsRecorded
      <3>3. QED
        BY <3>1, <3>2
    <2>3. CASE PodRecorded(e.uid)
      <3>1. /\ pod'[e.uid].delete_time = e.deletion
            /\ \A p \in Pod \ {e.uid} : pod'[p] = pod[p]
        BY <1>1, <1>4, <1>7, <2>3 DEF DeletePodRow, TypeOK, DBTypeOK, PodRow
      <3>2. /\ Entry(e.uid)' = "closed"
            /\ \A u \in Object \ {e.uid} : Entry(u)' = Entry(u)
        BY <1>4, <1>7, <2>1, <3>1, EntryIsMark DEF Mark, Object
      <3>3. QED
        BY <1>4, <2>1, <2>2, <3>2, LedgerCloses
    <2>4. CASE ~PodRecorded(e.uid)
      <3>1. \A u \in Object : Entry(u)' = Entry(u)
        BY <1>7, <2>1, <2>4 DEF DeletePodRow, Entry
      <3>2. QED
        BY <1>4, <2>2, <3>1, LedgerCorrects
    <2>5. QED
      BY <2>3, <2>4
  <1>8. QED
    BY <1>2, <1>5, <1>6, <1>7 DEF InsertPod

\* Inserting a claim revises the mounts of pods that are not deleted; the
\* claim's entry is opened, unless it has been before or was closed already.
LEMMA PVCsLedger ==
    ASSUME IInv, RInv, TypeOK', MountsStand', handlePVCs
    PROVE  Ledger!Next \/ UNCHANGED Ledger!vars
  <1> DEFINE r == "persistentvolumeclaims"
  <1>1. TypeOK /\ r \in Resource
    BY DEF IInv, Resource
  <1>2. PICK e : /\ Receives(r, e) /\ Handled(r, e)
                 /\ \/ InsertPVC(e)
                    \/ UpdatePVC(e) \/ UNCHANGED dbVars
                    \/ /\ e.type = "DELETED"
                       /\ DeletePVCRow(e, DeleteTime(e))
    BY DEF handlePVCs
  <1>3. TrueEvent(r, e)
    BY <1>1, <1>2, OfferedTrue DEF Receives, RInv
  <1>4. /\ e.uid \in PVC /\ e.uid \in Object
        /\ object' = object
    BY <1>2, <1>3 DEF TrueEvent, Resource, MembersOf, Handled, clusterVars
  <1>5. CASE UNCHANGED dbVars
    BY <1>4, <1>5, LedgerRests
  <1>6. CASE InsertPVC(e)
    <2>1. UNCHANGED <<pod, pv>> /\ pod_mount' = AddPVCPodMount(e.uid)
      BY <1>6 DEF InsertPVC
    <2>2. Final
      <3> SUFFICES ASSUME NEW p \in Pod, pod[p].delete_time # NULL
                   PROVE  ClaimsRecorded(p)' = ClaimsRecorded(p)
        BY DEF Final
      <3>1. \A m \in pod_mount :
                m \in MountRow /\ [m EXCEPT !.pvc_uid = e.uid].pod_uid = m.pod_uid
        BY <1>1 DEF TypeOK, DBTypeOK, MountRow
      <3>2. {m \in pod_mount' : m.pod_uid = p} = {m \in pod_mount : m.pod_uid = p}
        BY <2>1, <3>1 DEF AddPVCPodMount
      <3>3. QED
        BY <3>2 DEF ClaimsRecorded
    <2>3. /\ pvc'[e.uid].create_time # NULL
          /\ pvc'[e.uid].delete_time = pvc[e.uid].delete_time
          /\ \A c \in PVC \ {e.uid} : pvc'[c] = pvc[c]
      BY <1>1, <1>3, <1>4, <1>6 DEF InsertPVC, TypeOK, DBTypeOK, PVCRow, TrueEvent
    <2>4. \A u \in Object \ {e.uid} : Entry(u)' = Entry(u)
      BY <2>1, <2>3, EntryIsMark DEF Object
    <2>5. CASE Entry(e.uid) = "unknown"
      <3>1. Entry(e.uid)' = "open"
        BY <1>4, <2>3, <2>5, EntryIsMark DEF Mark
      <3>2. QED
        BY <1>3, <1>4, <2>2, <2>4, <2>5, <3>1, LedgerOpens DEF TrueEvent
    <2>6. CASE Entry(e.uid) # "unknown"
      <3>1. Entry(e.uid)' = Entry(e.uid)
        BY <1>4, <2>3, <2>6, EntryIsMark DEF Mark
      <3>2. QED
        BY <1>4, <2>2, <2>4, <3>1, LedgerCorrects
    <2>7. QED
      BY <2>5, <2>6
  <1>7. ASSUME UNCHANGED <<pod, pv, pod_mount>>
        PROVE  Final
    BY <1>7 DEF Final, ClaimsRecorded
  <1>8. CASE UpdatePVC(e)
    <2>1. /\ UNCHANGED <<pod, pv, pod_mount>>
          /\ \A c \in PVC : /\ pvc'[c].create_time = pvc[c].create_time
                            /\ pvc'[c].delete_time = pvc[c].delete_time
      BY <1>1, <1>8 DEF UpdatePVC, TypeOK, DBTypeOK, PVCRow
    <2>2. \A u \in Object : Entry(u)' = Entry(u)
      BY <2>1, EntryIsMark DEF Object, Mark
    <2>3. QED
      BY <1>4, <1>7, <2>1, <2>2, LedgerCorrects
  <1>9. CASE e.type = "DELETED" /\ DeletePVCRow(e, DeleteTime(e))
    <2>1. UNCHANGED <<pod, pv, pod_mount>> /\ object[e.uid].phase = "gone"
      BY <1>1, <1>3, <1>9 DEF DeletePVCRow, TrueEvent, IInv, LogStands, InOrder
    <2>2. CASE PVCRowExists(e.uid)
      <3>1. DeleteTime(e) # NULL
        BY <1>1, <1>3, DeleteTimeType DEF TypeOK, TrueEvent
      <3>2. /\ pvc'[e.uid].delete_time # NULL
            /\ \A c \in PVC \ {e.uid} : pvc'[c] = pvc[c]
        BY <1>1, <1>4, <1>9, <2>2, <3>1 DEF DeletePVCRow, TypeOK, DBTypeOK, PVCRow
      <3>3. /\ Entry(e.uid)' = "closed"
            /\ \A u \in Object \ {e.uid} : Entry(u)' = Entry(u)
        BY <1>4, <2>1, <3>2, EntryIsMark DEF Mark, Object
      <3>4. QED
        BY <1>4, <1>7, <2>1, <3>3, LedgerCloses
    <2>3. CASE ~PVCRowExists(e.uid)
      <3>1. \A u \in Object : Entry(u)' = Entry(u)
        BY <1>9, <2>1, <2>3 DEF DeletePVCRow, Entry
      <3>2. QED
        BY <1>4, <1>7, <2>1, <3>1, LedgerCorrects
    <2>4. QED
      BY <2>2, <2>3
  <1>10. QED
    BY <1>2, <1>5, <1>6, <1>8, <1>9

\* The volume's entry is opened by the second transaction of handlePVs and
\* closed by its deletion; the other transactions change no entry.
LEMMA PVsLedger ==
    ASSUME IInv, RInv, TypeOK', MountsStand', PVHandler
    PROVE  Ledger!Next \/ UNCHANGED Ledger!vars
  <1>1. TypeOK /\ PVs \in Resource
    BY DEF IInv, PVs, Resource
  <1>2. ASSUME UNCHANGED <<pod, pod_mount>>
        PROVE  Final
    BY <1>2 DEF Final, ClaimsRecorded
  <1>3. ASSUME UNCHANGED <<object, pod, pvc, pod_mount>>,
               \A v \in PV : /\ pv'[v].create_time = pv[v].create_time
                             /\ pv'[v].delete_time = pv[v].delete_time
        PROVE  Ledger!Next
    <2>1. \A u \in Object : Entry(u)' = Entry(u)
      BY <1>3, EntryIsMark DEF Mark, Object
    <2>2. QED
      BY <1>2, <1>3, <2>1, LedgerCorrects
  <1>4. CASE handlePVs
    <2>1. PICK e : /\ Receives(PVs, e)
                   /\ \/ UNCHANGED dbVars
                      \/ e.type = "DELETED" /\ DeletePVRow(e, DeleteTime(e))
                   /\ UNCHANGED clusterVars
      BY <1>4 DEF handlePVs, startPV
    <2>2. TrueEvent(PVs, e) /\ object' = object
      BY <1>1, <2>1, OfferedTrue DEF Receives, RInv, clusterVars
    <2>3. e.uid \in PV /\ e.uid \in Object
      BY <2>2 DEF TrueEvent, PVs, Resource, MembersOf
    <2>4. CASE UNCHANGED dbVars
      BY <2>2, <2>4, LedgerRests
    <2>5. CASE e.type = "DELETED" /\ DeletePVRow(e, DeleteTime(e))
      <3>1. /\ UNCHANGED <<pod, pvc, pod_mount>>
            /\ object[e.uid].phase = "gone"
        BY <1>1, <2>2, <2>5 DEF DeletePVRow, TrueEvent, IInv, LogStands, InOrder
      <3>2. CASE PVRecorded(e.uid)
        <4>1. DeleteTime(e) # NULL
          BY <1>1, <2>2, DeleteTimeType DEF TypeOK, TrueEvent
        <4>2. /\ pv'[e.uid].delete_time # NULL
              /\ \A v \in PV \ {e.uid} : pv'[v] = pv[v]
          BY <1>1, <2>3, <2>5, <3>2, <4>1 DEF DeletePVRow, TypeOK, DBTypeOK, PVRow
        <4>3. /\ Entry(e.uid)' = "closed"
              /\ \A u \in Object \ {e.uid} : Entry(u)' = Entry(u)
          BY <2>3, <3>1, <4>2, EntryIsMark DEF Mark, Object
        <4>4. QED
          BY <1>2, <2>2, <2>3, <3>1, <4>3, LedgerCloses
      <3>3. CASE ~PVRecorded(e.uid)
        BY <1>3, <2>2, <2>5, <3>1, <3>3 DEF DeletePVRow
      <3>4. QED
        BY <3>2, <3>3
    <2>6. QED
      BY <2>1, <2>4, <2>5
  <1>5. CASE recordSource
    BY <1>3, <1>5 DEF recordSource, InsertSource, clusterVars
  <1>6. CASE storePV
    <2>0. PICK e : e = event
      OBVIOUS
    <2>1. /\ pc[PVs] = "store" /\ object' = object
          /\ InsertPV(e) \/ UpdatePV(e)
      BY <1>6, <2>0 DEF storePV, clusterVars
    <2>2. TrueEvent(PVs, e)
      BY <2>0, <2>1, EventTrue DEF PVHandlerStep
    <2>3. e.uid \in PV /\ e.uid \in Object
      BY <2>2 DEF TrueEvent, PVs, Resource, MembersOf
    <2>4. CASE UpdatePV(e)
      <3>1. \A v \in PV : /\ pv'[v].create_time = pv[v].create_time
                          /\ pv'[v].delete_time = pv[v].delete_time
        BY <1>1, <2>4 DEF UpdatePV, TypeOK, DBTypeOK, PVRow
      <3>2. QED
        BY <1>3, <2>1, <2>4, <3>1 DEF UpdatePV
    <2>5. CASE InsertPV(e) /\ PVRecorded(e.uid)
      BY <2>1, <2>5, LedgerRests DEF InsertPV
    <2>6. CASE InsertPV(e) /\ ~PVRecorded(e.uid)
      <3> DEFINE row == [pv[e.uid] EXCEPT !.create_time = e.created,
                                              !.source = e.source,
                                              !.spec = e.spec]
      <3>1. pv' = [pv EXCEPT ![e.uid] = row] /\ UNCHANGED <<pod, pvc, pod_mount>>
        BY <2>6 DEF InsertPV
      <3>2. /\ row.create_time # NULL /\ row.delete_time = NULL
            /\ pv[e.uid].create_time = NULL
            /\ pv[e.uid].delete_time = NULL
        BY <1>1, <2>2, <2>3, <2>6 DEF TypeOK, DBTypeOK, PVRow, TrueEvent,
             PVRecorded, RInv, RowsStand
      <3> HIDE DEF row
      <3>3. pv'[e.uid] = row /\ \A v \in PV \ {e.uid} : pv'[v] = pv[v]
        BY <1>1, <2>3, <3>1 DEF TypeOK, DBTypeOK
      <3>4. /\ Entry(e.uid) = "unknown" /\ Entry(e.uid)' = "open"
            /\ \A u \in Object \ {e.uid} : Entry(u)' = Entry(u)
        BY <2>3, <3>1, <3>2, <3>3, EntryIsMark DEF Mark, Object
      <3>5. QED
        BY <1>2, <2>1, <2>2, <2>3, <3>1, <3>4, LedgerOpens DEF TrueEvent
    <2>7. QED
      BY <2>1, <2>4, <2>5, <2>6
  <1>7. CASE bindPV
    <2>1. /\ UNCHANGED <<object, pod, pv, pod_mount>>
          /\ \A c \in PVC : /\ pvc'[c].create_time = pvc[c].create_time
                            /\ pvc'[c].delete_time = pvc[c].delete_time
      BY <1>1, <1>7 DEF bindPV, BindPVC, clusterVars, TypeOK, DBTypeOK, PVCRow
    <2>2. \A u \in Object : Entry(u)' = Entry(u)
      BY <2>1, EntryIsMark DEF Mark, Object
    <2>3. QED
      BY <1>2, <2>1, <2>2, LedgerCorrects
  <1>8. QED
    BY <1>4, <1>5, <1>6, <1>7 DEF PVHandler

LEMMA NextLedger ==
    ASSUME IInv, RInv, IInv', RInv', [Next]_vars
    PROVE  Ledger!Next \/ UNCHANGED Ledger!vars
  <1>1. TypeOK /\ TypeOK' /\ MountsStand'
    BY DEF IInv, RInv
  <1>2. CASE UNCHANGED vars
    BY <1>2, LedgerRests DEF vars, clusterVars
  <1>3. CASE ClusterStep
    BY <1>1, <1>3, WorldMoves
  <1>4. ASSUME NEW r \in Resource, Connect(r) \/ SkipDuplicate(r) \/ Drop(r)
        PROVE  UNCHANGED Ledger!vars
    BY <1>4, LedgerRests
       DEF Connect, ConnectList, ConnectFrom, ConnectExpired, SkipDuplicate,
           Drop, clusterVars
  <1>5. CASE handlePods \/ handlePVCs \/ PVHandler
    BY <1>1, <1>5, PodsLedger, PVCsLedger, PVsLedger
  <1>6. CASE Crash \/ FatalBackend \/ PanicNoTimestamp \/ Restart
    BY <1>6, LedgerRests
       DEF Crash, FatalBackend, PanicNoTimestamp, Exit, Restart, clusterVars
  <1>7. QED
    BY <1>2, <1>3, <1>4, <1>5, <1>6 DEF Next

\* The tracker implements the ledger: an entry is opened only for an object
\* that has existed and closed only when it is gone, a closed entry is never
\* reopened, and the mounts of a deleted pod are final, over every crash,
\* replay, list and interleaving of the three goroutines.
THEOREM LedgerImplemented == Spec => ImplementsLedger
  <1>1. Init => Ledger!Init
    BY LedgerStarts
  <1>2. IInv /\ RInv /\ IInv' /\ RInv' /\ [Next]_vars
            => [Ledger!Next]_(Ledger!vars)
    BY NextLedger
  <1>3. QED
    BY <1>1, <1>2, InvariantHolds, RowsInvariant, PTL
       DEF Spec, ImplementsLedger, Ledger!Spec

-----------------------------------------------------------------------------
(* The convergence of mounts: however the goroutines of pods and claims     *)
(* interleave, once both have caught up a live pod is recorded with the     *)
(* claim it uses, provided that no claims of different namespaces share a   *)
(* name.  The argument is that whatever puts an older claim of the name     *)
(* into the mount, a replay, a late list or a late pod, is an event after   *)
(* which the addition of the live claim is still to come (ToCome of module  *)
(* LedgerInvariant).                                                        *)

\* The endpoint of claims.
PVCs == "persistentvolumeclaims"

LEMMA ClaimsAreMembers ==
    /\ PVCs \in Resource /\ MembersOf(PVCs) = PVC /\ PVC \subseteq Object
    /\ PVs \in Resource /\ PVCs # PVs /\ PVCs # "pods" /\ "pods" \in Resource
    /\ MembersOf("pods") = Pod /\ Pod \subseteq Object
  BY DEF PVCs, PVs, Resource, MembersOf, Object

\* A live claim is recorded, or still to come.
LEMMA RecordedOrToCome ==
    ASSUME IInv, NEW c \in PVC, Alive(c), c \notin missed[PVCs]
    PROVE  PVCRecorded(c) \/ ToCome(c)
  <1>1. PICK a \in log[PVCs] : a.uid = c /\ a.type = "ADDED"
    BY ClaimsAreMembers DEF IInv, LogStands, InOrder, Alive
  <1>2. /\ a.rv \in Nat \ {0} /\ cursor[PVCs] \in Nat
        /\ rv[PVCs] \in Nat /\ resource_version[PVCs] \in Nat
    BY <1>1, ClaimsAreMembers DEF IInv, TypeOK, ClusterTypeOK, DBTypeOK
  <1>3. Recorded(PVCs, a) => PVCRecorded(c)
    BY <1>1 DEF Recorded, PVCs
  <1>4. InHand(PVCs, a) => ToCome(c)
    BY <1>1, ClaimsAreMembers DEF InHand, ToCome, PVCs
  <1>5. CASE a.rv <= resource_version[PVCs]
    BY <1>1, <1>3, <1>4, <1>5, ClaimsAreMembers DEF IInv, CheckpointCovers
  <1>6. CASE a.rv > resource_version[PVCs] /\ Connected(PVCs)
    <2>1. rv[PVCs] # a.rv
      BY <1>2, <1>6, ClaimsAreMembers DEF IInv, VersionsStand
    <2>2. CASE a.rv <= cursor[PVCs]
      BY <1>1, <1>3, <1>6, <2>2, ClaimsAreMembers DEF IInv, Seen, ToCome, PVCs
    <2>3. CASE a.rv > cursor[PVCs]
      BY <1>1, <1>6, <2>1, <2>3 DEF ToCome, PVCs
    <2>4. QED
      BY <1>2, <2>2, <2>3
  <1>7. CASE a.rv > resource_version[PVCs] /\ ~Connected(PVCs)
    BY <1>1, <1>7 DEF ToCome, PVCs
  <1>8. QED
    BY <1>2, <1>5, <1>6, <1>7

\* Steps that do not concern the goroutine of the claims leave to come what is.
LEMMA ToComeKept ==
    ASSUME NEW c, ToCome(c), log[PVCs] \subseteq log'[PVCs],
           listing'[PVCs] = listing[PVCs], cursor'[PVCs] = cursor[PVCs],
           rv'[PVCs] = rv[PVCs], pc'[PVCs] = pc[PVCs],
           resource_version'[PVCs] = resource_version[PVCs]
    PROVE  ToCome(c)'
  BY DEF ToCome, Connected, PVCs

\* Consuming another event leaves the addition of c to come.
LEMMA ConsumeLeavesToCome ==
    ASSUME IInv, NEW e \in Offered(PVCs), Connected(PVCs), Consume(PVCs, e),
           NEW c \in PVC, ToCome(c),
           ~(e.uid = c /\ e.type = "ADDED") \/ e.rv = rv[PVCs],
           UNCHANGED <<log, rv, pc>>
    PROVE  ToCome(c)'
  <1>1. TypeOK
    BY DEF IInv
  <1>2. /\ listing'[PVCs] = listing[PVCs] \ {e}
        /\ cursor'[PVCs] = IF e.rv > cursor[PVCs] THEN e.rv ELSE cursor[PVCs]
        /\ cursor[PVCs] \in Nat /\ e.rv \in Nat /\ rv[PVCs] \in Nat
        /\ Connected(PVCs)'
    BY <1>1, ClaimsAreMembers, OfferedType DEF Consume, TypeOK, Connected
  <1>3. CASE listing[PVCs] # {}
    <2>1. e \in listing[PVCs] /\ e.rv \in 1..cursor[PVCs] /\ e.type = "ADDED"
          /\ rv[PVCs] = 0
      BY <1>3, ClaimsAreMembers DEF Offered, IInv, ListStands, VersionsStand
    <2>2. e.uid # c
      BY <2>1
    <2>3. cursor'[PVCs] = cursor[PVCs]
      BY <1>2, <2>1
    <2>4. CASE \E l \in listing[PVCs] : l.uid = c
      BY <1>2, <2>2, <2>4 DEF ToCome, PVCs
    <2>5. CASE ~\E l \in listing[PVCs] : l.uid = c
      BY <1>2, <2>3, <2>5 DEF ToCome, PVCs
    <2>6. QED
      BY <2>4, <2>5
  <1>4. CASE listing[PVCs] = {}
    <2>1. /\ e \in log[PVCs] /\ e.rv > cursor[PVCs]
          /\ \A f \in log[PVCs] : f.rv > cursor[PVCs] => e.rv <= f.rv
      BY <1>4 DEF Offered
    <2>2. PICK a \in log[PVCs] : /\ a.uid = c /\ a.type = "ADDED"
                                 /\ a.rv > cursor[PVCs] /\ a.rv # rv[PVCs]
      BY <1>4 DEF ToCome, PVCs
    <2>3. a # e
      BY <2>2
    <2>4. a.rv # e.rv
      BY <2>1, <2>3, ClaimsAreMembers DEF IInv, LogStands, InOrder
    <2>5. a.rv \in Nat
      BY <1>1, ClaimsAreMembers DEF TypeOK, ClusterTypeOK, Event
    <2>6. a.rv > cursor'[PVCs]
      BY <1>2, <2>1, <2>2, <2>4, <2>5
    <2>7. QED
      BY <1>2, <2>2, <2>6 DEF ToCome, PVCs
  <1>5. QED
    BY <1>3, <1>4

\* An older claim of the name of c is inserted only before c is.
LEMMA OlderComesFirst ==
    ASSUME IInv, RInv, NamesStand, NEW e \in Offered(PVCs), Connected(PVCs),
           Consume(PVCs, e), UNCHANGED <<log, rv, pc>>,
           NEW c \in PVC, Alive(c), e.uid # c, NameOf[e.uid] = NameOf[c],
           NamespaceOf[e.uid] = NamespaceOf[c]
    PROVE  ToCome(c)'
  <1>1. TypeOK
    BY DEF IInv
  <1>2. TrueEvent(PVCs, e)
    BY ClaimsAreMembers, OfferedTrue DEF RInv
  <1>3. e.uid \in PVC /\ object[e.uid].phase # "absent"
    BY <1>2, ClaimsAreMembers DEF TrueEvent
  <1>4. Precedes(e.uid, c)
    BY <1>3 DEF NamesStand
  <1>5. PICK del \in log[PVCs] :
            /\ del.uid = e.uid /\ del.type = "DELETED"
            /\ \A f \in log[PVCs] : f.uid = c => del.rv < f.rv
    BY <1>4 DEF Precedes, PVCs
  <1>6. PICK a \in log[PVCs] : a.uid = c /\ a.type = "ADDED"
    BY ClaimsAreMembers DEF IInv, LogStands, InOrder, Alive
  <1>7. /\ listing'[PVCs] = listing[PVCs] \ {e}
        /\ cursor'[PVCs] = IF e.rv > cursor[PVCs] THEN e.rv ELSE cursor[PVCs]
        /\ cursor[PVCs] \in Nat /\ e.rv \in Nat /\ rv[PVCs] \in Nat
        /\ Connected(PVCs)'
    BY <1>1, ClaimsAreMembers, OfferedType DEF Consume, TypeOK, Connected
  <1>8. /\ a.rv \in Nat /\ del.rv \in Nat /\ del.rv < a.rv
    BY <1>1, <1>5, <1>6, ClaimsAreMembers DEF TypeOK, ClusterTypeOK, Event
  <1>9. CASE listing[PVCs] # {}
    <2>1. /\ e \in listing[PVCs] /\ e.rv \in 1..cursor[PVCs]
          /\ rv[PVCs] = 0 /\ ~(del.rv <= cursor[PVCs])
      BY <1>5, <1>9, ClaimsAreMembers DEF Offered, IInv, ListStands, VersionsStand
    <2>2. a.rv > cursor'[PVCs] /\ a.rv # rv[PVCs]
      BY <1>7, <1>8, <2>1
    <2>3. QED
      BY <1>6, <1>7, <2>2 DEF ToCome, PVCs
  <1>10. CASE listing[PVCs] = {}
    <2>1. e \in log[PVCs] /\ e.rv > cursor[PVCs]
      BY <1>10 DEF Offered
    <2>2. e.rv <= del.rv
      BY <1>5, <2>1, ClaimsAreMembers DEF RInv, LogTrue
    <2>3. rv[PVCs] # 0 => rv[PVCs] <= cursor[PVCs] + 1
      BY ClaimsAreMembers DEF IInv, VersionsStand
    <2>4. a.rv > cursor'[PVCs] /\ a.rv # rv[PVCs]
      BY <1>7, <1>8, <2>1, <2>2, <2>3
    <2>5. QED
      BY <1>6, <1>7, <2>4 DEF ToCome, PVCs
  <1>11. QED
    BY <1>9, <1>10

\* A pod that is recorded after the claim is recorded with it.
LEMMA ClaimIsFound ==
    ASSUME TypeOK, RInv, NamesStand, NamesInOneNamespace,
           NEW c \in PVC, Alive(c), PVCRecorded(c), Distinct(NameOf[c]),
           NEW t \in Nat, object[c].created <= t
    PROVE  ClaimsFor(NameOf[c], t) = {c}
  <1> DEFINE n == NameOf[c]
             S == Newest(EarlyClaims(n, t))
  <1>1. /\ pvc[c].create_time = object[c].created /\ pvc[c].delete_time = NULL
    BY DEF RInv, RowsAreTrue, TrueTimes, PVCRecorded, Alive
  <1>2. c \in EarlyClaims(n, t)
    BY <1>1 DEF EarlyClaims, Named
  <1>3. \A d \in EarlyClaims(n, t) : pvc[d].create_time \in Nat
    BY DEF EarlyClaims, Named, PVCRecorded, TypeOK, DBTypeOK, PVCRow, Time
  <1>4. ASSUME NEW d \in EarlyClaims(n, t)
        PROVE  pvc[d].create_time <= pvc[c].create_time
    <2>1. d \in PVC /\ NameOf[d] = n /\ PVCRecorded(d)
      BY DEF EarlyClaims, Named
    <2>2. pvc[d].create_time = object[d].created /\ object[d].phase # "absent"
      BY <2>1 DEF RInv, RowsAreTrue, RowsStand, TrueTimes, PVCRecorded
    <2>3. CASE d # c
      BY <1>1, <2>1, <2>2, <2>3 DEF NamesInOneNamespace, NamesStand, Precedes
    <2>4. CASE d = c
      BY <1>3, <2>4
    <2>5. QED
      BY <2>3, <2>4
  <1>5. c \in S
    BY <1>2, <1>4 DEF Newest
  <1>6. \A d, x \in S : pvc[d].create_time = pvc[x].create_time
    BY <1>3 DEF Newest
  <1>7. c \in SameAge(n, S)
    BY <1>5 DEF SameAge, Named
  <1>8. \E x \in Named(n) : SameAge(n, S) = {x}
    BY <1>6, <1>7, SameAgeOne DEF TypeOK, RInv
  <1>9. SameAge(n, S) = {c}
    BY <1>7, <1>8
  <1>10. QED
    BY <1>9 DEF ClaimsFor

-----------------------------------------------------------------------------
(* The steps.                                                              *)

\* Steps that put no claim into a mount and leave to come what is.
LEMMA ShownKept ==
    ASSUME MInv, UNCHANGED clusterVars, pod_mount' \subseteq pod_mount,
           missed[PVCs] \subseteq missed'[PVCs],
           \A c \in PVC : /\ Alive(c) /\ c \notin missed'[PVCs] /\ ToCome(c)
                          => ToCome(c)'
    PROVE  MInv'
  <1>1. UNCHANGED <<index, object, log>>
    BY DEF clusterVars
  <1>2. NamesStand'
    BY <1>1 DEF MInv, NamesStand, Precedes, Alive
  <1>3. MountsShown'
    BY <1>1 DEF MInv, MountsShown, ClaimsNamed, Alive, Distinct, PVCs
  <1>4. QED
    BY <1>2, <1>3 DEF MInv

\* Of these, the steps of the other goroutines.
LEMMA OthersKeepShown ==
    ASSUME MInv, UNCHANGED clusterVars, pod_mount' \subseteq pod_mount,
           missed'[PVCs] = missed[PVCs],
           listing'[PVCs] = listing[PVCs], cursor'[PVCs] = cursor[PVCs],
           rv'[PVCs] = rv[PVCs], pc'[PVCs] = pc[PVCs],
           resource_version'[PVCs] = resource_version[PVCs]
    PROVE  MInv'
  <1>1. log' = log
    BY DEF clusterVars
  <1>2. QED
    BY <1>1, ToComeKept, ShownKept

\* A claim that is added is to come.
LEMMA ClusterKeepsShown ==
    ASSUME IInv, RInv, MInv, IInv', ClusterStep
    PROVE  MInv'
  <1>1. TypeOK /\ ClusterTypeOK /\ LogStands /\ LogTrue /\ ClusterNext
    BY DEF IInv, RInv, TypeOK, ClusterStep
  <1>2. /\ \A u \in Object :
            /\ object[u].phase # "absent" =>
                /\ object'[u].phase # "absent"
                /\ object'[u].created = object[u].created
            /\ object[u].phase = "gone" => object'[u].phase = "gone"
        /\ index \in Nat /\ log[PVCs] \subseteq log'[PVCs]
        /\ \A f \in log'[PVCs] \ log[PVCs] : f.rv \in Nat /\ f.rv > index
    BY <1>1, ClusterKeepsObjects, ClusterOnlyAdds, ClaimsAreMembers
  <1>3. NamesStand'
    BY <1>1, ClusterKeepsNames DEF MInv
  <1>4. /\ UNCHANGED <<listing, cursor, rv, pc, resource_version, missed>>
        /\ UNCHANGED <<pod_mount, pod, pvc>>
    BY DEF ClusterStep, trackerVars, dbVars
  <1>5. ASSUME NEW row \in pod_mount', NEW c \in PVC, Alive(c)',
               NameOf[c] = row.pvc_name,
               NamespaceOf[c] = NamespaceOf[row.pod_uid],
               Alive(row.pod_uid)', Distinct(row.pvc_name)',
               object'[c].created <= object'[row.pod_uid].created,
               c \notin missed[PVCs]
        PROVE  row.pvc_uid = c \/ ToCome(c)'
    <2>1. row \in pod_mount /\ row.pod_uid \in Pod /\ PodRecorded(row.pod_uid)
      BY <1>1, <1>4 DEF TypeOK, DBTypeOK, MountRow, RInv, MountsStand
    <2>2. /\ object[row.pod_uid].phase # "absent"
          /\ Alive(row.pod_uid)
          /\ object'[row.pod_uid].created = object[row.pod_uid].created
      BY <1>2, <1>5, <2>1, ClaimsAreMembers DEF RInv, RowsStand, PodRecorded, Alive
    <2>3. CASE object[c].phase # "absent"
      <3>1. Alive(c) /\ object'[c].created = object[c].created
        BY <1>2, <1>5, <2>3, ClaimsAreMembers DEF Alive
      <3>2. Distinct(row.pvc_name)
        <4>1. \A d \in PVC : object[d].created # NULL =>
                object'[d].created = object[d].created
          BY <1>1, <1>2, ClaimsAreMembers DEF LogTrue
        <4>2. QED
          BY <1>5, <4>1 DEF Distinct
      <3>3. c \in ClaimsNamed(row.pod_uid, row.pvc_name)
        BY <1>5, <3>1 DEF ClaimsNamed
      <3>4. row.pvc_uid = c \/ ToCome(c)
        BY <1>5, <2>1, <2>2, <3>1, <3>2, <3>3 DEF MInv, MountsShown, PVCs
      <3>5. QED
        BY <1>2, <1>4, <3>4, ToComeKept
    <2>4. CASE object[c].phase = "absent"
      <3>1. PICK a \in log'[PVCs] : a.uid = c /\ a.type = "ADDED"
        BY <1>5, ClaimsAreMembers DEF IInv, LogStands, InOrder, Alive
      <3>2. a \notin log[PVCs]
        BY <1>1, <2>4, <3>1, ClaimsAreMembers DEF LogStands, InOrder
      <3>3. a.rv \in Nat /\ a.rv > index
        BY <1>2, <3>1, <3>2
      <3>4. /\ resource_version[PVCs] \in Nat /\ cursor[PVCs] \in Nat
            /\ rv[PVCs] \in Nat /\ resource_version[PVCs] <= index
            /\ Connected(PVCs) => /\ cursor[PVCs] <= index
                                  /\ rv[PVCs] # 0 =>
                                        rv[PVCs] <= resource_version[PVCs]
        BY <1>1, ClaimsAreMembers DEF TypeOK, DBTypeOK, IInv, VersionsStand
      <3>5. /\ a.rv > resource_version[PVCs]
            /\ Connected(PVCs) => a.rv > cursor[PVCs] /\ a.rv # rv[PVCs]
        BY <1>2, <3>3, <3>4
      <3>6. QED
        BY <1>4, <3>1, <3>5 DEF ToCome, Connected, PVCs
    <2>5. QED
      BY <2>3, <2>4
  <1>6. MountsShown'
    BY <1>4, <1>5 DEF MountsShown, ClaimsNamed, PVCs
  <1>7. QED
    BY <1>3, <1>6 DEF MInv

\* A pod that is recorded is recorded with its claim, or before it.
LEMMA handlePodsKeepsShown ==
    ASSUME IInv, RInv, MInv, NamesInOneNamespace, handlePods
    PROVE  MInv'
  <1>1. TypeOK
    BY DEF IInv
  <1>2. PICK e : /\ Receives("pods", e) /\ Handled("pods", e)
                 /\ InsertPod(e) \/ UNCHANGED dbVars \/ DeletePodRow(e)
    BY DEF handlePods
  <1>3. TrueEvent("pods", e)
    BY <1>2, ClaimsAreMembers, OfferedTrue DEF Receives, RInv
  <1>4. /\ UNCHANGED <<clusterVars, object, log, pc, rv, missed>>
        /\ listing'[PVCs] = listing[PVCs] /\ cursor'[PVCs] = cursor[PVCs]
    BY <1>1, <1>2, ClaimsAreMembers DEF Handled, Consume, TypeOK, clusterVars
  <1>5. resource_version'[PVCs] = resource_version[PVCs]
    BY <1>1, <1>2, ClaimsAreMembers
       DEF InsertPod, DeletePodRow, updateRV, dbVars, TypeOK, DBTypeOK
  <1>6. CASE pod_mount' \subseteq pod_mount
    BY <1>4, <1>5, <1>6, OthersKeepShown
  <1>7. CASE InsertPod(e) /\ ~PodRecorded(e.uid)
    <2>1. pod_mount' = pod_mount \cup insertPodMount(e.uid, e.created)
      BY <1>7 DEF InsertPod
    <2>2. ASSUME NEW row \in insertPodMount(e.uid, e.created), NEW c \in PVC,
                 Alive(c), NameOf[c] = row.pvc_name, Distinct(row.pvc_name),
                 object[c].created <= object[row.pod_uid].created,
                 c \notin missed[PVCs]
          PROVE  row.pvc_uid = c \/ ToCome(c)'
      <3>1. /\ row.pod_uid = e.uid
            /\ row.pvc_uid \in ClaimsFor(NameOf[c], e.created)
        BY <2>2 DEF insertPodMount
      <3>2. e.created = object[e.uid].created /\ e.created \in Nat
        BY <1>3 DEF TrueEvent, Event, Time
      <3>3. CASE PVCRecorded(c)
        <4>1. ClaimsFor(NameOf[c], e.created) = {c}
          BY <1>1, <2>2, <3>1, <3>2, <3>3, ClaimIsFound DEF MInv
        <4>2. QED
          BY <3>1, <4>1
      <3>4. CASE ToCome(c)
        BY <1>4, <1>5, <3>4, ToComeKept
      <3>5. QED
        BY <2>2, <3>3, <3>4, RecordedOrToCome
    <2>3. ASSUME NEW row \in pod_mount, NEW c \in PVC, Alive(c),
                 NameOf[c] = row.pvc_name,
                 NamespaceOf[c] = NamespaceOf[row.pod_uid],
                 Alive(row.pod_uid), Distinct(row.pvc_name),
                 object[c].created <= object[row.pod_uid].created,
                 c \notin missed[PVCs]
          PROVE  row.pvc_uid = c \/ ToCome(c)'
      <3>1. c \in ClaimsNamed(row.pod_uid, row.pvc_name)
        BY <2>3 DEF ClaimsNamed
      <3>2. row.pvc_uid = c \/ ToCome(c)
        BY <2>3, <3>1 DEF MInv, MountsShown, PVCs
      <3>3. QED
        BY <1>4, <1>5, <3>2, ToComeKept
    <2>4. MountsShown'
      BY <1>4, <2>1, <2>2, <2>3
         DEF MountsShown, ClaimsNamed, Alive, Distinct, PVCs
    <2>5. NamesStand'
      BY <1>4 DEF MInv, NamesStand, Precedes, Alive
    <2>6. QED
      BY <2>4, <2>5 DEF MInv
  <1>8. QED
    BY <1>2, <1>6, <1>7 DEF InsertPod, DeletePodRow, dbVars

\* A claim that is inserted is the live one of its name, or an older one that
\* the live one follows.
LEMMA handlePVCsKeepsShown ==
    ASSUME IInv, RInv, MInv, NamesInOneNamespace, handlePVCs
    PROVE  MInv'
  <1>1. TypeOK
    BY DEF IInv
  <1>2. PICK e : /\ Receives(PVCs, e) /\ Handled(PVCs, e)
                 /\ \/ e.type = "ADDED" /\ InsertPVC(e)
                    \/ e.type # "ADDED" /\ pod_mount' = pod_mount
    BY DEF handlePVCs, PVCs, dbVars, UpdatePVC, DeletePVCRow
  <1>3. TrueEvent(PVCs, e) /\ e \in Offered(PVCs) /\ Connected(PVCs)
    BY <1>2, ClaimsAreMembers, OfferedTrue DEF Receives, RInv, Connected
  <1>4. /\ UNCHANGED <<clusterVars, object, log, pc, rv, missed>>
        /\ Consume(PVCs, e)
    BY <1>2 DEF Handled, clusterVars
  <1>5. CASE e.type # "ADDED" /\ pod_mount' = pod_mount
    <2>1. \A c \in PVC : ToCome(c) => ToCome(c)'
      BY <1>3, <1>4, <1>5, ConsumeLeavesToCome
    <2>2. QED
      BY <1>4, <1>5, <2>1, ShownKept
  <1>6. CASE e.type = "ADDED" /\ InsertPVC(e)
    <2> DEFINE Due(m) == /\ m.pvc_name = NameOf[e.uid] /\ PodRecorded(m.pod_uid)
                         /\ pod[m.pod_uid].delete_time = NULL
               New(m) == IF Due(m) THEN [m EXCEPT !.pvc_uid = e.uid] ELSE m
    <2>1. /\ pod_mount' = {New(m) : m \in pod_mount}
          /\ e.uid \in PVC
      BY <1>3, <1>6, ClaimsAreMembers DEF InsertPVC, AddPVCPodMount, TrueEvent
    <2>2. ASSUME NEW m \in pod_mount
          PROVE  /\ New(m).pod_uid = m.pod_uid
                 /\ New(m).pvc_name = m.pvc_name
                 /\ New(m).pvc_uid = IF Due(m) THEN e.uid ELSE m.pvc_uid
      BY <1>1 DEF TypeOK, DBTypeOK, MountRow
    <2> HIDE DEF New
    <2>3. ASSUME NEW m \in pod_mount, NEW c \in PVC, Alive(c),
                 NameOf[c] = m.pvc_name,
                 NamespaceOf[c] = NamespaceOf[m.pod_uid],
                 Alive(m.pod_uid), Distinct(m.pvc_name),
                 object[c].created <= object[m.pod_uid].created,
                 c \notin missed[PVCs]
          PROVE  New(m).pvc_uid = c \/ ToCome(c)'
      <3>1. CASE NameOf[e.uid] = NameOf[c]
        <4>1. m.pod_uid \in Pod /\ PodRecorded(m.pod_uid)
          BY <1>1 DEF TypeOK, DBTypeOK, MountRow, RInv, MountsStand
        <4>2. pod[m.pod_uid].delete_time = NULL
          BY <2>3, <4>1 DEF RInv, RowsAreTrue, TrueTimes, Alive
        <4>3. New(m).pvc_uid = e.uid
          BY <2>2, <2>3, <3>1, <4>1, <4>2
        <4>4. CASE e.uid # c
          BY <1>3, <1>4, <2>1, <2>3, <3>1, <4>4, OlderComesFirst
             DEF MInv, NamesInOneNamespace
        <4>5. QED
          BY <4>3, <4>4
      <3>2. CASE NameOf[e.uid] # NameOf[c]
        <4>1. New(m).pvc_uid = m.pvc_uid
          BY <2>2, <2>3, <3>2
        <4>2. m.pvc_uid = c \/ ToCome(c)
          BY <2>3 DEF MInv, MountsShown, ClaimsNamed, PVCs
        <4>3. ToCome(c) => ToCome(c)'
          BY <1>3, <1>4, <3>2, ConsumeLeavesToCome
        <4>4. QED
          BY <4>1, <4>2, <4>3
      <3>3. QED
        BY <3>1, <3>2
    <2>4. ASSUME NEW row \in pod_mount', NEW c \in ClaimsNamed(row.pod_uid, row.pvc_name),
                 Alive(row.pod_uid), Distinct(row.pvc_name),
                 object[c].created <= object[row.pod_uid].created,
                 c \notin missed[PVCs]
          PROVE  row.pvc_uid = c \/ ToCome(c)'
      <3>1. PICK m \in pod_mount : row = New(m)
        BY <2>1
      <3>2. c \in PVC /\ Alive(c) /\ NameOf[c] = m.pvc_name
            /\ NamespaceOf[c] = NamespaceOf[m.pod_uid]
        BY <2>2, <2>4, <3>1 DEF ClaimsNamed
      <3>3. QED
        BY <2>2, <2>3, <2>4, <3>1, <3>2
    <2>5. MountsShown'
      BY <1>4, <2>4 DEF MountsShown, ClaimsNamed, Alive, Distinct, PVCs
    <2>6. NamesStand'
      BY <1>4 DEF MInv, NamesStand, Precedes, Alive
    <2>7. QED
      BY <2>5, <2>6 DEF MInv
  <1>7. QED
    BY <1>2, <1>5, <1>6

\* A list has every live claim; a watch from the stored version has what comes
\* after it, and what a watch that had no version left behind is not lost.
LEMMA ConnectKeepsShown ==
    ASSUME IInv, MInv, NEW r \in Resource, Connect(r)
    PROVE  MInv'
  <1>1. TypeOK /\ UNCHANGED <<clusterVars, index, object, log>>
        /\ UNCHANGED <<pod_mount, resource_version>>
    BY DEF IInv, Connect, ConnectList, ConnectFrom, ConnectExpired, clusterVars,
           dbVars
  <1>2. CASE r # PVCs
    <2>1. /\ missed'[PVCs] = missed[PVCs] /\ listing'[PVCs] = listing[PVCs]
          /\ cursor'[PVCs] = cursor[PVCs] /\ rv'[PVCs] = rv[PVCs]
          /\ pc'[PVCs] = pc[PVCs]
      BY <1>1, <1>2, ClaimsAreMembers
         DEF TypeOK, Connect, ConnectList, ConnectFrom, ConnectExpired
    <2>2. QED
      BY <1>1, <2>1, OthersKeepShown
  <1>3. CASE r = PVCs /\ ConnectList(r)
    <2>1. missed[PVCs] \subseteq missed'[PVCs] /\ listing'[PVCs] = Listing(PVCs)
      BY <1>1, <1>3, ClaimsAreMembers DEF TypeOK, ConnectList
    <2>2. ASSUME NEW c \in PVC, Alive(c)
          PROVE  ToCome(c)'
      <3>1. EventOf("ADDED", c, object[c]) \in Listing(PVCs)
        BY <2>2, ClaimsAreMembers DEF Listing
      <3>2. EventOf("ADDED", c, object[c]).uid = c
        BY DEF EventOf
      <3>3. QED
        BY <2>1, <3>1, <3>2 DEF ToCome, PVCs
    <2>3. QED
      BY <1>1, <2>1, <2>2, ShownKept
  <1>4. CASE r = PVCs /\ ConnectFrom(r)
    <2>1. /\ missed' = missed /\ ~Connected(PVCs) /\ Connected(PVCs)'
          /\ rv'[PVCs] = resource_version[PVCs] /\ rv'[PVCs] \in Nat
          /\ cursor'[PVCs] <= resource_version[PVCs] /\ cursor'[PVCs] \in Nat
      <3>1. PICK back \in Overlap :
                cursor' = [cursor EXCEPT ![r] = GetRV(r) - back]
        BY <1>4 DEF ConnectFrom
      <3>2. /\ back \in {0, 1} /\ resource_version[PVCs] \in Nat
            /\ resource_version[PVCs] # 0
        BY <1>1, <1>4, OverlapTyped, ClaimsAreMembers
           DEF TypeOK, DBTypeOK, ConnectFrom, GetRV
      <3>3. cursor'[PVCs] = resource_version[PVCs] - back
        BY <1>1, <1>4, <3>1, ClaimsAreMembers DEF TypeOK, GetRV
      <3>4. QED
        BY <1>1, <1>4, <3>2, <3>3, ClaimsAreMembers
           DEF TypeOK, ConnectFrom, Connected, GetRV, PVHandlerStep
    <2>2. ASSUME NEW c \in PVC, ToCome(c)
          PROVE  ToCome(c)'
      <3>1. listing[PVCs] = {}
        BY <2>1, ClaimsAreMembers DEF IInv, VersionsStand
      <3>2. PICK a \in log[PVCs] : /\ a.uid = c /\ a.type = "ADDED"
                                   /\ a.rv > resource_version[PVCs]
        BY <2>1, <2>2, <3>1 DEF ToCome, PVCs
      <3>3. a.rv \in Nat
        BY <1>1, ClaimsAreMembers DEF TypeOK, ClusterTypeOK, Event
      <3>4. a.rv > cursor'[PVCs] /\ a.rv # rv'[PVCs]
        BY <2>1, <3>2, <3>3
      <3>5. QED
        BY <1>1, <2>1, <3>2, <3>4 DEF ToCome, PVCs
    <2>3. QED
      BY <1>1, <2>1, <2>2, ShownKept
  <1>5. CASE ConnectExpired(r)
    BY <1>1, <1>5, OthersKeepShown DEF ConnectExpired
  <1>6. QED
    BY <1>2, <1>3, <1>4, <1>5 DEF Connect

LEMMA SkipDuplicateKeepsShown ==
    ASSUME IInv, MInv, NEW r \in Resource, SkipDuplicate(r)
    PROVE  MInv'
  <1>1. /\ TypeOK /\ UNCHANGED <<clusterVars, log, rv, pc>>
        /\ UNCHANGED <<missed, pod_mount, resource_version>>
    BY DEF IInv, SkipDuplicate, clusterVars, dbVars
  <1>2. PICK e \in Offered(r) : e.rv = rv[r] /\ Consume(r, e) /\ pc[r] = "watch"
    BY DEF SkipDuplicate
  <1>3. CASE r # PVCs
    <2>1. listing'[PVCs] = listing[PVCs] /\ cursor'[PVCs] = cursor[PVCs]
      BY <1>1, <1>2, <1>3, ClaimsAreMembers DEF TypeOK, Consume
    <2>2. QED
      BY <1>1, <2>1, OthersKeepShown
  <1>4. CASE r = PVCs
    <2>1. \A c \in PVC : ToCome(c) => ToCome(c)'
      BY <1>1, <1>2, <1>4, ConsumeLeavesToCome DEF Connected
    <2>2. QED
      BY <1>1, <2>1, ShownKept
  <1>5. QED
    BY <1>3, <1>4

\* handlePVs writes no mount and is not the goroutine of the claims.
LEMMA PVHandlerKeepsShown ==
    ASSUME IInv, MInv, PVHandler
    PROVE  MInv'
  <1>1. TypeOK
    BY DEF IInv
  <1>2. UNCHANGED <<clusterVars, rv, missed>>
    BY DEF PVHandler, handlePVs, recordSource, storePV, bindPV
  <1>3. pc'[PVCs] = pc[PVCs]
    <2>1. UNCHANGED pc \/ \E step : PVGoesTo(step)
      BY DEF PVHandler, handlePVs, startPV, recordSource, storePV, bindPV, PVDone
    <2>2. QED
      BY <1>1, <2>1, ClaimsAreMembers DEF PVGoesTo, TypeOK
  <1>4. listing'[PVCs] = listing[PVCs] /\ cursor'[PVCs] = cursor[PVCs]
    <2>1. UNCHANGED <<listing, cursor>> \/ \E e : Consume(PVs, e)
      BY DEF PVHandler, handlePVs, startPV, recordSource, storePV, bindPV, PVDone
    <2>2. QED
      BY <1>1, <2>1, ClaimsAreMembers DEF Consume, TypeOK
  <1>5. pod_mount' = pod_mount /\ resource_version'[PVCs] = resource_version[PVCs]
    <2>1. \/ UNCHANGED dbVars
          \/ \E e : \/ DeletePVRow(e, DeleteTime(e)) \/ InsertSource(e)
                    \/ InsertPV(e) \/ UpdatePV(e) \/ BindPVC(e, Now)
      BY DEF PVHandler, handlePVs, startPV, recordSource, storePV, bindPV
    <2>2. \/ UNCHANGED <<pod_mount, resource_version>>
          \/ pod_mount' = pod_mount /\ \E n : updateRV(PVs, n)
      BY <2>1 DEF dbVars, DeletePVRow, InsertSource, InsertPV, UpdatePV, BindPVC, PVs
    <2>3. QED
      BY <1>1, <2>2, ClaimsAreMembers DEF updateRV, TypeOK, DBTypeOK
  <1>6. QED
    BY <1>2, <1>3, <1>4, <1>5, OthersKeepShown

\* What a watch still had to send comes again after the stored version; what it
\* had still to list is torn.
LEMMA WatchEndsKeepsShown ==
    ASSUME IInv, NEW c \in PVC, ToCome(c), c \notin missed'[PVCs],
           Torn(PVCs) \subseteq missed'[PVCs], ~Connected(PVCs)',
           UNCHANGED log, resource_version'[PVCs] = resource_version[PVCs]
    PROVE  ToCome(c)'
  <1>1. ~\E l \in listing[PVCs] : l.uid = c
    BY DEF Torn
  <1>2. PICK a \in log[PVCs] :
            /\ a.uid = c /\ a.type = "ADDED"
            /\ IF Connected(PVCs) THEN a.rv > cursor[PVCs] /\ a.rv # rv[PVCs]
               ELSE a.rv > resource_version[PVCs]
    BY <1>1 DEF ToCome, PVCs
  <1>3. /\ a.rv \in Nat /\ cursor[PVCs] \in Nat /\ rv[PVCs] \in Nat
        /\ resource_version[PVCs] \in Nat
    BY ClaimsAreMembers DEF IInv, TypeOK, DBTypeOK, ClusterTypeOK, Event
  <1>4. a.rv > resource_version[PVCs]
    <2>1. CASE Connected(PVCs)
      <3>1. \/ resource_version[PVCs] <= cursor[PVCs]
            \/ resource_version[PVCs] = rv[PVCs]
        BY <2>1, ClaimsAreMembers DEF IInv, VersionsStand
      <3>2. rv[PVCs] # 0 => rv[PVCs] <= cursor[PVCs] + 1
        BY <2>1, ClaimsAreMembers DEF IInv, VersionsStand
      <3>3. a.rv > cursor[PVCs] /\ a.rv # rv[PVCs]
        BY <1>2, <2>1
      <3>4. QED
        BY <1>3, <3>1, <3>2, <3>3
    <2>2. QED
      BY <1>2, <2>1
  <1>5. QED
    BY <1>2, <1>4 DEF ToCome, PVCs

LEMMA FaultKeepsShown ==
    ASSUME IInv, MInv,
           \/ \E r \in Resource : Drop(r)
           \/ Crash \/ FatalBackend \/ PanicNoTimestamp \/ Restart
    PROVE  MInv'
  <1>1. /\ TypeOK /\ UNCHANGED <<clusterVars, pod_mount, resource_version, log>>
    BY DEF IInv, Drop, Crash, FatalBackend, PanicNoTimestamp, Restart, Exit,
           clusterVars, dbVars
  <1>2. ASSUME NEW r \in Resource, Drop(r), r # PVCs
        PROVE  MInv'
    <2>1. /\ missed'[PVCs] = missed[PVCs] /\ listing'[PVCs] = listing[PVCs]
          /\ cursor'[PVCs] = cursor[PVCs] /\ rv'[PVCs] = rv[PVCs]
          /\ pc'[PVCs] = pc[PVCs]
      BY <1>1, <1>2, ClaimsAreMembers DEF TypeOK, Drop
    <2>2. QED
      BY <1>1, <2>1, OthersKeepShown
  <1>3. ASSUME Drop(PVCs) \/ Exit
        PROVE  MInv'
    <2>1. /\ missed[PVCs] \subseteq missed'[PVCs]
          /\ Torn(PVCs) \subseteq missed'[PVCs]
          /\ ~Connected(PVCs)'
      BY <1>1, <1>3, ClaimsAreMembers
         DEF TypeOK, Drop, Exit, Connected, PVHandlerStep
    <2>2. QED
      BY <1>1, <2>1, WatchEndsKeepsShown, ShownKept
  <1>4. CASE Restart
    <2>1. /\ UNCHANGED <<missed, listing, cursor, rv>>
          /\ ~Connected(PVCs) /\ ~Connected(PVCs)'
      BY <1>1, <1>4, ClaimsAreMembers
         DEF Restart, Running, Started, Connected, PVHandlerStep
    <2>2. \A c \in PVC : ToCome(c) => ToCome(c)'
      BY <1>1, <2>1 DEF ToCome, PVCs
    <2>3. QED
      BY <1>1, <2>1, <2>2, ShownKept
  <1>5. QED
    BY <1>2, <1>3, <1>4 DEF Crash, FatalBackend, PanicNoTimestamp

LEMMA InitMInv == Init => MInv
  <1> SUFFICES ASSUME Init PROVE MInv
    OBVIOUS
  <1>1. \A c \in PVC : ~Alive(c)
    BY ClaimsAreMembers DEF Init, ClusterInit, NoObject, Alive
  <1>2. pod_mount = {}
    BY DEF Init, TrackerInit, DBInit
  <1>3. QED
    BY <1>1, <1>2 DEF MInv, NamesStand, MountsShown

LEMMA NextMInv ==
    ASSUME IInv, RInv, MInv, IInv', NamesInOneNamespace, [Next]_vars
    PROVE  MInv'
  <1>1. CASE UNCHANGED vars
    BY <1>1, OthersKeepShown DEF vars, dbVars, trackerVars
  <1>2. CASE ClusterStep
    BY <1>2, ClusterKeepsShown
  <1>3. ASSUME NEW r \in Resource, Connect(r) \/ SkipDuplicate(r)
        PROVE  MInv'
    BY <1>3, ConnectKeepsShown, SkipDuplicateKeepsShown
  <1>4. CASE handlePods
    BY <1>4, handlePodsKeepsShown
  <1>5. CASE handlePVCs
    BY <1>5, handlePVCsKeepsShown
  <1>6. CASE PVHandler
    BY <1>6, PVHandlerKeepsShown
  <1>7. CASE \/ \E r \in Resource : Drop(r)
             \/ Crash \/ FatalBackend \/ PanicNoTimestamp \/ Restart
    BY <1>7, FaultKeepsShown
  <1>8. QED
    BY <1>1, <1>2, <1>3, <1>4, <1>5, <1>6, <1>7 DEF Next

-----------------------------------------------------------------------------
(* Convergence.                                                            *)

\* When nothing is to come, what is shown is the claim.
LEMMA ShownConverge ==
    ASSUME IInv, RInv, MInv
    PROVE  LiveMountsConverge
  <1> SUFFICES ASSUME Drained("pods"), Drained(PVCs),
                      NEW p \in Pod, NEW m \in MountsOf[p],
                      NEW c \in ClaimsNamed(p, m[2]),
                      Alive(p), Distinct(m[2]),
                      object[c].created <= object[p].created,
                      p \notin missed["pods"], c \notin missed[PVCs]
               PROVE  {row.pvc_uid : row \in Rows(p, m)} = {c}
    BY DEF LiveMountsConverge, PVCs
  <1>1. TypeOK
    BY DEF IInv
  <1>2. PodRecorded(p)
    <2>1. PICK a \in log["pods"] : a.uid = p /\ a.type = "ADDED"
      BY ClaimsAreMembers DEF IInv, LogStands, InOrder, Alive
    <2>2. Recorded("pods", a)
      BY <2>1, ClaimsAreMembers DEF Drained, IInv, Seen, Connected
    <2>3. QED
      BY <2>1, <2>2 DEF Recorded
  <1>3. pod[p].delete_time = NULL
    BY DEF RInv, RowsAreTrue, TrueTimes, Alive
  <1>4. PICK row \in pod_mount : Rows(p, m) = {row}
    BY <1>2, <1>3 DEF RInv, OneRowPerMount
  <1>5. row.pod_uid = p /\ row.pvc_name = m[2]
    BY <1>4 DEF Rows
  <1>6. ~ToCome(c)
    <2>1. /\ pc[PVCs] = "watch" /\ listing[PVCs] = {}
          /\ \A a \in log[PVCs] : a.rv <= cursor[PVCs]
      BY DEF Drained
    <2>2. /\ cursor[PVCs] \in Nat
          /\ \A a \in log[PVCs] : a.rv \in Nat
      BY <1>1, ClaimsAreMembers DEF TypeOK, ClusterTypeOK, Event
    <2>3. QED
      BY <2>1, <2>2 DEF ToCome, Connected, PVCs
  <1>7. row.pvc_uid = c \/ ToCome(c)
    <2>1. c \in ClaimsNamed(row.pod_uid, row.pvc_name)
      BY <1>5
    <2>2. /\ Alive(row.pod_uid) /\ Distinct(row.pvc_name)
          /\ object[c].created <= object[row.pod_uid].created
          /\ c \notin missed["persistentvolumeclaims"]
      BY <1>5 DEF PVCs
    <2>3. QED
      BY <2>1, <2>2 DEF MInv, MountsShown
  <1>8. QED
    BY <1>4, <1>6, <1>7

\* However the goroutines of pods and claims interleave, over crashes, dropped
\* watches, lists and replays: once both have caught up, every mount of a live
\* pod shows the live claim it uses.  It takes that no claims of different
\* namespaces share a name, which neither query of insert.go asks for; the
\* run clobber_namespaces shows what becomes of mounts when they do.
THEOREM MountsConverge ==
    NamesInOneNamespace /\ Spec => []LiveMountsConverge
  <1>1. Init => MInv
    BY InitMInv
  <1>2. NamesInOneNamespace /\ IInv /\ RInv /\ MInv /\ IInv' /\ [Next]_vars
            => MInv'
    BY NextMInv
  <1>3. IInv /\ RInv /\ MInv => LiveMountsConverge
    BY ShownConverge
  <1>4. NamesInOneNamespace => NamesInOneNamespace'
    BY DEF NamesInOneNamespace
  <1>5. QED
    BY <1>1, <1>2, <1>3, <1>4, InvariantHolds, RowsInvariant, PTL DEF Spec
=============================================================================
