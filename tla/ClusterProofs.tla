---------------------------- MODULE ClusterProofs ----------------------------
(***************************************************************************)
(* Facts about the cluster for the proofs of the modules that extend it:  *)
(* every step of it is a lawful change, which keeps the types.             *)
(***************************************************************************)
EXTENDS ClusterInvariant, TLAPS

\* Division by the tick gives a time.
LEMMA StampIsNat ==
    ASSUME NEW n \in Nat
    PROVE  Stamp(n) \in Nat
  BY ClockMoves DEF Stamp

\* Later changes are not stamped earlier.
LEMMA StampMonotone ==
    ASSUME NEW m \in Nat, NEW n \in Nat, m <= n
    PROVE  Stamp(m) <= Stamp(n)
  BY ClockMoves, SMTT(30) DEF Stamp

\* An event made of a snapshot of u is an event about u.
LEMMA EventOfType ==
    ASSUME NEW type \in EventType, NEW u \in Object, NEW s \in Snapshot,
           u \in PV => s.source \in SourcesOf(u)
    PROVE  /\ EventOf(type, u, s) \in Event
           /\ EventOf(type, u, s).type = type
           /\ EventOf(type, u, s).uid = u
           /\ EventOf(type, u, s).rv = s.rv
           /\ EventOf(type, u, s).created = s.created
           /\ EventOf(type, u, s).claim = s.claim
           /\ EventOf(type, u, s).phase = s.phase
           /\ EventOf(type, u, s).spec = s.spec
           /\ EventOf(type, u, s).source = s.source
           /\ SpecOf(EventOf(type, u, s)) = SpecOf(s)
           /\ EventOf(type, u, s).deletion = s.deletion
  BY DEF EventOf, Event, Snapshot, SpecOf

\* Publish keeps the cluster's types.
LEMMA PublishType ==
    ASSUME ClusterTypeOK,
           NEW r \in Resource, NEW type \in EventType,
           NEW u \in MembersOf(r), NEW s \in Snapshot,
           u \in PV => s.source \in SourcesOf(u),
           Publish(r, type, u, s)
    PROVE  ClusterTypeOK'
  <1> DEFINE new == [s EXCEPT !.rv = index + 1]
             e == EventOf(type, u, new)
  <1>1. u \in Object
    BY DEF Resource, MembersOf, Object
  <1>2. index' \in 0..MaxIndex /\ index' = index + 1 /\ index \in Nat
    BY BoundsAreNumbers DEF Publish, ClusterTypeOK
  <1>3. new \in Snapshot /\ new.rv = index + 1 /\ new.source = s.source
    BY <1>2 DEF Snapshot
  <1>4. e \in Event /\ e.uid = u /\ e.rv = index + 1
    BY <1>1, <1>3, EventOfType
  <1>5. object' = [object EXCEPT ![u] = new]
        /\ log' = [log EXCEPT ![r] = @ \cup {e}]
        /\ compacted' = compacted
    BY DEF Publish
  <1> HIDE DEF new, e
  <1>6. object' \in [Object -> Snapshot]
    BY <1>1, <1>3, <1>5 DEF ClusterTypeOK
  <1>7. log' \in [Resource -> SUBSET Event]
    BY <1>4, <1>5 DEF ClusterTypeOK
  <1>8. ASSUME NEW q \in Resource, NEW f \in log'[q]
        PROVE  f.uid \in MembersOf(q) /\ f.rv \in 1..index'
    <2>1. CASE f \in log[q]
      BY <2>1, <1>2 DEF ClusterTypeOK
    <2>2. CASE f \notin log[q]
      <3>1. q = r /\ f = e
        BY <2>2, <1>5 DEF ClusterTypeOK
      <3>2. QED
        BY <3>1, <1>2, <1>4
    <2>3. QED
      BY <2>1, <2>2
  <1>9. ASSUME NEW v \in PV
        PROVE  object'[v].source \in SourcesOf(v)
    BY <1>1, <1>3, <1>5 DEF ClusterTypeOK, Object
  <1>10. QED
    BY <1>2, <1>5, <1>6, <1>7, <1>8, <1>9 DEF ClusterTypeOK

\* What every change of the cluster has in common: objects are added once,
\* changed while they are alive and deleted once, and keep their creation time.
\* What is stamped is stamped with the time of the change.
Lawful(type, u, s) ==
    /\ type = "ADDED" =>
        /\ object[u].phase = "absent"
        /\ s.created = Stamp(index + 1) /\ s.created # NULL
        /\ s.phase \notin {"absent", "gone"} /\ s.claim = object[u].claim
    /\ type # "ADDED" => Alive(u) /\ s.created = object[u].created
    /\ type = "MODIFIED" => s.phase \notin {"absent", "gone"}
    /\ type = "DELETED" =>
        /\ s.phase = "gone" /\ s.claim = object[u].claim
        /\ s.deletion \in {NULL, Stamp(index + 1)}

\* No live claim has the name of a new one.
LawfulName(c) ==
    \A d \in PVC : Alive(d) =>
        <<NameOf[d], NamespaceOf[d]>> # <<NameOf[c], NamespaceOf[c]>>

\* A volume in use keeps its claim until the claim is gone; it keeps the
\* claim it had, drops it, or takes one that no other volume holds.  Its spec
\* only changes when it becomes available or is edited, to an export it may have.
LawfulVolume(u, s) ==
    /\ object[u].phase = "Bound" =>
        \/ s.phase = "Bound" /\ s.claim = object[u].claim
        \/ object[object[u].claim].phase = "gone"
    /\ \/ /\ s.claim = object[u].claim
          /\ s.phase = "Bound" => object[u].phase = "Bound"
       \/ s.claim = NULL /\ s.phase # "Bound"
       \/ /\ s.claim # NULL /\ s.phase = "Bound"
          /\ object[s.claim].phase # "gone"
          /\ \A w \in PV : Alive(w) => object[w].claim # s.claim
    /\ SpecOf(s) # SpecOf(object[u]) => s.phase = "Available" /\ Alive(u)
    /\ s.source \in SourcesOf(u)

\* The spec of a pod does not change, that of a claim only while it is pending.
LawfulSpec(r, u, s) ==
    r # "persistentvolumes" /\ s.spec # object[u].spec =>
        r = "persistentvolumeclaims" /\ s.phase = "Pending" /\ Alive(u)

\* A lawful change is published.
LawfulStep ==
    \E r \in Resource : \E type \in EventType :
        \E u \in MembersOf(r) : \E s \in Snapshot :
            /\ Publish(r, type, u, s)
            /\ Lawful(type, u, s)
            /\ r = "persistentvolumes" => LawfulVolume(u, s)
            /\ r = "persistentvolumeclaims" /\ type = "ADDED" => LawfulName(u)
            /\ LawfulSpec(r, u, s)

\* Only volumes are members of the endpoint of volumes.
LEMMA VolumesHaveSources ==
    ASSUME NEW r \in Resource, NEW u \in MembersOf(r), NEW s,
           r = "persistentvolumes" => LawfulVolume(u, s)
    PROVE  u \in PV => s.source \in SourcesOf(u)
  BY KindsDisjoint DEF Resource, MembersOf, LawfulVolume

LEMMA CreateIsLawful ==
    ASSUME ClusterTypeOK,
           NEW r \in Resource, NEW u \in MembersOf(r), NEW ph \in Phase,
           ph \notin {"absent", "gone", "Bound"},
           r = "persistentvolumeclaims" => LawfulName(u),
           Create(r, u, ph)
    PROVE  LawfulStep
  <1> DEFINE s == [object[u] EXCEPT !.phase = ph, !.created = Stamp(index + 1)]
  <1>1. u \in Object
    BY DEF Resource, MembersOf, Object
  <1>2. object[u] \in Snapshot
    BY <1>1 DEF ClusterTypeOK
  <1>3. Stamp(index + 1) \in Nat /\ Stamp(index + 1) # NULL
    BY BoundsAreNumbers, StampIsNat, NullIsNoNumber DEF ClusterTypeOK
  <1>4. /\ s \in Snapshot /\ s.phase = ph
        /\ s.created = Stamp(index + 1) /\ s.created # NULL
        /\ s.claim = object[u].claim /\ s.spec = object[u].spec
        /\ s.source = object[u].source
    BY <1>2, <1>3 DEF Snapshot, Time
  <1>5. Publish(r, "ADDED", u, s) /\ object[u].phase = "absent"
    BY DEF Create
  <1> HIDE DEF s
  <1>6. /\ Lawful("ADDED", u, s) /\ LawfulSpec(r, u, s)
        /\ r = "persistentvolumes" => LawfulVolume(u, s)
    BY <1>4, <1>5 DEF Lawful, LawfulVolume, LawfulSpec, SpecOf, MembersOf, Resource,
                      ClusterTypeOK
  <1>7. QED
    BY <1>4, <1>5, <1>6 DEF EventType, LawfulStep

LEMMA ModifyIsLawful ==
    ASSUME NEW r \in Resource, NEW u \in MembersOf(r), NEW s \in Snapshot,
           s.phase \notin {"absent", "gone"}, s.created = object[u].created,
           r = "persistentvolumes" => LawfulVolume(u, s),
           LawfulSpec(r, u, s), Alive(u), Modify(r, u, s)
    PROVE  LawfulStep
  <1>1. Publish(r, "MODIFIED", u, s)
    BY DEF Modify
  <1>2. Lawful("MODIFIED", u, s)
    BY DEF Lawful
  <1>3. QED
    BY <1>1, <1>2 DEF EventType, LawfulStep

LEMMA RemoveIsLawful ==
    ASSUME ClusterTypeOK,
           NEW r \in Resource, NEW u \in MembersOf(r),
           Alive(u), r = "persistentvolumes" => object[u].phase # "Bound", Remove(r, u)
    PROVE  LawfulStep
  <1>0. PICK t \in {Stamp(index + 1), NULL} :
            Publish(r, "DELETED", u, [object[u] EXCEPT !.phase = "gone",
                                                       !.deletion = t])
    BY DEF Remove
  <1> DEFINE s == [object[u] EXCEPT !.phase = "gone", !.deletion = t]
  <1>1. u \in Object
    BY DEF Resource, MembersOf, Object
  <1>2. object[u] \in Snapshot
    BY <1>1 DEF ClusterTypeOK
  <1>3. t \in Time
    BY BoundsAreNumbers, StampIsNat DEF ClusterTypeOK, Time
  <1>4. Publish(r, "DELETED", u, s)
    BY <1>0
  <1>5. /\ s \in Snapshot /\ s.created = object[u].created /\ s.phase = "gone"
        /\ s.claim = object[u].claim /\ s.deletion = t
        /\ s.spec = object[u].spec /\ s.source = object[u].source
    BY <1>2, <1>3 DEF Snapshot, Phase
  <1> HIDE DEF s
  <1>6. /\ Lawful("DELETED", u, s) /\ LawfulSpec(r, u, s)
        /\ r = "persistentvolumes" => LawfulVolume(u, s)
    BY <1>5 DEF Lawful, LawfulVolume, LawfulSpec, SpecOf, MembersOf, Resource,
                ClusterTypeOK
  <1>7. QED
    BY <1>4, <1>5, <1>6 DEF EventType, LawfulStep

\* Every step of the cluster is a lawful change, or the server forgets a part
\* of the log.
LEMMA ClusterNextIsLawful ==
    ASSUME ClusterTypeOK, ClusterNext
    PROVE  Compact \/ LawfulStep
  <1>1. \A u \in Object : object[u] \in Snapshot
    BY DEF ClusterTypeOK
  <1>2. index + 1 \in Nat
    BY BoundsAreNumbers DEF ClusterTypeOK
  <1> USE DEF Resource, MembersOf, Object, Alive
  <1>3. ASSUME NEW p \in Pod, CreatePod(p) \/ RunPod(p) \/ DeletePod(p)
        PROVE  LawfulStep
    <2>1. CASE CreatePod(p)
      BY <2>1, CreateIsLawful DEF CreatePod, Phase
    <2>2. CASE RunPod(p)
      <3> DEFINE s == [object[p] EXCEPT !.phase = "Running"]
      <3>1. s \in Snapshot /\ s.phase = "Running"
            /\ s.created = object[p].created /\ s.spec = object[p].spec
        BY <1>1 DEF Snapshot, Phase
      <3>2. Alive(p) /\ Modify("pods", p, s)
        BY <2>2 DEF RunPod
      <3> HIDE DEF s
      <3>3. QED
        BY <3>1, <3>2, ModifyIsLawful DEF LawfulSpec
    <2>3. CASE DeletePod(p)
      BY <2>3, RemoveIsLawful DEF DeletePod
    <2>4. QED
      BY <1>3, <2>1, <2>2, <2>3
  <1>4. ASSUME NEW c \in PVC,
               \/ CreatePVC(c) \/ ModifyPVC(c) \/ ConfirmPVC(c)
               \/ DeletePVC(c)
        PROVE  LawfulStep
    <2>1. CASE CreatePVC(c)
      BY <2>1, CreateIsLawful DEF CreatePVC, Phase, LawfulName
    <2>2. CASE ModifyPVC(c)
      <3> DEFINE s == [object[c] EXCEPT !.spec = index + 1]
      <3>1. s \in Snapshot /\ s.phase = object[c].phase
            /\ s.created = object[c].created
        BY <1>1, <1>2 DEF Snapshot
      <3>2. object[c].phase = "Pending"
            /\ Modify("persistentvolumeclaims", c, s)
        BY <2>2 DEF ModifyPVC
      <3> HIDE DEF s
      <3>3. QED
        BY <3>1, <3>2, ModifyIsLawful DEF LawfulSpec
    <2>3. CASE ConfirmPVC(c)
      <3> DEFINE s == [object[c] EXCEPT !.phase = "Bound"]
      <3>1. s \in Snapshot /\ s.phase = "Bound"
            /\ s.created = object[c].created /\ s.spec = object[c].spec
        BY <1>1 DEF Snapshot, Phase
      <3>2. object[c].phase = "Pending"
            /\ Modify("persistentvolumeclaims", c, s)
        BY <2>3 DEF ConfirmPVC
      <3> HIDE DEF s
      <3>3. QED
        BY <3>1, <3>2, ModifyIsLawful DEF LawfulSpec
    <2>4. CASE DeletePVC(c)
      BY <2>4, RemoveIsLawful DEF DeletePVC
    <2>5. QED
      BY <1>4, <2>1, <2>2, <2>3, <2>4
  <1>5. ASSUME NEW v \in PV,
               \/ CreatePV(v) \/ FreePV(v) \/ EditPV(v) \/ TouchPV(v)
               \/ ReleasePV(v) \/ DeletePV(v)
               \/ \E c \in PVC : BindPV(v, c)
        PROVE  LawfulStep
    <2>1. CASE CreatePV(v)
      BY <2>1, CreateIsLawful DEF CreatePV, Phase
    <2>2. CASE FreePV(v)
      <3> DEFINE s == [object[v] EXCEPT !.phase = "Available", !.claim = NULL,
                                        !.spec = index + 1]
      <3>1. s \in Snapshot /\ s.phase = "Available" /\ s.claim = NULL
            /\ s.created = object[v].created /\ s.source = object[v].source
        BY <1>1, <1>2 DEF Snapshot, Phase
      <3>2. /\ object[v].phase \in {"Pending", "Released"}
            /\ Modify("persistentvolumes", v, s)
        BY <2>2 DEF FreePV
      <3> HIDE DEF s
      <3>3. LawfulVolume(v, s)
        BY <3>1, <3>2 DEF LawfulVolume, SpecOf, ClusterTypeOK
      <3>4. QED
        BY <3>1, <3>2, <3>3, ModifyIsLawful DEF LawfulSpec
    <2>3. CASE TouchPV(v)
      <3>1. object[v] \in Snapshot
        BY <1>1
      <3>2. object[v].phase = "Bound"
            /\ Modify("persistentvolumes", v, object[v])
        BY <2>3 DEF TouchPV
      <3>3. LawfulVolume(v, object[v])
        BY <3>2 DEF LawfulVolume, ClusterTypeOK
      <3>4. QED
        BY <3>1, <3>2, <3>3, ModifyIsLawful DEF LawfulSpec
    <2>4. CASE ReleasePV(v)
      <3> DEFINE s == [object[v] EXCEPT !.phase = "Released"]
      <3>1. s \in Snapshot /\ s.phase = "Released"
            /\ s.created = object[v].created /\ s.claim = object[v].claim
            /\ s.spec = object[v].spec /\ s.source = object[v].source
        BY <1>1 DEF Snapshot, Phase
      <3>2. /\ object[v].phase = "Bound"
            /\ object[object[v].claim].phase = "gone"
            /\ Modify("persistentvolumes", v, s)
        BY <2>4 DEF ReleasePV
      <3> HIDE DEF s
      <3>3. LawfulVolume(v, s)
        BY <3>1, <3>2 DEF LawfulVolume, SpecOf, ClusterTypeOK
      <3>4. QED
        BY <3>1, <3>2, <3>3, ModifyIsLawful DEF LawfulSpec
    <2>5. CASE DeletePV(v)
      BY <2>5, RemoveIsLawful DEF DeletePV
    <2>6. ASSUME NEW c \in PVC, BindPV(v, c)
          PROVE  LawfulStep
      <3> DEFINE s == [object[v] EXCEPT !.phase = "Bound", !.claim = c]
      <3>1. s \in Snapshot /\ s.phase = "Bound" /\ s.claim = c
            /\ s.created = object[v].created /\ s.spec = object[v].spec
            /\ s.source = object[v].source
        BY <1>1 DEF Snapshot, Phase
      <3>2. /\ object[v].phase = "Available" /\ object[c].phase = "Pending"
            /\ \A w \in PV : Alive(w) => object[w].claim # c
            /\ Modify("persistentvolumes", v, s)
        BY <2>6 DEF BindPV
      <3> HIDE DEF s
      <3>3. LawfulVolume(v, s)
        BY <3>1, <3>2, KindsDisjoint DEF LawfulVolume, SpecOf, ClusterTypeOK
      <3>4. QED
        BY <3>1, <3>2, <3>3, ModifyIsLawful DEF LawfulSpec
    <2>7. CASE EditPV(v)
      <3>1. PICK x \in EditsOf[v] :
                Modify("persistentvolumes", v,
                       [object[v] EXCEPT !.source = x, !.spec = index + 1])
        BY <2>7 DEF EditPV
      <3> DEFINE s == [object[v] EXCEPT !.source = x, !.spec = index + 1]
      <3>2. x \in Source \cup {NULL} /\ x \in SourcesOf(v)
        BY SpecsTyped DEF SourcesOf
      <3>3. s \in Snapshot /\ s.phase = object[v].phase /\ s.source = x
            /\ s.created = object[v].created /\ s.claim = object[v].claim
        BY <1>1, <1>2, <3>2 DEF Snapshot
      <3>4. object[v].phase = "Available" /\ Modify("persistentvolumes", v, s)
        BY <2>7, <3>1 DEF EditPV
      <3> HIDE DEF s
      <3>5. LawfulVolume(v, s)
        BY <3>2, <3>3, <3>4 DEF LawfulVolume
      <3>6. QED
        BY <3>3, <3>4, <3>5, ModifyIsLawful DEF LawfulSpec
    <2>8. QED
      BY <1>5, <2>1, <2>2, <2>3, <2>4, <2>5, <2>6, <2>7
  <1>6. QED
    BY <1>3, <1>4, <1>5 DEF ClusterNext

\* The clock's reading is a time.
LEMMA NowIsTime ==
    ASSUME ClusterTypeOK
    PROVE  Now \in Nat /\ Now \in Time
  BY BoundsAreNumbers, StampIsNat DEF ClusterTypeOK, Now, Time

\* A list consists of events about objects of its resource.
LEMMA ListingType ==
    ASSUME ClusterTypeOK, NEW r \in Resource
    PROVE  \A l \in Listing(r) : l \in Event /\ l.uid \in MembersOf(r)
  <1> SUFFICES ASSUME NEW u \in MembersOf(r)
               PROVE  /\ EventOf("ADDED", u, object[u]) \in Event
                      /\ EventOf("ADDED", u, object[u]).uid = u
    BY DEF Listing
  <1>1. /\ u \in Object /\ object[u] \in Snapshot
        /\ u \in PV => object[u].source \in SourcesOf(u)
    BY DEF Resource, MembersOf, Object, ClusterTypeOK
  <1>2. QED
    BY <1>1, EventOfType DEF EventType

LEMMA ClusterNextType ==
    ASSUME ClusterTypeOK, ClusterNext
    PROVE  ClusterTypeOK'
  <1>1. CASE Compact
    BY <1>1 DEF ClusterTypeOK, Compact
  <1>2. CASE LawfulStep
    BY <1>2, PublishType, VolumesHaveSources DEF LawfulStep
  <1>3. QED
    BY <1>1, <1>2, ClusterNextIsLawful

-----------------------------------------------------------------------------
(* Changes and the invariants of the cluster.                              *)

\* What a change of the cluster does to the log and the objects.
LEMMA PublishEffect ==
    ASSUME ClusterTypeOK,
           NEW r \in Resource, NEW type \in EventType,
           NEW u \in MembersOf(r), NEW s \in Snapshot,
           u \in PV => s.source \in SourcesOf(u),
           Publish(r, type, u, s)
    PROVE  \E e \in Event :
            /\ e.type = type /\ e.uid = u /\ e.rv = index + 1
            /\ e.created = s.created /\ e.claim = s.claim
            /\ e.phase = s.phase /\ e.spec = s.spec /\ e.deletion = s.deletion
            /\ e.source = s.source
            /\ index' = index + 1
            /\ log'[r] = log[r] \cup {e}
            /\ \A q \in Resource \ {r} : log'[q] = log[q]
            /\ object'[u].phase = s.phase /\ object'[u].created = s.created
            /\ object'[u].claim = s.claim /\ object'[u].rv = index + 1
            /\ object'[u].spec = s.spec /\ object'[u].source = s.source
            /\ \A w \in Object \ {u} : object'[w] = object[w]
  <1> DEFINE new == [s EXCEPT !.rv = index + 1]
             e == EventOf(type, u, new)
  <1>1. u \in Object
    BY DEF Resource, MembersOf, Object
  <1>2. index + 1 \in Nat
    BY BoundsAreNumbers DEF ClusterTypeOK
  <1>3. /\ new \in Snapshot /\ new.rv = index + 1 /\ new.created = s.created
        /\ new.claim = s.claim /\ new.phase = s.phase
        /\ new.spec = s.spec /\ new.deletion = s.deletion
        /\ new.source = s.source
    BY <1>2 DEF Snapshot
  <1>4. /\ index' = index + 1
        /\ object' = [object EXCEPT ![u] = new]
        /\ log' = [log EXCEPT ![r] = @ \cup {e}]
    BY DEF Publish
  <1> HIDE DEF new
  <1>5. /\ e \in Event /\ e.type = type /\ e.uid = u /\ e.rv = index + 1
        /\ e.created = s.created /\ e.claim = s.claim /\ e.phase = s.phase
        /\ e.spec = s.spec /\ e.deletion = s.deletion /\ e.source = s.source
    BY <1>1, <1>3, EventOfType
  <1> HIDE DEF e
  <1>6. /\ log'[r] = log[r] \cup {e}
        /\ \A q \in Resource \ {r} : log'[q] = log[q]
        /\ object'[u] = new
        /\ \A w \in Object \ {u} : object'[w] = object[w]
    BY <1>1, <1>4 DEF ClusterTypeOK
  <1>7. QED
    BY <1>3, <1>4, <1>5, <1>6

\* The objects of different resources are different.
LEMMA MembersDisjoint ==
    ASSUME NEW r \in Resource, NEW q \in Resource, r # q
    PROVE  MembersOf(r) \cap MembersOf(q) = {} /\ MembersOf(r) \subseteq Object
  BY KindsDisjoint DEF Resource, MembersOf, Object

\* A lawful change keeps the log of every resource in order.
LEMMA LawfulKeepsOrder ==
    ASSUME ClusterTypeOK, NEW q \in Resource, InOrder(q), LawfulStep
    PROVE  InOrder(q)'
  <1>1. PICK r \in Resource, type \in EventType :
          \E u \in MembersOf(r) : \E s \in Snapshot :
            /\ Publish(r, type, u, s) /\ Lawful(type, u, s)
            /\ r = "persistentvolumes" => LawfulVolume(u, s)
    BY DEF LawfulStep
  <1>2. PICK u \in MembersOf(r), s \in Snapshot :
            /\ Publish(r, type, u, s) /\ Lawful(type, u, s)
            /\ u \in PV => s.source \in SourcesOf(u)
    BY <1>1, VolumesHaveSources
  <1>3. PICK e \in Event :
            /\ e.type = type /\ e.uid = u /\ e.rv = index + 1
            /\ e.created = s.created /\ e.claim = s.claim
            /\ e.phase = s.phase
            /\ index' = index + 1
            /\ log'[r] = log[r] \cup {e}
            /\ q # r => log'[q] = log[q]
            /\ object'[u].phase = s.phase /\ object'[u].created = s.created
            /\ object'[u].claim = s.claim /\ object'[u].rv = index + 1
            /\ \A w \in Object \ {u} : object'[w] = object[w]
    BY <1>2, PublishEffect
  <1>4. index \in Nat /\ \A f \in log[q] :
            f.uid \in MembersOf(q) /\ f.rv \in 1..index
    BY BoundsAreNumbers DEF ClusterTypeOK
  <1>5. MembersOf(r) \subseteq Object
    BY DEF Resource, MembersOf, Object
  <1>6. q = r => s.created # NULL
    BY <1>2 DEF Lawful, InOrder, Alive
  <1>7. s.phase # "absent" /\ (s.phase = "gone" <=> type = "DELETED")
    BY <1>2 DEF Lawful, EventType
  <1>8. object[u].phase # "gone"
    BY <1>2 DEF Lawful, EventType, Alive
  <1>9. q = r /\ type # "ADDED" => \E a \in log[r] : a.uid = u /\ a.type = "ADDED"
    BY <1>2 DEF Lawful, InOrder, Alive
  <1>10. ASSUME q # r
         PROVE  \A w \in MembersOf(q) : object'[w] = object[w]
    BY <1>3, <1>10, MembersDisjoint
  <1>11. ASSUME NEW f \in log'[q]
         PROVE  /\ f.created # NULL
                /\ object'[f.uid].phase # "absent"
                /\ f.type = "DELETED" =>
                    /\ f.phase = "gone" /\ object'[f.uid].phase = "gone"
                    /\ \E a \in log'[q] : a.uid = f.uid /\ a.type = "ADDED"
                                              /\ a.rv < f.rv
    <2>1. CASE q # r
      BY <1>3, <1>4, <1>10, <2>1 DEF InOrder
    <2>2. CASE q = r /\ f \in log[r]
      <3>1. f.uid \in Object
        BY <1>4, <1>5, <2>2
      <3>2. f.created # NULL /\ object'[f.uid].phase # "absent"
        BY <1>3, <1>7, <2>2, <3>1 DEF InOrder
      <3>3. CASE f.type = "DELETED"
        BY <1>3, <1>8, <2>2, <3>1, <3>2, <3>3 DEF InOrder
      <3>4. QED
        BY <3>2, <3>3
    <2>3. CASE q = r /\ f = e
      <3>1. f.created # NULL /\ object'[f.uid].phase # "absent"
        BY <1>3, <1>6, <1>7, <2>3
      <3>2. CASE f.type = "DELETED"
        <4>1. PICK a \in log[r] : a.uid = u /\ a.type = "ADDED"
          BY <1>3, <1>9, <2>3, <3>2
        <4>2. a.rv < f.rv
          BY <1>3, <1>4, <2>3, <4>1
        <4>3. QED
          BY <1>3, <1>7, <2>3, <3>1, <3>2, <4>1, <4>2
      <3>3. QED
        BY <3>1, <3>2
    <2>4. QED
      BY <1>3, <2>1, <2>2, <2>3
  <1>12. ASSUME NEW f \in log'[q], NEW g \in log'[q],
                f.rv = g.rv
         PROVE  f = g
    <2>1. CASE q # r
      BY <1>3, <1>12, <2>1 DEF InOrder
    <2>2. CASE q = r
      <3>1. \A h \in log[r] : h.rv # e.rv
        BY <1>3, <1>4, <2>2
      <3>2. QED
        BY <1>3, <1>12, <2>2, <3>1 DEF InOrder
    <2>3. QED
      BY <2>1, <2>2
  <1>13. ASSUME NEW w \in MembersOf(q)
         PROVE  /\ object'[w].phase # "absent" =>
                    /\ object'[w].created # NULL
                    /\ \E a \in log'[q] : a.uid = w /\ a.type = "ADDED"
                /\ object'[w].phase = "gone" =>
                    \E d \in log'[q] :
                        /\ d.uid = w /\ d.type = "DELETED"
                        /\ \A f \in log'[q] : f.uid = w => f.rv <= d.rv
                /\ Alive(w)' => object'[w].rv \in 1..index'
    <2>1. CASE w # u
      <3>1. object'[w] = object[w]
        BY <1>3, <1>5, <1>10, <2>1 DEF Resource, MembersOf, Object
      <3>2. log[q] \subseteq log'[q]
            /\ \A f \in log'[q] : f.uid = w => f \in log[q]
        BY <1>3, <2>1
      <3>3. Alive(w)' => object'[w].rv \in 1..index'
        BY <1>3, <1>4, <3>1 DEF InOrder, Alive
      <3>4. QED
        BY <3>1, <3>2, <3>3 DEF InOrder
    <2>2. CASE w = u
      <3>1. q = r
        BY <2>2, MembersDisjoint
      <3>2. object'[w].created # NULL
            /\ \E a \in log'[q] : a.uid = w /\ a.type = "ADDED"
        BY <1>3, <1>6, <1>9, <2>2, <3>1
      <3>3. ASSUME object'[w].phase = "gone"
            PROVE  \E d \in log'[q] :
                        /\ d.uid = w /\ d.type = "DELETED"
                        /\ \A f \in log'[q] : f.uid = w => f.rv <= d.rv
        <4>1. e.type = "DELETED" /\ e \in log'[q] /\ e.uid = w
          BY <1>3, <1>7, <2>2, <3>1, <3>3
        <4>2. \A f \in log'[q] : f.rv <= e.rv
          BY <1>3, <1>4, <3>1
        <4>3. QED
          BY <4>1, <4>2
      <3>4. object'[w].rv \in 1..index'
        BY <1>3, <1>4, <2>2
      <3>5. QED
        BY <3>2, <3>3, <3>4
    <2>3. QED
      BY <2>1, <2>2
  <1>14. QED
    BY <1>11, <1>12, <1>13 DEF InOrder

LEMMA LawfulKeepsLog ==
    ASSUME ClusterTypeOK, LogStands, LawfulStep
    PROVE  LogStands'
  BY LawfulKeepsOrder DEF LogStands

\* A lawful change leaves every claim with the one volume it had, if any.
LEMMA LawfulKeepsClaims ==
    ASSUME ClusterTypeOK, ClaimsStand, LawfulStep
    PROVE  ClaimsStand'
  <1>1. PICK r \in Resource, type \in EventType :
          \E u \in MembersOf(r) : \E s \in Snapshot :
            /\ Publish(r, type, u, s) /\ Lawful(type, u, s)
            /\ r = PVs => LawfulVolume(u, s)
    BY DEF LawfulStep, PVs
  <1>2. PICK u \in MembersOf(r), s \in Snapshot :
            /\ Publish(r, type, u, s) /\ Lawful(type, u, s)
            /\ r = PVs => LawfulVolume(u, s)
            /\ u \in PV => s.source \in SourcesOf(u)
    BY <1>1, VolumesHaveSources DEF PVs
  <1>3. PICK e \in Event :
            /\ e.type = type /\ e.uid = u /\ e.rv = index + 1
            /\ e.created = s.created /\ e.claim = s.claim
            /\ e.phase = s.phase
            /\ index' = index + 1
            /\ log'[r] = log[r] \cup {e}
            /\ \A q \in Resource \ {r} : log'[q] = log[q]
            /\ object'[u].phase = s.phase /\ object'[u].created = s.created
            /\ object'[u].claim = s.claim /\ object'[u].rv = index + 1
            /\ \A w \in Object \ {u} : object'[w] = object[w]
    BY <1>2, PublishEffect
  <1>4. PVs \in Resource /\ MembersOf(PVs) = PV /\ PV \subseteq Object
        /\ PVC \subseteq Object /\ PV \cap PVC = {}
    BY KindsDisjoint DEF PVs, Resource, MembersOf, Object
  <1>5. \A f \in log[PVs] : f.uid \in PV /\ f.claim \in PVC \cup {NULL}
    BY <1>4 DEF ClusterTypeOK, Event
  <1>6. \A v \in PV : object[v].claim \in PVC \cup {NULL}
    BY <1>4 DEF ClusterTypeOK, Snapshot
  <1>7. object[u].phase # "gone"
    BY <1>2 DEF Lawful, EventType, Alive
  <1>8. \A w \in Object : object[w].phase = "gone" => object'[w].phase = "gone"
    BY <1>3, <1>7
  <1>9. CASE r # PVs
    <2>1. log'[PVs] = log[PVs]
      BY <1>3, <1>4, <1>9
    <2>2. \A v \in PV : object'[v] = object[v]
      <3>1. MembersOf(r) \cap PV = {}
        BY <1>4, <1>9, MembersDisjoint
      <3>2. QED
        BY <1>3, <1>4, <3>1
    <2>3. QED
      BY <1>4, <1>5, <1>8, <2>1, <2>2 DEF ClaimsStand
  <1>10. CASE r = PVs
    <2>1. u \in PV /\ LawfulVolume(u, s) /\ s.claim \in PVC \cup {NULL}
      BY <1>2, <1>4, <1>10 DEF Snapshot
    <2>2. log'[PVs] = log[PVs] \cup {e}
      BY <1>3, <1>10
    <2>3. /\ \A v \in PV \ {u} : object'[v] = object[v]
          /\ \A c \in PVC : object'[c] = object[c]
      BY <1>3, <1>4, <2>1
    <2>4. ASSUME s.phase = "Bound" PROVE s.claim # NULL
      BY <2>1, <2>4 DEF LawfulVolume, ClaimsStand
    <2>5. \A f \in log'[PVs] : f.phase = "Bound" => f.claim # NULL
      BY <1>3, <2>2, <2>4 DEF ClaimsStand
    <2>6. ASSUME NEW f \in log[PVs], f.claim # NULL
          PROVE  \/ object'[f.claim].phase = "gone"
                 \/ /\ object'[f.uid].phase = "Bound"
                    /\ object'[f.uid].claim = f.claim
      <3>1. f.claim \in PVC /\ f.uid \in PV
        BY <1>5, <2>6
      <3>2. CASE object[f.claim].phase = "gone"
        BY <1>4, <1>8, <3>1, <3>2
      <3>3. CASE object[f.uid].phase = "Bound" /\ object[f.uid].claim = f.claim
        <4>1. CASE f.uid # u
          BY <2>3, <3>1, <3>3, <4>1
        <4>2. CASE f.uid = u
          BY <1>3, <2>1, <2>3, <3>1, <3>3, <4>2 DEF LawfulVolume
        <4>3. QED
          BY <4>1, <4>2
      <3>4. QED
        BY <2>6, <3>2, <3>3 DEF ClaimsStand
    <2>7. ASSUME s.claim # NULL
          PROVE  \/ object'[s.claim].phase = "gone"
                 \/ s.phase = "Bound"
      <3>1. CASE s.phase = "Bound"
        BY <3>1
      <3>2. CASE s.phase # "Bound"
        <4>1. s.claim = object[u].claim
          BY <2>1, <2>7, <3>2 DEF LawfulVolume
        <4>2. PICK f \in log[PVs] : f.uid = u /\ f.claim = s.claim
          BY <2>1, <2>7, <4>1 DEF ClaimsStand
        <4>3. QED
          BY <1>3, <2>6, <2>7, <3>2, <4>2
      <3>3. QED
        BY <3>1, <3>2
    <2>8. ASSUME NEW f \in log[PVs], f.claim # NULL, f.claim = s.claim
          PROVE  f.uid = u
      <3>1. CASE s.claim = object[u].claim
        <4>1. PICK g \in log[PVs] : g.uid = u /\ g.claim = s.claim
          BY <2>1, <2>8, <3>1 DEF ClaimsStand
        <4>2. QED
          BY <2>8, <4>1 DEF ClaimsStand
      <3>2. CASE s.claim # object[u].claim
        <4>1. /\ object[s.claim].phase # "gone"
              /\ \A w \in PV : Alive(w) => object[w].claim # s.claim
          BY <2>1, <2>8, <3>2 DEF LawfulVolume
        <4>2. object[f.uid].phase = "Bound" /\ object[f.uid].claim = s.claim
          BY <2>8, <4>1 DEF ClaimsStand
        <4>3. QED
          BY <1>5, <4>1, <4>2 DEF Alive
      <3>3. QED
        BY <3>1, <3>2
    <2>9. ASSUME NEW f \in log'[PVs], f.claim # NULL
          PROVE  \/ object'[f.claim].phase = "gone"
                 \/ /\ object'[f.uid].phase = "Bound"
                    /\ object'[f.uid].claim = f.claim
      BY <1>3, <2>2, <2>6, <2>7, <2>9
    <2>10. ASSUME NEW f \in log'[PVs], NEW g \in log'[PVs],
                  f.claim # NULL, f.claim = g.claim
           PROVE  f.uid = g.uid
      <3>1. CASE f \in log[PVs] /\ g \in log[PVs]
        BY <2>10, <3>1 DEF ClaimsStand
      <3>2. CASE f = e \/ g = e
        BY <1>3, <2>2, <2>8, <2>10, <3>2
      <3>3. QED
        BY <2>2, <3>1, <3>2
    <2>11. ASSUME NEW v \in PV
           PROVE  /\ object'[v].phase = "Bound" => object'[v].claim # NULL
                  /\ object'[v].claim # NULL =>
                        \E f \in log'[PVs] :
                            f.uid = v /\ f.claim = object'[v].claim
      BY <1>3, <2>2, <2>3, <2>4 DEF ClaimsStand
    <2>12. QED
      BY <2>5, <2>9, <2>10, <2>11 DEF ClaimsStand
  <1>11. QED
    BY <1>9, <1>10

\* Steps of the cluster only add events, after all there are.
LEMMA ClusterOnlyAdds ==
    ASSUME ClusterTypeOK, ClusterNext
    PROVE  /\ index \in Nat /\ index' \in Nat /\ index <= index'
           /\ \A q \in Resource :
                /\ log[q] \subseteq log'[q]
                /\ \A f \in log'[q] \ log[q] : f.rv \in Nat /\ f.rv > index
  <1>1. index \in Nat
    BY BoundsAreNumbers DEF ClusterTypeOK
  <1>2. CASE Compact
    BY <1>1, <1>2 DEF Compact
  <1>3. CASE LawfulStep
    <2>1. PICK r \in Resource, type \in EventType :
            \E u \in MembersOf(r) : \E s \in Snapshot :
                /\ Publish(r, type, u, s)
                /\ r = "persistentvolumes" => LawfulVolume(u, s)
      BY <1>3 DEF LawfulStep
    <2>2. PICK u \in MembersOf(r), s \in Snapshot :
            /\ Publish(r, type, u, s)
            /\ u \in PV => s.source \in SourcesOf(u)
      BY <2>1, VolumesHaveSources
    <2>3. PICK e \in Event :
            /\ e.rv = index + 1 /\ index' = index + 1
            /\ log'[r] = log[r] \cup {e}
            /\ \A q \in Resource \ {r} : log'[q] = log[q]
      BY <2>2, PublishEffect
    <2>4. QED
      BY <1>1, <2>3
  <1>4. QED
    BY <1>2, <1>3, ClusterNextIsLawful

-----------------------------------------------------------------------------
(* Times and names.                                                        *)

\* What a lawful change does, in the terms of the invariants.
LEMMA LawfulEffect ==
    ASSUME ClusterTypeOK, LawfulStep
    PROVE  \E r \in Resource, u \in Object, e \in Event :
            /\ u \in MembersOf(r) /\ Lawful(e.type, u, e)
            /\ r = PVs => LawfulVolume(u, e)
            /\ r = "persistentvolumeclaims" /\ e.type = "ADDED" => LawfulName(u)
            /\ LawfulSpec(r, u, e)
            /\ e.uid = u /\ e.rv = index + 1
            /\ index' = index + 1
            /\ log'[r] = log[r] \cup {e}
            /\ \A q \in Resource \ {r} : log'[q] = log[q]
            /\ object'[u].phase = e.phase /\ object'[u].created = e.created
            /\ object'[u].spec = e.spec /\ object'[u].source = e.source
            /\ object'[u].rv = e.rv
            /\ \A w \in Object \ {u} : object'[w] = object[w]
  <1>1. PICK r \in Resource, type \in EventType :
          \E u \in MembersOf(r) : \E s \in Snapshot :
            /\ Publish(r, type, u, s) /\ Lawful(type, u, s)
            /\ r = "persistentvolumeclaims" /\ type = "ADDED" => LawfulName(u)
            /\ r = PVs => LawfulVolume(u, s)
            /\ LawfulSpec(r, u, s)
    BY DEF LawfulStep, PVs
  <1>2. PICK u \in MembersOf(r), s \in Snapshot :
            /\ Publish(r, type, u, s) /\ Lawful(type, u, s)
            /\ r = "persistentvolumeclaims" /\ type = "ADDED" => LawfulName(u)
            /\ r = PVs => LawfulVolume(u, s)
            /\ LawfulSpec(r, u, s)
            /\ u \in PV => s.source \in SourcesOf(u)
    BY <1>1, VolumesHaveSources DEF PVs
  <1>3. PICK e \in Event :
            /\ e.type = type /\ e.uid = u /\ e.rv = index + 1
            /\ e.created = s.created /\ e.claim = s.claim
            /\ e.phase = s.phase /\ e.deletion = s.deletion
            /\ e.spec = s.spec /\ e.source = s.source
            /\ index' = index + 1
            /\ log'[r] = log[r] \cup {e}
            /\ \A q \in Resource \ {r} : log'[q] = log[q]
            /\ object'[u].phase = s.phase /\ object'[u].created = s.created
            /\ object'[u].spec = s.spec /\ object'[u].source = s.source
            /\ object'[u].rv = index + 1
            /\ \A w \in Object \ {u} : object'[w] = object[w]
    BY <1>2, PublishEffect
  <1>4. Lawful(e.type, u, e) /\ u \in Object
    BY <1>2, <1>3 DEF Lawful, Resource, MembersOf, Object
  <1>5. (r = PVs => LawfulVolume(u, e)) /\ LawfulSpec(r, u, e)
    BY <1>2, <1>3 DEF LawfulVolume, LawfulSpec, SpecOf
  <1>6. QED
    BY <1>2, <1>3, <1>4, <1>5

\* The latest event of a volume's spec stays so until a later one takes its
\* place.
LEMMA LawfulKeepsLatest ==
    ASSUME ClusterTypeOK, LawfulStep, NEW v \in PV
    PROVE  \/ /\ SpecOf(object'[v]) = SpecOf(object[v])
              /\ \A f \in log[PVs] : Latest(f) /\ f.uid = v => Latest(f)'
           \/ \E f \in log'[PVs] :
                Latest(f)' /\ f.uid = v /\ f.rv = index + 1
  <1>1. PICK r \in Resource, u \in Object, e \in Event :
            /\ u \in MembersOf(r) /\ Lawful(e.type, u, e)
            /\ r = PVs => LawfulVolume(u, e)
            /\ e.uid = u /\ e.rv = index + 1
            /\ index' = index + 1
            /\ log'[r] = log[r] \cup {e}
            /\ \A q \in Resource \ {r} : log'[q] = log[q]
            /\ SpecOf(object'[u]) = SpecOf(e)
            /\ \A w \in Object \ {u} : object'[w] = object[w]
    BY LawfulEffect DEF SpecOf
  <1>2. PVs \in Resource /\ MembersOf(PVs) = PV /\ v \in Object
    BY DEF PVs, Resource, MembersOf, Object
  <1>3. index \in Nat /\ \A f \in log[PVs] : f.rv \in 1..index
    BY <1>2, BoundsAreNumbers DEF ClusterTypeOK
  <1>4. CASE u # v
    <2>1. object'[v] = object[v] /\ \A f \in log'[PVs] : f.uid = v => f \in log[PVs]
      BY <1>1, <1>2, <1>4
    <2>2. log[PVs] \subseteq log'[PVs]
      BY <1>1, <1>2
    <2>3. QED
      BY <2>1, <2>2 DEF Latest
  <1>5. CASE u = v
    <2>1. r = PVs /\ log'[PVs] = log[PVs] \cup {e}
      BY <1>1, <1>2, <1>5, MembersDisjoint
    <2>2. CASE Renews(e)
      <3>1. \A h \in log'[PVs] : h.rv <= e.rv
        BY <1>1, <1>3, <2>1
      <3>2. QED
        BY <1>1, <1>5, <2>1, <2>2, <3>1 DEF Latest
    <2>3. CASE ~Renews(e)
      <3>1. e.type \in EventType
        BY DEF Event
      <3>2. SpecOf(e) = SpecOf(object[v])
        BY <1>1, <1>5, <2>1, <2>3, <3>1 DEF Lawful, LawfulVolume, EventType, Renews, Alive
      <3>3. QED
        BY <1>1, <1>5, <2>1, <2>3, <3>2 DEF Latest
    <2>4. QED
      BY <2>2, <2>3
  <1>6. QED
    BY <1>4, <1>5

LEMMA LawfulKeepsSpecs ==
    ASSUME ClusterTypeOK, SpecsStand, LawfulStep
    PROVE  SpecsStand'
  <1> SUFFICES ASSUME NEW e \in log'[PVs],
                      SpecOf(e) # SpecOf(object'[e.uid])
               PROVE  \E f \in log'[PVs] : Latest(f)' /\ f.uid = e.uid /\ e.rv < f.rv
    BY DEF SpecsStand
  <1>1. PICK r \in Resource, n \in Event :
            /\ n.rv = index + 1
            /\ log'[r] = log[r] \cup {n}
            /\ \A q \in Resource \ {r} : log'[q] = log[q]
            /\ SpecOf(object'[n.uid]) = SpecOf(n)
    BY LawfulEffect DEF SpecOf
  <1>2. PVs \in Resource /\ MembersOf(PVs) = PV
    BY DEF PVs, Resource, MembersOf
  <1>3. index \in Nat /\ \A f \in log[PVs] : f.rv \in 1..index /\ f.uid \in PV
    BY <1>2, BoundsAreNumbers DEF ClusterTypeOK
  <1>4. e \in log[PVs] /\ log[PVs] \subseteq log'[PVs]
    BY <1>1, <1>2
  <1>5. CASE \E f \in log'[PVs] : Latest(f)' /\ f.uid = e.uid /\ f.rv = index + 1
    BY <1>3, <1>4, <1>5
  <1>6. CASE /\ SpecOf(object'[e.uid]) = SpecOf(object[e.uid])
             /\ \A f \in log[PVs] : Latest(f) /\ f.uid = e.uid => Latest(f)'
    BY <1>4, <1>6 DEF SpecsStand
  <1>7. QED
    BY <1>3, <1>4, <1>5, <1>6, LawfulKeepsLatest

\* Objects come and go once and keep their creation time; the clock does not
\* go back.
LEMMA ClusterKeepsObjects ==
    ASSUME ClusterTypeOK, LogStands, LogTrue, ClusterNext
    PROVE  /\ \A u \in Object :
                /\ object[u].phase # "absent" =>
                    /\ object'[u].phase # "absent"
                    /\ object'[u].created = object[u].created
                /\ object[u].phase = "gone" => object'[u].phase = "gone"
           /\ Now \in Nat /\ Now' \in Nat /\ Now <= Now'
  <1>1. index \in Nat
    BY BoundsAreNumbers DEF ClusterTypeOK
  <1>2. CASE Compact
    BY <1>1, <1>2, StampIsNat DEF Compact, Now
  <1>3. CASE LawfulStep
    <2>1. PICK r \in Resource, u \in Object, e \in Event :
            /\ u \in MembersOf(r) /\ Lawful(e.type, u, e)
            /\ index' = index + 1
            /\ object'[u].phase = e.phase /\ object'[u].created = e.created
            /\ \A w \in Object \ {u} : object'[w] = object[w]
      BY <1>3, LawfulEffect
    <2>2. Now \in Nat /\ Now' \in Nat /\ Now <= Now'
      BY <1>1, <2>1, StampIsNat, StampMonotone DEF Now
    <2>3. e.type \in EventType
      BY DEF Event
    <2>4. QED
      BY <2>1, <2>2, <2>3 DEF Lawful, EventType, Alive
  <1>4. QED
    BY <1>2, <1>3, ClusterNextIsLawful

\* The times of the log stay true.
LEMMA ClusterKeepsTrue ==
    ASSUME ClusterTypeOK, LogStands, LogTrue, ClusterNext
    PROVE  LogTrue'
  <1>1. index \in Nat
    BY BoundsAreNumbers DEF ClusterTypeOK
  <1>2. CASE Compact
    BY <1>1, <1>2 DEF Compact, LogTrue, Now
  <1>3. CASE LawfulStep
    <2>1. PICK r \in Resource, u \in Object, e \in Event :
            /\ u \in MembersOf(r) /\ Lawful(e.type, u, e)
            /\ e.uid = u /\ e.rv = index + 1
            /\ index' = index + 1
            /\ log'[r] = log[r] \cup {e}
            /\ \A q \in Resource \ {r} : log'[q] = log[q]
            /\ object'[u].phase = e.phase /\ object'[u].created = e.created
            /\ \A w \in Object \ {u} : object'[w] = object[w]
      BY <1>3, LawfulEffect
    <2>2. /\ \A w \in Object : object[w].phase # "absent" =>
                object'[w].created = object[w].created
          /\ Now \in Nat /\ Now' \in Nat /\ Now <= Now' /\ Now' = Stamp(index + 1)
      BY <2>1, ClusterKeepsObjects DEF Now
    <2>3. e.type \in EventType /\ u \in Object
      BY DEF Event, Resource, MembersOf, Object
    <2>4. \A q \in Resource : \A f \in log[q] :
            /\ f.uid \in MembersOf(q) /\ f.uid \in Object /\ f.rv \in 1..index
            /\ object[f.uid].phase # "absent"
      BY DEF ClusterTypeOK, LogStands, InOrder, Event
    <2>5. ASSUME NEW q \in Resource, NEW f \in log'[q]
          PROVE  /\ f.created = object'[f.uid].created
                 /\ f.type = "DELETED" =>
                    /\ f.deletion \in {NULL, Stamp(f.rv)}
                    /\ \A g \in log'[q] : g.uid = f.uid => g.rv <= f.rv
      <3>1. CASE f \in log[q]
        <4>1. f.created = object'[f.uid].created
          BY <2>2, <2>4, <3>1 DEF LogTrue
        <4>2. ASSUME f.type = "DELETED", NEW g \in log'[q], g.uid = f.uid
              PROVE  g \in log[q]
          <5>1. object[f.uid].phase = "gone"
            BY <3>1, <4>2 DEF LogStands, InOrder
          <5>2. object[u].phase # "gone"
            BY <2>1, <2>3 DEF Lawful, EventType, Alive
          <5>3. QED
            BY <2>1, <4>2, <5>1, <5>2
        <4>3. QED
          BY <3>1, <4>1, <4>2 DEF LogTrue
      <3>2. CASE f \notin log[q]
        <4>1. q = r /\ f = e
          BY <2>1, <3>2
        <4>2. \A g \in log'[q] : g.rv <= e.rv
          BY <1>1, <2>1, <2>4, <4>1
        <4>3. e.type = "DELETED" => e.deletion \in {NULL, Stamp(e.rv)}
          BY <2>1 DEF Lawful
        <4>4. QED
          BY <2>1, <4>1, <4>2, <4>3
      <3>3. QED
        BY <3>1, <3>2
    <2>6. ASSUME NEW w \in Object, object'[w].created # NULL
          PROVE  object'[w].phase # "absent" /\ object'[w].created <= Now'
      <3>1. CASE w # u
        <4>1. object'[w] = object[w]
          BY <2>1, <3>1
        <4>2. object[w].created \in Nat
          BY <2>6, <4>1 DEF ClusterTypeOK, Snapshot, Time
        <4>3. QED
          BY <2>2, <2>6, <4>1, <4>2 DEF LogTrue
      <3>2. CASE w = u /\ e.type = "ADDED"
        BY <2>1, <2>2, <3>2 DEF Lawful
      <3>3. CASE w = u /\ e.type # "ADDED"
        <4>1. /\ object'[w].created = object[w].created
              /\ object'[w].phase # "absent"
          BY <2>1, <2>3, <3>3 DEF Lawful, EventType
        <4>2. object[w].created \in Nat
          BY <2>6, <4>1 DEF ClusterTypeOK, Snapshot, Time
        <4>3. QED
          BY <2>2, <2>6, <4>1, <4>2 DEF LogTrue
      <3>4. QED
        BY <3>1, <3>2, <3>3
    <2>7. QED
      BY <2>5, <2>6 DEF LogTrue
  <1>4. QED
    BY <1>2, <1>3, ClusterNextIsLawful

\* Names stay unique.
LEMMA ClusterKeepsNames ==
    ASSUME ClusterTypeOK, LogStands, LogTrue, NamesStand, ClusterNext
    PROVE  NamesStand'
  <1> DEFINE claims == "persistentvolumeclaims"
  <1>1. /\ index \in Nat
        /\ claims \in Resource /\ MembersOf(claims) = PVC /\ PVC \subseteq Object
    BY BoundsAreNumbers DEF ClusterTypeOK, Resource, MembersOf, Object
  <1>2. CASE Compact
    BY <1>2 DEF Compact, NamesStand, Precedes, Alive
  <1>3. CASE LawfulStep
    <2>1. PICK r \in Resource, u \in Object, e \in Event :
            /\ u \in MembersOf(r) /\ Lawful(e.type, u, e)
            /\ r = "persistentvolumeclaims" /\ e.type = "ADDED" => LawfulName(u)
            /\ e.uid = u /\ e.rv = index + 1
            /\ index' = index + 1
            /\ log'[r] = log[r] \cup {e}
            /\ \A q \in Resource \ {r} : log'[q] = log[q]
            /\ object'[u].phase = e.phase /\ object'[u].created = e.created
            /\ \A w \in Object \ {u} : object'[w] = object[w]
      BY <1>3, LawfulEffect
    <2>2. e.type \in EventType
      BY DEF Event
    <2>3. log[claims] \subseteq log'[claims]
          /\ \A f \in log'[claims] \ log[claims] : f = e /\ r = claims
      BY <1>1, <2>1
    <2> SUFFICES ASSUME NEW c \in PVC, NEW d \in PVC,
                        c # d, NameOf[c] = NameOf[d],
                        NamespaceOf[c] = NamespaceOf[d],
                        Alive(c)', object'[d].phase # "absent"
                 PROVE  Precedes(d, c)'
      BY DEF NamesStand
    <2>4. u \in PVC => r = claims
      BY <1>1, <2>1, MembersDisjoint
    <2>5. CASE u # c /\ u # d
      <3>1. object'[c] = object[c] /\ object'[d] = object[d]
        BY <1>1, <2>1, <2>5
      <3>2. Precedes(d, c)
        BY <3>1 DEF NamesStand, Alive
      <3>3. QED
        BY <2>1, <2>3, <2>5, <3>1, <3>2 DEF Precedes
    <2>6. CASE u = c
      <3>1. object'[d] = object[d] /\ object'[c].created = e.created
        BY <1>1, <2>1, <2>6
      <3>2. \A f \in log[claims] : f.rv \in Nat /\ f.rv < e.rv
        BY <1>1, <2>1 DEF ClusterTypeOK
      <3>3. CASE e.type = "ADDED"
        <4>1. object[d].phase = "gone"
          BY <2>1, <2>4, <2>6, <3>1, <3>3 DEF LawfulName, Alive
        <4>2. object[d].created # NULL
          BY <1>1, <4>1 DEF LogStands, InOrder
        <4>3. object[d].created \in Nat /\ object[d].created <= Now
          BY <1>1, <4>2 DEF ClusterTypeOK, Snapshot, Time, LogTrue
        <4>4. e.created = Now' /\ Now \in Nat /\ Now' \in Nat /\ Now <= Now'
          BY <2>1, <3>3, ClusterKeepsObjects DEF Lawful, Now
        <4>5. object'[d].created <= object'[c].created
          BY <3>1, <4>3, <4>4
        <4>6. PICK del \in log[claims] : del.uid = d /\ del.type = "DELETED"
          BY <1>1, <4>1 DEF LogStands, InOrder
        <4>7. \A f \in log[claims] : f.uid # c
          BY <1>1, <2>1, <2>6, <3>3 DEF Lawful, LogStands, InOrder
        <4>8. \A f \in log'[claims] : f.uid = c => del.rv < f.rv
          BY <2>3, <3>2, <4>6, <4>7
        <4>9. QED
          BY <2>3, <3>1, <4>1, <4>5, <4>6, <4>8 DEF Precedes
      <3>4. CASE e.type # "ADDED"
        <4>1. Alive(c) /\ e.created = object[c].created
          BY <2>1, <2>6, <3>4 DEF Lawful
        <4>2. Precedes(d, c)
          BY <3>1, <4>1 DEF NamesStand
        <4>3. PICK del \in log[claims] :
                /\ del.uid = d /\ del.type = "DELETED"
                /\ \A f \in log[claims] : f.uid = c => del.rv < f.rv
          BY <4>2 DEF Precedes
        <4>4. \A f \in log'[claims] : f.uid = c => del.rv < f.rv
          BY <2>3, <3>2, <4>3
        <4>5. QED
          BY <2>3, <3>1, <4>1, <4>2, <4>3, <4>4 DEF Precedes
      <3>5. QED
        BY <3>3, <3>4
    <2>7. CASE u = d
      <3>1. object'[c] = object[c] /\ Alive(c)
        BY <1>1, <2>1, <2>7 DEF Alive
      <3>2. CASE e.type = "ADDED"
        BY <2>1, <2>4, <2>7, <3>1, <3>2 DEF LawfulName
      <3>3. CASE e.type # "ADDED"
        BY <2>1, <2>7, <3>1, <3>3 DEF Lawful, NamesStand, Alive, Precedes
      <3>4. QED
        BY <3>2, <3>3
    <2>8. QED
      BY <2>5, <2>6, <2>7
  <1>4. QED
    BY <1>2, <1>3, ClusterNextIsLawful
=============================================================================
