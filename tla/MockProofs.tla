------------------------------ MODULE MockProofs ------------------------------
(***************************************************************************)
(* The invariants of MockTracker for every cluster and every schedule: its *)
(* maps converge (MapsConverge), no update is made of a missing entry      *)
(* (UpdatesFindEntries), and the count of deletions, though unlocked, is   *)
(* zero only when there were none (DeletionsSeen).                          *)
(***************************************************************************)
EXTENDS MockInvariant, TrackerProofs

\* The endpoint of claims.
PVCs == "persistentvolumeclaims"

LEMMA Endpoints ==
    /\ PVCs \in Resource /\ MembersOf(PVCs) = PVC /\ PVC \subseteq Object
    /\ PVs \in Resource /\ MembersOf(PVs) = PV /\ PV \subseteq Object
    /\ "pods" \in Resource /\ MembersOf("pods") = Pod /\ Pod \subseteq Object
    /\ PVCs # PVs /\ PVCs # "pods" /\ PVs # "pods"
    /\ \A r \in Resource : MembersOf(r) \subseteq Object
  BY DEF PVCs, PVs, Resource, MembersOf, Object

\* What the watch of r is still to bring are events about objects of r.
LEMMA QueueType ==
    ASSUME TypeOK, NEW r \in Resource, NEW e \in Queue(r)
    PROVE  /\ e \in Event /\ e.uid \in MembersOf(r) /\ e.uid \in Object
           /\ e.rv \in Nat /\ e.spec \in Nat /\ e.spec # NULL
           /\ e.type \in EventType
  <1>1. e \in log[r] \/ e \in listing[r]
    BY DEF Queue
  <1>2. e \in Event /\ e.uid \in MembersOf(r)
    BY <1>1 DEF TypeOK, ClusterTypeOK
  <1>3. QED
    BY <1>2, NullIsNoNumber DEF Event

\* A watch offers the first of the queue; listed objects come before events.
LEMMA OfferedIsFirst ==
    ASSUME TypeOK, WatchesStand, ListsTold, NEW r \in Resource,
           NEW e \in Offered(r)
    PROVE  /\ e \in Queue(r)
           /\ cursor[r] \in Nat /\ index \in Nat
           /\ \/ /\ e \in listing[r] /\ e.type = "ADDED" /\ e.rv <= cursor[r]
              \/ /\ listing[r] = {} /\ e \in log[r] /\ e.rv > cursor[r]
                 /\ \A f \in log[r] : f.rv > cursor[r] => e.rv <= f.rv
  <1>1. cursor[r] \in Nat /\ index \in Nat
    BY BoundsAreNumbers DEF TypeOK, ClusterTypeOK
  <1>2. CASE listing[r] # {}
    BY <1>1, <1>2 DEF Offered, Queue, ListsTold
  <1>3. CASE listing[r] = {}
    BY <1>1, <1>3 DEF Offered, Queue
  <1>4. QED
    BY <1>2, <1>3

\* Dealing with what is offered takes it, and nothing else, from the queue.
LEMMA ConsumeTakes ==
    ASSUME TypeOK, LogOrdered, WatchesStand, ListsTold, NEW r \in Resource,
           NEW e \in Offered(r), Consume(r, e), UNCHANGED log
    PROVE  /\ Queue(r)' = Queue(r) \ {e}
           /\ \A q \in Resource \ {r} :
                listing'[q] = listing[q] /\ cursor'[q] = cursor[q]
           /\ cursor'[r] \in Nat /\ cursor'[r] >= cursor[r]
           /\ cursor'[r] = cursor[r] \/ (cursor'[r] = e.rv /\ listing[r] = {})
           /\ listing'[r] = listing[r] \ {e}
  <1>1. /\ listing'[r] = listing[r] \ {e}
        /\ cursor'[r] = IF e.rv > cursor[r] THEN e.rv ELSE cursor[r]
        /\ \A q \in Resource \ {r} :
                listing'[q] = listing[q] /\ cursor'[q] = cursor[q]
    BY DEF Consume, TypeOK
  <1>2. e \in Queue(r) /\ e.rv \in Nat /\ cursor[r] \in Nat
    BY OfferedIsFirst, QueueType
  <1>3. \A f \in log[r] : f.rv \in Nat
    BY DEF TypeOK, ClusterTypeOK, Event
  <1>4. CASE e \in listing[r] /\ e.rv <= cursor[r]
    <2>1. cursor'[r] = cursor[r]
      BY <1>1, <1>2, <1>4
    <2>2. QED
      BY <1>1, <1>2, <1>4, <2>1 DEF Queue
  <1>5. CASE /\ listing[r] = {} /\ e \in log[r] /\ e.rv > cursor[r]
             /\ \A f \in log[r] : f.rv > cursor[r] => e.rv <= f.rv
    <2>1. cursor'[r] = e.rv /\ listing'[r] = {}
      BY <1>1, <1>5
    <2>2. \A f \in log[r] : f.rv > e.rv <=> f.rv > cursor[r] /\ f # e
      BY <1>2, <1>3, <1>5 DEF LogOrdered
    <2>3. QED
      BY <1>1, <1>2, <1>5, <2>1, <2>2 DEF Queue
  <1>6. QED
    BY <1>4, <1>5, OfferedIsFirst

-----------------------------------------------------------------------------
(* Steps of a goroutine.                                                   *)

\* What a goroutine does to the map when it has handled e, or stored it.
Effect(r, e) ==
    /\ \A u \in Object \ {e.uid} : ForUID'[u] = ForUID[u]
    /\ \/ Writes(r, e) /\ ForUID'[e.uid] = e.spec
       \/ e.type = "DELETED" /\ ForUID'[e.uid] = NULL
       \/ /\ ~Writes(r, e) /\ e.type # "DELETED"
          /\ ForUID'[e.uid] = ForUID[e.uid]

\* Before it has stored a volume, all of the queue is to come.
LEMMA AllIsComing ==
    ASSUME NEW r \in Resource, pc[r] # "bind"
    PROVE  Coming(r) = Queue(r)
  BY DEF Coming

\* An old write is followed by the present one; one of an object that is gone
\* by its deletion.
LEMMA WriteIsFollowed ==
    ASSUME TypeOK, LogOrdered, SpecsTold, ListsTold, WatchesStand,
           NEW r \in Resource, NEW e \in Queue(r), Writes(r, e)
    PROVE  /\ object[e.uid].phase # "absent"
           /\ e.spec # object[e.uid].spec =>
                \E f \in Queue(r) : Tells(r, f) /\ f.uid = e.uid /\ f # e
           /\ object[e.uid].phase = "gone" =>
                \E d \in Queue(r) : d.uid = e.uid /\ d.type = "DELETED"
  <1>1. e.rv \in Nat /\ e.uid \in MembersOf(r) /\ cursor[r] \in Nat
    BY QueueType DEF TypeOK
  <1>2. \A f \in log[r] : f.rv \in Nat
    BY DEF TypeOK, ClusterTypeOK, Event
  <1>3. CASE e \in listing[r]
    <2>1. object[e.uid].phase # "absent"
      BY <1>3 DEF ListsTold
    <2>2. e.spec # object[e.uid].spec =>
            \E f \in Queue(r) : Tells(r, f) /\ f.uid = e.uid /\ f # e
      BY <1>3 DEF ListsTold, Queue, Tells
    <2>3. object[e.uid].phase = "gone" =>
            \E d \in Queue(r) : d.uid = e.uid /\ d.type = "DELETED"
      BY <1>3 DEF ListsTold, Queue
    <2>4. QED
      BY <2>1, <2>2, <2>3
  <1>4. CASE e \in log[r] /\ e.rv > cursor[r]
    <2>1. object[e.uid].phase # "absent"
      BY <1>4 DEF LogOrdered
    <2>2. ASSUME e.spec # object[e.uid].spec
          PROVE  \E f \in Queue(r) : Tells(r, f) /\ f.uid = e.uid /\ f # e
      <3>1. PICK f \in log[r] : Tells(r, f) /\ f.uid = e.uid /\ e.rv < f.rv
        BY <1>4, <2>2 DEF SpecsTold
      <3>2. f.rv > cursor[r] /\ f # e
        BY <1>1, <1>2, <1>4, <3>1
      <3>3. QED
        BY <3>1, <3>2 DEF Queue
    <2>3. ASSUME object[e.uid].phase = "gone"
          PROVE  \E d \in Queue(r) : d.uid = e.uid /\ d.type = "DELETED"
      <3>1. PICK d \in log[r] : d.uid = e.uid /\ d.type = "DELETED"
        BY <1>1, <2>3 DEF LogOrdered
      <3>2. e.rv <= d.rv
        BY <1>4, <3>1 DEF LogOrdered
      <3>3. d.rv > cursor[r]
        BY <1>1, <1>2, <1>4, <3>1, <3>2
      <3>4. QED
        BY <3>1, <3>3 DEF Queue
    <2>4. QED
      BY <2>1, <2>2, <2>3
  <1>5. QED
    BY <1>3, <1>4 DEF Queue

\* The entries of a resource whose queue, map and objects do not change.
LEMMA EntriesUntouched ==
    ASSUME EntriesStand, TypeOK, NEW q \in Resource,
           Connected(q)' => Connected(q),
           Coming(q)' = Coming(q), missed[q] \subseteq missed'[q],
           \A u \in MembersOf(q) :
                ForUID'[u] = ForUID[u] /\ object'[u] = object[u]
    PROVE  EntriesOf(q)'
  <1>1. EntriesOf(q)
    BY DEF EntriesStand
  <1>2. ASSUME NEW e \in Coming(q)
        PROVE  e.uid \in MembersOf(q) /\ (Tells(q, e) <=> Tells(q, e)')
    <2>1. e.uid \in MembersOf(q)
      BY QueueType DEF Coming
    <2>2. QED
      BY <2>1 DEF Tells, Writes
  <1>3. \A u \in MembersOf(q) : Alive(u)' <=> Alive(u)
    BY DEF Alive
  <1>4. SUFFICES ASSUME Connected(q)'
                 PROVE  EntriesOf(q)'
    BY DEF EntriesOf
  <1>5. Connected(q)
    BY <1>4
  <1>6. ASSUME NEW u \in MembersOf(q)
        PROVE  /\ Alive(u)' =>
                    \/ ForUID'[u] = object'[u].spec
                    \/ \E e \in Coming(q)' : e.uid = u /\ Tells(q, e)'
               /\ ForUID'[u] # NULL =>
                    \/ Alive(u)' \/ u \in missed'[q]
                    \/ \E d \in Coming(q)' : d.uid = u /\ d.type = "DELETED"
    BY <1>1, <1>2, <1>3, <1>5 DEF EntriesOf
  <1>7. ASSUME NEW e \in Coming(q)', Writes(q, e)'
        PROVE  \/ e.type = "ADDED"
               \/ ForUID'[e.uid] # NULL
               \/ \E a \in Coming(q)' :
                    a.uid = e.uid /\ a.type = "ADDED" /\ a.rv < e.rv
    BY <1>1, <1>2, <1>5, <1>7 DEF EntriesOf, Writes
  <1>8. QED
    BY <1>6, <1>7 DEF EntriesOf

\* Handling what is offered keeps the map of the resource on its way.
LEMMA EffectKeeps ==
    ASSUME TypeOK, LogOrdered, SpecsTold, ListsTold, WatchesStand, EntriesStand,
           NEW r \in Resource, Connected(r), pc[r] # "bind",
           NEW e \in Offered(r), Effect(r, e), Coming(r)' = Queue(r) \ {e},
           UNCHANGED <<log, object, missed>>
    PROVE  /\ EntriesOf(r)'
           /\ \A u \in MembersOf(r) :
                ForUID'[u] # NULL => object[u].phase # "absent"
  <1> DEFINE w == e.uid
  <1>1. /\ e \in Queue(r) /\ w \in MembersOf(r) /\ w \in Object
        /\ e.spec # NULL /\ e.rv \in Nat /\ MembersOf(r) \subseteq Object
    BY OfferedIsFirst, QueueType, Endpoints
  <1>2. /\ EntriesOf(r) /\ Coming(r) = Queue(r)
        /\ \A u \in Object : ForUID[u] # NULL => object[u].phase # "absent"
    BY AllIsComing DEF EntriesStand
  <1>3. /\ \A u \in MembersOf(r) : Alive(u)' <=> Alive(u)
        /\ \A f \in Queue(r) : Tells(r, f)' <=> Tells(r, f)
        /\ \A f \in Queue(r) : Writes(r, f)' <=> Writes(r, f)
    BY DEF Alive, Tells, Writes
  <1>4. Writes(r, e) =>
            /\ object[w].phase # "absent"
            /\ e.spec # object[w].spec =>
                \E f \in Queue(r) : Tells(r, f) /\ f.uid = w /\ f # e
            /\ object[w].phase = "gone" =>
                \E d \in Queue(r) : d.uid = w /\ d.type = "DELETED"
    BY <1>1, WriteIsFollowed
  <1>5. e.type = "DELETED" =>
            /\ e \in log[r] /\ e.rv > cursor[r] /\ listing[r] = {}
            /\ object[w].phase = "gone"
            /\ \A f \in Queue(r) : e.rv <= f.rv /\ (f.uid = w => f = e)
    <2> SUFFICES ASSUME e.type = "DELETED"
                 PROVE  /\ e \in log[r] /\ e.rv > cursor[r] /\ listing[r] = {}
                        /\ object[w].phase = "gone"
                        /\ \A f \in Queue(r) :
                            e.rv <= f.rv /\ (f.uid = w => f = e)
      OBVIOUS
    <2>1. /\ e \in log[r] /\ e.rv > cursor[r] /\ listing[r] = {}
          /\ \A f \in log[r] : f.rv > cursor[r] => e.rv <= f.rv
      BY OfferedIsFirst
    <2>2. object[w].phase = "gone" /\ \A f \in log[r] : f.uid = w => f.rv <= e.rv
      BY <2>1 DEF LogOrdered
    <2>3. ASSUME NEW f \in Queue(r)
          PROVE  e.rv <= f.rv /\ (f.uid = w => f = e)
      <3>1. f \in log[r] /\ f.rv > cursor[r] /\ f.rv \in Nat
        BY <2>1, QueueType DEF Queue
      <3>2. f.uid = w => f.rv = e.rv
        BY <1>1, <2>1, <2>2, <3>1
      <3>3. QED
        BY <2>1, <3>1, <3>2 DEF LogOrdered
    <2>4. QED
      BY <2>1, <2>2, <2>3
  <1>6. ~(Writes(r, e) /\ e.type = "DELETED")
    BY DEF Writes
  <1> HIDE DEF w
  <1>7. ASSUME NEW u \in MembersOf(r)
        PROVE  /\ Alive(u)' =>
                    \/ ForUID'[u] = object'[u].spec
                    \/ \E f \in Coming(r)' : f.uid = u /\ Tells(r, f)'
               /\ ForUID'[u] # NULL =>
                    \/ Alive(u)' \/ u \in missed'[r]
                    \/ \E d \in Coming(r)' : d.uid = u /\ d.type = "DELETED"
               /\ ForUID'[u] # NULL => object[u].phase # "absent"
    <2>1. CASE u # w
      <3>1. ForUID'[u] = ForUID[u] /\ u \in Object
        BY <1>1, <2>1 DEF Effect, w
      <3>2. \A f \in Queue(r) : f.uid = u => f \in Coming(r)'
        BY <2>1 DEF w
      <3>3. QED
        BY <1>2, <1>3, <3>1, <3>2 DEF EntriesOf
    <2>2. CASE u = w /\ Writes(r, e)
      <3>1. ForUID'[u] = e.spec
        BY <1>6, <2>2 DEF Effect, w
      <3>2. CASE e.spec = object[w].spec
        <4>1. object[u].phase = "gone" =>
                \E d \in Coming(r)' : d.uid = u /\ d.type = "DELETED"
          BY <1>4, <1>6, <2>2
        <4>2. QED
          BY <1>3, <1>4, <2>2, <3>1, <3>2, <4>1 DEF Alive
      <3>3. CASE e.spec # object[w].spec
        <4>1. object[u].phase = "gone" =>
                \E d \in Coming(r)' : d.uid = u /\ d.type = "DELETED"
          BY <1>4, <1>6, <2>2
        <4>2. \E f \in Coming(r)' : f.uid = u /\ Tells(r, f)'
          BY <1>3, <1>4, <2>2, <3>3
        <4>3. QED
          BY <1>4, <2>2, <4>1, <4>2 DEF Alive
      <3>4. QED
        BY <3>2, <3>3
    <2>3. CASE u = w /\ e.type = "DELETED"
      BY <1>1, <1>3, <1>5, <1>6, <2>3 DEF Effect, Alive, w
    <2>4. CASE u = w /\ ~Writes(r, e) /\ e.type # "DELETED"
      <3>1. ForUID'[u] = ForUID[u]
        BY <2>4 DEF Effect, w
      <3>2. \A f \in Queue(r) :
                Tells(r, f) \/ f.type = "DELETED" => f \in Coming(r)'
        BY <2>4 DEF Tells
      <3>3. QED
        BY <1>1, <1>2, <1>3, <3>1, <3>2 DEF EntriesOf
    <2>5. QED
      BY <2>1, <2>2, <2>3, <2>4
  <1>8. ASSUME NEW f \in Coming(r)', Writes(r, f)', f.type # "ADDED"
        PROVE  \/ ForUID'[f.uid] # NULL
               \/ \E a \in Coming(r)' :
                    a.uid = f.uid /\ a.type = "ADDED" /\ a.rv < f.rv
    <2>1. f \in Queue(r) /\ f # e /\ Writes(r, f)
      BY <1>3, <1>8
    <2>2. f.uid \in Object
      BY <2>1, QueueType
    <2>3. CASE f.uid = w /\ Writes(r, e)
      BY <1>1, <1>6, <2>3 DEF Effect, w
    <2>4. CASE f.uid = w /\ e.type = "DELETED"
      BY <1>5, <2>1, <2>4
    <2>5. CASE \/ f.uid # w
               \/ ~Writes(r, e) /\ e.type # "DELETED"
      <3>1. ForUID'[f.uid] = ForUID[f.uid]
        BY <2>2, <2>5 DEF Effect, w
      <3>2. \/ ForUID[f.uid] # NULL
            \/ \E a \in Queue(r) :
                    a.uid = f.uid /\ a.type = "ADDED" /\ a.rv < f.rv
        BY <1>2, <1>8, <2>1 DEF EntriesOf
      <3>3. \A a \in Queue(r) :
                a.uid = f.uid /\ a.type = "ADDED" => a \in Coming(r)'
        BY <2>5 DEF Writes, w
      <3>4. QED
        BY <3>1, <3>2, <3>3
    <2>6. QED
      BY <2>3, <2>4, <2>5
  <1>9. QED
    BY <1>7, <1>8 DEF EntriesOf

-----------------------------------------------------------------------------
(* The part of the invariant that is about the maps.                       *)

MapInv ==
    /\ TypeOK /\ LogOrdered /\ SpecsTold /\ WatchesStand /\ ListsTold
    /\ InHandStands /\ EntriesStand

\* While the cluster stands still, so does what is known of it.
LEMMA ClusterStands ==
    ASSUME LogOrdered, SpecsTold, UNCHANGED clusterVars
    PROVE  LogOrdered' /\ SpecsTold'
  <1>1. index' = index /\ object' = object /\ log' = log
    BY DEF clusterVars
  <1>2. LogOrdered'
    BY <1>1 DEF LogOrdered, Alive
  <1>3. SpecsTold'
    BY <1>1 DEF SpecsTold, Tells, Writes
  <1>4. QED
    BY <1>2, <1>3

\* Dealing with what is offered keeps cursors and lists in order.
LEMMA ConsumeStands ==
    ASSUME TypeOK, LogOrdered, WatchesStand, ListsTold, NEW r \in Resource,
           NEW e \in Offered(r), Consume(r, e),
           \A q \in Resource : Connected(q)' <=> Connected(q), Connected(r),
           UNCHANGED <<clusterVars, resource_version, rv>>
    PROVE  WatchesStand' /\ ListsTold'
  <1>1. index' = index /\ object' = object /\ log' = log
    BY DEF clusterVars
  <1>2. /\ \A q \in Resource \ {r} :
                listing'[q] = listing[q] /\ cursor'[q] = cursor[q]
        /\ cursor'[r] = cursor[r] \/ (cursor'[r] = e.rv /\ listing[r] = {})
        /\ listing'[r] = listing[r] \ {e}
    BY <1>1, ConsumeTakes
  <1>3. listing[r] = {} => e.rv <= index
    BY OfferedIsFirst DEF TypeOK, ClusterTypeOK, Offered
  <1>4. WatchesStand'
    BY <1>1, <1>2, <1>3 DEF WatchesStand
  <1>5. \A q \in Resource : \A l \in listing'[q] :
            l \in listing[q] /\ cursor'[q] = cursor[q]
    BY <1>2
  <1>6. ListsTold'
    BY <1>1, <1>5 DEF ListsTold, Tells, Writes
  <1>7. QED
    BY <1>4, <1>6

\* An update finds its entry: what is offered first has none before it.
LEMMA FirstHasEntry ==
    ASSUME MapInv, NEW r \in Resource, Connected(r), pc[r] # "bind",
           NEW e \in Offered(r), Writes(r, e), e.type # "ADDED"
    PROVE  ForUID[e.uid] # NULL
  <1>1. e \in Queue(r) /\ Coming(r) = Queue(r) /\ e.rv \in Nat
    BY OfferedIsFirst, AllIsComing, QueueType DEF MapInv
  <1>2. ASSUME NEW a \in Queue(r), a.rv < e.rv
        PROVE  FALSE
    <2>1. /\ listing[r] = {}
          /\ \A f \in log[r] : f.rv > cursor[r] => e.rv <= f.rv
      BY OfferedIsFirst DEF MapInv
    <2>2. a \in log[r] /\ a.rv > cursor[r] /\ a.rv \in Nat
      BY <2>1, QueueType DEF Queue, MapInv
    <2>3. QED
      BY <1>1, <1>2, <2>1, <2>2
  <1>3. QED
    BY <1>1, <1>2 DEF MapInv, EntriesStand, EntriesOf

\* Goroutines other than that of r have the same queue as before.
LEMMA OthersKeepQueues ==
    ASSUME MapInv, NEW r \in Resource,
           UNCHANGED <<clusterVars, missed>>,
           \A q \in Resource \ {r} :
                /\ pc'[q] = pc[q] /\ cursor'[q] = cursor[q]
                /\ listing'[q] = listing[q]
                /\ \A u \in MembersOf(q) : ForUID'[u] = ForUID[u],
           r # PVs => event' = event
    PROVE  /\ \A q \in Resource \ {r} : EntriesOf(q)'
           /\ r # PVs => InHandStands'
  <1>1. object' = object /\ log' = log /\ missed' = missed
    BY DEF clusterVars
  <1>2. ASSUME NEW q \in Resource \ {r}
        PROVE  EntriesOf(q)'
    <2>1. (Connected(q)' <=> Connected(q)) /\ Queue(q)' = Queue(q)
      BY <1>1 DEF Connected, Queue
    <2>2. Coming(q)' = Coming(q)
      BY <2>1 DEF Coming
    <2>3. QED
      BY <1>1, <2>1, <2>2, EntriesUntouched DEF MapInv
  <1>3. r # PVs => InHandStands'
    BY <1>1, Endpoints DEF MapInv, InHandStands, Offered, Writes
  <1>4. QED
    BY <1>2, <1>3

\* An event has one object, of its own resource.
LEMMA EffectIsLocal ==
    ASSUME TypeOK, NEW r \in Resource, NEW e \in Queue(r), Effect(r, e)
    PROVE  \A q \in Resource \ {r} : \A u \in MembersOf(q) : ForUID'[u] = ForUID[u]
  BY QueueType, MembersDisjoint, Endpoints DEF Effect

\* Entries are of objects that exist, after the handling of e too.
LEMMA EntriesExist ==
    ASSUME MapInv, NEW r \in Resource, NEW e \in Queue(r), Effect(r, e),
           UNCHANGED object,
           \A u \in MembersOf(r) : ForUID'[u] # NULL => object[u].phase # "absent"
    PROVE  \A u \in Object : ForUID'[u] # NULL => object'[u].phase # "absent"
  <1>1. e.uid \in MembersOf(r)
    BY QueueType DEF MapInv
  <1>2. QED
    BY <1>1 DEF Effect, MapInv, EntriesStand

\* A handler that is one call of the manager keeps the maps on their way.
LEMMA HandledKeeps ==
    ASSUME MapInv, TypeOK', NEW r \in Resource, r # PVs, NEW e,
           Receives(r, e), Handled(r, e), UNCHANGED dbVars, Effect(r, e)
    PROVE  MapInv'
  <1>1. /\ e \in Offered(r) /\ Consume(r, e) /\ pc[r] = "watch" /\ Connected(r)
        /\ UNCHANGED <<clusterVars, pc, rv, event, missed, resource_version>>
    BY DEF Receives, Handled, Connected, dbVars
  <1>2. object' = object /\ log' = log
    BY <1>1 DEF clusterVars
  <1>3. e \in Queue(r)
    BY <1>1, OfferedIsFirst DEF MapInv
  <1>4. /\ Queue(r)' = Queue(r) \ {e}
        /\ \A q \in Resource \ {r} :
                listing'[q] = listing[q] /\ cursor'[q] = cursor[q]
    BY <1>1, <1>2, ConsumeTakes DEF MapInv
  <1>5. Coming(r)' = Queue(r) \ {e}
    BY <1>4 DEF Coming
  <1>6. LogOrdered' /\ SpecsTold'
    BY <1>1, ClusterStands DEF MapInv
  <1>7. WatchesStand' /\ ListsTold'
    BY <1>1, ConsumeStands DEF MapInv, Connected
  <1>8. (\A q \in Resource \ {r} : EntriesOf(q)') /\ InHandStands'
    BY <1>1, <1>3, <1>4, EffectIsLocal, OthersKeepQueues DEF MapInv
  <1>9. /\ EntriesOf(r)'
        /\ \A u \in MembersOf(r) :
                ForUID'[u] # NULL => object[u].phase # "absent"
    BY <1>1, <1>2, <1>5, EffectKeeps DEF MapInv
  <1>10. EntriesStand'
    BY <1>2, <1>3, <1>8, <1>9, EntriesExist DEF EntriesStand
  <1>11. QED
    BY <1>6, <1>7, <1>8, <1>10 DEF MapInv

-----------------------------------------------------------------------------
(* The steps of handlePVs.                                                 *)

\* Where the goroutine of the volumes is in its handler, it has a watch.
LEMMA VolumesConnected ==
    /\ \A step \in PVHandlerStep \cup {"watch"} :
            pc[PVs] = step => Connected(PVs)
    /\ "watch" \notin PVHandlerStep /\ "connect" \notin PVHandlerStep
  BY DEF Connected, PVHandlerStep

\* Going to step leaves the other goroutines where they are.
LEMMA GoesTo ==
    ASSUME TypeOK, NEW step, PVGoesTo(step)
    PROVE  pc'[PVs] = step /\ \A q \in Resource \ {PVs} : pc'[q] = pc[q]
  BY Endpoints DEF TypeOK, PVGoesTo

\* Before it has stored the volume, a step of handlePVs keeps the maps.
LEMMA GoingOnKeeps ==
    ASSUME MapInv, TypeOK', NEW step \in {"source", "store"}, PVGoesTo(step),
           Connected(PVs), pc[PVs] # "bind",
           event' \in Offered(PVs), Writes(PVs, event'),
           UNCHANGED <<clusterVars, resource_version, rv, missed, listing,
                       cursor, ForUID>>
    PROVE  MapInv'
  <1>1. /\ index' = index /\ object' = object /\ log' = log
        /\ listing' = listing /\ cursor' = cursor /\ rv' = rv
        /\ resource_version' = resource_version /\ missed' = missed
        /\ ForUID' = ForUID
    BY DEF clusterVars
  <1>2. pc'[PVs] = step /\ \A q \in Resource \ {PVs} : pc'[q] = pc[q]
    BY GoesTo DEF MapInv
  <1>3. \A q \in Resource : Connected(q)' <=> Connected(q)
    BY <1>2 DEF Connected, PVHandlerStep
  <1>4. LogOrdered' /\ SpecsTold'
    BY ClusterStands DEF MapInv
  <1>5. WatchesStand' /\ ListsTold'
    BY <1>1, <1>3 DEF MapInv, WatchesStand, ListsTold, Tells, Writes
  <1>6. InHandStands'
    BY <1>1 DEF InHandStands, Offered, Writes
  <1>7. ASSUME NEW q \in Resource PROVE EntriesOf(q)'
    <2>1. Queue(q)' = Queue(q)
      BY <1>1 DEF Queue
    <2>2. Coming(q)' = Coming(q)
      BY <1>2, <2>1 DEF Coming
    <2>3. QED
      BY <1>1, <1>3, <2>2, EntriesUntouched DEF MapInv
  <1>8. EntriesStand'
    BY <1>1, <1>7 DEF MapInv, EntriesStand
  <1>9. QED
    BY <1>4, <1>5, <1>6, <1>8 DEF MapInv

\* So does the step that is the last, or the last to change the map.
LEMMA VolumeKeeps ==
    ASSUME MapInv, TypeOK', Connected(PVs), pc[PVs] # "bind",
           NEW e \in Offered(PVs), Effect(PVs, e),
           \/ PVDone(e)
           \/ PVGoesTo("bind") /\ event' = e /\ UNCHANGED <<listing, cursor>>,
           UNCHANGED <<clusterVars, resource_version, rv, missed>>
    PROVE  MapInv'
  <1>1. /\ index' = index /\ object' = object /\ log' = log
        /\ rv' = rv /\ resource_version' = resource_version
        /\ missed' = missed
    BY DEF clusterVars
  <1>2. /\ PVs \in Resource /\ e \in Queue(PVs)
    BY Endpoints, OfferedIsFirst DEF MapInv
  <1>3. LogOrdered' /\ SpecsTold'
    BY ClusterStands DEF MapInv
  <1>4. /\ pc'[PVs] \in {"watch", "bind"}
        /\ \A q \in Resource \ {PVs} : pc'[q] = pc[q]
    BY GoesTo DEF MapInv, PVDone
  <1>5. \A q \in Resource : Connected(q)' <=> Connected(q)
    BY <1>4 DEF Connected, PVHandlerStep
  <1>6. /\ WatchesStand' /\ ListsTold' /\ InHandStands'
        /\ Coming(PVs)' = Queue(PVs) \ {e}
        /\ \A q \in Resource \ {PVs} :
                listing'[q] = listing[q] /\ cursor'[q] = cursor[q]
    <2>1. CASE PVDone(e)
      <3>1. Consume(PVs, e) /\ pc'[PVs] = "watch"
        BY <2>1, GoesTo DEF PVDone, MapInv
      <3>2. /\ Queue(PVs)' = Queue(PVs) \ {e}
            /\ \A q \in Resource \ {PVs} :
                    listing'[q] = listing[q] /\ cursor'[q] = cursor[q]
        BY <1>1, <1>2, <3>1, ConsumeTakes DEF MapInv
      <3>3. WatchesStand' /\ ListsTold'
        BY <1>1, <1>2, <1>5, <3>1, ConsumeStands DEF MapInv
      <3>4. InHandStands'
        BY <3>1, VolumesConnected DEF InHandStands
      <3>5. Coming(PVs)' = Queue(PVs)'
        BY <3>1 DEF Coming
      <3>6. QED
        BY <3>2, <3>3, <3>4, <3>5
    <2>2. CASE PVGoesTo("bind") /\ event' = e /\ UNCHANGED <<listing, cursor>>
      <3>1. pc'[PVs] = "bind"
        BY <2>2, GoesTo DEF MapInv
      <3>2. WatchesStand' /\ ListsTold'
        BY <1>1, <1>5, <2>2
           DEF MapInv, WatchesStand, ListsTold, Tells, Writes
      <3>3. InHandStands'
        BY <1>1, <2>2, <3>1 DEF InHandStands, Offered
      <3>4. Queue(PVs)' = Queue(PVs)
        BY <1>1, <2>2 DEF Queue
      <3>5. Coming(PVs)' = Queue(PVs) \ {e}
        BY <2>2, <3>1, <3>4 DEF Coming
      <3>6. QED
        BY <2>2, <3>2, <3>3, <3>5
    <2>3. QED
      BY <2>1, <2>2
  <1>7. \A q \in Resource \ {PVs} : EntriesOf(q)'
    BY <1>1, <1>2, <1>4, <1>6, EffectIsLocal, OthersKeepQueues DEF MapInv
  <1>8. /\ EntriesOf(PVs)'
        /\ \A u \in MembersOf(PVs) :
                ForUID'[u] # NULL => object[u].phase # "absent"
    BY <1>1, <1>2, <1>6, EffectKeeps DEF MapInv
  <1>9. EntriesStand'
    BY <1>1, <1>2, <1>7, <1>8, EntriesExist DEF EntriesStand
  <1>10. QED
    BY <1>3, <1>6, <1>9 DEF MapInv

\* Binding changes no map: the volume was stored before.
LEMMA BindingKeeps ==
    ASSUME MapInv, TypeOK', pc[PVs] = "bind", PVDone(event),
           UNCHANGED <<clusterVars, resource_version, rv, missed, ForUID>>
    PROVE  MapInv'
  <1>1. /\ index' = index /\ object' = object /\ log' = log
        /\ rv' = rv /\ resource_version' = resource_version
        /\ missed' = missed /\ ForUID' = ForUID
    BY DEF clusterVars
  <1>2. PVs \in Resource /\ event \in Offered(PVs) /\ Connected(PVs)
    BY Endpoints, VolumesConnected
       DEF MapInv, InHandStands, PVHandlerStep
  <1>3. /\ pc'[PVs] = "watch" /\ Consume(PVs, event)
        /\ \A q \in Resource \ {PVs} : pc'[q] = pc[q]
    BY GoesTo DEF MapInv, PVDone
  <1>4. \A q \in Resource : Connected(q)' <=> Connected(q)
    BY <1>2, <1>3 DEF Connected, PVHandlerStep
  <1>5. /\ Queue(PVs)' = Queue(PVs) \ {event}
        /\ \A q \in Resource \ {PVs} :
                listing'[q] = listing[q] /\ cursor'[q] = cursor[q]
    BY <1>1, <1>2, <1>3, ConsumeTakes DEF MapInv
  <1>6. LogOrdered' /\ SpecsTold'
    BY ClusterStands DEF MapInv
  <1>7. WatchesStand' /\ ListsTold'
    BY <1>1, <1>2, <1>3, <1>4, ConsumeStands DEF MapInv
  <1>8. InHandStands'
    BY <1>3, VolumesConnected DEF InHandStands
  <1>9. Coming(PVs)' = Coming(PVs)
    BY <1>3, <1>5 DEF Coming
  <1>10. EntriesOf(PVs)'
    BY <1>1, <1>2, <1>4, <1>9, EntriesUntouched DEF MapInv
  <1>11. \A q \in Resource \ {PVs} : EntriesOf(q)'
    BY <1>1, <1>2, <1>3, <1>5, OthersKeepQueues DEF MapInv
  <1>12. EntriesStand'
    BY <1>1, <1>10, <1>11 DEF MapInv, EntriesStand
  <1>13. QED
    BY <1>6, <1>7, <1>8, <1>12 DEF MapInv

-----------------------------------------------------------------------------
(* Starting and dropping a watch.                                          *)

\* A list is of the live objects, as they are now.
LEMMA ListedNow ==
    ASSUME TypeOK, LogOrdered, NEW r \in Resource
    PROVE  /\ \A l \in Listing(r) :
                /\ l.type = "ADDED" /\ l.rv <= index /\ l.uid \in MembersOf(r)
                /\ Alive(l.uid) /\ l.spec = object[l.uid].spec
           /\ \A u \in MembersOf(r) : Alive(u) =>
                \E l \in Listing(r) : l.uid = u
  <1>1. ASSUME NEW u \in MembersOf(r), Alive(u), NEW l,
               l = EventOf("ADDED", u, object[u])
        PROVE  /\ l.type = "ADDED" /\ l.rv <= index /\ l.uid = u
               /\ l.spec = object[u].spec
    <2>1. /\ u \in Object /\ object[u] \in Snapshot
          /\ u \in PV => object[u].source \in SourcesOf(u)
      BY Endpoints DEF TypeOK, ClusterTypeOK
    <2>2. /\ l.type = "ADDED" /\ l.uid = u /\ l.rv = object[u].rv
          /\ l.spec = object[u].spec
      BY <1>1, <2>1, EventOfType DEF EventType
    <2>3. object[u].rv <= index
      BY <1>1 DEF LogOrdered
    <2>4. QED
      BY <2>2, <2>3
  <1>2. \A l \in Listing(r) : \E u \in MembersOf(r) :
            Alive(u) /\ l = EventOf("ADDED", u, object[u])
    BY DEF Listing
  <1>3. \A u \in MembersOf(r) : Alive(u) =>
            EventOf("ADDED", u, object[u]) \in Listing(r)
    BY DEF Listing
  <1>4. QED
    BY <1>1, <1>2, <1>3

\* What is in a map when a watch starts is of a live object, and will be made
\* as it should be, or of one that was deleted while there was no watch.
LEMMA ConnectKeeps ==
    ASSUME MapInv, NEW r \in Resource, ConnectList(r), UNCHANGED ForUID
    PROVE  MapInv'
  <1>1. /\ index' = index /\ object' = object /\ log' = log
        /\ event' = event /\ resource_version' = resource_version
        /\ ForUID' = ForUID
    BY DEF ConnectList, clusterVars, dbVars
  <1>2. /\ pc[r] = "connect" /\ pc'[r] = "watch" /\ rv'[r] = 0
        /\ listing'[r] = Listing(r) /\ cursor'[r] = index
        /\ missed'[r] = missed[r] \cup Hidden(r)
        /\ \A q \in Resource \ {r} :
            /\ pc'[q] = pc[q] /\ rv'[q] = rv[q] /\ listing'[q] = listing[q]
            /\ cursor'[q] = cursor[q] /\ missed'[q] = missed[q]
    BY DEF ConnectList, MapInv, TypeOK
  <1>3. TypeOK'
    BY ConnectTypeOK DEF MapInv, Connect
  <1>4. LogOrdered' /\ SpecsTold'
    BY ClusterStands DEF MapInv, ConnectList
  <1>5. /\ \A l \in Listing(r) :
                /\ l.type = "ADDED" /\ l.rv <= index /\ l.uid \in MembersOf(r)
                /\ Alive(l.uid) /\ l.spec = object[l.uid].spec
        /\ \A u \in MembersOf(r) : Alive(u) =>
                \E l \in Listing(r) : l.uid = u
    BY ListedNow DEF MapInv
  <1>6. /\ Connected(r)' /\ index \in Nat
        /\ \A q \in Resource \ {r} : Connected(q)' <=> Connected(q)
    BY <1>2, BoundsAreNumbers DEF Connected, MapInv, TypeOK, ClusterTypeOK
  <1>7. WatchesStand'
    BY <1>1, <1>2, <1>6 DEF MapInv, WatchesStand
  <1>8. ASSUME NEW q \in Resource, NEW l \in listing'[q]
        PROVE  /\ l.type = "ADDED" /\ l.rv <= cursor'[q]
               /\ object'[l.uid].phase # "absent"
               /\ object'[l.uid].phase = "gone" =>
                    \E d \in log'[q] :
                        /\ d.uid = l.uid /\ d.type = "DELETED"
                        /\ d.rv > cursor'[q]
               /\ l.spec # object'[l.uid].spec =>
                    \E f \in log'[q] :
                        Tells(q, f)' /\ f.uid = l.uid /\ f.rv > cursor'[q]
    <2>1. CASE q = r
      BY <1>1, <1>2, <1>5, <1>8, <2>1 DEF Alive
    <2>2. CASE q # r
      <3>1. \A f \in log[q] : Tells(q, f)' <=> Tells(q, f)
        BY <1>1 DEF Tells, Writes
      <3>2. l \in listing[q] /\ cursor'[q] = cursor[q]
        BY <1>2, <1>8, <2>2
      <3>3. QED
        BY <1>1, <3>1, <3>2 DEF MapInv, ListsTold
    <2>3. QED
      BY <2>1, <2>2
  <1>9. ListsTold'
    BY <1>8 DEF ListsTold
  <1>10. InHandStands'
    BY <1>1, <1>2, VolumesConnected, Endpoints
       DEF MapInv, InHandStands, Offered, Writes
  <1>11. EntriesOf(r)'
    <2>1. \A f \in log[r] : f.rv <= index
      BY DEF MapInv, TypeOK, ClusterTypeOK
    <2>2. Coming(r)' = Listing(r)
      <3>1. \A f \in log[r] : ~(f.rv > index)
        BY <1>6, <2>1 DEF MapInv, TypeOK, ClusterTypeOK
      <3>2. Queue(r)' = Listing(r)
        BY <1>1, <1>2, <3>1 DEF Queue
      <3>3. QED
        BY <1>2, <3>2 DEF Coming
    <2>3. ASSUME NEW u \in MembersOf(r), Alive(u)
          PROVE  \E e \in Listing(r) : e.uid = u /\ Tells(r, e)'
      BY <1>1, <1>5, <2>3 DEF Tells, Writes
    <2>4. ASSUME NEW u \in MembersOf(r), ForUID[u] # NULL, ~Alive(u)
          PROVE  u \in missed'[r]
      <3>1. object[u].phase = "gone"
        BY <2>4, Endpoints DEF MapInv, EntriesStand, Alive
      <3>2. PICK d \in log[r] : d.uid = u /\ d.type = "DELETED"
        BY <3>1 DEF MapInv, LogOrdered
      <3>3. d.rv > resource_version[r]
        BY <1>6 DEF MapInv, WatchesStand, TypeOK, ClusterTypeOK
      <3>4. u \in Hidden(r)
        BY <3>2, <3>3 DEF Hidden
      <3>5. QED
        BY <1>2, <3>4
    <2>5. \A u \in MembersOf(r) : Alive(u)' <=> Alive(u)
      BY <1>1 DEF Alive
    <2>6. QED
      BY <1>1, <1>5, <2>2, <2>3, <2>4, <2>5 DEF EntriesOf
  <1>12. ASSUME NEW q \in Resource \ {r} PROVE EntriesOf(q)'
    <2>1. Queue(q)' = Queue(q)
      BY <1>1, <1>2 DEF Queue
    <2>2. Coming(q)' = Coming(q)
      BY <1>1, <1>2, <2>1 DEF Coming
    <2>3. QED
      BY <1>1, <1>2, <1>6, <2>2, EntriesUntouched DEF MapInv
  <1>13. EntriesStand'
    BY <1>1, <1>11, <1>12 DEF MapInv, EntriesStand
  <1>14. QED
    BY <1>3, <1>4, <1>7, <1>9, <1>10, <1>13 DEF MapInv

\* What a dropped watch would have brought, the list of the next will.
LEMMA DropKeeps ==
    ASSUME MapInv, NEW r \in Resource, Drop(r), UNCHANGED ForUID
    PROVE  MapInv'
  <1>1. /\ index' = index /\ object' = object /\ log' = log
        /\ event' = event /\ resource_version' = resource_version
        /\ ForUID' = ForUID
    BY DEF Drop, clusterVars, dbVars
  <1>2. /\ pc'[r] = "connect" /\ pc[r] = "watch" /\ rv'[r] = 0
        /\ listing'[r] = {}
        /\ \A q \in Resource : missed[q] \subseteq missed'[q]
        /\ \A q \in Resource \ {r} :
            /\ pc'[q] = pc[q] /\ rv'[q] = rv[q] /\ listing'[q] = listing[q]
            /\ cursor'[q] = cursor[q]
    BY DEF Drop, MapInv, TypeOK
  <1>3. TypeOK'
    BY FaultTypeOK DEF MapInv
  <1>4. LogOrdered' /\ SpecsTold'
    BY ClusterStands DEF MapInv, Drop
  <1>5. /\ ~Connected(r)'
        /\ \A q \in Resource \ {r} : Connected(q)' <=> Connected(q)
    BY <1>2 DEF Connected, PVHandlerStep
  <1>6. WatchesStand'
    BY <1>1, <1>2, <1>5 DEF MapInv, WatchesStand
  <1>7. ListsTold'
    <2>1. \A q \in Resource : \A f \in log[q] : Tells(q, f)' <=> Tells(q, f)
      BY <1>1 DEF Tells, Writes
    <2>2. \A q \in Resource : \A l \in listing'[q] :
            l \in listing[q] /\ cursor'[q] = cursor[q]
      BY <1>2
    <2>3. QED
      BY <1>1, <2>1, <2>2 DEF MapInv, ListsTold
  <1>8. InHandStands'
    BY <1>1, <1>2, VolumesConnected, Endpoints
       DEF MapInv, InHandStands, Offered, Writes
  <1>9. EntriesOf(r)'
    BY <1>5 DEF EntriesOf
  <1>10. ASSUME NEW q \in Resource \ {r} PROVE EntriesOf(q)'
    <2>1. Queue(q)' = Queue(q)
      BY <1>1, <1>2 DEF Queue
    <2>2. Coming(q)' = Coming(q)
      BY <1>1, <1>2, <2>1 DEF Coming
    <2>3. QED
      BY <1>1, <1>2, <1>5, <2>2, EntriesUntouched DEF MapInv
  <1>11. EntriesStand'
    BY <1>1, <1>9, <1>10 DEF MapInv, EntriesStand
  <1>12. QED
    BY <1>3, <1>4, <1>6, <1>7, <1>8, <1>11 DEF MapInv

-----------------------------------------------------------------------------
(* Changes of the cluster.                                                 *)

\* The cluster changes u, as event e of resource r says; a changed spec makes
\* the handler of r write.
Happens(r, u, e) ==
    /\ u \in MembersOf(r) /\ e \in Event /\ Lawful(e.type, u, e)
    /\ e.uid = u /\ e.rv = index + 1
    /\ index' = index + 1
    /\ log'[r] = log[r] \cup {e}
    /\ \A q \in Resource \ {r} : log'[q] = log[q]
    /\ object'[u].phase = e.phase /\ object'[u].spec = e.spec
    /\ object'[u].rv = e.rv
    /\ \A w \in Object \ {u} : object'[w] = object[w]
    /\ e.spec # object[u].spec => Writes(r, e)

LEMMA ChangeHappens ==
    ASSUME ClusterTypeOK, LawfulStep
    PROVE  \E r \in Resource, u \in Object, e \in Event : Happens(r, u, e)
  <1>1. PICK r \in Resource, u \in Object, e \in Event :
            /\ u \in MembersOf(r) /\ Lawful(e.type, u, e)
            /\ r = PVs => LawfulVolume(u, e)
            /\ LawfulSpec(r, u, e)
            /\ e.uid = u /\ e.rv = index + 1
            /\ index' = index + 1
            /\ log'[r] = log[r] \cup {e}
            /\ \A q \in Resource \ {r} : log'[q] = log[q]
            /\ object'[u].phase = e.phase
            /\ object'[u].spec = e.spec /\ object'[u].rv = e.rv
            /\ \A w \in Object \ {u} : object'[w] = object[w]
    BY LawfulEffect
  <1>2. e.type \in EventType
    BY DEF Event
  <1>3. ASSUME e.spec # object[u].spec
        PROVE  Writes(r, e)
    <2>1. \/ r = PVs /\ e.phase = "Available"
          \/ r = "persistentvolumeclaims" /\ e.phase = "Pending"
      BY <1>1, <1>3 DEF LawfulVolume, LawfulSpec, SpecOf, PVs
    <2>2. e.type # "DELETED"
      BY <1>1, <2>1 DEF Lawful
    <2>3. QED
      BY <1>2, <2>1, <2>2 DEF Writes, EventType
  <1>4. QED
    BY <1>1, <1>3 DEF Happens

\* What a change leaves as it was.
LEMMA HappensAfter ==
    ASSUME MapInv, NEW r \in Resource, NEW u \in Object, NEW e,
           Happens(r, u, e)
    PROVE  /\ index \in Nat /\ e.type \in EventType
           /\ \A q \in Resource : \A f \in log[q] :
                /\ f.rv \in Nat /\ f.rv <= index /\ f # e
                /\ f.uid \in MembersOf(q) /\ f.uid \in Object
           /\ \A w \in Object :
                object[w].phase # "absent" => object'[w].phase # "absent"
           /\ \A w \in Object : object[w].phase = "gone" =>
                w # u /\ object'[w].phase = "gone"
           /\ \A w \in Object \ {u} : Alive(w)' <=> Alive(w)
           /\ \A w \in Object :
                object'[w].spec = object[w].spec \/ (w = u /\ Tells(r, e)')
           /\ \A q \in Resource : \A w \in MembersOf(q) : w = u => q = r
           /\ \A q \in Resource : Connected(q) => cursor[q] < e.rv
  <1>1. index \in Nat /\ e.type \in EventType
    BY BoundsAreNumbers DEF MapInv, TypeOK, ClusterTypeOK, Happens, Event
  <1>2. \A q \in Resource : \A f \in log[q] :
            /\ f.rv \in Nat /\ f.rv <= index
            /\ f.uid \in MembersOf(q) /\ f.uid \in Object
    BY <1>1, Endpoints DEF MapInv, TypeOK, ClusterTypeOK
  <1>3. e.rv = index + 1
    BY DEF Happens
  <1>4. /\ e.type = "ADDED" => e.phase \notin {"absent", "gone"}
        /\ e.type = "MODIFIED" => e.phase \notin {"absent", "gone"}
        /\ e.type = "DELETED" => e.phase = "gone"
        /\ object[u].phase # "gone" /\ object'[u].phase = e.phase
    BY <1>1 DEF Happens, Lawful, EventType, Alive
  <1>5. \A w \in Object \ {u} : object'[w] = object[w]
    BY DEF Happens
  <1>6. \A w \in Object :
            object'[w].spec = object[w].spec \/ (w = u /\ Tells(r, e)')
    <2>1. object'[u].spec = object[u].spec \/ Tells(r, e)'
      BY DEF Happens, Tells, Writes
    <2>2. QED
      BY <1>5, <2>1
  <1>7. \A q \in Resource : \A w \in MembersOf(q) : w = u => q = r
    BY MembersDisjoint DEF Happens
  <1>8. \A q \in Resource : Connected(q) => cursor[q] < e.rv
    BY <1>1, <1>3 DEF MapInv, WatchesStand, TypeOK
  <1>9. \A w \in Object :
            object[w].phase # "absent" => object'[w].phase # "absent"
    BY <1>1, <1>4, <1>5 DEF EventType
  <1>10. \A w \in Object : object[w].phase = "gone" =>
                w # u /\ object'[w].phase = "gone"
    BY <1>4, <1>5
  <1>11. \A w \in Object \ {u} : Alive(w)' <=> Alive(w)
    BY <1>5 DEF Alive
  <1>12. \A q \in Resource : \A f \in log[q] : f # e
    BY <1>1, <1>2, <1>3
  <1>13. QED
    BY <1>1, <1>2, <1>6, <1>7, <1>8, <1>9, <1>10, <1>11, <1>12

\* The log stays in order.
LEMMA HappensInOrder ==
    ASSUME MapInv, NEW r \in Resource, NEW u \in Object, NEW e,
           Happens(r, u, e)
    PROVE  LogOrdered'
  <1>1. /\ index \in Nat /\ e.type \in EventType
        /\ \A q \in Resource : \A f \in log[q] :
                /\ f.rv \in Nat /\ f.rv <= index /\ f # e
                /\ f.uid \in MembersOf(q) /\ f.uid \in Object
        /\ \A w \in Object :
                object[w].phase # "absent" => object'[w].phase # "absent"
        /\ \A w \in Object : object[w].phase = "gone" =>
                w # u /\ object'[w].phase = "gone"
        /\ \A w \in Object \ {u} : Alive(w)' <=> Alive(w)
        /\ \A q \in Resource : \A w \in MembersOf(q) : w = u => q = r
    BY HappensAfter
  <1>2. /\ e.uid = u /\ e.rv = index + 1 /\ index' = index + 1
        /\ log'[r] = log[r] \cup {e} /\ u \in MembersOf(r)
        /\ \A q \in Resource \ {r} : log'[q] = log[q]
        /\ object'[u].phase = e.phase /\ object'[u].rv = e.rv
        /\ \A w \in Object \ {u} : object'[w] = object[w]
        /\ e.type \in {"ADDED", "MODIFIED"} => e.phase \notin {"absent", "gone"}
        /\ e.type = "DELETED" => e.phase = "gone"
    BY DEF Happens, Lawful
  <1>3. \A q \in Resource : \A f \in log'[q] :
            f \in log[q] \/ (f = e /\ q = r)
    BY <1>2
  <1>4. ASSUME NEW q \in Resource, NEW d \in log'[q]
        PROVE  /\ object'[d.uid].phase # "absent"
               /\ d.type = "DELETED" =>
                    /\ object'[d.uid].phase = "gone"
                    /\ \A f \in log'[q] : f.uid = d.uid => f.rv <= d.rv
               /\ \A f \in log'[q] : d.rv = f.rv => d = f
    <2>1. CASE d \in log[q]
      <3>1. object'[d.uid].phase # "absent"
        BY <1>1, <2>1 DEF MapInv, LogOrdered
      <3>2. d.type = "DELETED" =>
                    /\ object'[d.uid].phase = "gone"
                    /\ \A f \in log'[q] : f.uid = d.uid => f.rv <= d.rv
        BY <1>1, <1>2, <1>3, <2>1 DEF MapInv, LogOrdered
      <3>3. \A f \in log'[q] : d.rv = f.rv => d = f
        BY <1>1, <1>2, <1>3, <2>1 DEF MapInv, LogOrdered
      <3>4. QED
        BY <3>1, <3>2, <3>3
    <2>2. CASE d = e /\ q = r
      <3>1. \A f \in log'[q] : f.rv <= d.rv /\ (d.rv = f.rv => d = f)
        BY <1>1, <1>2, <1>3, <2>2
      <3>2. QED
        BY <1>1, <1>2, <2>2, <3>1 DEF EventType
    <2>3. QED
      BY <1>3, <1>4, <2>1, <2>2
  <1>5. ASSUME NEW q \in Resource, NEW w \in MembersOf(q)
        PROVE  /\ object'[w].phase = "gone" =>
                    \E d \in log'[q] : d.uid = w /\ d.type = "DELETED"
               /\ Alive(w)' => object'[w].rv \in 1..index'
    <2>1. w \in Object /\ log[q] \subseteq log'[q]
      BY <1>2, Endpoints
    <2>2. CASE w = u
      <3>1. q = r /\ e \in log'[q]
        BY <1>1, <1>2, <2>2
      <3>2. QED
        BY <1>1, <1>2, <2>2, <3>1 DEF EventType
    <2>3. CASE w # u
      BY <1>1, <1>2, <2>1, <2>3 DEF MapInv, LogOrdered
    <2>4. QED
      BY <2>2, <2>3
  <1>6. QED
    BY <1>4, <1>5 DEF LogOrdered

\* Old specs stay followed by what tells the present ones.
LEMMA HappensTold ==
    ASSUME MapInv, NEW r \in Resource, NEW u \in Object, NEW e,
           Happens(r, u, e), UNCHANGED trackerVars
    PROVE  SpecsTold' /\ ListsTold'
  <1>1. /\ index \in Nat
        /\ \A q \in Resource : \A f \in log[q] :
                /\ f.rv \in Nat /\ f.rv <= index
                /\ f.uid \in MembersOf(q) /\ f.uid \in Object
        /\ \A w \in Object :
                object[w].phase # "absent" => object'[w].phase # "absent"
        /\ \A w \in Object \ {u} : object'[w] = object[w]
        /\ \A w \in Object :
                object'[w].spec = object[w].spec \/ (w = u /\ Tells(r, e)')
        /\ \A q \in Resource : \A w \in MembersOf(q) : w = u => q = r
        /\ \A q \in Resource : Connected(q) => cursor[q] < e.rv
    BY HappensAfter DEF Happens
  <1>2. /\ e.uid = u /\ e.rv = index + 1
        /\ log'[r] = log[r] \cup {e}
        /\ \A q \in Resource \ {r} : log'[q] = log[q]
        /\ object'[u].spec = e.spec /\ object'[u].phase = e.phase
        /\ e.type \in {"ADDED", "MODIFIED"} => e.phase # "gone"
    BY DEF Happens, Lawful
  <1>3. /\ listing' = listing /\ cursor' = cursor
    BY DEF trackerVars
  <1>4. ASSUME NEW q \in Resource, NEW d \in log'[q],
               d.spec # object'[d.uid].spec
        PROVE  \E f \in log'[q] : Tells(q, f)' /\ f.uid = d.uid /\ d.rv < f.rv
    <2>1. d \in log[q]
      BY <1>2, <1>4
    <2>2. CASE d.uid = u /\ Tells(r, e)'
      BY <1>1, <1>2, <2>1, <2>2
    <2>3. CASE object'[d.uid].spec = object[d.uid].spec /\ d.uid \in Object
      <3>1. PICK f \in log[q] : Tells(q, f) /\ f.uid = d.uid /\ d.rv < f.rv
        BY <1>4, <2>1, <2>3 DEF MapInv, SpecsTold
      <3>2. Tells(q, f)'
        BY <2>3, <3>1 DEF Tells, Writes
      <3>3. QED
        BY <1>2, <3>1, <3>2
    <2>4. QED
      BY <1>1, <2>1, <2>2, <2>3
  <1>5. ASSUME NEW q \in Resource, NEW l \in listing[q]
        PROVE  /\ l.type = "ADDED" /\ l.rv <= cursor[q]
               /\ object'[l.uid].phase # "absent"
               /\ object'[l.uid].phase = "gone" =>
                    \E d \in log'[q] :
                        /\ d.uid = l.uid /\ d.type = "DELETED"
                        /\ d.rv > cursor[q]
               /\ l.spec # object'[l.uid].spec =>
                    \E f \in log'[q] :
                        Tells(q, f)' /\ f.uid = l.uid /\ f.rv > cursor[q]
    <2>1. l.uid \in MembersOf(q) /\ l.uid \in Object /\ cursor[q] \in Nat
      BY Endpoints DEF MapInv, TypeOK
    <2>2. Connected(q)
      BY DEF MapInv, WatchesStand
    <2>3. e.rv > cursor[q] /\ log[q] \subseteq log'[q]
      BY <1>1, <1>2, <2>1, <2>2
    <2>4. /\ l.type = "ADDED" /\ l.rv <= cursor[q]
          /\ object'[l.uid].phase # "absent"
      BY <1>1, <2>1 DEF MapInv, ListsTold
    <2>5. object'[l.uid].phase = "gone" =>
                    \E d \in log'[q] :
                        /\ d.uid = l.uid /\ d.type = "DELETED"
                        /\ d.rv > cursor[q]
      <3>1. CASE l.uid = u
        <4>1. q = r /\ e \in log'[q]
          BY <1>1, <1>2, <2>1, <3>1
        <4>2. e.type \in EventType
          BY DEF Happens, Event
        <4>3. QED
          BY <1>2, <2>3, <3>1, <4>1, <4>2 DEF EventType
      <3>2. CASE l.uid # u
        BY <1>1, <2>1, <2>3, <3>2 DEF MapInv, ListsTold
      <3>3. QED
        BY <3>1, <3>2
    <2>6. ASSUME l.spec # object'[l.uid].spec
          PROVE  \E f \in log'[q] :
                        Tells(q, f)' /\ f.uid = l.uid /\ f.rv > cursor[q]
      <3>1. CASE l.uid = u /\ Tells(r, e)'
        <4>1. q = r /\ e \in log'[q]
          BY <1>1, <1>2, <2>1, <3>1
        <4>2. QED
          BY <1>2, <2>3, <3>1, <4>1
      <3>2. CASE object'[l.uid].spec = object[l.uid].spec
        <4>1. PICK f \in log[q] :
                Tells(q, f) /\ f.uid = l.uid /\ f.rv > cursor[q]
          BY <2>6, <3>2 DEF MapInv, ListsTold
        <4>2. Tells(q, f)'
          BY <3>2, <4>1 DEF Tells, Writes
        <4>3. QED
          BY <2>3, <4>1, <4>2
      <3>3. QED
        BY <1>1, <2>1, <3>1, <3>2
    <2>7. QED
      BY <2>4, <2>5, <2>6
  <1>6. SpecsTold'
    BY <1>4 DEF SpecsTold
  <1>7. ListsTold'
    BY <1>3, <1>5 DEF ListsTold
  <1>8. QED
    BY <1>6, <1>7

\* A connected watch is to bring the new event last.
LEMMA HappensComing ==
    ASSUME MapInv, NEW r \in Resource, NEW u \in Object, NEW e,
           Happens(r, u, e), UNCHANGED trackerVars, Connected(r)
    PROVE  /\ Coming(r)' = Coming(r) \cup {e}
           /\ \A f \in Coming(r) : f.rv < e.rv /\ f.uid \in MembersOf(r)
           /\ \A q \in Resource \ {r} : Coming(q)' = Coming(q)
  <1>1. /\ listing' = listing /\ cursor' = cursor /\ pc' = pc /\ event' = event
        /\ log'[r] = log[r] \cup {e} /\ e.rv = index + 1
        /\ \A q \in Resource \ {r} : log'[q] = log[q]
    BY DEF trackerVars, Happens
  <1>2. /\ index \in Nat /\ cursor[r] < e.rv /\ cursor[r] <= index
        /\ cursor[r] \in Nat
        /\ \A q \in Resource : \A f \in log[q] : f.rv <= index /\ f # e
    BY HappensAfter DEF MapInv, WatchesStand, TypeOK
  <1>3. Queue(r)' = Queue(r) \cup {e}
    BY <1>1, <1>2 DEF Queue
  <1>4. \A f \in Queue(r) : f.rv < e.rv /\ f.uid \in MembersOf(r)
    <2> SUFFICES ASSUME NEW f \in Queue(r)
                 PROVE  f.rv < e.rv /\ f.uid \in MembersOf(r)
      OBVIOUS
    <2>1. f.rv \in Nat /\ f.uid \in MembersOf(r)
      BY QueueType DEF MapInv
    <2>2. f.rv <= index
      BY <1>2, <2>1 DEF Queue, MapInv, ListsTold
    <2>3. QED
      BY <1>1, <1>2, <2>1, <2>2
  <1>5. ~(r = PVs /\ pc[r] = "bind" /\ e = event)
    <2> SUFFICES ASSUME r = PVs, pc[r] = "bind", e = event
                 PROVE  FALSE
      OBVIOUS
    <2>1. e \in Offered(r)
      BY DEF MapInv, InHandStands, PVHandlerStep
    <2>2. e \in Queue(r)
      BY <2>1, OfferedIsFirst DEF MapInv
    <2>3. QED
      BY <1>1, <1>2, <1>4, <2>2
  <1>6. Coming(r)' = Coming(r) \cup {e}
    BY <1>1, <1>3, <1>5 DEF Coming
  <1>7. ASSUME NEW q \in Resource \ {r} PROVE Coming(q)' = Coming(q)
    <2>1. Queue(q)' = Queue(q)
      BY <1>1 DEF Queue
    <2>2. QED
      BY <1>1, <2>1 DEF Coming
  <1>8. \A f \in Coming(r) : f.rv < e.rv /\ f.uid \in MembersOf(r)
    BY <1>4 DEF Coming
  <1>9. QED
    BY <1>6, <1>7, <1>8

\* A change of an object keeps the maps on their way.
LEMMA HappensEntries ==
    ASSUME MapInv, NEW r \in Resource, NEW u \in Object, NEW e,
           Happens(r, u, e), UNCHANGED <<trackerVars, ForUID>>
    PROVE  EntriesStand'
  <1>1. /\ e.type \in EventType
        /\ \A w \in Object :
                object[w].phase # "absent" => object'[w].phase # "absent"
        /\ \A w \in Object :
                object'[w].spec = object[w].spec \/ (w = u /\ Tells(r, e)')
        /\ \A w \in Object \ {u} : Alive(w)' <=> Alive(w)
        /\ \A q \in Resource : \A w \in MembersOf(q) : w = u => q = r
    BY HappensAfter
  <1>2. /\ ForUID' = ForUID /\ missed' = missed /\ pc' = pc
        /\ e.uid = u /\ u \in MembersOf(r) /\ object'[u].spec = e.spec
        /\ \A w \in Object \ {u} : object'[w] = object[w]
        /\ e.type = "ADDED" => object[u].phase = "absent"
        /\ e.type = "MODIFIED" => Alive(u) /\ Alive(u)'
        /\ e.type = "DELETED" => Alive(u)
    BY DEF trackerVars, Happens, Lawful, Alive
  <1>3. \A w \in Object : ForUID'[w] # NULL => object'[w].phase # "absent"
    BY <1>1, <1>2 DEF MapInv, EntriesStand
  <1>4. ASSUME NEW q \in Resource \ {r} PROVE EntriesOf(q)'
    <2>1. \A w \in MembersOf(q) : object'[w] = object[w]
      BY <1>1, <1>2, Endpoints
    <2>2. Connected(q)' <=> Connected(q)
      BY <1>2 DEF Connected
    <2>3. Coming(q)' = Coming(q)
      <3>1. listing' = listing /\ cursor' = cursor /\ event' = event
            /\ log'[q] = log[q]
        BY DEF trackerVars, Happens
      <3>2. Queue(q)' = Queue(q)
        BY <3>1 DEF Queue
      <3>3. QED
        BY <1>2, <3>1, <3>2 DEF Coming
    <2>4. QED
      BY <1>2, <2>1, <2>2, <2>3, EntriesUntouched DEF MapInv
  <1>5. EntriesOf(r)'
    <2> SUFFICES ASSUME Connected(r)'
                 PROVE  EntriesOf(r)'
      BY DEF EntriesOf
    <2>1. Connected(r)
      BY <1>2 DEF Connected
    <2>2. /\ Coming(r)' = Coming(r) \cup {e}
          /\ \A f \in Coming(r) : f.rv < e.rv /\ f.uid \in MembersOf(r)
      BY <2>1, HappensComing
    <2>3. EntriesOf(r) /\ MembersOf(r) \subseteq Object
      BY Endpoints DEF MapInv, EntriesStand
    <2>4. ASSUME NEW f \in Coming(r), Tells(r, f)
          PROVE  Tells(r, f)' \/ (Tells(r, e)' /\ f.uid = u)
      BY <1>1, <2>2, <2>3, <2>4 DEF Tells, Writes
    <2>5. ASSUME NEW w \in MembersOf(r), Alive(w)'
          PROVE  \/ ForUID'[w] = object'[w].spec
                 \/ \E f \in Coming(r)' : f.uid = w /\ Tells(r, f)'
      <3>1. CASE w = u /\ Tells(r, e)'
        BY <1>2, <2>2, <3>1
      <3>2. CASE object'[w].spec = object[w].spec /\ ~(w = u /\ Tells(r, e)')
        <4>1. Alive(w)
          <5>1. CASE w = u
            <6>1. e.type # "ADDED"
              BY <1>2, <3>2, <5>1 DEF Tells, Writes
            <6>2. QED
              BY <1>1, <1>2, <5>1, <6>1 DEF EventType
          <5>2. CASE w # u
            BY <1>1, <2>3, <2>5, <5>2
          <5>3. QED
            BY <5>1, <5>2
        <4>2. CASE ForUID[w] = object[w].spec
          BY <1>2, <3>2, <4>2
        <4>3. ASSUME NEW f \in Coming(r), f.uid = w, Tells(r, f)
              PROVE  \E h \in Coming(r)' : h.uid = w /\ Tells(r, h)'
          BY <2>2, <2>4, <3>2, <4>3
        <4>4. QED
          BY <2>1, <2>3, <4>1, <4>2, <4>3 DEF EntriesOf
      <3>3. QED
        BY <1>1, <2>3, <3>1, <3>2
    <2>6. ASSUME NEW w \in MembersOf(r), ForUID'[w] # NULL
          PROVE  \/ Alive(w)' \/ w \in missed'[r]
                 \/ \E d \in Coming(r)' : d.uid = w /\ d.type = "DELETED"
      <3>1. CASE w = u
        <4>1. e.type # "ADDED"
          BY <1>2, <2>6, <3>1 DEF MapInv, EntriesStand
        <4>2. QED
          BY <1>1, <1>2, <2>2, <3>1, <4>1 DEF EventType
      <3>2. CASE w # u
        BY <1>1, <1>2, <2>1, <2>2, <2>3, <2>6, <3>2 DEF EntriesOf
      <3>3. QED
        BY <3>1, <3>2
    <2>7. ASSUME NEW f \in Coming(r)', Writes(r, f)', f.type # "ADDED"
          PROVE  \/ ForUID'[f.uid] # NULL
                 \/ \E a \in Coming(r)' :
                        a.uid = f.uid /\ a.type = "ADDED" /\ a.rv < f.rv
      <3>1. CASE f \in Coming(r)
        <4>1. Writes(r, f)
          BY <2>7 DEF Writes
        <4>2. QED
          BY <1>2, <2>1, <2>2, <2>3, <2>7, <3>1, <4>1 DEF EntriesOf
      <3>2. CASE f = e
        <4>1. Alive(u) /\ object[u].spec # NULL
          <5>1. object[u].spec \in Nat
            BY DEF MapInv, TypeOK, ClusterTypeOK, Snapshot
          <5>2. QED
            BY <1>1, <1>2, <2>7, <3>2, <5>1, NullIsNoNumber DEF EventType
        <4>2. CASE ForUID[u] = object[u].spec
          BY <1>2, <3>2, <4>1, <4>2
        <4>3. ASSUME NEW h \in Coming(r), h.uid = u, Tells(r, h)
              PROVE  \/ ForUID[u] # NULL
                     \/ \E a \in Coming(r) : a.uid = u /\ a.type = "ADDED"
          BY <2>1, <2>3, <4>3 DEF EntriesOf, Tells
        <4>4. QED
          BY <1>2, <2>1, <2>2, <2>3, <3>2, <4>1, <4>2, <4>3 DEF EntriesOf
      <3>3. QED
        BY <2>2, <2>7, <3>1, <3>2
    <2>8. QED
      BY <2>5, <2>6, <2>7 DEF EntriesOf
  <1>6. QED
    BY <1>3, <1>4, <1>5 DEF EntriesStand

\* Nothing the cluster does takes the maps off their way.
LEMMA ClusterKeeps ==
    ASSUME MapInv, ClusterNext, TypeOK',
           UNCHANGED <<dbVars, trackerVars, ForUID>>
    PROVE  MapInv'
  <1>1. /\ pc' = pc /\ rv' = rv /\ listing' = listing /\ cursor' = cursor
        /\ event' = event /\ missed' = missed /\ ForUID' = ForUID
        /\ resource_version' = resource_version
    BY DEF trackerVars, dbVars
  <1>2. \A q \in Resource : Connected(q)' <=> Connected(q)
    BY <1>1 DEF Connected
  <1>3. CASE Compact
    <2>1. index' = index /\ object' = object /\ log' = log
      BY <1>3 DEF Compact
    <2>2. LogOrdered'
      BY <2>1 DEF MapInv, LogOrdered, Alive
    <2>3. SpecsTold' /\ ListsTold'
      BY <1>1, <2>1 DEF MapInv, SpecsTold, ListsTold, Tells, Writes
    <2>4. WatchesStand'
      BY <1>1, <1>2, <2>1 DEF MapInv, WatchesStand
    <2>5. InHandStands'
      BY <1>1, <2>1 DEF MapInv, InHandStands, Offered, Writes
    <2>6. ASSUME NEW q \in Resource PROVE EntriesOf(q)'
      <3>1. Queue(q)' = Queue(q)
        BY <1>1, <2>1 DEF Queue
      <3>2. Coming(q)' = Coming(q)
        BY <1>1, <3>1 DEF Coming
      <3>3. QED
        BY <1>1, <1>2, <2>1, <3>2, EntriesUntouched DEF MapInv
    <2>7. EntriesStand'
      BY <1>1, <2>1, <2>6 DEF MapInv, EntriesStand
    <2>8. QED
      BY <2>2, <2>3, <2>4, <2>5, <2>7 DEF MapInv
  <1>4. CASE LawfulStep
    <2>1. PICK r \in Resource, u \in Object, e \in Event : Happens(r, u, e)
      BY <1>4, ChangeHappens DEF MapInv, TypeOK
    <2>2. LogOrdered' /\ SpecsTold' /\ ListsTold' /\ EntriesStand'
      BY <2>1, HappensInOrder, HappensTold, HappensEntries
    <2>3. index \in Nat /\ index' = index + 1
      BY <2>1, HappensAfter DEF Happens
    <2>4. WatchesStand'
      BY <1>1, <1>2, <2>3 DEF MapInv, WatchesStand, TypeOK
    <2>5. InHandStands'
      <3> SUFFICES ASSUME pc[PVs] \in PVHandlerStep
                   PROVE  /\ event \in Offered(PVs)'
                          /\ pc[PVs] # "bind" => Writes(PVs, event)
        BY <1>1 DEF InHandStands, Writes
      <3>1. /\ event \in Offered(PVs) /\ PVs \in Resource
            /\ pc[PVs] # "bind" => Writes(PVs, event)
        BY Endpoints DEF MapInv, InHandStands
      <3>2. \A f \in log'[PVs] : f \in log[PVs] \/ f.rv = index + 1
        BY <2>1, <3>1 DEF Happens
      <3>3. log[PVs] \subseteq log'[PVs]
        BY <2>1, <3>1 DEF Happens
      <3>4. \A f \in log[PVs] : f.rv \in Nat /\ f.rv <= index
        BY <2>1, <3>1, HappensAfter
      <3>5. event \in Offered(PVs)'
        BY <1>1, <2>3, <3>1, <3>2, <3>3, <3>4 DEF Offered
      <3>6. QED
        BY <3>1, <3>5
    <2>6. QED
      BY <2>2, <2>4, <2>5 DEF MapInv
  <1>5. QED
    BY <1>3, <1>4, ClusterNextIsLawful DEF MapInv, TypeOK

-----------------------------------------------------------------------------
(* The counter and the ids.                                                *)

CountInv ==
    /\ Deletions \in Nat /\ deleted \in Nat
    /\ read \in [Resource -> Nat \cup {NULL}]
    /\ CountsStand /\ DeletionsSeen

SourceInv ==
    /\ nfsIDMap \in [Source -> 0..lastNFSID] /\ lastNFSID \in Nat
    /\ backendID \in 0..lastNFSID
    /\ sourceID \in [PV -> 0..lastNFSID]

\* The maps, and that no update has failed.
EntryInv ==
    /\ ForUID \in [Object -> Nat \cup {NULL}]
    /\ invalidRVs \in BOOLEAN /\ panicked \in BOOLEAN /\ ~panicked

LEMMA MockInvParts ==
    MockInv <=> MapInv /\ CountInv /\ SourceInv /\ EntryInv
  BY DEF MockInv, MockTypeOK, MapInv, CountInv, SourceInv, EntryInv,
         UpdatesFindEntries

LEMMA MockInvJoined ==
    ASSUME MapInv', CountInv', SourceInv', EntryInv'
    PROVE  MockInv'
  BY DEF MockInv, MockTypeOK, MapInv, CountInv, SourceInv, EntryInv,
         UpdatesFindEntries

\* What leaves the counter alone leaves what is known of it.
LEMMA CountStands ==
    ASSUME CountInv, UNCHANGED countVars
    PROVE  CountInv'
  BY DEF CountInv, countVars, CountsStand, DeletionsSeen

LEMMA SourceStands ==
    ASSUME SourceInv, UNCHANGED sourceVars
    PROVE  SourceInv'
  BY DEF SourceInv, sourceVars

\* Reading the counter is safe, whoever else has read it.
LEMMA DeleteCounts ==
    ASSUME CountInv, EntryInv, SourceInv, NEW r \in Resource, NEW u \in Object,
           Delete(r, u)
    PROVE  /\ CountInv' /\ EntryInv' /\ SourceInv'
           /\ ForUID' = [ForUID EXCEPT ![u] = NULL]
  <1>1. /\ Deletions' = Deletions /\ deleted' = deleted + 1
        /\ read' = [read EXCEPT ![r] = Deletions]
        /\ ForUID' = [ForUID EXCEPT ![u] = NULL]
        /\ invalidRVs' = invalidRVs /\ panicked' = panicked
    BY DEF Delete
  <1>2. /\ Deletions \in Nat /\ deleted \in Nat /\ Deletions <= deleted
        /\ Deletions # NULL
    BY NullIsNoNumber DEF CountInv, DeletionsSeen
  <1>3. read' \in [Resource -> Nat \cup {NULL}] /\ read'[r] = Deletions
    BY <1>1, <1>2 DEF CountInv
  <1>4. CountsStand'
    <2> SUFFICES ASSUME NEW q \in Resource, read'[q] # NULL
                 PROVE  read'[q] < deleted'
      BY DEF CountsStand
    <2>1. CASE q = r
      BY <1>1, <1>2, <1>3, <2>1
    <2>2. CASE q # r
      <3>1. read'[q] = read[q] /\ read[q] \in Nat
        BY <1>1, <2>2 DEF CountInv
      <3>2. read[q] < deleted
        BY <3>1, NullIsNoNumber DEF CountInv, CountsStand
      <3>3. QED
        BY <1>1, <1>2, <3>1, <3>2
    <2>3. QED
      BY <2>1, <2>2
  <1>5. DeletionsSeen'
    BY <1>1, <1>2, <1>3 DEF DeletionsSeen
  <1>6. CountInv'
    BY <1>1, <1>2, <1>3, <1>4, <1>5 DEF CountInv
  <1>7. EntryInv'
    BY <1>1 DEF EntryInv
  <1>8. SourceInv'
    BY SourceStands DEF Delete
  <1>9. QED
    BY <1>1, <1>6, <1>7, <1>8

\* Writing back one more than was read counts something, and not too much.
LEMMA CountKeeps ==
    ASSUME CountInv, NEW r \in Resource, Count(r)
    PROVE  CountInv'
  <1>1. /\ Deletions' = read[r] + 1 /\ deleted' = deleted
        /\ read' = [read EXCEPT ![r] = NULL]
        /\ read[r] \in Nat /\ read[r] < deleted /\ deleted \in Nat
    BY DEF Count, CountInv, CountsStand
  <1>2. \A q \in Resource : read'[q] # NULL => read'[q] = read[q]
    BY <1>1 DEF CountInv
  <1>3. CountsStand'
    BY <1>1, <1>2 DEF CountInv, CountsStand
  <1>4. Deletions' \in Nat /\ Deletions' > 0 /\ Deletions' <= deleted'
    BY <1>1
  <1>5. DeletionsSeen'
    BY <1>4 DEF DeletionsSeen
  <1>6. read' \in [Resource -> Nat \cup {NULL}]
    BY <1>1 DEF CountInv
  <1>7. QED
    BY <1>1, <1>3, <1>4, <1>5, <1>6 DEF CountInv

\* So does leaving the maps alone.
LEMMA EntryStands ==
    ASSUME EntryInv, UNCHANGED <<ForUID, invalidRVs, panicked>>
    PROVE  EntryInv'
  BY DEF EntryInv

\* Steps that touch nothing of the mock keep all but what is about watches.
LEMMA MockStands ==
    ASSUME CountInv, SourceInv, EntryInv, UNCHANGED mockVars
    PROVE  CountInv' /\ SourceInv' /\ EntryInv' /\ ForUID' = ForUID
  BY CountStands, SourceStands, EntryStands DEF mockVars

\* An insertion stores what the event says.
LEMMA InsertWrites ==
    ASSUME CountInv, EntryInv, NEW r \in Resource, NEW e \in Event,
           Writes(r, e), Insert(e.uid, e.spec)
    PROVE  CountInv' /\ EntryInv' /\ Effect(r, e)
  <1>1. e.uid \in Object /\ e.spec \in Nat
    BY DEF Event
  <1>2. /\ ForUID' = [ForUID EXCEPT ![e.uid] = e.spec]
        /\ UNCHANGED <<countVars, invalidRVs, panicked>>
    BY DEF Insert
  <1>3. CountInv'
    BY <1>2, CountStands
  <1>4. EntryInv'
    BY <1>1, <1>2 DEF EntryInv
  <1>5. Effect(r, e)
    BY <1>1, <1>2 DEF Effect, EntryInv
  <1>6. QED
    BY <1>3, <1>4, <1>5

\* So does an update that finds its entry.
LEMMA UpdateWrites ==
    ASSUME CountInv, EntryInv, NEW r \in Resource, NEW e \in Event,
           Writes(r, e), ForUID[e.uid] # NULL, Update(e.uid, e.spec)
    PROVE  CountInv' /\ EntryInv' /\ Effect(r, e)
  BY InsertWrites DEF Update, Insert

\* A deletion takes the entry away.
LEMMA DeleteWrites ==
    ASSUME EntryInv, NEW r \in Resource, NEW e \in Event,
           e.type = "DELETED", ForUID' = [ForUID EXCEPT ![e.uid] = NULL]
    PROVE  Effect(r, e)
  <1>1. e.uid \in Object
    BY DEF Event
  <1>2. QED
    BY <1>1 DEF Effect, EntryInv

\* An event that is neither changes nothing.
LEMMA NothingWritten ==
    ASSUME NEW r \in Resource, NEW e \in Event,
           ~Writes(r, e), e.type # "DELETED", UNCHANGED ForUID
    PROVE  Effect(r, e)
  BY DEF Effect

-----------------------------------------------------------------------------
(* The handlers.                                                           *)

\* Handlers of one call keep the tracker's types.
LEMMA HandledTypeOK ==
    ASSUME TypeOK, NEW r \in Resource, NEW e, Receives(r, e), Handled(r, e),
           UNCHANGED dbVars
    PROVE  TypeOK'
  <1>1. e \in Offered(r) /\ Consume(r, e)
    BY DEF Receives, Handled
  <1>2. e.rv \in Nat
    BY <1>1, OfferedType
  <1>3. DBTypeOK'
    BY DEF TypeOK, dbVars, DBTypeOK
  <1>4. QED
    BY <1>1, <1>2, <1>3, ConsumeType
       DEF Handled, TypeOK, clusterVars, ClusterTypeOK

LEMMA PodsKeep ==
    ASSUME MockInv, MockHandlePods
    PROVE  MockInv'
  <1>1. PICK e : /\ Receives("pods", e) /\ Handled("pods", e)
                 /\ UNCHANGED dbVars
                 /\ \/ e.type = "ADDED" /\ Insert(e.uid, e.spec)
                       /\ UNCHANGED sourceVars
                    \/ e.type = "MODIFIED" /\ UNCHANGED mockVars
                    \/ e.type = "DELETED" /\ Delete("pods", e.uid)
    BY DEF MockHandlePods, Events
  <1>2. MapInv /\ CountInv /\ SourceInv /\ EntryInv /\ "pods" \in Resource
    BY MockInvParts, Endpoints
  <1>3. TypeOK' /\ e \in Event /\ e.uid \in Object
    BY <1>1, <1>2, HandledTypeOK, OfferedType, Endpoints DEF MapInv, Receives
  <1>4. CountInv' /\ SourceInv' /\ EntryInv' /\ Effect("pods", e)
    <2>1. CASE e.type = "ADDED" /\ Insert(e.uid, e.spec) /\ UNCHANGED sourceVars
      BY <1>2, <1>3, <2>1, InsertWrites, SourceStands DEF Writes
    <2>2. CASE e.type = "MODIFIED" /\ UNCHANGED mockVars
      <3>1. ~Writes("pods", e)
        BY <2>2, Endpoints DEF Writes, PVCs
      <3>2. QED
        BY <1>2, <1>3, <2>2, <3>1, MockStands, NothingWritten
    <2>3. CASE e.type = "DELETED" /\ Delete("pods", e.uid)
      BY <1>2, <1>3, <2>3, DeleteCounts, DeleteWrites
    <2>4. QED
      BY <1>1, <2>1, <2>2, <2>3
  <1>5. MapInv'
    BY <1>1, <1>2, <1>3, <1>4, HandledKeeps, Endpoints
  <1>6. QED
    BY <1>4, <1>5, MockInvJoined

LEMMA ClaimsKeep ==
    ASSUME MockInv, MockHandlePVCs
    PROVE  MockInv'
  <1>1. PICK e : /\ Receives(PVCs, e) /\ Handled(PVCs, e)
                 /\ UNCHANGED dbVars
                 /\ \/ e.type = "ADDED" /\ Insert(e.uid, e.spec)
                       /\ UNCHANGED sourceVars
                    \/ e.type = "MODIFIED" /\ e.phase = "Pending"
                       /\ Update(e.uid, e.spec) /\ UNCHANGED sourceVars
                    \/ e.type = "MODIFIED" /\ e.phase # "Pending"
                       /\ UNCHANGED mockVars
                    \/ e.type = "DELETED" /\ Delete(PVCs, e.uid)
    BY DEF MockHandlePVCs, PVCs, Events
  <1>2. MapInv /\ CountInv /\ SourceInv /\ EntryInv /\ PVCs \in Resource
    BY MockInvParts, Endpoints
  <1>3. TypeOK' /\ e \in Event /\ e.uid \in Object
    BY <1>1, <1>2, HandledTypeOK, OfferedType, Endpoints DEF MapInv, Receives
  <1>4. CountInv' /\ SourceInv' /\ EntryInv' /\ Effect(PVCs, e)
    <2>1. CASE e.type = "ADDED" /\ Insert(e.uid, e.spec) /\ UNCHANGED sourceVars
      BY <1>2, <1>3, <2>1, InsertWrites, SourceStands DEF Writes
    <2>2. CASE e.type = "MODIFIED" /\ e.phase = "Pending"
               /\ Update(e.uid, e.spec) /\ UNCHANGED sourceVars
      <3>1. Writes(PVCs, e)
        BY <2>2 DEF Writes, PVCs
      <3>2. e \in Offered(PVCs) /\ Connected(PVCs) /\ pc[PVCs] # "bind"
        BY <1>1 DEF Receives, Connected
      <3>3. ForUID[e.uid] # NULL
        BY <1>2, <2>2, <3>1, <3>2, FirstHasEntry
      <3>4. QED
        BY <1>2, <1>3, <2>2, <3>1, <3>3, UpdateWrites, SourceStands
    <2>3. CASE e.type = "MODIFIED" /\ e.phase # "Pending" /\ UNCHANGED mockVars
      <3>1. ~Writes(PVCs, e)
        BY <2>3, Endpoints DEF Writes, PVCs
      <3>2. QED
        BY <1>2, <1>3, <2>3, <3>1, MockStands, NothingWritten
    <2>4. CASE e.type = "DELETED" /\ Delete(PVCs, e.uid)
      BY <1>2, <1>3, <2>4, DeleteCounts, DeleteWrites
    <2>5. QED
      BY <1>1, <2>1, <2>2, <2>3, <2>4
  <1>5. MapInv'
    BY <1>1, <1>2, <1>3, <1>4, HandledKeeps, Endpoints
  <1>6. QED
    BY <1>4, <1>5, MockInvJoined

\* Storing a volume, or deleting it, is writing its entry; what comes before
\* and after changes no entry.
LEMMA VolumesKeep ==
    ASSUME MockInv,
           MockHandlePVs \/ MockRecordSource \/ MockStorePV \/ MockBindPV
    PROVE  MockInv'
  <1>1. /\ MapInv /\ CountInv /\ SourceInv /\ EntryInv
        /\ PVs \in Resource /\ MembersOf(PVs) = PV
    BY MockInvParts, Endpoints
  <1>2. ASSUME UNCHANGED dbVars PROVE DBTypeOK'
    BY <1>1, <1>2 DEF MapInv, TypeOK, dbVars, DBTypeOK
  <1>3. UNCHANGED dbVars => resource_version' = resource_version
    BY DEF dbVars
  <1>4. ASSUME pc[PVs] \in PVHandlerStep
        PROVE  /\ event \in Offered(PVs) /\ event \in Event
               /\ event.uid \in PV /\ event.rv \in Nat /\ Connected(PVs)
               /\ pc[PVs] # "bind" => Writes(PVs, event)
    BY <1>1, <1>4, OfferedType DEF MapInv, InHandStands, Connected
  <1>5. CASE MockHandlePVs
    <2>1. PICK e : /\ Receives(PVs, e)
                   /\ \/ startPV(e) /\ UNCHANGED mockVars
                      \/ e.type = "MODIFIED"
                         /\ e.phase \notin {"Available", "Bound"}
                         /\ PVDone(e) /\ UNCHANGED <<dbVars, mockVars>>
                      \/ e.type = "DELETED" /\ PVDone(e)
                         /\ Delete(PVs, e.uid) /\ UNCHANGED dbVars
                   /\ UNCHANGED <<clusterVars, initialize, rv, drops, crashes,
                                  missed>>
      BY <1>5 DEF MockHandlePVs, Events
    <2>2. /\ e \in Offered(PVs) /\ Connected(PVs) /\ pc[PVs] # "bind"
          /\ e \in Event /\ e.uid \in PV /\ e.rv \in Nat /\ e.uid \in Object
      BY <1>1, <2>1, OfferedType, Endpoints DEF Receives, Connected, MapInv
    <2>3. CASE startPV(e) /\ UNCHANGED mockVars
      <3>1. CountInv' /\ SourceInv' /\ EntryInv' /\ ForUID' = ForUID
        BY <1>1, <2>3, MockStands
      <3>2. /\ event' = e /\ UNCHANGED <<dbVars, listing, cursor>>
            /\ DBTypeOK'
        BY <1>2, <2>3 DEF startPV
      <3>3. ASSUME Writes(PVs, e), NEW step \in {"source", "store"},
                   PVGoesTo(step), step = "source" => e.source # NULL
            PROVE  MapInv'
        <4>1. TypeOK'
          BY <1>1, <2>1, <2>2, <3>2, <3>3, PVGoesOnTypeOK
             DEF MapInv, PVHandlerStep
        <4>2. QED
          BY <1>1, <1>3, <2>1, <2>2, <3>1, <3>2, <3>3, <4>1, GoingOnKeeps
      <3>4. ASSUME e.type = "MODIFIED", e.phase = "Bound", PVGoesTo("bind")
            PROVE  MapInv'
        <4>1. TypeOK'
          BY <1>1, <2>1, <2>2, <3>2, <3>4, PVGoesOnTypeOK
             DEF MapInv, PVHandlerStep
        <4>2. Effect(PVs, e)
          BY <1>1, <2>2, <3>1, <3>4, NothingWritten, Endpoints
             DEF Writes, PVCs
        <4>3. QED
          BY <1>1, <1>3, <2>1, <2>2, <3>1, <3>2, <3>4, <4>1, <4>2, VolumeKeeps
      <3>5. \/ /\ Writes(PVs, e)
               /\ \E step \in {"source", "store"} :
                    /\ PVGoesTo(step)
                    /\ step = "source" => e.source # NULL
            \/ e.type = "MODIFIED" /\ e.phase = "Bound" /\ PVGoesTo("bind")
        BY <2>3 DEF startPV, Writes
      <3>6. QED
        BY <3>1, <3>3, <3>4, <3>5, MockInvJoined
    <2>4. CASE e.type = "MODIFIED" /\ e.phase \notin {"Available", "Bound"}
               /\ PVDone(e) /\ UNCHANGED <<dbVars, mockVars>>
      <3>1. CountInv' /\ SourceInv' /\ EntryInv' /\ ForUID' = ForUID
        BY <1>1, <2>4, MockStands
      <3>2. TypeOK'
        BY <1>1, <1>2, <2>1, <2>2, <2>4, PVDoneTypeOK DEF MapInv
      <3>3. Effect(PVs, e)
        BY <1>1, <2>2, <2>4, <3>1, NothingWritten, Endpoints DEF Writes, PVCs
      <3>4. MapInv'
        BY <1>1, <1>3, <2>1, <2>2, <2>4, <3>2, <3>3, VolumeKeeps
      <3>5. QED
        BY <3>1, <3>4, MockInvJoined
    <2>5. CASE e.type = "DELETED" /\ PVDone(e)
               /\ Delete(PVs, e.uid) /\ UNCHANGED dbVars
      <3>1. /\ CountInv' /\ SourceInv' /\ EntryInv'
            /\ ForUID' = [ForUID EXCEPT ![e.uid] = NULL]
        BY <1>1, <2>2, <2>5, DeleteCounts
      <3>2. TypeOK'
        BY <1>1, <1>2, <2>1, <2>2, <2>5, PVDoneTypeOK DEF MapInv
      <3>3. Effect(PVs, e)
        BY <1>1, <2>2, <2>5, <3>1, DeleteWrites
      <3>4. MapInv'
        BY <1>1, <1>3, <2>1, <2>2, <2>5, <3>2, <3>3, VolumeKeeps
      <3>5. QED
        BY <3>1, <3>4, MockInvJoined
    <2>6. QED
      BY <2>1, <2>3, <2>4, <2>5
  <1>6. CASE MockRecordSource
    <2> DEFINE x == event.source
    <2>1. /\ PVGoesTo("store") /\ pc[PVs] = "source" /\ event' = event
          /\ UNCHANGED <<clusterVars, dbVars, initialize, rv, listing, cursor,
                         drops, crashes, missed, ForUID>>
          /\ UNCHANGED <<sourceID, countVars, invalidRVs, panicked>>
          /\ backendID' = nfsIDMap'[x]
          /\ \/ nfsIDMap' = nfsIDMap /\ lastNFSID' = lastNFSID
             \/ /\ lastNFSID' = lastNFSID + 1
                /\ nfsIDMap' = [nfsIDMap EXCEPT ![x] = lastNFSID']
      BY <1>6 DEF MockRecordSource
    <2>2. pc[PVs] \in PVHandlerStep /\ pc[PVs] # "bind"
      BY <2>1 DEF PVHandlerStep
    <2>3. x \in Source
      BY <1>1, <1>4, <2>1, <2>2, NothingIsFatal DEF MapInv, TypeOK, Event
    <2> HIDE DEF x
    <2>4. SourceInv'
      <3>1. lastNFSID \in Nat /\ lastNFSID' \in Nat /\ lastNFSID' >= lastNFSID
        BY <1>1, <2>1 DEF SourceInv
      <3>2. nfsIDMap' \in [Source -> 0..lastNFSID']
        BY <1>1, <2>1, <2>3, <3>1 DEF SourceInv
      <3>3. sourceID' \in [PV -> 0..lastNFSID']
        BY <1>1, <2>1, <3>1 DEF SourceInv
      <3>4. QED
        BY <2>1, <2>3, <3>1, <3>2, <3>3 DEF SourceInv
    <2>5. CountInv' /\ EntryInv'
      BY <1>1, <2>1, CountStands, EntryStands
    <2>6. TypeOK'
      BY <1>1, <1>2, <1>4, <2>1, <2>2, PVGoesOnTypeOK DEF MapInv, PVHandlerStep
    <2>7. event' \in Offered(PVs) /\ Writes(PVs, event')
      BY <1>4, <2>1, <2>2
    <2>8. MapInv'
      BY <1>1, <1>3, <1>4, <2>1, <2>2, <2>6, <2>7, GoingOnKeeps
    <2>9. QED
      BY <2>4, <2>5, <2>8, MockInvJoined
  <1>7. CASE MockStorePV
    <2>1. /\ pc[PVs] = "store"
          /\ \/ /\ event.type = "ADDED" /\ Insert(event.uid, event.spec)
                /\ \/ PVGoesTo("bind") /\ UNCHANGED <<event, listing, cursor>>
                   \/ PVDone(event)
             \/ /\ event.type = "MODIFIED" /\ Update(event.uid, event.spec)
                /\ PVDone(event)
          /\ sourceID' = [sourceID EXCEPT ![event.uid] = backendID]
          /\ backendID' = 0
          /\ UNCHANGED <<clusterVars, dbVars, initialize, rv, drops, crashes,
                         missed>>
          /\ UNCHANGED <<nfsIDMap, lastNFSID>>
      BY <1>7 DEF MockStorePV
    <2>2. pc[PVs] \in PVHandlerStep /\ pc[PVs] # "bind"
      BY <2>1 DEF PVHandlerStep
    <2>3. /\ event \in Offered(PVs) /\ event \in Event
          /\ event.uid \in PV /\ event.rv \in Nat /\ Connected(PVs)
          /\ Writes(PVs, event)
      BY <1>4, <2>2
    <2>4. SourceInv'
      BY <1>1, <2>1, <2>3 DEF SourceInv
    <2>5. event.type = "MODIFIED" => ForUID[event.uid] # NULL
      BY <1>1, <2>2, <2>3, FirstHasEntry
    <2>6. CountInv' /\ EntryInv' /\ Effect(PVs, event)
      BY <1>1, <2>1, <2>3, <2>5, InsertWrites, UpdateWrites
    <2>7. \/ PVDone(event)
          \/ /\ PVGoesTo("bind") /\ event' = event
             /\ UNCHANGED <<listing, cursor>>
      BY <2>1
    <2>8. TypeOK'
      <3>1. CASE PVDone(event)
        BY <1>1, <1>2, <2>1, <2>3, <3>1, PVDoneTypeOK DEF MapInv
      <3>2. CASE PVGoesTo("bind") /\ event' = event
                 /\ UNCHANGED <<listing, cursor>>
        BY <1>1, <1>2, <2>1, <2>3, <3>2, PVGoesOnTypeOK
           DEF MapInv, PVHandlerStep
      <3>3. QED
        BY <2>7, <3>1, <3>2
    <2>9. MapInv'
      BY <1>1, <1>3, <2>1, <2>2, <2>3, <2>6, <2>7, <2>8, VolumeKeeps
    <2>10. QED
      BY <2>4, <2>6, <2>9, MockInvJoined
  <1>8. CASE MockBindPV
    <2>1. /\ pc[PVs] = "bind" /\ PVDone(event)
          /\ UNCHANGED <<clusterVars, dbVars, initialize, rv, drops, crashes,
                         missed>>
          /\ UNCHANGED mockVars
      BY <1>8 DEF MockBindPV
    <2>2. event.rv \in Nat
      BY <1>4, <2>1 DEF PVHandlerStep
    <2>3. CountInv' /\ SourceInv' /\ EntryInv' /\ ForUID' = ForUID
      BY <1>1, <2>1, MockStands
    <2>4. TypeOK'
      BY <1>1, <1>2, <2>1, <2>2, PVDoneTypeOK DEF MapInv
    <2>5. MapInv'
      BY <1>1, <1>3, <2>1, <2>3, <2>4, BindingKeeps
    <2>6. QED
      BY <2>3, <2>5, MockInvJoined
  <1>9. QED
    BY <1>5, <1>6, <1>7, <1>8

-----------------------------------------------------------------------------
(* Every step of the mock's specification.                                 *)

\* What is known of the maps does not depend on the flags and the counter.
LEMMA MapsStand ==
    ASSUME MapInv, TypeOK',
           UNCHANGED <<clusterVars, dbVars, pc, rv, listing, cursor, event,
                       missed, ForUID>>
    PROVE  MapInv'
  <1>1. /\ index' = index /\ object' = object /\ log' = log
        /\ pc' = pc /\ rv' = rv /\ listing' = listing /\ cursor' = cursor
        /\ event' = event /\ missed' = missed /\ ForUID' = ForUID
        /\ resource_version' = resource_version
    BY DEF clusterVars, dbVars
  <1>2. \A q \in Resource : Connected(q)' <=> Connected(q)
    BY <1>1 DEF Connected
  <1>3. LogOrdered' /\ SpecsTold'
    BY ClusterStands DEF MapInv
  <1>4. WatchesStand' /\ ListsTold'
    BY <1>1, <1>2 DEF MapInv, WatchesStand, ListsTold, Tells, Writes
  <1>5. InHandStands'
    BY <1>1 DEF MapInv, InHandStands, Offered, Writes
  <1>6. ASSUME NEW q \in Resource PROVE EntriesOf(q)'
    <2>1. Queue(q)' = Queue(q)
      BY <1>1 DEF Queue
    <2>2. Coming(q)' = Coming(q)
      BY <1>1, <2>1 DEF Coming
    <2>3. QED
      BY <1>1, <1>2, <2>2, EntriesUntouched DEF MapInv
  <1>7. EntriesStand'
    BY <1>1, <1>6 DEF MapInv, EntriesStand
  <1>8. QED
    BY <1>3, <1>4, <1>5, <1>7 DEF MapInv

LEMMA InitMock == MockInit => MockInv
  <1> SUFFICES ASSUME MockInit PROVE MockInv
    OBVIOUS
  <1>1. /\ index = 1 /\ log = [r \in Resource |-> {}] /\ compacted = 0
        /\ object = [u \in Object |->
                        IF u \in PVC
                          THEN [NoObject(u) EXCEPT !.rv = 1,
                                                   !.created = Stamp(1),
                                                   !.phase = "Pending"]
                          ELSE NoObject(u)]
    BY DEF MockInit, ClusterWithClaims
  <1>2. /\ pc = [r \in Resource |-> IF r \in Watched THEN "connect" ELSE "down"]
        /\ initialize = [r \in Resource |-> FALSE]
        /\ rv = [r \in Resource |-> 0]
        /\ listing = [r \in Resource |-> {}]
        /\ cursor = [r \in Resource |-> 0]
        /\ drops = 0 /\ crashes = 0
        /\ missed = [r \in Resource |-> {}]
        /\ resource_version = [r \in Resource |-> 0]
    BY DEF MockInit, TrackerInit, Started, DBInit
  <1>3. /\ ForUID = [u \in Object |-> NULL]
        /\ nfsIDMap = [x \in Source |-> 0] /\ lastNFSID = 0 /\ backendID = 0
        /\ sourceID = [v \in PV |-> 0] /\ invalidRVs \in BOOLEAN
        /\ Deletions = 0 /\ read = [r \in Resource |-> NULL]
        /\ deleted = 0 /\ panicked = FALSE
    BY DEF MockInit
  <1>4. Stamp(1) \in Nat
    BY StampIsNat
  <1>5. \A u \in Object :
            /\ object[u] \in Snapshot
            /\ object[u].phase \in {"absent", "Pending"}
            /\ object[u].phase = "Pending" => object[u].rv = 1
    <2>1. ASSUME NEW u \in Object
          PROVE  /\ NoObject(u) \in Snapshot
                 /\ NoObject(u).phase = "absent" /\ NoObject(u).spec = 0
      BY SpecsTyped DEF NoObject, Snapshot, Time, Phase
    <2>2. QED
      BY <1>1, <1>4, <2>1 DEF Snapshot, Time, Phase
  <1>6. ClusterTypeOK
    <2>1. \A v \in PV : object[v].source \in SourcesOf(v)
      BY <1>1, Endpoints, KindsDisjoint DEF NoObject, SourcesOf
    <2>2. object \in [Object -> Snapshot]
      BY <1>1, <1>5
    <2>3. index = 1 /\ compacted = 0 /\ log = [r \in Resource |-> {}]
      BY <1>1
    <2>4. QED
      BY <2>1, <2>2, <2>3, BoundsAreNumbers, RoomForClaims DEF ClusterTypeOK
  <1>7. DBTypeOK
    BY DEF MockInit, TrackerInit, DBInit, DBTypeOK, PodRow, PVCRow, PVRow,
           Time, Resource
  <1>8. TypeOK
    BY <1>2, <1>6, <1>7, FaultBoundsAreNumbers
       DEF TypeOK, Step, PVHandlerStep, PVs, Resource
  <1>9. \A r \in Resource : ~Connected(r) /\ pc[r] \notin PVHandlerStep
    BY <1>2 DEF Connected, PVHandlerStep
  <1>10. LogOrdered
    <2>1. /\ index = 1 /\ \A r \in Resource : log[r] = {}
          /\ \A r \in Resource : MembersOf(r) \subseteq Object
      BY <1>1 DEF Resource, MembersOf, Object
    <2>2. QED
      BY <1>5, <2>1 DEF LogOrdered, Alive
  <1>11. SpecsTold /\ ListsTold /\ WatchesStand
    BY <1>1, <1>2, <1>9 DEF SpecsTold, ListsTold, WatchesStand
  <1>12. InHandStands
    BY <1>9, Endpoints DEF InHandStands
  <1>13. EntriesStand
    BY <1>3, <1>9 DEF EntriesStand, EntriesOf
  <1>14. CountInv
    BY <1>3 DEF CountInv, CountsStand, DeletionsSeen
  <1>15. SourceInv /\ EntryInv
    <2>1. SourceInv
      BY <1>3 DEF SourceInv
    <2>2. ForUID \in [Object -> Nat \cup {NULL}]
      BY <1>3
    <2>3. panicked \in BOOLEAN /\ ~panicked
      BY <1>3
    <2>4. QED
      BY <1>3, <2>1, <2>2, <2>3, Zenon DEF EntryInv
  <1>16. QED
    BY <1>8, <1>10, <1>11, <1>12, <1>13, <1>14, <1>15, MockInvParts DEF MapInv

LEMMA NextMockInv ==
    ASSUME MockInv, [MockNext]_allVars
    PROVE  MockInv'
  <1>1. MapInv /\ CountInv /\ SourceInv /\ EntryInv
    BY MockInvParts
  <1>2. CASE MockClusterStep
    <2>1. CountInv' /\ SourceInv' /\ EntryInv' /\ ForUID' = ForUID
      BY <1>1, <1>2, MockStands DEF MockClusterStep
    <2>2. TypeOK' /\ ClusterNext /\ UNCHANGED <<dbVars, trackerVars>>
      BY <1>1, <1>2, ClusterStepTypeOK DEF MapInv, MockClusterStep, ClusterStep
    <2>3. MapInv'
      BY <1>1, <2>1, <2>2, ClusterKeeps
    <2>4. QED
      BY <2>1, <2>3, MockInvJoined
  <1>3. ASSUME NEW r \in Resource, MockConnect(r)
        PROVE  MockInv'
    <2>1. CASE MockConnectExpired(r)
      <3>1. CountInv' /\ SourceInv' /\ EntryInv' /\ ForUID' = ForUID
        BY <1>1, <2>1, MockStands DEF MockConnectExpired
      <3>2. TypeOK'
        BY <1>1, <2>1 DEF MapInv, TypeOK, MockConnectExpired, clusterVars,
           dbVars, ClusterTypeOK, DBTypeOK
      <3>3. MapInv'
        BY <1>1, <2>1, <3>1, <3>2, MapsStand DEF MockConnectExpired
      <3>4. QED
        BY <3>1, <3>3, MockInvJoined
    <2>2. CASE ConnectList(r) /\ UNCHANGED mockVars
      <3>1. CountInv' /\ SourceInv' /\ EntryInv' /\ ForUID' = ForUID
        BY <1>1, <2>2, MockStands
      <3>2. MapInv'
        BY <1>1, <2>2, <3>1, ConnectKeeps
      <3>3. QED
        BY <3>1, <3>2, MockInvJoined
    <2>3. QED
      BY <1>3, <2>1, <2>2 DEF MockConnect
  <1>4. ASSUME NEW r \in Resource, MockDrop(r)
        PROVE  MockInv'
    <2>1. CountInv' /\ SourceInv' /\ EntryInv' /\ ForUID' = ForUID
      BY <1>1, <1>4, MockStands DEF MockDrop
    <2>2. MapInv'
      BY <1>1, <1>4, <2>1, DropKeeps DEF MockDrop
    <2>3. QED
      BY <2>1, <2>2, MockInvJoined
  <1>5. ASSUME NEW r \in Resource, Count(r)
        PROVE  MockInv'
    <2>1. CountInv' /\ UNCHANGED vars
          /\ UNCHANGED <<ForUID, sourceVars, invalidRVs, panicked>>
      BY <1>1, <1>5, CountKeeps DEF Count
    <2>2. SourceInv' /\ EntryInv'
      BY <1>1, <2>1, SourceStands, EntryStands
    <2>3. TypeOK'
      BY <1>1, <2>1, StutterTypeOK DEF MapInv
    <2>4. MapInv'
      BY <1>1, <2>1, <2>3, MapsStand DEF vars, trackerVars
    <2>5. QED
      BY <2>1, <2>2, <2>4, MockInvJoined
  <1>6. CASE UNCHANGED allVars
    <2>1. UNCHANGED vars /\ UNCHANGED mockVars
      BY <1>6 DEF allVars
    <2>2. CountInv' /\ SourceInv' /\ EntryInv' /\ ForUID' = ForUID
      BY <1>1, <2>1, MockStands
    <2>3. TypeOK'
      BY <1>1, <2>1, StutterTypeOK DEF MapInv
    <2>4. MapInv'
      BY <1>1, <2>1, <2>2, <2>3, MapsStand DEF vars, trackerVars
    <2>5. QED
      BY <2>2, <2>4, MockInvJoined
  <1>7. QED
    BY <1>2, <1>3, <1>4, <1>5, <1>6, PodsKeep, ClaimsKeep, VolumesKeep
       DEF MockNext, Handler

\* The inductive invariant holds.
THEOREM MockInvariantHolds == MockSpec => []MockInv
  <1>1. MockInit => MockInv
    BY InitMock
  <1>2. MockInv /\ [MockNext]_allVars => MockInv'
    BY NextMockInv
  <1>3. QED
    BY <1>1, <1>2, PTL DEF MockSpec

\* The mock's maps hold storage, its ids are ids it has given, and its counter
\* counts.
THEOREM MockTypeCorrect == MockSpec => []MockTypeOK
  <1>1. MockInv => MockTypeOK
    BY DEF MockInv
  <1>2. QED
    BY <1>1, MockInvariantHolds, PTL

\* A goroutine that has caught up has nothing to come.
LEMMA DrainedIsConnected ==
    ASSUME TypeOK, NEW r \in Resource, Drained(r)
    PROVE  Connected(r) /\ Coming(r) = {}
  <1>1. cursor[r] \in Nat /\ \A e \in log[r] : e.rv \in Nat
    BY DEF TypeOK, ClusterTypeOK, Event
  <1>2. Queue(r) = {}
    BY <1>1 DEF Drained, Queue
  <1>3. QED
    BY <1>2 DEF Drained, Connected, Coming

\* A goroutine of Watch that has caught up has made its map show every live
\* object as it is, and no other but those deleted while it had no watch, for
\* every cluster, every order of lists and every number of dropped watches.
THEOREM MapsAreCurrent == MockSpec => []MapsConverge
  <1>1. ASSUME MockInv PROVE MapsConverge
    <2> SUFFICES ASSUME NEW r \in Resource, Drained(r), NEW u \in MembersOf(r)
                 PROVE  /\ Alive(u) => ForUID[u] = object[u].spec
                        /\ ForUID[u] # NULL => Alive(u) \/ u \in missed[r]
      BY WatchedTyped DEF MapsConverge
    <2>1. EntriesOf(r) /\ TypeOK
      BY <1>1 DEF MockInv, MockTypeOK, EntriesStand
    <2>2. QED
      BY <2>1, DrainedIsConnected DEF EntriesOf
  <1>2. QED
    BY <1>1, MockInvariantHolds, PTL

\* UpdatePV and UpdatePVC are never called for an object without an entry, so
\* their type assertions do not panic.
THEOREM UpdatesAreSafe == MockSpec => []UpdatesFindEntries
  <1>1. MockInv => UpdatesFindEntries
    BY DEF MockInv
  <1>2. QED
    BY <1>1, MockInvariantHolds, PTL

\* However the goroutines' increments of Deletions mix, it counts no more than
\* was deleted, and something when anything was.
THEOREM DeletionsAreSeen == MockSpec => []DeletionsSeen
  <1>1. MockInv => DeletionsSeen
    BY DEF MockInv
  <1>2. QED
    BY <1>1, MockInvariantHolds, PTL
=============================================================================
