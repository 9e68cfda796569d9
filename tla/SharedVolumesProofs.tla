------------------------ MODULE SharedVolumesProofs ------------------------
(***************************************************************************)
(* What is proved of SharedVolumes: its types, that every volume refers   *)
(* to an export that is there, and that an export has at most one row for *)
(* each goroutine.                                                         *)
(***************************************************************************)
EXTENDS SharedVolumesInvariant, ClusterProofs, FiniteSetTheorems

LEMMA PVsFact == PVs \in Resource /\ MembersOf(PVs) = PV
  BY DEF PVs, Resource, MembersOf

LEMMA InitType == Init => TypeOK
  <1> SUFFICES ASSUME Init PROVE TypeOK
    OBVIOUS
  <1>1. ClusterTypeOK
    <2>1. Stamp(1) \in Nat
      BY StampIsNat
    <2>2. object \in [Object -> Snapshot]
      <3>1. \A u \in Object : NoObject(u) \in Snapshot
        BY SpecsTyped DEF NoObject, Snapshot, Time, Phase
      <3>2. QED
        BY <2>1, <3>1 DEF Init, ClusterWithClaims, Snapshot, Time, Phase
    <2>3. index \in 0..MaxIndex /\ compacted \in 0..index
      <3>1. index = 1 /\ compacted = 0
        BY DEF Init, ClusterWithClaims
      <3>2. QED
        BY <3>1, BoundsAreNumbers, RoomForClaims
    <2>4. \A v \in PV : object[v].source \in SourcesOf(v)
      BY KindsDisjoint DEF Init, ClusterWithClaims, NoObject, SourcesOf, Object
    <2>5. QED
      BY <2>2, <2>3, <2>4 DEF Init, ClusterWithClaims, ClusterTypeOK
  <1>2. pvc \in [PVC -> DB!PVCRow] /\ pv \in [PV -> DB!PVRow]
        /\ resource_version \in [Resource -> Nat]
    BY DEF Init, DB!DBInit, DB!PVCRow, DB!PVRow, DB!Time, DB!Resource, Resource
  <1>3. faults \in 0..MaxFaults
    BY FaultsAreFinite DEF Init
  <1>4. QED
    BY <1>1, <1>2, <1>3 DEF Init, TypeOK, Step, ExportStep

\* The transactions of VolumeDB keep the types of the tables.
LEMMA TablesType ==
    ASSUME TypeOK, NEW e \in Event, e.uid \in PV, NEW t \in Time,
           \/ DB!InsertPV(e) \/ DB!UpdatePV(e) \/ DB!DeletePVRow(e, t)
           \/ DB!BindPVC(e, t)
    PROVE  /\ pvc' \in [PVC -> DB!PVCRow]
           /\ pv' \in [PV -> DB!PVRow]
           /\ resource_version' \in [Resource -> Nat]
  <1>1. e.created \in DB!Time /\ e.spec \in Nat /\ e.rv \in Nat /\ t \in DB!Time
    BY DEF Event, Time, DB!Time
  <1>2. pv[e.uid] \in DB!PVRow /\ e.source \in Source \cup {NULL}
    BY DEF TypeOK, Event
  <1>3. \A c \in PVC : [pvc[c] EXCEPT !.pv_uid = e.uid, !.bind_time = t]
            \in DB!PVCRow
    BY <1>1 DEF TypeOK, DB!PVCRow
  <1>4. /\ [pv[e.uid] EXCEPT !.create_time = e.created,
               !.source = e.source, !.spec = e.spec] \in DB!PVRow
        /\ [pv[e.uid] EXCEPT !.source = e.source, !.spec = e.spec]
               \in DB!PVRow
        /\ [pv[e.uid] EXCEPT !.delete_time = t] \in DB!PVRow
    BY <1>1, <1>2 DEF DB!PVRow
  <1>5. pv' \in [PV -> DB!PVRow]
    BY <1>4 DEF TypeOK, DB!InsertPV, DB!UpdatePV, DB!DeletePVRow, DB!BindPVC,
                DB!dbVars
  <1>6. pvc' \in [PVC -> DB!PVCRow]
    <2>1. CASE DB!BindPVC(e, t)
      BY <1>3, <2>1 DEF TypeOK, DB!BindPVC
    <2>2. CASE DB!InsertPV(e) \/ DB!UpdatePV(e) \/ DB!DeletePVRow(e, t)
      BY <2>2 DEF TypeOK, DB!InsertPV, DB!UpdatePV, DB!DeletePVRow, DB!dbVars
    <2>3. QED
      BY <2>1, <2>2
  <1>7. resource_version' \in [Resource -> Nat]
    BY <1>1 DEF TypeOK, DB!InsertPV, DB!UpdatePV, DB!DeletePVRow, DB!BindPVC,
                DB!dbVars, DB!updateRV
  <1>8. QED
    BY <1>5, <1>6, <1>7

LEMMA ClusterStepType ==
    ASSUME TypeOK, ClusterStep
    PROVE  TypeOK'
  <1>1. ClusterTypeOK'
    BY ClusterNextType DEF TypeOK, ClusterStep
  <1>2. QED
    BY <1>1 DEF TypeOK, ClusterStep, tableVars, exportVars, watchVars, txVars,
                faultVars

-----------------------------------------------------------------------------
(* The goroutines' steps keep the types.  Most of what follows is about    *)
(* these parts of TypeOK.                                                   *)

TablesTyped ==
    /\ ClusterTypeOK
    /\ pvc \in [PVC -> DB!PVCRow]
    /\ pv \in [PV -> DB!PVRow]
    /\ resource_version \in [Resource -> Nat]
    /\ source_id \in [PV -> Nat \cup {-1}]

ExportsTyping ==
    /\ exports \in [Table -> SUBSET ExportRow]
    /\ last_id \in [Table -> Nat]
    /\ inserted \in [Goroutine -> SUBSET ExportRow]
    /\ \A g \in Goroutine :
        inserted[g] # {} => pc[g] \in {"lastid", "commit"}
    /\ backendID \in [Goroutine -> Nat \cup {-1}]

WatchesTyped ==
    /\ pc \in [Goroutine -> Step]
    /\ listing \in [Goroutine -> SUBSET Event]
    /\ \A g \in Goroutine : \A l \in listing[g] : l.uid \in PV
    /\ cursor \in [Goroutine -> Nat]
    /\ DOMAIN event = Goroutine
    /\ \A g \in Goroutine :
        pc[g] \in Busy => event[g] \in Event /\ event[g].uid \in PV

FaultsTyped == faults \in 0..MaxFaults /\ missed \subseteq PV

LEMMA NextTypeParts ==
    TypeOK' <=> TablesTyped' /\ ExportsTyping' /\ WatchesTyped' /\ FaultsTyped'
  BY DEF TypeOK, TablesTyped, ExportsTyping, WatchesTyped, FaultsTyped, Busy

\* What a watch offers is an event about a volume.
LEMMA OfferedType ==
    ASSUME TypeOK, NEW g \in Goroutine, NEW e \in Offered(g)
    PROVE  e \in Event /\ e.uid \in PV /\ e.rv \in Nat
  <1>1. e \in log[PVs] \/ e \in listing[g]
    BY DEF Offered
  <1>2. e \in Event /\ e.uid \in PV
    BY <1>1, PVsFact DEF TypeOK, ClusterTypeOK
  <1>3. QED
    BY <1>2 DEF Event

\* The events of the log, and so what a list hides, are of volumes.
LEMMA HiddenType ==
    ASSUME TypeOK
    PROVE  Hidden \subseteq PV
  BY PVsFact DEF TypeOK, ClusterTypeOK, Hidden

\* A goroutine gets rid of its event.
LEMMA EventDoneType ==
    ASSUME TypeOK, NEW g \in Goroutine, NEW e, e.rv \in Nat, EventDone(g, e)
    PROVE  WatchesTyped'
  <1>1. cursor' \in [Goroutine -> Nat]
    BY DEF EventDone, TypeOK
  <1>2. listing' \in [Goroutine -> SUBSET Event]
        /\ \A h \in Goroutine : \A l \in listing'[h] : l.uid \in PV
    BY DEF EventDone, TypeOK
  <1>3. pc' = [pc EXCEPT ![g] = "watch"] /\ event' = [event EXCEPT ![g] = NULL]
    BY DEF EventDone, Goto
  <1>4. QED
    BY <1>1, <1>2, <1>3 DEF TypeOK, WatchesTyped, Step, Busy, ExportStep

LEMMA ConnectType ==
    ASSUME TypeOK, NEW g \in Goroutine,
           ReadVersion(g) \/ ConnectList(g) \/ ConnectFrom(g)
    PROVE  TypeOK'
  <1>1. TablesTyped'
    BY DEF TypeOK, TablesTyped, ReadVersion, ConnectList, ConnectFrom, clusterVars,
           tableVars, ClusterTypeOK
  <1>2. ExportsTyping'
    BY DEF TypeOK, ExportsTyping, ReadVersion, ConnectList, ConnectFrom, Goto,
           exportVars, txVars
  <1>3. FaultsTyped'
    BY HiddenType
       DEF TypeOK, FaultsTyped, ReadVersion, ConnectList, ConnectFrom, faultVars
  <1>4. /\ event' = event
        /\ \E step \in {"request", "watch"} : pc' = [pc EXCEPT ![g] = step]
    BY DEF ReadVersion, ConnectList, ConnectFrom, Goto, watchVars
  <1>5. index \in Nat /\ DB!GetRV(PVs) \in Nat
    BY BoundsAreNumbers, PVsFact DEF TypeOK, ClusterTypeOK, DB!GetRV
  <1>6. listing' \in [Goroutine -> SUBSET Event]
        /\ \A h \in Goroutine : \A l \in listing'[h] : l.uid \in PV
    BY ListingType, PVsFact
       DEF TypeOK, ReadVersion, ConnectList, ConnectFrom, watchVars
  <1>7. cursor' \in [Goroutine -> Nat]
    BY <1>5 DEF TypeOK, ReadVersion, ConnectList, ConnectFrom, watchVars
  <1>8. WatchesTyped'
    BY <1>4, <1>6, <1>7 DEF TypeOK, WatchesTyped, Step, Busy, ExportStep
  <1>9. QED
    BY <1>1, <1>2, <1>3, <1>8, NextTypeParts

LEMMA HandlePVsType ==
    ASSUME TypeOK, NEW g \in Goroutine, handlePVs(g)
    PROVE  TypeOK'
  <1>1. PICK e \in Offered(g) :
            \/ TakeEvent(g, e)
            \/ EventDone(g, e) /\ UNCHANGED tableVars
            \/ /\ EventDone(g, e) /\ UNCHANGED source_id
               /\ DB!DeletePVRow(e, IF e.deletion # NULL THEN e.deletion ELSE Now)
    BY DEF handlePVs, Receives
  <1>2. pc[g] = "watch" /\ UNCHANGED <<clusterVars, exportVars, txVars, faultVars>>
    BY DEF handlePVs, Receives
  <1>3. e \in Event /\ e.uid \in PV /\ e.rv \in Nat /\ e.deletion \in Time
    BY OfferedType DEF Event
  <1>4. (IF e.deletion # NULL THEN e.deletion ELSE Now) \in Time
    BY <1>3, NowIsTime DEF TypeOK
  <1>5. TablesTyped'
    <2>1. ClusterTypeOK'
      BY <1>2 DEF TypeOK, clusterVars, ClusterTypeOK
    <2>2. CASE UNCHANGED tableVars
      BY <2>1, <2>2 DEF TypeOK, TablesTyped, tableVars
    <2>3. CASE /\ UNCHANGED source_id
               /\ DB!DeletePVRow(e, IF e.deletion # NULL THEN e.deletion ELSE Now)
      BY <1>3, <1>4, <2>1, <2>3, TablesType DEF TypeOK, TablesTyped
    <2>4. QED
      BY <1>1, <2>2, <2>3 DEF TakeEvent
  <1>6. WatchesTyped'
    <2>1. CASE TakeEvent(g, e)
      BY <1>3, <2>1 DEF TakeEvent, Goto, TypeOK, WatchesTyped, Step, Busy, ExportStep
    <2>2. QED
      BY <1>1, <1>3, <2>1, EventDoneType
  <1>7. /\ \A h \in Goroutine : h # g => pc'[h] = pc[h]
        /\ inserted[g] = {}
    BY <1>1, <1>2 DEF TakeEvent, EventDone, Goto, TypeOK
  <1>8. ExportsTyping' /\ FaultsTyped'
    BY <1>2, <1>7 DEF TypeOK, ExportsTyping, FaultsTyped, exportVars, txVars,
                      faultVars
  <1>9. QED
    BY <1>5, <1>6, <1>8, NextTypeParts

\* The statements of InsertNFS and InsertISCSI.
LEMMA ExportType ==
    ASSUME TypeOK, NEW g \in Goroutine, pc[g] \in Busy
    PROVE  Export(g) \in Source /\ ExportTable(g) \in Table
  BY ExportsTyped
     DEF TypeOK, Busy, Event, Export, ExportTable, TableOf, Table

LEMMA StatementType ==
    ASSUME TypeOK, NEW g \in Goroutine,
           CheckExists(g) \/ InsertExport(g) \/ LastID(g) \/ CommitExport(g)
    PROVE  TypeOK'
  <1>1. pc[g] \in ExportStep
    BY DEF CheckExists, InsertExport, LastID, CommitExport, ExportStep
  <1>2. Export(g) \in Source /\ ExportTable(g) \in Table
    BY <1>1, ExportType DEF Busy
  <1>3. /\ UNCHANGED <<clusterVars, tableVars, watchVars, faultVars>>
        /\ \E step \in ExportStep \cup {"store"} : pc' = [pc EXCEPT ![g] = step]
    BY DEF CheckExists, InsertExport, LastID, CommitExport, Goto, ExportStep
  <1>4. TablesTyped' /\ FaultsTyped'
    BY <1>3 DEF TypeOK, TablesTyped, FaultsTyped, clusterVars, ClusterTypeOK,
                tableVars, faultVars
  <1>5. WatchesTyped'
    BY <1>1, <1>3 DEF TypeOK, WatchesTyped, watchVars, Busy, Step, ExportStep
  <1>6. ExportsTyping'
    <2>1. CASE CheckExists(g)
      <3>1. \A row \in Matching(g) : row.id \in Nat
        BY <1>2 DEF Matching, TypeOK, ExportRow
      <3>2. backendID' \in [Goroutine -> Nat \cup {-1}]
        BY <2>1, <3>1 DEF CheckExists, TypeOK
      <3>3. inserted[g] = {}
        BY <2>1 DEF CheckExists, TypeOK
      <3>4. QED
        BY <2>1, <3>2, <3>3 DEF CheckExists, Goto, TypeOK, ExportsTyping, exportVars
    <2>2. CASE InsertExport(g)
      <3> DEFINE id == last_id[ExportTable(g)] + 1
      <3>1. id \in Nat /\ [id |-> id, export |-> Export(g)] \in ExportRow
        BY <1>2 DEF TypeOK, ExportRow
      <3>2. /\ last_id' = [last_id EXCEPT ![ExportTable(g)] = id]
            /\ inserted' = [inserted EXCEPT
                                ![g] = {[id |-> id, export |-> Export(g)]}]
            /\ pc' = [pc EXCEPT ![g] = "lastid"]
            /\ UNCHANGED <<exports, backendID>>
        BY <2>2 DEF InsertExport, Goto
      <3> HIDE DEF id
      <3>3. QED
        BY <3>1, <3>2 DEF TypeOK, ExportsTyping
    <2>3. CASE LastID(g)
      <3>1. \A row \in inserted[g] : row.id \in Nat
        BY DEF TypeOK, ExportRow
      <3>2. backendID' \in [Goroutine -> Nat \cup {-1}]
        BY <2>3, <3>1 DEF LastID, TypeOK
      <3>3. QED
        BY <2>3, <3>2 DEF LastID, Goto, TypeOK, ExportsTyping, exportVars
    <2>4. CASE CommitExport(g)
      BY <1>2, <2>4 DEF CommitExport, CommitRow, Goto, TypeOK, ExportsTyping
    <2>5. QED
      BY <2>1, <2>2, <2>3, <2>4
  <1>7. QED
    BY <1>4, <1>5, <1>6, NextTypeParts

LEMMA StorePVType ==
    ASSUME TypeOK, NEW g \in Goroutine, StorePV(g)
    PROVE  TypeOK'
  <1> DEFINE e == event[g]
  <1>1. e \in Event /\ e.uid \in PV /\ e.rv \in Nat /\ inserted[g] = {}
    BY DEF TypeOK, StorePV, Event
  <1>2. /\ DB!InsertPV(e) \/ DB!UpdatePV(e)
        /\ \/ source_id' = source_id
           \/ source_id' = [source_id EXCEPT ![e.uid] = backendID[g]]
        /\ UNCHANGED <<clusterVars, exportVars, inserted, faultVars>>
        /\ backendID' = [backendID EXCEPT ![g] = 0]
        /\ \/ Goto(g, "bind") /\ UNCHANGED watchVars
           \/ EventDone(g, e)
        /\ pc[g] = "store"
    BY DEF StorePV
  <1>3. TablesTyped'
    <2>1. NULL \in Time
      BY DEF Time
    <2>2. /\ pvc' \in [PVC -> DB!PVCRow] /\ pv' \in [PV -> DB!PVRow]
          /\ resource_version' \in [Resource -> Nat]
      BY <1>1, <1>2, <2>1, TablesType
    <2>3. QED
      BY <1>2, <2>2 DEF TypeOK, TablesTyped, clusterVars, ClusterTypeOK
  <1>4. WatchesTyped'
    <2>1. CASE Goto(g, "bind") /\ UNCHANGED watchVars
      BY <1>1, <2>1 DEF TypeOK, WatchesTyped, watchVars, Goto, Step, Busy
    <2>2. QED
      BY <1>1, <1>2, <2>1, EventDoneType
  <1>5. \A h \in Goroutine : h # g => pc'[h] = pc[h]
    BY <1>2 DEF EventDone, Goto, TypeOK
  <1>6. ExportsTyping' /\ FaultsTyped'
    BY <1>1, <1>2, <1>5 DEF TypeOK, ExportsTyping, FaultsTyped, exportVars,
                            faultVars
  <1>7. QED
    BY <1>3, <1>4, <1>6, NextTypeParts

LEMMA BindType ==
    ASSUME TypeOK, NEW g \in Goroutine, Bind(g)
    PROVE  TypeOK'
  <1> DEFINE e == event[g]
  <1>1. e \in Event /\ e.uid \in PV /\ e.rv \in Nat /\ inserted[g] = {}
    BY DEF TypeOK, Bind, Event
  <1>2. /\ DB!BindPVC(e, Now) /\ EventDone(g, e)
        /\ UNCHANGED <<clusterVars, source_id, exportVars, txVars, faultVars>>
    BY DEF Bind
  <1>3. TablesTyped'
    <2>1. Now \in Time
      BY NowIsTime DEF TypeOK
    <2>2. /\ pvc' \in [PVC -> DB!PVCRow] /\ pv' \in [PV -> DB!PVRow]
          /\ resource_version' \in [Resource -> Nat]
      BY <1>1, <1>2, <2>1, TablesType
    <2>3. QED
      BY <1>2, <2>2 DEF TypeOK, TablesTyped, clusterVars, ClusterTypeOK
  <1>4. WatchesTyped'
    BY <1>1, <1>2, EventDoneType
  <1>5. \A h \in Goroutine : h # g => pc'[h] = pc[h]
    BY <1>2 DEF EventDone, Goto, TypeOK
  <1>6. ExportsTyping' /\ FaultsTyped'
    BY <1>1, <1>2, <1>5 DEF TypeOK, ExportsTyping, FaultsTyped, exportVars,
                            txVars, faultVars
  <1>7. QED
    BY <1>3, <1>4, <1>6, NextTypeParts

\* What is lost is of volumes.
LEMMA TornType ==
    ASSUME TypeOK, NEW g \in Goroutine
    PROVE  Torn(g) \subseteq PV
  BY DEF TypeOK, Torn

LEMMA FaultType ==
    ASSUME TypeOK, NEW g \in Goroutine,
           Drop(g) \/ Crash(g) \/ InsertFails(g) \/ CommitFails(g)
    PROVE  TypeOK'
  <1>1. faults' \in 0..MaxFaults
    BY FaultsAreFinite DEF TypeOK, Drop, Crash, InsertFails, CommitFails, Fault
  <1>2. missed' \subseteq PV
    BY TornType DEF TypeOK, Drop, Crash, InsertFails, CommitFails, Exit, Retry,
                    Forget
  <1>3. TablesTyped'
    BY DEF TypeOK, TablesTyped, clusterVars, ClusterTypeOK, tableVars,
           Drop, Crash, InsertFails, CommitFails, Exit, Retry
  <1>4. \E step \in {"connect", "commit", "check"} :
            /\ pc' = [pc EXCEPT ![g] = step]
            /\ step \in ExportStep => pc[g] \in ExportStep
            /\ \/ step = "connect" /\ Forget(g)
               \/ step \in ExportStep /\ UNCHANGED watchVars
    BY DEF Drop, Crash, InsertFails, CommitFails, Exit, Retry, Goto, ExportStep
  <1>5. WatchesTyped'
    BY <1>4 DEF TypeOK, WatchesTyped, Forget, watchVars, Step, Busy, ExportStep
  <1>6. /\ last_id' = last_id
        /\ exports' = exports \/ (CommitRow(g) /\ pc[g] = "commit")
    BY DEF Drop, Crash, InsertFails, CommitFails, exportVars, CommitRow
  <1>7. exports' \in [Table -> SUBSET ExportRow]
    <2>1. CASE pc[g] = "commit" /\ CommitRow(g)
      <3>1. ExportTable(g) \in Table
        BY <2>1, ExportType DEF Busy, ExportStep
      <3>2. QED
        BY <2>1, <3>1 DEF CommitRow, TypeOK
    <2>2. QED
      BY <1>6, <2>1 DEF TypeOK
  <1>8. /\ inserted' \in [Goroutine -> SUBSET ExportRow]
        /\ backendID' \in [Goroutine -> Nat \cup {-1}]
    BY DEF TypeOK, Drop, Crash, InsertFails, CommitFails, Exit, Retry, txVars
  <1>9. /\ \A h \in Goroutine : h # g => inserted'[h] = inserted[h]
        /\ inserted'[g] = {}
    BY DEF TypeOK, Drop, Crash, InsertFails, CommitFails, Exit, Retry, txVars
  <1>10. ExportsTyping'
    BY <1>4, <1>6, <1>7, <1>8, <1>9 DEF TypeOK, ExportsTyping
  <1>11. QED
    BY <1>1, <1>2, <1>3, <1>5, <1>10, NextTypeParts DEF FaultsTyped

LEMMA StutterType ==
    ASSUME TypeOK, UNCHANGED vars
    PROVE  TypeOK'
  BY DEF TypeOK, vars, clusterVars, ClusterTypeOK, tableVars, exportVars,
         watchVars, txVars, faultVars

LEMMA NextType == TypeOK /\ [Next]_vars => TypeOK'
  BY ClusterStepType, ConnectType, HandlePVsType, StatementType, StorePVType,
     BindType, FaultType, StutterType
     DEF Next, Handler

\* All variables keep their types, for any goroutines, volumes and exports, and
\* any number of faults (SharedVolumes!TypeOK).
THEOREM SharedTypeCorrect == Spec => []TypeOK
  BY InitType, NextType, PTL DEF Spec

-----------------------------------------------------------------------------
(* Exports are there when a volume refers to them, and are few.            *)

\* Volumes behind x may have this id: it is that of a row that fits.
Refers(x, id, rows) ==
    \E row \in rows : row.id = id /\ row.export \in {x} \cup Like[x]

\* Or it is what InsertNFS returns when its insertion has failed.
Failed(x, id) == id = -1 /\ faults > 0 /\ x \in NFS

\* A transaction has inserted one row at most, for its own export.
OwnRow(g) ==
    \A row, other \in inserted[g] : row.export = Export(g) /\ row = other

\* The id in hand will do once the transaction is committed, and then it does.
BackendStands(g) ==
    LET rows == exports[ExportTable(g)]
    IN  /\ pc[g] = "commit" =>
            \/ Refers(Export(g), backendID[g], rows \cup inserted[g])
            \/ Failed(Export(g), backendID[g])
        /\ pc[g] = "store" =>
            \/ Refers(Export(g), backendID[g], rows)
            \/ Failed(Export(g), backendID[g])

\* The goroutines about to add a row of x.
Adding(x) ==
    {g \in Goroutine :
        (pc[g] = "insert" \/ inserted[g] # {}) /\ Export(g) = x}

\* They leave enough goroutines for the rows there are: one begins only when
\* there is none.
RowsCounted ==
    \A x \in Source : x \in Like[x] =>
        /\ IsFiniteSet(RowsOf(x))
        /\ Cardinality(RowsOf(x)) + Cardinality(Adding(x))
                <= Cardinality(Goroutine)

ExportsInv ==
    /\ TypeOK
    /\ \A g \in Goroutine : OwnRow(g) /\ BackendStands(g)
    /\ SourceResolves
    /\ RowsCounted

SourceStands(v) ==
    \/ Refers(pv[v].source, source_id[v], exports[TableOf(pv[v].source)])
    \/ Failed(pv[v].source, source_id[v])

LEMMA SourceResolvesMeans ==
    SourceResolves <=> \A v \in PV : DB!PVRecorded(v) => SourceStands(v)
  BY DEF SourceResolves, SourceStands, Refers, Failed

LEMMA SourceResolvesMeansNext ==
    SourceResolves' <=> \A v \in PV : DB!PVRecorded(v)' => SourceStands(v)'
  BY DEF SourceResolves, SourceStands, Refers, Failed

\* What is counted is finite.
LEMMA AddingIsFinite ==
    ASSUME NEW x
    PROVE  /\ IsFiniteSet(Adding(x)) /\ Cardinality(Adding(x)) \in Nat
           /\ Cardinality(Adding(x)) <= Cardinality(Goroutine)
           /\ Cardinality(Goroutine) \in Nat
  <1>1. Adding(x) \subseteq Goroutine
    BY DEF Adding
  <1>2. QED
    BY <1>1, GoroutinesAreFinite, FS_Subset, FS_CardinalityType

LEMMA InitExports == Init => ExportsInv
  <1> SUFFICES ASSUME Init PROVE ExportsInv
    OBVIOUS
  <1>1. \A g \in Goroutine : OwnRow(g) /\ BackendStands(g)
    BY DEF Init, OwnRow, BackendStands
  <1>2. SourceResolves
    BY DEF Init, SourceResolves, DB!DBInit, DB!PVRecorded
  <1>3. RowsCounted
    <2> SUFFICES ASSUME NEW x \in Source
                 PROVE  /\ IsFiniteSet(RowsOf(x))
                        /\ Cardinality(RowsOf(x)) + Cardinality(Adding(x))
                                <= Cardinality(Goroutine)
      BY DEF RowsCounted
    <2>1. RowsOf(x) = {} /\ Adding(x) = {}
      BY DEF Init, RowsOf, Adding, TableOf, Table
    <2>2. QED
      BY <2>1, FS_EmptySet, GoroutinesAreFinite, FS_CardinalityType
  <1>4. QED
    BY <1>1, <1>2, <1>3, InitType DEF ExportsInv

\* Only g does something.
Local(g) ==
    \A h \in Goroutine \ {g} :
        /\ pc'[h] = pc[h] /\ inserted'[h] = inserted[h]
        /\ event'[h] = event[h] /\ backendID'[h] = backendID[h]

\* No row of an export is taken away, and no fault forgotten.
Grown ==
    /\ \A t \in Table : exports[t] \subseteq exports'[t]
    /\ faults' \in Nat /\ faults <= faults'

\* No volume is recorded, and none is given another export.
SameSources ==
    /\ source_id' = source_id
    /\ \A v \in PV : DB!PVRecorded(v)' =>
        DB!PVRecorded(v) /\ pv'[v].source = pv[v].source

LEMMA StillRefers ==
    ASSUME TypeOK, Grown, NEW x, NEW id, NEW more,
           \/ Refers(x, id, exports[TableOf(x)] \cup more)
           \/ Failed(x, id)
    PROVE  \/ Refers(x, id, exports'[TableOf(x)] \cup more)
           \/ id = -1 /\ faults' > 0 /\ x \in NFS
  <1>1. TableOf(x) \in Table
    BY DEF TableOf, Table
  <1>2. CASE Refers(x, id, exports[TableOf(x)] \cup more)
    BY <1>1, <1>2 DEF Grown, Refers
  <1>3. CASE Failed(x, id)
    <2>1. faults \in Nat /\ faults' > 0
      BY <1>3, FaultsAreFinite DEF Grown, Failed, TypeOK
    <2>2. QED
      BY <1>3, <2>1 DEF Failed
  <1>4. QED
    BY <1>2, <1>3

LEMMA OthersStand ==
    ASSUME ExportsInv, NEW g \in Goroutine, Local(g), Grown,
           NEW h \in Goroutine, h # g
    PROVE  OwnRow(h)' /\ BackendStands(h)'
  <1>1. /\ pc'[h] = pc[h] /\ inserted'[h] = inserted[h]
        /\ Export(h)' = Export(h) /\ ExportTable(h)' = ExportTable(h)
        /\ backendID'[h] = backendID[h]
    BY DEF Local, Export, ExportTable
  <1>2. OwnRow(h)'
    BY <1>1 DEF ExportsInv, OwnRow
  <1>3. CASE pc[h] = "commit"
    <2>1. \/ Refers(Export(h), backendID[h], exports[ExportTable(h)] \cup inserted[h])
          \/ Failed(Export(h), backendID[h])
      BY <1>3 DEF ExportsInv, BackendStands
    <2>2. \/ Refers(Export(h), backendID[h], exports'[ExportTable(h)] \cup inserted[h])
          \/ backendID[h] = -1 /\ faults' > 0 /\ Export(h) \in NFS
      BY <2>1, StillRefers DEF ExportTable, ExportsInv
    <2>3. QED
      BY <1>1, <1>2, <1>3, <2>2 DEF BackendStands, Failed
  <1>4. CASE pc[h] = "store"
    <2>1. \/ Refers(Export(h), backendID[h], exports[ExportTable(h)] \cup {})
          \/ Failed(Export(h), backendID[h])
      BY <1>4 DEF ExportsInv, BackendStands, Refers
    <2>2. \/ Refers(Export(h), backendID[h], exports'[ExportTable(h)] \cup {})
          \/ backendID[h] = -1 /\ faults' > 0 /\ Export(h) \in NFS
      BY <2>1, StillRefers DEF ExportTable, ExportsInv
    <2>3. QED
      BY <1>1, <1>2, <1>4, <2>2 DEF BackendStands, Refers, Failed
  <1>5. QED
    BY <1>1, <1>2, <1>3, <1>4 DEF BackendStands

LEMMA SourcesStillResolve ==
    ASSUME ExportsInv, Grown, SameSources
    PROVE  SourceResolves'
  <1> SUFFICES ASSUME NEW v \in PV, DB!PVRecorded(v)'
               PROVE  SourceStands(v)'
    BY SourceResolvesMeansNext
  <1> DEFINE x == pv[v].source
  <1>1. /\ SourceStands(v) /\ source_id'[v] = source_id[v]
        /\ pv'[v].source = x
    BY SourceResolvesMeans DEF ExportsInv, SameSources
  <1>2. \/ Refers(x, source_id[v], exports[TableOf(x)] \cup {})
        \/ Failed(x, source_id[v])
    BY <1>1 DEF SourceStands, Refers
  <1>3. \/ Refers(x, source_id[v], exports'[TableOf(x)] \cup {})
        \/ source_id[v] = -1 /\ faults' > 0 /\ x \in NFS
    BY <1>2, StillRefers DEF ExportsInv
  <1>4. QED
    BY <1>1, <1>3 DEF SourceStands, Refers, Failed

\* A step after which g has no transaction.
LEMMA QuietStands ==
    ASSUME ExportsInv, NEW g \in Goroutine, Local(g), Grown, SameSources,
           pc'[g] \notin {"commit", "store"}, inserted'[g] = {}
    PROVE  /\ \A h \in Goroutine : OwnRow(h)' /\ BackendStands(h)'
           /\ SourceResolves'
  <1>1. OwnRow(g)' /\ BackendStands(g)'
    BY DEF OwnRow, BackendStands
  <1>2. QED
    BY <1>1, OthersStand, SourcesStillResolve

\* A step that adds no row and takes up no insertion.
LEMMA FewerAdding ==
    ASSUME ExportsInv, NEW g \in Goroutine, Local(g), exports' = exports,
           \/ pc'[g] # "insert" /\ inserted'[g] = {}
           \/ /\ pc[g] = "insert" \/ inserted[g] # {}
              /\ event'[g] = event[g]
    PROVE  RowsCounted'
  <1> SUFFICES ASSUME NEW x \in Source, x \in Like[x]
               PROVE  /\ IsFiniteSet(RowsOf(x)')
                      /\ Cardinality(RowsOf(x)') + Cardinality(Adding(x)')
                                <= Cardinality(Goroutine)
    BY DEF RowsCounted
  <1>1. RowsOf(x)' = RowsOf(x)
    BY DEF RowsOf
  <1>2. Adding(x)' \subseteq Adding(x)
    BY DEF Adding, Local, Export
  <1>3. /\ IsFiniteSet(Adding(x)) /\ Cardinality(Adding(x)) \in Nat
        /\ Cardinality(Goroutine) \in Nat
    BY AddingIsFinite
  <1>4. /\ Cardinality(Adding(x)') \in Nat
        /\ Cardinality(Adding(x)') <= Cardinality(Adding(x))
    BY <1>2, <1>3, FS_Subset, FS_CardinalityType
  <1>5. /\ IsFiniteSet(RowsOf(x)) /\ Cardinality(RowsOf(x)) \in Nat
        /\ Cardinality(RowsOf(x)) + Cardinality(Adding(x))
                <= Cardinality(Goroutine)
    BY FS_CardinalityType DEF ExportsInv, RowsCounted
  <1>6. QED
    BY <1>1, <1>3, <1>4, <1>5

\* A step that leaves the exports and the volumes' references to them alone,
\* after which g has no transaction.
LEMMA QuietStep ==
    ASSUME ExportsInv, TypeOK', NEW g \in Goroutine, Local(g),
           exports' = exports, faults <= faults', SameSources,
           pc'[g] \notin {"insert", "commit", "store"}, inserted'[g] = {}
    PROVE  ExportsInv'
  <1>1. Grown
    BY FaultsAreFinite DEF Grown, TypeOK
  <1>2. QED
    BY <1>1, QuietStands, FewerAdding DEF ExportsInv

LEMMA HandlePVsExports ==
    ASSUME ExportsInv, TypeOK', NEW g \in Goroutine, handlePVs(g)
    PROVE  ExportsInv'
  <1>1. PICK e \in Offered(g) :
            \/ TakeEvent(g, e)
            \/ EventDone(g, e) /\ UNCHANGED tableVars
            \/ /\ EventDone(g, e) /\ UNCHANGED source_id
               /\ DB!DeletePVRow(e, IF e.deletion # NULL THEN e.deletion ELSE Now)
    BY DEF handlePVs, Receives
  <1>2. pc[g] = "watch" /\ UNCHANGED <<clusterVars, exportVars, txVars, faultVars>>
    BY DEF handlePVs, Receives
  <1>3. Local(g) /\ pc'[g] \in {"check", "bind", "watch"}
    BY <1>1, <1>2 DEF TakeEvent, EventDone, Goto, ExportsInv, TypeOK, Local, txVars
  <1>4. SameSources
    <2>1. CASE UNCHANGED tableVars
      BY <2>1 DEF tableVars, SameSources, DB!PVRecorded
    <2>2. ASSUME NEW t, DB!DeletePVRow(e, t), UNCHANGED source_id
          PROVE  SameSources
      <3>1. ASSUME NEW v \in PV
            PROVE  /\ pv'[v].create_time = pv[v].create_time
                   /\ pv'[v].source = pv[v].source
        <4>1. pv \in [PV -> DB!PVRow] /\ pv[v] \in DB!PVRow
          BY DEF ExportsInv, TypeOK
        <4>2. pv' = pv \/ pv' = [pv EXCEPT ![e.uid].delete_time = t]
          BY <2>2 DEF DB!DeletePVRow
        <4>3. QED
          BY <4>1, <4>2 DEF DB!PVRow
      <3>2. QED
        BY <2>2, <3>1 DEF SameSources, DB!PVRecorded
    <2>3. QED
      BY <1>1, <2>1, <2>2 DEF TakeEvent
  <1>5. inserted'[g] = {} /\ exports' = exports /\ faults <= faults'
    BY <1>2, FaultsAreFinite DEF ExportsInv, TypeOK, txVars, exportVars, faultVars
  <1>6. QED
    BY <1>3, <1>4, <1>5, QuietStep

LEMMA WatchExports ==
    ASSUME ExportsInv, TypeOK', NEW g \in Goroutine,
           \/ ReadVersion(g) \/ ConnectList(g) \/ ConnectFrom(g)
           \/ Drop(g) \/ Crash(g)
    PROVE  ExportsInv'
  <1>1. /\ pc'[g] \in {"request", "watch", "connect"} /\ Local(g)
        /\ exports' = exports /\ UNCHANGED tableVars
    BY DEF ReadVersion, ConnectList, ConnectFrom, Drop, Crash, Exit, Forget, Goto,
           exportVars, watchVars, txVars, Local, ExportsInv, TypeOK, tableVars
  <1>2. inserted'[g] = {}
    BY DEF ReadVersion, ConnectList, ConnectFrom, Drop, Crash, Exit, txVars,
           ExportsInv, TypeOK
  <1>3. faults <= faults'
    BY FaultsAreFinite
       DEF ReadVersion, ConnectList, ConnectFrom, Drop, Crash, Fault, faultVars,
           ExportsInv, TypeOK
  <1>4. SameSources
    BY <1>1 DEF SameSources, tableVars, DB!PVRecorded
  <1>5. QED
    BY <1>1, <1>2, <1>3, <1>4, QuietStep

LEMMA BindExports ==
    ASSUME ExportsInv, TypeOK', NEW g \in Goroutine, Bind(g)
    PROVE  ExportsInv'
  <1>1. /\ pc'[g] = "watch" /\ inserted'[g] = {} /\ Local(g)
        /\ exports' = exports /\ faults <= faults'
    BY FaultsAreFinite DEF Bind, EventDone, Goto, ExportsInv, TypeOK, Local, txVars,
                           exportVars, faultVars
  <1>2. SameSources
    BY DEF Bind, DB!BindPVC, SameSources, DB!PVRecorded
  <1>3. QED
    BY <1>1, <1>2, QuietStep

\* The exports InsertNFS and InsertISCSI find missing have no row.
LEMMA CheckExistsExports ==
    ASSUME ExportsInv, TypeOK', NEW g \in Goroutine, CheckExists(g)
    PROVE  ExportsInv'
  <1>1. /\ exports' = exports /\ faults' = faults /\ UNCHANGED <<event, inserted>>
        /\ Export(g)' = Export(g) /\ ExportTable(g)' = ExportTable(g)
        /\ Local(g) /\ inserted[g] = {} /\ inserted'[g] = {} /\ Grown
        /\ Export(g) \in Source
    BY ExportType, FaultsAreFinite
       DEF CheckExists, Goto, ExportsInv, TypeOK, Local, exportVars, watchVars,
           faultVars, Grown, Export, ExportTable, Busy, ExportStep
  <1>2. SourceResolves'
    <2>1. SameSources
      BY DEF CheckExists, SameSources, tableVars, DB!PVRecorded
    <2>2. QED
      BY <1>1, <2>1, SourcesStillResolve
  <1>3. \A h \in Goroutine : OwnRow(h)' /\ BackendStands(h)'
    <2>1. OwnRow(g)'
      BY <1>1 DEF OwnRow
    <2>2. BackendStands(g)'
      <3>1. CASE Matching(g) = {}
        <4>1. pc'[g] = "insert"
          BY <3>1 DEF CheckExists, Goto, ExportsInv, TypeOK
        <4>2. QED
          BY <4>1 DEF BackendStands
      <3>2. CASE Matching(g) # {}
        <4>1. PICK row \in Matching(g) : /\ backendID' = [backendID EXCEPT ![g] = row.id]
                                        /\ Goto(g, "commit")
          BY <3>2 DEF CheckExists
        <4>2. pc'[g] = "commit" /\ backendID'[g] = row.id
          BY <4>1 DEF Goto, ExportsInv, TypeOK
        <4>3. row \in exports[ExportTable(g)] /\ row.export \in Like[Export(g)]
          BY DEF Matching
        <4>4. QED
          BY <1>1, <4>2, <4>3 DEF BackendStands, Refers
      <3>3. QED
        BY <3>1, <3>2
    <2>3. QED
      BY <1>1, <2>1, <2>2, OthersStand
  <1>4. RowsCounted'
    <2>1. CASE pc'[g] # "insert"
      BY <1>1, <2>1, FewerAdding
    <2>2. CASE pc'[g] = "insert"
      <3>1. Matching(g) = {}
        BY <2>2 DEF CheckExists, Goto, ExportsInv, TypeOK
      <3> SUFFICES ASSUME NEW x \in Source, x \in Like[x]
                   PROVE  /\ IsFiniteSet(RowsOf(x)')
                          /\ Cardinality(RowsOf(x)') + Cardinality(Adding(x)')
                                    <= Cardinality(Goroutine)
        BY DEF RowsCounted
      <3>2. RowsOf(x)' = RowsOf(x)
        BY <1>1 DEF RowsOf
      <3>3. CASE x # Export(g)
        <4>1. Adding(x)' = Adding(x)
          BY <1>1, <3>3 DEF Adding, Local, Export
        <4>2. QED
          BY <3>2, <4>1 DEF ExportsInv, RowsCounted
      <3>4. CASE x = Export(g)
        <4>1. RowsOf(x) = {}
          BY <3>1, <3>4 DEF RowsOf, Matching, ExportTable
        <4>2. Adding(x)' \subseteq Goroutine
          BY DEF Adding
        <4>3. /\ Cardinality(Adding(x)') \in Nat
              /\ Cardinality(Adding(x)') <= Cardinality(Goroutine)
              /\ Cardinality(Goroutine) \in Nat
          BY <4>2, GoroutinesAreFinite, FS_Subset, FS_CardinalityType
        <4>4. IsFiniteSet({}) /\ Cardinality({}) = 0
          BY FS_EmptySet
        <4>5. QED
          BY <3>2, <4>1, <4>3, <4>4
      <3>5. QED
        BY <3>3, <3>4
    <2>3. QED
      BY <2>1, <2>2
  <1>5. QED
    BY <1>2, <1>3, <1>4 DEF ExportsInv

\* The id read back is that of the goroutine's own row.
LEMMA InsertExports ==
    ASSUME ExportsInv, TypeOK', NEW g \in Goroutine,
           InsertExport(g) \/ LastID(g)
    PROVE  ExportsInv'
  <1>1. /\ exports' = exports /\ faults' = faults /\ event' = event
        /\ Export(g)' = Export(g) /\ ExportTable(g)' = ExportTable(g)
        /\ pc[g] = "insert" \/ inserted[g] # {}
        /\ Local(g) /\ Grown
    BY FaultsAreFinite
       DEF InsertExport, LastID, Goto, ExportsInv, TypeOK, Local, exportVars,
           watchVars, faultVars, Grown, Export, ExportTable
  <1>2. SourceResolves'
    <2>1. SameSources
      BY DEF InsertExport, LastID, SameSources, tableVars, DB!PVRecorded
    <2>2. QED
      BY <1>1, <2>1, SourcesStillResolve
  <1>3. RowsCounted'
    BY <1>1, FewerAdding
  <1>4. OwnRow(g)' /\ BackendStands(g)'
    <2>1. CASE InsertExport(g)
      <3>1. /\ pc'[g] = "lastid"
            /\ \E id : inserted'[g] = {[id |-> id, export |-> Export(g)]}
        BY <2>1 DEF InsertExport, Goto, ExportsInv, TypeOK
      <3>2. QED
        BY <1>1, <3>1 DEF OwnRow, BackendStands
    <2>2. CASE LastID(g)
      <3>1. PICK row \in inserted[g] : backendID' = [backendID EXCEPT ![g] = row.id]
        BY <2>2 DEF LastID
      <3>2. pc'[g] = "commit" /\ backendID'[g] = row.id /\ inserted' = inserted
        BY <2>2, <3>1 DEF LastID, Goto, ExportsInv, TypeOK
      <3>3. OwnRow(g) /\ row.export = Export(g)
        BY DEF ExportsInv, OwnRow
      <3>4. QED
        BY <1>1, <3>2, <3>3 DEF OwnRow, BackendStands, Refers
    <2>3. QED
      BY <2>1, <2>2
  <1>5. QED
    BY <1>1, <1>2, <1>3, <1>4, OthersStand DEF ExportsInv

\* A commit turns an insertion under way into a row.
LEMMA CommitCounted ==
    ASSUME ExportsInv, TypeOK', NEW g \in Goroutine, Local(g),
           pc[g] = "commit", CommitRow(g),
           inserted'[g] = {}, pc'[g] # "insert"
    PROVE  RowsCounted'
  <1>1. /\ Export(g) \in Source /\ ExportTable(g) \in Table
        /\ exports' = [exports EXCEPT ![ExportTable(g)] = @ \cup inserted[g]]
    BY ExportType DEF Busy, ExportStep, ExportsInv, CommitRow
  <1>2. CASE inserted[g] = {}
    <2>1. exports' = exports
      BY <1>1, <1>2 DEF ExportsInv, TypeOK
    <2>2. QED
      BY <2>1, FewerAdding
  <1>3. CASE inserted[g] # {}
    <2>1. PICK row \in inserted[g] : inserted[g] = {row} /\ row.export = Export(g)
      BY <1>3 DEF ExportsInv, OwnRow
    <2> SUFFICES ASSUME NEW x \in Source, x \in Like[x]
                 PROVE  /\ IsFiniteSet(RowsOf(x)')
                        /\ Cardinality(RowsOf(x)') + Cardinality(Adding(x)')
                                  <= Cardinality(Goroutine)
      BY DEF RowsCounted
    <2>2. /\ IsFiniteSet(RowsOf(x)) /\ Cardinality(RowsOf(x)) \in Nat
          /\ Cardinality(RowsOf(x)) + Cardinality(Adding(x))
                  <= Cardinality(Goroutine)
          /\ IsFiniteSet(Adding(x)) /\ Cardinality(Adding(x)) \in Nat
          /\ Cardinality(Goroutine) \in Nat
      BY AddingIsFinite, FS_CardinalityType DEF ExportsInv, RowsCounted
    <2>3. \A h \in Goroutine \ {g} : h \in Adding(x)' <=> h \in Adding(x)
      BY DEF Adding, Local, Export
    <2>4. g \notin Adding(x)'
      BY DEF Adding
    <2>5. Adding(x) \subseteq Goroutine /\ Adding(x)' \subseteq Goroutine
      BY DEF Adding
    <2>6. Adding(x)' = Adding(x) \ {g}
      BY <2>3, <2>4, <2>5
    <2>7. TableOf(x) \in Table
      BY DEF TableOf, Table
    <2>8. CASE x = Export(g)
      <3>1. g \in Adding(x)
        BY <1>3, <2>8 DEF Adding
      <3>2. Cardinality(Adding(x)') = Cardinality(Adding(x)) - 1
        BY <2>2, <2>6, <3>1, FS_RemoveElement
      <3>3. RowsOf(x)' = RowsOf(x) \cup {row}
        BY <1>1, <2>1, <2>7, <2>8 DEF RowsOf, ExportTable, ExportsInv, TypeOK
      <3>4. /\ IsFiniteSet(RowsOf(x)')
            /\ Cardinality(RowsOf(x)') <= Cardinality(RowsOf(x)) + 1
            /\ Cardinality(RowsOf(x)') \in Nat
        <4> DEFINE S == RowsOf(x)
        <4>1. /\ IsFiniteSet(S) /\ Cardinality(S) \in Nat
              /\ RowsOf(x)' = S \cup {row}
          BY <2>2, <3>3
        <4> HIDE DEF S
        <4>2. /\ IsFiniteSet(S \cup {row})
              /\ \/ Cardinality(S \cup {row}) = Cardinality(S)
                 \/ Cardinality(S \cup {row}) = Cardinality(S) + 1
          BY <4>1, FS_AddElement
        <4>3. QED
          BY <4>1, <4>2 DEF S
      <3>5. QED
        BY <2>2, <3>2, <3>4
    <2>9. CASE x # Export(g)
      <3>1. RowsOf(x)' = RowsOf(x)
        BY <1>1, <2>1, <2>7, <2>9 DEF RowsOf, ExportTable, ExportsInv, TypeOK
      <3>2. /\ Cardinality(Adding(x)') \in Nat
            /\ Cardinality(Adding(x)') <= Cardinality(Adding(x))
        BY <2>2, <2>6, FS_Subset, FS_CardinalityType
      <3>3. QED
        BY <2>2, <3>1, <3>2
    <2>10. QED
      BY <2>8, <2>9
  <1>4. QED
    BY <1>2, <1>3

LEMMA CommitGrows ==
    ASSUME ExportsInv, NEW g \in Goroutine, pc[g] = "commit", CommitRow(g),
           faults' \in Nat, faults <= faults'
    PROVE  Grown
  BY DEF Grown, CommitRow, ExportsInv, TypeOK

LEMMA CommitExports ==
    ASSUME ExportsInv, TypeOK', NEW g \in Goroutine, CommitExport(g)
    PROVE  ExportsInv'
  <1>1. /\ faults' = faults /\ backendID' = backendID
        /\ Export(g)' = Export(g) /\ ExportTable(g)' = ExportTable(g)
        /\ pc[g] = "commit" /\ pc'[g] = "store" /\ CommitRow(g)
        /\ inserted'[g] = {} /\ Local(g) /\ Grown
    BY FaultsAreFinite, CommitGrows
       DEF CommitExport, Goto, ExportsInv, TypeOK, Local, watchVars, faultVars,
           Export, ExportTable
  <1>2. SourceResolves'
    <2>1. SameSources
      BY DEF CommitExport, SameSources, tableVars, DB!PVRecorded
    <2>2. QED
      BY <1>1, <2>1, SourcesStillResolve
  <1>3. exports'[ExportTable(g)] = exports[ExportTable(g)] \cup inserted[g]
    BY <1>1, ExportType DEF Busy, ExportStep, CommitRow, ExportsInv, TypeOK
  <1>4. \/ Refers(Export(g), backendID[g], exports'[ExportTable(g)])
        \/ Failed(Export(g), backendID[g])
    BY <1>1, <1>3 DEF ExportsInv, BackendStands
  <1>5. OwnRow(g)' /\ BackendStands(g)'
    BY <1>1, <1>4 DEF OwnRow, BackendStands, Refers, Failed
  <1>6. QED
    BY <1>1, <1>2, <1>5, OthersStand, CommitCounted DEF ExportsInv

\* A volume's row is given the id in hand.
LEMMA StoreExports ==
    ASSUME ExportsInv, TypeOK', NEW g \in Goroutine, StorePV(g)
    PROVE  ExportsInv'
  <1> DEFINE e == event[g]
  <1>1. /\ exports' = exports /\ faults' = faults /\ pc[g] = "store"
        /\ pc'[g] \in {"bind", "watch"} /\ inserted'[g] = {}
        /\ Local(g) /\ Grown /\ e.uid \in PV
    BY FaultsAreFinite
       DEF StorePV, EventDone, Goto, ExportsInv, TypeOK, Local, exportVars,
           watchVars, faultVars, Grown
  <1>2. SourceResolves'
    <2> SUFFICES ASSUME NEW v \in PV, DB!PVRecorded(v)'
                 PROVE  SourceStands(v)'
      BY SourceResolvesMeansNext
    <2>1. CASE /\ source_id'[v] = source_id[v] /\ DB!PVRecorded(v)
               /\ pv'[v].source = pv[v].source
      <3>1. SourceStands(v)
        BY <2>1, SourceResolvesMeans DEF ExportsInv
      <3>2. QED
        BY <1>1, <2>1, <3>1 DEF SourceStands, Refers, Failed
    <2>2. CASE ~ (/\ source_id'[v] = source_id[v] /\ DB!PVRecorded(v)
                  /\ pv'[v].source = pv[v].source)
      <3>0. /\ pv[v] \in DB!PVRow
            /\ IF e.type = "ADDED" THEN DB!InsertPV(e) ELSE DB!UpdatePV(e)
            /\ source_id' = IF (e.type = "ADDED") = DB!PVRecorded(e.uid)
                              THEN source_id
                              ELSE [source_id EXCEPT ![e.uid] = backendID[g]]
        BY DEF StorePV, ExportsInv, TypeOK
      <3>1. v = e.uid /\ source_id'[v] = backendID[g] /\ pv'[v].source = e.source
        <4> DEFINE new == [pv[e.uid] EXCEPT !.create_time = e.created,
                               !.source = e.source, !.spec = e.spec]
                   changed == [pv[e.uid] EXCEPT !.source = e.source,
                                                !.spec = e.spec]
        <4>1. pv \in [PV -> DB!PVRow] /\ source_id \in [PV -> Nat \cup {-1}]
              /\ pv[e.uid] \in DB!PVRow
          BY <1>1 DEF ExportsInv, TypeOK
        <4>2. new.source = e.source /\ changed.source = e.source
              /\ changed.create_time = pv[e.uid].create_time
          BY <4>1 DEF DB!PVRow
        <4>3. \/ pv' = pv /\ source_id' = source_id
              \/ /\ pv' = [pv EXCEPT ![e.uid] = new]
                 /\ source_id' = [source_id EXCEPT ![e.uid] = backendID[g]]
              \/ /\ pv' = [pv EXCEPT ![e.uid] = changed]
                 /\ source_id' = [source_id EXCEPT ![e.uid] = backendID[g]]
              \/ ~DB!PVRecorded(e.uid) /\ pv' = pv
          BY <3>0 DEF DB!InsertPV, DB!UpdatePV, DB!dbVars
        <4> HIDE DEF new, changed
        <4>4. v = e.uid
          BY <1>1, <2>2, <3>0, <4>1, <4>3 DEF DB!PVRecorded
        <4>5. pv' = pv => source_id' # source_id /\ DB!PVRecorded(e.uid)
          BY <2>2, <4>4 DEF DB!PVRecorded
        <4>6. QED
          BY <1>1, <4>1, <4>2, <4>3, <4>4, <4>5
      <3>2. pv'[v].source = Export(g)
        BY <3>1 DEF Export
      <3>3. \/ Refers(Export(g), backendID[g], exports[ExportTable(g)])
            \/ Failed(Export(g), backendID[g])
        BY <1>1 DEF ExportsInv, BackendStands
      <3>4. QED
        BY <1>1, <3>1, <3>2, <3>3 DEF SourceStands, ExportTable, Refers, Failed
    <2>3. QED
      BY <2>1, <2>2
  <1>3. OwnRow(g)' /\ BackendStands(g)'
    BY <1>1 DEF OwnRow, BackendStands
  <1>4. QED
    BY <1>1, <1>2, <1>3, OthersStand, FewerAdding DEF ExportsInv

\* InsertNFS goes on with -1; InsertISCSI starts again with nothing in hand.
LEMMA InsertFailsExports ==
    ASSUME ExportsInv, TypeOK', NEW g \in Goroutine, InsertFails(g)
    PROVE  ExportsInv'
  <1>1. /\ exports' = exports /\ faults' > 0 /\ faults <= faults'
        /\ UNCHANGED tableVars /\ event' = event /\ Export(g)' = Export(g)
        /\ inserted'[g] = {} /\ Local(g) /\ Grown
    BY FaultsAreFinite
       DEF InsertFails, Retry, Fault, Goto, ExportsInv, TypeOK, Local, exportVars,
           watchVars, Grown, Export
  <1>2. SameSources
    BY <1>1 DEF SameSources, tableVars, DB!PVRecorded
  <1>3. CASE Export(g) \in NFS
    <2>1. pc'[g] = "commit" /\ backendID'[g] = -1
      BY <1>3 DEF InsertFails, Goto, ExportsInv, TypeOK
    <2>2. OwnRow(g)' /\ BackendStands(g)'
      BY <1>1, <1>3, <2>1 DEF OwnRow, BackendStands, Failed
    <2>3. QED
      BY <1>1, <1>2, <2>1, <2>2, OthersStand, SourcesStillResolve, FewerAdding
         DEF ExportsInv
  <1>4. CASE Export(g) \notin NFS
    <2>1. pc'[g] = "check"
      BY <1>4 DEF InsertFails, Retry, Goto, ExportsInv, TypeOK
    <2>2. QED
      BY <1>1, <1>2, <2>1, QuietStep
  <1>5. QED
    BY <1>3, <1>4

LEMMA CommitFailsExports ==
    ASSUME ExportsInv, TypeOK', NEW g \in Goroutine, CommitFails(g)
    PROVE  ExportsInv'
  <1>1. /\ faults' \in Nat /\ faults <= faults' /\ UNCHANGED tableVars
        /\ pc[g] = "commit" /\ pc'[g] \in {"check", "connect"}
        /\ inserted'[g] = {} /\ Local(g)
    BY FaultsAreFinite
       DEF CommitFails, Retry, Exit, Forget, Fault, Goto, ExportsInv, TypeOK, Local,
           watchVars, tableVars
  <1>2. SameSources
    BY <1>1 DEF SameSources, tableVars, DB!PVRecorded
  <1>3. CASE CommitRow(g)
    BY <1>1, <1>2, <1>3, CommitGrows, CommitCounted, QuietStands DEF ExportsInv
  <1>4. CASE UNCHANGED exportVars
    BY <1>1, <1>2, <1>4, QuietStep DEF exportVars
  <1>5. QED
    BY <1>3, <1>4 DEF CommitFails

\* The cluster does nothing to the exports.
LEMMA ClusterExports ==
    ASSUME ExportsInv, TypeOK', ClusterStep \/ UNCHANGED vars
    PROVE  ExportsInv'
  <1>1. UNCHANGED <<tableVars, exportVars, pc, watchVars, txVars, faultVars>>
    BY DEF ClusterStep, vars
  <1>2. SourceResolves' <=> SourceResolves
    BY <1>1 DEF SourceResolves, tableVars, exportVars, faultVars, DB!PVRecorded
  <1>3. RowsCounted' <=> RowsCounted
    BY <1>1 DEF RowsCounted, RowsOf, Adding, Export, exportVars, watchVars, txVars
  <1>4. \A g \in Goroutine : /\ OwnRow(g)' <=> OwnRow(g)
                             /\ BackendStands(g)' <=> BackendStands(g)
    BY <1>1 DEF OwnRow, BackendStands, Refers, Failed, Export, ExportTable,
                exportVars, watchVars, txVars, faultVars
  <1>5. QED
    BY <1>2, <1>3, <1>4 DEF ExportsInv

LEMMA NextExports == ExportsInv /\ [Next]_vars => ExportsInv'
  <1> SUFFICES ASSUME ExportsInv, [Next]_vars PROVE ExportsInv'
    OBVIOUS
  <1>1. TypeOK'
    BY NextType DEF ExportsInv
  <1>2. QED
    BY <1>1, ClusterExports, WatchExports, HandlePVsExports, CheckExistsExports,
       InsertExports, CommitExports, StoreExports, BindExports,
       InsertFailsExports, CommitFailsExports
       DEF Next, Handler

\* A recorded volume refers to a committed row that fits its export, or to the -1
\* of an insertion that failed, whatever the goroutines of handlePVs do at once
\* and wherever they fail (SharedVolumes!SourceResolves).
THEOREM SourcesResolve == Spec => []SourceResolves
  <1>1. ExportsInv => SourceResolves
    BY DEF ExportsInv
  <1>2. QED
    BY <1>1, InitExports, NextExports, PTL DEF Spec

\* An export has no more rows than there are goroutines, however often InsertNFS
\* and InsertISCSI race and are retried (SharedVolumes!FewDuplicates).
THEOREM DuplicatesFew == Spec => []FewDuplicates
  <1>1. ExportsInv => FewDuplicates
    <2> SUFFICES ASSUME ExportsInv, NEW x \in Source, x \in Like[x]
                 PROVE  Cardinality(RowsOf(x)) <= Cardinality(Goroutine)
      BY DEF FewDuplicates
    <2>1. /\ Cardinality(RowsOf(x)) \in Nat /\ Cardinality(Adding(x)) \in Nat
          /\ Cardinality(Goroutine) \in Nat
          /\ Cardinality(RowsOf(x)) + Cardinality(Adding(x))
                  <= Cardinality(Goroutine)
      BY AddingIsFinite, FS_CardinalityType DEF ExportsInv, RowsCounted
    <2>2. QED
      BY <2>1
  <1>2. QED
    BY <1>1, InitExports, NextExports, PTL DEF Spec

-----------------------------------------------------------------------------
(* The shared version.                                                     *)

LEMMA InitVolumes == Init => SInv
  <1> SUFFICES ASSUME Init PROVE SInv
    OBVIOUS
  <1>1. TypeOK
    BY InitType
  <1>2. log[PVs] = {} /\ index = 1
    BY PVsFact DEF Init, ClusterWithClaims
  <1>3. \A v \in PV : v \in Object /\ object[v].phase = "absent" /\ object[v].claim = NULL
    BY KindsDisjoint DEF Init, ClusterWithClaims, NoObject, Object
  <1>4. InOrder(PVs) /\ ClaimsStand /\ SpecsStand
    BY <1>2, <1>3, PVsFact DEF InOrder, ClaimsStand, SpecsStand, Alive
  <1>5. /\ \A v \in PV : pv[v].create_time = NULL /\ pv[v].delete_time = NULL
        /\ resource_version[PVs] = 0
    BY PVsFact DEF Init, DB!DBInit, DB!Resource, Resource
  <1>6. \A g \in Goroutine : pc[g] = "connect" /\ listing[g] = {} /\ cursor[g] = 0
    BY DEF Init
  <1>7. Undisturbed
    <2>1. DeletionsTrue /\ NothingBefore /\ SpecsCovered
      BY <1>5, <1>6 DEF DeletionsTrue, NothingBefore, SpecsCovered, DB!PVRecorded
    <2>2. CursorsStand /\ ListsStand /\ EventsStand /\ AllCovered
      BY <1>2, <1>5, <1>6 DEF CursorsStand, ListsStand, EventsStand, AllCovered,
                             Connected, Busy, ExportStep
    <2>3. QED
      BY <2>1, <2>2 DEF Undisturbed
  <1>8. QED
    BY <1>1, <1>4, <1>7 DEF SInv

\* The tables are not touched: what is recorded stays recorded.
LEMMA RecordedStays ==
    ASSUME UNCHANGED <<pvc, pv>>, NEW e
    PROVE  Recorded(e)' <=> Recorded(e)
  BY DEF Recorded, DB!PVRecorded

LEMMA ClusterKeepsVolumes ==
    ASSUME SInv, ClusterStep
    PROVE  SInv'
  <1>1. /\ TypeOK /\ ClusterTypeOK /\ ClusterNext
        /\ InOrder(PVs) /\ ClaimsStand /\ SpecsStand
        /\ UNCHANGED <<pvc, pv, resource_version, pc, listing, cursor, event,
                       faults, missed>>
    BY DEF SInv, TypeOK, ClusterStep, tableVars, watchVars, faultVars
  <1>2. TypeOK'
    BY <1>1, ClusterStepType
  <1>3. CASE Compact
    <2>1. UNCHANGED <<index, object, log>>
      BY <1>3 DEF Compact
    <2>2. InOrder(PVs)' /\ ClaimsStand' /\ SpecsStand'
      BY <1>1, <2>1 DEF InOrder, ClaimsStand, SpecsStand, Latest, Alive
    <2>3. Undisturbed' <=> Undisturbed
      BY <1>1, <2>1 DEF Undisturbed, CursorsStand, ListsStand, EventsStand,
            DeletionsTrue, NothingBefore, AllCovered, SpecsCovered, Recorded,
            Ahead, Latest, Offered, Connected, Busy, DB!PVRecorded
    <2>4. QED
      BY <1>1, <1>2, <2>2, <2>3 DEF SInv
  <1>4. CASE LawfulStep
    <2>1. InOrder(PVs)' /\ ClaimsStand' /\ SpecsStand'
      BY <1>1, <1>4, PVsFact, LawfulKeepsOrder, LawfulKeepsClaims, LawfulKeepsSpecs
    <2>2. /\ index \in Nat /\ index' \in Nat /\ index <= index'
          /\ log[PVs] \subseteq log'[PVs]
          /\ \A f \in log'[PVs] \ log[PVs] : f.rv \in Nat /\ f.rv > index
      BY <1>1, PVsFact, ClusterOnlyAdds
    <2>3. \A v \in PV :
            \/ /\ SpecOf(object'[v]) = SpecOf(object[v])
               /\ \A f \in log[PVs] : Latest(f) /\ f.uid = v => Latest(f)'
            \/ \E f \in log'[PVs] :
                Latest(f)' /\ f.uid = v /\ f.rv = index + 1
      BY <1>1, <1>4, LawfulKeepsLatest
    <2>4. \A v \in PV : object[v].phase = "gone" => object'[v].phase = "gone"
      <3>1. PICK u \in Object, e \in Event :
                /\ Lawful(e.type, u, e)
                /\ object'[u].phase = e.phase
                /\ \A w \in Object \ {u} : object'[w] = object[w]
        BY <1>1, <1>4, LawfulEffect
      <3>2. e.type \in EventType
        BY DEF Event
      <3>3. object[u].phase # "gone"
        BY <3>1, <3>2 DEF Lawful, EventType, Alive
      <3>4. QED
        BY <3>1, <3>3 DEF Object
    <2>5. ASSUME Undisturbed PROVE Undisturbed'
      <3>1. resource_version[PVs] \in Nat /\ \A g \in Goroutine : cursor[g] \in Nat
        BY <1>1, PVsFact DEF TypeOK
      <3>2. CursorsStand'
        BY <1>1, <2>2, <2>5, <3>1 DEF Undisturbed, CursorsStand, Connected
      <3>3. \A g \in Goroutine : \A l \in listing[g] :
                l \in Event /\ l.uid \in PV /\ Connected(g) /\ cursor[g] <= index
        BY <1>1, <2>5 DEF TypeOK, Undisturbed, CursorsStand
      <3>4. ListsStand'
        <4> SUFFICES ASSUME NEW g \in Goroutine, NEW l \in listing[g]
                     PROVE
              /\ l.type = "ADDED" /\ l.created # NULL /\ l.rv <= cursor[g]
              /\ l.claim # NULL =>
                  \E e \in log'[PVs] : e.uid = l.uid /\ e.claim = l.claim
              /\ \A e \in log'[PVs] : e.uid = l.uid /\ e.rv <= cursor[g] =>
                  e.type # "DELETED"
              /\ SpecOf(l) # SpecOf(object'[l.uid]) =>
                  \E f \in log'[PVs] :
                      Latest(f)' /\ f.uid = l.uid /\ cursor[g] < f.rv
          BY <1>1 DEF ListsStand
        <4>1. /\ l.type = "ADDED" /\ l.created # NULL /\ l.rv <= cursor[g]
              /\ l.claim # NULL =>
                  \E e \in log[PVs] : e.uid = l.uid /\ e.claim = l.claim
              /\ \A e \in log[PVs] : e.uid = l.uid /\ e.rv <= cursor[g] =>
                  e.type # "DELETED"
              /\ SpecOf(l) # SpecOf(object[l.uid]) =>
                  \E f \in log[PVs] :
                      Latest(f) /\ f.uid = l.uid /\ cursor[g] < f.rv
          BY <2>5 DEF Undisturbed, ListsStand
        <4>2. \A e \in log'[PVs] : e.rv <= cursor[g] => e \in log[PVs]
          BY <2>2, <3>1, <3>3
        <4>3. SpecOf(l) # SpecOf(object'[l.uid]) =>
                  \E f \in log'[PVs] :
                      Latest(f)' /\ f.uid = l.uid /\ cursor[g] < f.rv
          <5>1. CASE \E f \in log'[PVs] :
                        Latest(f)' /\ f.uid = l.uid /\ f.rv = index + 1
            BY <2>2, <3>1, <3>3, <5>1
          <5>2. CASE /\ SpecOf(object'[l.uid]) = SpecOf(object[l.uid])
                     /\ \A f \in log[PVs] : Latest(f) /\ f.uid = l.uid => Latest(f)'
            BY <2>2, <4>1, <5>2
          <5>3. QED
            BY <2>3, <3>3, <5>1, <5>2
        <4>4. QED
          BY <2>2, <4>1, <4>2, <4>3
      <3>5. EventsStand'
        <4> SUFFICES ASSUME NEW g \in Goroutine, pc[g] \in Busy
                     PROVE  /\ event[g] \in Offered(g)'
                            /\ pc[g] # "bind" =>
                                event[g].type = "ADDED" \/ Renews(event[g])
                            /\ pc[g] = "bind" =>
                                /\ event[g].claim # NULL
                                /\ \/ /\ event[g].type = "ADDED"
                                      /\ DB!PVRecorded(event[g].uid)
                                   \/ /\ event[g].type = "MODIFIED"
                                      /\ event[g].phase = "Bound"
          BY <1>1 DEF EventsStand, Busy, DB!PVRecorded
        <4>1. event[g] \in Offered(g) /\ Connected(g) /\ cursor[g] <= index
          BY <2>5 DEF Undisturbed, EventsStand, CursorsStand, Connected, Busy,
                      ExportStep
        <4>2. event[g] \in Offered(g)'
          <5>1. CASE listing[g] # {}
            BY <1>1, <4>1, <5>1 DEF Offered
          <5>2. CASE listing[g] = {}
            <6>1. /\ event[g] \in log[PVs] /\ event[g].rv > cursor[g]
                  /\ \A f \in log[PVs] : f.rv > cursor[g] => event[g].rv <= f.rv
              BY <4>1, <5>2 DEF Offered
            <6>2. event[g].rv \in Nat /\ event[g].rv <= index
              BY <1>1, <2>2, <6>1, PVsFact DEF ClusterTypeOK
            <6>3. \A f \in log'[PVs] : f.rv > cursor[g] => event[g].rv <= f.rv
              BY <2>2, <6>1, <6>2
            <6>4. QED
              BY <1>1, <2>2, <5>2, <6>1, <6>3 DEF Offered
          <5>3. QED
            BY <5>1, <5>2
        <4>3. QED
          BY <2>5, <4>2 DEF Undisturbed, EventsStand
      <3>6. DeletionsTrue' /\ NothingBefore'
        BY <1>1, <2>4, <2>5 DEF Undisturbed, DeletionsTrue, NothingBefore,
                                Connected, DB!PVRecorded
      <3>7. AllCovered'
        <4> SUFFICES ASSUME NEW g \in Goroutine, Connected(g), NEW e \in log'[PVs]
                     PROVE  \/ Recorded(e)
                            \/ e.uid \in missed
                            \/ \E h \in Goroutine : Ahead(h, e)
          BY <1>1, RecordedStays DEF AllCovered, Connected, Ahead
        <4>1. CASE e \in log[PVs]
          BY <2>5, <4>1 DEF Undisturbed, AllCovered
        <4>2. CASE e \notin log[PVs]
          <5>1. e.rv > cursor[g]
            BY <2>2, <2>5, <3>1, <4>2 DEF Undisturbed, CursorsStand
          <5>2. QED
            BY <5>1 DEF Ahead, Connected
        <4>3. QED
          BY <4>1, <4>2
      <3>8. SpecsCovered'
        <4> SUFFICES ASSUME NEW v \in PV, DB!PVRecorded(v), SpecOf(pv[v]) # SpecOf(object'[v])
                     PROVE  \E g \in Goroutine : \E f \in log'[PVs] :
                                /\ Latest(f)' /\ f.uid = v
                                /\ Connected(g) /\ cursor[g] < f.rv
          BY <1>1 DEF SpecsCovered, Connected, DB!PVRecorded
        <4>1. CASE \E f \in log'[PVs] :
                        Latest(f)' /\ f.uid = v /\ f.rv = index + 1
          <5>1. PICK g \in Goroutine : Connected(g)
            BY <2>5 DEF Undisturbed, NothingBefore
          <5>2. cursor[g] <= index
            BY <2>5, <5>1 DEF Undisturbed, CursorsStand
          <5>3. QED
            BY <2>2, <3>1, <4>1, <5>1, <5>2
        <4>2. CASE /\ SpecOf(object'[v]) = SpecOf(object[v])
                   /\ \A f \in log[PVs] : Latest(f) /\ f.uid = v => Latest(f)'
          BY <2>2, <2>5, <4>2 DEF Undisturbed, SpecsCovered
        <4>3. QED
          BY <2>3, <4>1, <4>2
      <3>9. QED
        BY <3>2, <3>4, <3>5, <3>6, <3>7, <3>8 DEF Undisturbed
    <2>6. QED
      BY <1>1, <1>2, <2>1, <2>5 DEF SInv
  <1>5. QED
    BY <1>1, <1>3, <1>4, ClusterNextIsLawful

\* A version is read: as long as nobody is connected there is none.
LEMMA ReadKeepsVolumes ==
    ASSUME SInv, NEW g \in Goroutine, ReadVersion(g)
    PROVE  SInv'
  <1>1. /\ TypeOK /\ InOrder(PVs) /\ ClaimsStand /\ SpecsStand
        /\ UNCHANGED <<index, object, log, compacted, pvc, pv, resource_version,
                       listing, event, faults, missed>>
        /\ pc[g] = "connect" /\ pc' = [pc EXCEPT ![g] = "request"]
        /\ cursor' = [cursor EXCEPT ![g] = resource_version[PVs]]
    BY DEF SInv, ReadVersion, Goto, clusterVars, tableVars, faultVars, DB!GetRV
  <1>2. TypeOK'
    BY <1>1, ConnectType
  <1>3. InOrder(PVs)' /\ ClaimsStand' /\ SpecsStand'
    BY <1>1 DEF InOrder, ClaimsStand, SpecsStand, Latest, Alive
  <1>4. /\ cursor'[g] = resource_version[PVs] /\ pc'[g] = "request"
        /\ \A h \in Goroutine \ {g} : pc'[h] = pc[h] /\ cursor'[h] = cursor[h]
    BY <1>1 DEF TypeOK
  <1>5. /\ ~Connected(g) /\ ~Connected(g)'
        /\ \A h \in Goroutine : Connected(h)' <=> Connected(h)
    BY <1>1, <1>4 DEF Connected
  <1>6. ASSUME Undisturbed PROVE Undisturbed'
    <2>1. listing[g] = {} /\ \A h \in Goroutine : listing[h] # {} => h # g
      BY <1>5, <1>6 DEF Undisturbed, CursorsStand
    <2>2. CursorsStand' /\ DeletionsTrue' /\ NothingBefore'
      BY <1>1, <1>4, <1>5, <1>6
         DEF Undisturbed, CursorsStand, DeletionsTrue, NothingBefore, DB!PVRecorded
    <2>3. ListsStand'
      BY <1>1, <1>4, <1>6, <2>1 DEF Undisturbed, ListsStand, Latest
    <2>4. EventsStand'
      <3>1. \A h \in Goroutine : pc'[h] \in Busy => h # g
        BY <1>4 DEF Busy, ExportStep
      <3>2. \A h \in Goroutine \ {g} : Offered(h)' = Offered(h)
        BY <1>1, <1>4 DEF Offered
      <3>3. QED
        BY <1>1, <1>4, <1>6, <3>1, <3>2 DEF Undisturbed, EventsStand, DB!PVRecorded
    <2>5. \A h \in Goroutine : \A e : Ahead(h, e)' <=> Ahead(h, e)
      BY <1>1, <1>4, <1>5, <2>1 DEF Ahead
    <2>6. AllCovered'
      BY <1>1, <1>5, <1>6, <2>5, RecordedStays DEF Undisturbed, AllCovered
    <2>7. SpecsCovered'
      <3>1. \A h \in Goroutine : Connected(h) => h # g
        BY <1>5
      <3>2. QED
        BY <1>1, <1>4, <1>5, <1>6, <3>1
           DEF Undisturbed, SpecsCovered, Latest, DB!PVRecorded
    <2>8. QED
      BY <2>2, <2>3, <2>4, <2>6, <2>7 DEF Undisturbed
  <1>7. QED
    BY <1>1, <1>2, <1>3, <1>6 DEF SInv

\* A goroutine connects: a list shows what there is, and hides deletions and
\* claims that were dropped; a version was that of a goroutine that is connected.
LEMMA ConnectKeepsVolumes ==
    ASSUME SInv, NEW g \in Goroutine, ConnectList(g) \/ ConnectFrom(g)
    PROVE  SInv'
  <1>1. /\ TypeOK /\ ClusterTypeOK
        /\ InOrder(PVs) /\ ClaimsStand /\ SpecsStand
        /\ UNCHANGED <<index, object, log, compacted, pvc, pv, resource_version,
                       event, faults>>
        /\ pc[g] = "request" /\ pc' = [pc EXCEPT ![g] = "watch"]
        /\ missed \subseteq missed'
    BY DEF SInv, TypeOK, ConnectList, ConnectFrom, clusterVars, tableVars,
           watchVars, faultVars, Goto
  <1>2. TypeOK'
    BY <1>1, ConnectType
  <1>3. InOrder(PVs)' /\ ClaimsStand' /\ SpecsStand'
    BY <1>1 DEF InOrder, ClaimsStand, SpecsStand, Latest, Alive
  <1>4. \A h \in Goroutine \ {g} :
            /\ pc'[h] = pc[h] /\ listing'[h] = listing[h] /\ cursor'[h] = cursor[h]
    BY <1>1 DEF TypeOK, ConnectList, ConnectFrom, watchVars
  <1>5. pc'[g] = "watch" /\ Connected(g)' /\ ~Connected(g)
    BY <1>1 DEF TypeOK, Connected
  <1>6. ASSUME Undisturbed PROVE Undisturbed'
    <2>1. /\ index \in Nat /\ resource_version[PVs] \in Nat
          /\ resource_version[PVs] <= index
          /\ \A e \in log[PVs] : e.uid \in PV /\ e.rv \in Nat /\ e.rv > 0
      BY <1>1, <1>6, BoundsAreNumbers, PVsFact
         DEF TypeOK, ClusterTypeOK, Undisturbed, CursorsStand
    <2>2. DeletionsTrue'
      BY <1>1, <1>6 DEF Undisturbed, DeletionsTrue
    <2>3. NothingBefore'
      BY <1>5 DEF NothingBefore
    <2>4. EventsStand'
      <3> SUFFICES ASSUME NEW h \in Goroutine, pc'[h] \in Busy
                   PROVE  /\ event[h] \in Offered(h)'
                          /\ pc'[h] # "bind" =>
                                event[h].type = "ADDED" \/ Renews(event[h])
                          /\ pc'[h] = "bind" =>
                                /\ event[h].claim # NULL
                                /\ \/ /\ event[h].type = "ADDED"
                                      /\ DB!PVRecorded(event[h].uid)
                                   \/ /\ event[h].type = "MODIFIED"
                                      /\ event[h].phase = "Bound"
        BY <1>1 DEF EventsStand, DB!PVRecorded
      <3>1. h # g
        BY <1>5 DEF Busy, ExportStep
      <3>2. event[h] \in Offered(h)' <=> event[h] \in Offered(h)
        BY <1>1, <1>4, <3>1 DEF Offered
      <3>3. QED
        BY <1>4, <1>6, <3>1, <3>2 DEF Undisturbed, EventsStand
    <2>5. SpecsCovered'
      <3> SUFFICES ASSUME NEW v \in PV, DB!PVRecorded(v), SpecOf(pv[v]) # SpecOf(object[v])
                   PROVE  \E h \in Goroutine : \E f \in log[PVs] :
                            /\ Latest(f) /\ f.uid = v
                            /\ Connected(h)' /\ cursor'[h] < f.rv
        BY <1>1 DEF SpecsCovered, DB!PVRecorded, Latest
      <3>1. PICK h \in Goroutine, f \in log[PVs] :
                /\ Latest(f) /\ f.uid = v
                /\ Connected(h) /\ cursor[h] < f.rv
        BY <1>6 DEF Undisturbed, SpecsCovered
      <3>2. QED
        BY <1>4, <1>5, <3>1 DEF Connected
    <2>6. \A e : \A h \in Goroutine \ {g} : Ahead(h, e) => Ahead(h, e)'
      BY <1>4 DEF Ahead, Connected
    <2>7. ASSUME NEW h \in Goroutine, Connected(h) PROVE AllCovered'
      <3> SUFFICES ASSUME NEW e \in log[PVs]
                   PROVE  \/ Recorded(e)
                          \/ e.uid \in missed'
                          \/ \E k \in Goroutine : Ahead(k, e)'
        BY <1>1, RecordedStays DEF AllCovered
      <3>1. CASE \E k \in Goroutine : Ahead(k, e)
        <4>1. PICK k \in Goroutine : Ahead(k, e)
          BY <3>1
        <4>2. k # g
          BY <1>1, <1>6, <4>1 DEF Ahead, Undisturbed, CursorsStand, Connected
        <4>3. QED
          BY <2>6, <4>1, <4>2
      <3>2. QED
        BY <1>1, <1>6, <2>7, <3>1 DEF Undisturbed, AllCovered
    <2>8. CASE ConnectFrom(g)
      <3>1. cursor[g] # 0 /\ UNCHANGED <<listing, cursor, missed>>
        BY <2>8 DEF ConnectFrom, watchVars, faultVars
      <3>3. CursorsStand'
        BY <1>1, <1>4, <1>5, <1>6, <2>1, <3>1 DEF Undisturbed, CursorsStand, Connected
      <3>5. ListsStand'
        <4> SUFFICES ASSUME NEW h \in Goroutine, NEW l \in listing[h]
                     PROVE
              /\ l.type = "ADDED" /\ l.created # NULL /\ l.rv <= cursor'[h]
              /\ l.claim # NULL =>
                  \E e \in log[PVs] : e.uid = l.uid /\ e.claim = l.claim
              /\ \A e \in log[PVs] : e.uid = l.uid /\ e.rv <= cursor'[h] =>
                  e.type # "DELETED"
              /\ SpecOf(l) # SpecOf(object[l.uid]) =>
                  \E f \in log[PVs] :
                      Latest(f) /\ f.uid = l.uid /\ cursor'[h] < f.rv
          BY <1>1, <3>1 DEF ListsStand, Latest
        <4>1. cursor'[h] = cursor[h]
          BY <3>1
        <4>2. QED
          BY <1>6, <4>1 DEF Undisturbed, ListsStand
      <3>6. PICK h \in Goroutine : Connected(h)
        BY <1>6, <3>1 DEF Undisturbed, NothingBefore
      <3>7. QED
        BY <2>2, <2>3, <2>4, <2>5, <2>7, <3>3, <3>5, <3>6 DEF Undisturbed
    <2>9. CASE ConnectList(g)
      <3>1. /\ listing' = [listing EXCEPT ![g] = Listing(PVs)]
            /\ cursor' = [cursor EXCEPT ![g] = index]
            /\ missed' = missed \cup Hidden
        BY <2>9 DEF ConnectList
      <3>2. cursor'[g] = index /\ listing'[g] = Listing(PVs)
        BY <1>1, <3>1 DEF TypeOK
      <3>3. CursorsStand'
        BY <1>1, <1>4, <1>5, <1>6, <2>1, <3>2
           DEF Undisturbed, CursorsStand, Connected
      <3>5. ASSUME NEW v \in PV, Alive(v)
            PROVE  /\ EventOf("ADDED", v, object[v]) \in Listing(PVs)
                   /\ EventOf("ADDED", v, object[v]).uid = v
                   /\ EventOf("ADDED", v, object[v]).claim = object[v].claim
        BY <3>5, PVsFact DEF Listing, EventOf
      <3>6. ASSUME NEW l \in Listing(PVs)
            PROVE  /\ l.type = "ADDED" /\ l.created # NULL /\ l.rv <= index
                   /\ l.claim # NULL =>
                       \E e \in log[PVs] : e.uid = l.uid /\ e.claim = l.claim
                   /\ \A e \in log[PVs] : e.uid = l.uid =>
                       e.type # "DELETED"
                   /\ SpecOf(l) = SpecOf(object[l.uid])
        <4>1. PICK v \in PV : Alive(v) /\ l = EventOf("ADDED", v, object[v])
          BY <3>6, PVsFact DEF Listing
        <4>2. /\ l.type = "ADDED" /\ l.uid = v /\ l.created = object[v].created
              /\ l.rv = object[v].rv /\ l.claim = object[v].claim
              /\ SpecOf(l) = SpecOf(object[v])
          BY <4>1 DEF EventOf, SpecOf
        <4>3. l.created # NULL /\ l.rv <= index
          BY <1>1, <2>1, <4>1, <4>2, PVsFact DEF InOrder, Alive
        <4>4. \A e \in log[PVs] : e.uid = v => e.type # "DELETED"
          BY <1>1, <4>1 DEF InOrder, Alive
        <4>5. l.claim # NULL =>
                \E e \in log[PVs] : e.uid = l.uid /\ e.claim = l.claim
          BY <1>1, <4>2 DEF ClaimsStand
        <4>6. QED
          BY <4>2, <4>3, <4>4, <4>5
      <3>7. ListsStand'
        <4> SUFFICES ASSUME NEW h \in Goroutine, NEW l \in listing'[h]
                     PROVE
              /\ l.type = "ADDED" /\ l.created # NULL /\ l.rv <= cursor'[h]
              /\ l.claim # NULL =>
                  \E e \in log[PVs] : e.uid = l.uid /\ e.claim = l.claim
              /\ \A e \in log[PVs] : e.uid = l.uid /\ e.rv <= cursor'[h] =>
                  e.type # "DELETED"
              /\ SpecOf(l) # SpecOf(object[l.uid]) =>
                  \E f \in log[PVs] :
                      Latest(f) /\ f.uid = l.uid /\ cursor'[h] < f.rv
          BY <1>1 DEF ListsStand, Latest
        <4>1. CASE h = g
          BY <3>2, <3>6, <4>1
        <4>2. CASE h # g
          BY <1>1, <1>4, <1>6, <4>2 DEF Undisturbed, ListsStand
        <4>3. QED
          BY <4>1, <4>2
      <3>8. AllCovered'
        <4>1. CASE \E h \in Goroutine : Connected(h)
          BY <2>7, <4>1
        <4>2. CASE \A h \in Goroutine : ~Connected(h)
          <5> SUFFICES ASSUME NEW e \in log[PVs]
                       PROVE  e.uid \in missed' \/ Ahead(g, e)'
            BY <1>1 DEF AllCovered
          <5>1. resource_version[PVs] = 0
            BY <1>6, <4>2 DEF Undisturbed, NothingBefore
          <5>2. ASSUME NEW f \in log[PVs], f.uid = e.uid,
                       f.type = "DELETED" \/ f.claim \notin {NULL, object[f.uid].claim}
                PROVE  e.uid \in missed'
            BY <2>1, <3>1, <5>1, <5>2 DEF Hidden, DB!GetRV
          <5>3. CASE Alive(e.uid) /\ e.claim \in {NULL, object[e.uid].claim}
            BY <2>1, <3>2, <3>5, <5>3 DEF Ahead
          <5>4. CASE Alive(e.uid) /\ e.claim \notin {NULL, object[e.uid].claim}
            BY <5>2, <5>4
          <5>5. CASE ~Alive(e.uid)
            <6>1. PICK d \in log[PVs] : d.uid = e.uid /\ d.type = "DELETED"
              BY <1>1, <2>1, <5>5, PVsFact DEF InOrder, Alive
            <6>2. QED
              BY <5>2, <6>1
          <5>6. QED
            BY <5>3, <5>4, <5>5
        <4>3. QED
          BY <4>1, <4>2
      <3>9. QED
        BY <2>2, <2>3, <2>4, <2>5, <3>3, <3>7, <3>8 DEF Undisturbed
    <2>10. QED
      BY <2>8, <2>9
  <1>7. QED
    BY <1>1, <1>2, <1>3, <1>6 DEF SInv

\* The statements of InsertNFS and InsertISCSI show in no watch and no table of
\* volumes.
LEMMA StatementsKeepVolumes ==
    ASSUME SInv, NEW g \in Goroutine,
           \/ CheckExists(g) \/ InsertExport(g) \/ LastID(g) \/ CommitExport(g)
    PROVE  SInv'
  <1>1. /\ TypeOK /\ InOrder(PVs) /\ ClaimsStand /\ SpecsStand
        /\ pc[g] \in ExportStep
        /\ UNCHANGED <<index, object, log, compacted, pvc, pv, resource_version,
                       listing, cursor, event, faults, missed>>
        /\ \E step \in ExportStep \cup {"store"} : pc' = [pc EXCEPT ![g] = step]
    BY DEF SInv, CheckExists, InsertExport, LastID, CommitExport, Goto, clusterVars,
           tableVars, watchVars, faultVars, ExportStep
  <1>2. TypeOK'
    BY <1>1, StatementType
  <1>3. InOrder(PVs)' /\ ClaimsStand' /\ SpecsStand'
    BY <1>1 DEF InOrder, ClaimsStand, SpecsStand, Latest, Alive
  <1>4. /\ \A h \in Goroutine \ {g} : pc'[h] = pc[h]
        /\ pc'[g] \in ExportStep \cup {"store"}
    BY <1>1 DEF TypeOK
  <1>5. \A h \in Goroutine : Connected(h)' <=> Connected(h)
    BY <1>1, <1>4 DEF Connected, ExportStep
  <1>6. ASSUME Undisturbed PROVE Undisturbed'
    <2>1. CursorsStand' /\ ListsStand' /\ DeletionsTrue' /\ NothingBefore'
      BY <1>1, <1>5, <1>6 DEF Undisturbed, CursorsStand, ListsStand, DeletionsTrue,
                              NothingBefore, Latest, DB!PVRecorded
    <2>2. \A h \in Goroutine : \A e : Ahead(h, e)' <=> Ahead(h, e)
      BY <1>1, <1>5 DEF Ahead, Connected
    <2>3. AllCovered' /\ SpecsCovered'
      BY <1>1, <1>5, <1>6, <2>2, RecordedStays
         DEF Undisturbed, AllCovered, SpecsCovered, Latest, DB!PVRecorded
    <2>4. EventsStand'
      <3>1. \A h \in Goroutine : /\ pc'[h] \in Busy => pc[h] \in Busy
                                 /\ pc'[h] = "bind" <=> pc[h] = "bind"
        BY <1>1, <1>4 DEF Busy, ExportStep
      <3>2. \A h \in Goroutine : Offered(h)' = Offered(h)
        BY <1>1 DEF Offered
      <3>3. QED
        BY <1>1, <1>6, <3>1, <3>2 DEF Undisturbed, EventsStand, DB!PVRecorded
    <2>5. QED
      BY <2>1, <2>3, <2>4 DEF Undisturbed
  <1>7. QED
    BY <1>1, <1>2, <1>3, <1>6 DEF SInv

\* An event with an export to record or a claim to bind is taken.
LEMMA TakeKeepsVolumes ==
    ASSUME SInv, NEW g \in Goroutine, NEW e \in Offered(g), pc[g] = "watch",
           \/ e.type = "ADDED"
           \/ e.type = "MODIFIED" /\ e.phase \in {"Available", "Bound"},
           TakeEvent(g, e), UNCHANGED <<clusterVars, faultVars>>
    PROVE  Undisturbed => Undisturbed'
  <1>1. /\ TypeOK /\ ClaimsStand
        /\ UNCHANGED <<index, object, log, pvc, pv, resource_version,
                       listing, cursor, faults, missed>>
        /\ event' = [event EXCEPT ![g] = e]
        /\ pc' = [pc EXCEPT ![g] = IF e.type = "MODIFIED" /\ e.phase = "Bound"
                                     THEN "bind" ELSE "check"]
    BY DEF SInv, TakeEvent, Goto, clusterVars, tableVars, faultVars
  <1>2. /\ \A h \in Goroutine \ {g} : pc'[h] = pc[h] /\ event'[h] = event[h]
        /\ event'[g] = e
        /\ pc'[g] = IF e.type = "MODIFIED" /\ e.phase = "Bound"
                      THEN "bind" ELSE "check"
    BY <1>1 DEF TypeOK
  <1>3. \A h \in Goroutine : Connected(h)' <=> Connected(h)
    BY <1>2 DEF Connected
  <1> SUFFICES ASSUME Undisturbed PROVE Undisturbed'
    OBVIOUS
  <1>4. CursorsStand' /\ ListsStand' /\ DeletionsTrue' /\ NothingBefore'
    BY <1>1, <1>3 DEF Undisturbed, CursorsStand, ListsStand, DeletionsTrue,
                      NothingBefore, Latest, DB!PVRecorded
  <1>5. \A h \in Goroutine : \A f : Ahead(h, f)' <=> Ahead(h, f)
    BY <1>1, <1>3 DEF Ahead, Connected
  <1>6. AllCovered' /\ SpecsCovered'
    BY <1>1, <1>3, <1>5, RecordedStays
       DEF Undisturbed, AllCovered, SpecsCovered, Latest, DB!PVRecorded
  <1>7. EventsStand'
    <2> SUFFICES ASSUME NEW h \in Goroutine, pc'[h] \in Busy
                 PROVE  /\ event'[h] \in Offered(h)
                        /\ pc'[h] # "bind" =>
                            event'[h].type = "ADDED" \/ Renews(event'[h])
                        /\ pc'[h] = "bind" =>
                            /\ event'[h].claim # NULL
                            /\ \/ /\ event'[h].type = "ADDED"
                                  /\ DB!PVRecorded(event'[h].uid)
                               \/ /\ event'[h].type = "MODIFIED"
                                  /\ event'[h].phase = "Bound"
      BY <1>1 DEF EventsStand, Offered, DB!PVRecorded
    <2>1. CASE h # g
      BY <1>2, <2>1 DEF Undisturbed, EventsStand
    <2>2. CASE h = g /\ ~(e.type = "MODIFIED" /\ e.phase = "Bound")
      BY <1>2, <2>2 DEF Renews
    <2>3. CASE h = g /\ e.type = "MODIFIED" /\ e.phase = "Bound"
      <3>1. e \in log[PVs]
        BY <2>3 DEF Offered, Undisturbed, ListsStand
      <3>2. e.claim # NULL
        BY <1>1, <2>3, <3>1 DEF ClaimsStand
      <3>3. QED
        BY <1>2, <2>3, <3>2
    <2>4. QED
      BY <2>1, <2>2, <2>3
  <1>8. QED
    BY <1>4, <1>6, <1>7 DEF Undisturbed

-----------------------------------------------------------------------------
(* What a transaction does for event e, whatever other goroutines have      *)
(* recorded before.                                                         *)
Serves(e) ==
    /\ \A h \in log[PVs] : Recorded(h) => Recorded(h)'
    /\ resource_version'[PVs] \in {resource_version[PVs], e.rv}
    /\ \A v \in PV : DB!PVRecorded(v) => DB!PVRecorded(v)'
    /\ \A v \in PV : DB!PVRecorded(v)' =>
        \/ DB!PVRecorded(v) /\ SpecOf(pv'[v]) = SpecOf(pv[v])
        \/ v = e.uid /\ SpecOf(pv'[v]) = SpecOf(e)
    /\ \A v \in PV : pv'[v].delete_time # NULL =>
        pv[v].delete_time # NULL \/ (v = e.uid /\ e.type = "DELETED")

LEMMA UntouchedServes ==
    ASSUME UNCHANGED tableVars, NEW e
    PROVE  Serves(e)
  BY DEF Serves, tableVars, Recorded, DB!PVRecorded

LEMMA VersionOf ==
    ASSUME TypeOK, NEW rv, DB!updateRV(PVs, rv)
    PROVE  resource_version'[PVs] = rv
  BY PVsFact DEF TypeOK, DB!updateRV

LEMMA VolumesName == PVs = "persistentvolumes"
  BY DEF PVs

LEMMA InsertServes ==
    ASSUME TypeOK, NEW e \in Event, e.uid \in PV, e.created # NULL, DB!InsertPV(e)
    PROVE  Serves(e) /\ DB!PVRecorded(e.uid)'
  <1>1. CASE DB!PVRecorded(e.uid) /\ UNCHANGED <<pvc, pv, resource_version>>
    BY <1>1 DEF Serves, Recorded, DB!PVRecorded
  <1>2. CASE /\ ~DB!PVRecorded(e.uid) /\ pvc' = pvc
             /\ pv' = [pv EXCEPT ![e.uid] = [@ EXCEPT !.create_time = e.created,
                                                      !.source = e.source,
                                                      !.spec = e.spec]]
             /\ DB!updateRV("persistentvolumes", e.rv)
    <2>1. pv[e.uid] \in DB!PVRow
      BY DEF TypeOK
    <2>2. /\ pv'[e.uid].create_time = e.created /\ SpecOf(pv'[e.uid]) = SpecOf(e)
          /\ pv'[e.uid].delete_time = pv[e.uid].delete_time
          /\ \A v \in PV \ {e.uid} : pv'[v] = pv[v]
      BY <1>2, <2>1 DEF TypeOK, DB!PVRow, SpecOf
    <2>3. resource_version'[PVs] = e.rv
      BY <1>2, VersionOf, VolumesName
    <2>4. \A v \in PV : DB!PVRecorded(v) => DB!PVRecorded(v)'
      BY <1>2, <2>2 DEF DB!PVRecorded
    <2>5. \A h \in log[PVs] : h.uid \in PV
      BY PVsFact DEF TypeOK, ClusterTypeOK
    <2>6. \A h \in log[PVs] : Recorded(h) => Recorded(h)'
      BY <1>2, <2>2, <2>4, <2>5 DEF Recorded
    <2>7. QED
      BY <2>2, <2>3, <2>4, <2>6 DEF Serves, DB!PVRecorded
  <1>3. QED
    BY <1>1, <1>2 DEF DB!InsertPV, DB!dbVars

LEMMA UpdateServes ==
    ASSUME TypeOK, NEW e \in Event, e.uid \in PV, DB!UpdatePV(e)
    PROVE  /\ Serves(e)
           /\ DB!PVRecorded(e.uid)' => SpecOf(pv'[e.uid]) = SpecOf(e)
  <1>1. pv[e.uid] \in DB!PVRow
    BY DEF TypeOK
  <1>2. resource_version'[PVs] = e.rv /\ pvc' = pvc
    BY VersionOf, VolumesName DEF DB!UpdatePV
  <1>3. CASE ~DB!PVRecorded(e.uid)
    BY <1>2, <1>3 DEF DB!UpdatePV, Serves, Recorded, DB!PVRecorded
  <1>4. CASE DB!PVRecorded(e.uid)
    <2>1. pv' = [pv EXCEPT ![e.uid] = [@ EXCEPT !.source = e.source,
                                                !.spec = e.spec]]
      BY <1>4 DEF DB!UpdatePV
    <2>2. /\ pv'[e.uid].create_time = pv[e.uid].create_time
          /\ SpecOf(pv'[e.uid]) = SpecOf(e)
          /\ pv'[e.uid].delete_time = pv[e.uid].delete_time
          /\ \A v \in PV \ {e.uid} : pv'[v] = pv[v]
      BY <1>1, <2>1 DEF TypeOK, DB!PVRow, SpecOf
    <2>3. \A h \in log[PVs] : h.uid \in PV
      BY PVsFact DEF TypeOK, ClusterTypeOK
    <2>4. \A v \in PV : DB!PVRecorded(v)' <=> DB!PVRecorded(v)
      BY <2>2 DEF DB!PVRecorded
    <2>5. \A h \in log[PVs] : Recorded(h) => Recorded(h)'
      BY <1>2, <2>2, <2>3, <2>4 DEF Recorded
    <2>6. QED
      BY <1>2, <2>2, <2>4, <2>5 DEF Serves
  <1>5. QED
    BY <1>3, <1>4

LEMMA DeleteServes ==
    ASSUME TypeOK, NEW e \in Event, e.uid \in PV, e.type = "DELETED",
           NEW t, t # NULL, DB!DeletePVRow(e, t)
    PROVE  /\ Serves(e)
           /\ DB!PVRecorded(e.uid) => pv'[e.uid].delete_time # NULL
  <1>1. pv[e.uid] \in DB!PVRow
    BY DEF TypeOK
  <1>2. resource_version'[PVs] = e.rv /\ pvc' = pvc
    BY VersionOf, VolumesName DEF DB!DeletePVRow
  <1>3. CASE ~DB!PVRecorded(e.uid)
    BY <1>2, <1>3 DEF DB!DeletePVRow, Serves, Recorded, DB!PVRecorded
  <1>4. CASE DB!PVRecorded(e.uid)
    <2>1. pv' = [pv EXCEPT ![e.uid].delete_time = t]
      BY <1>4 DEF DB!DeletePVRow
    <2>2. /\ pv'[e.uid].create_time = pv[e.uid].create_time
          /\ SpecOf(pv'[e.uid]) = SpecOf(pv[e.uid])
          /\ pv'[e.uid].delete_time = t
          /\ \A v \in PV \ {e.uid} : pv'[v] = pv[v]
      BY <1>1, <2>1 DEF TypeOK, DB!PVRow, SpecOf
    <2>3. \A h \in log[PVs] : h.uid \in PV
      BY PVsFact DEF TypeOK, ClusterTypeOK
    <2>4. \A v \in PV : DB!PVRecorded(v)' <=> DB!PVRecorded(v)
      BY <2>2 DEF DB!PVRecorded
    <2>5. \A h \in log[PVs] : Recorded(h) => Recorded(h)'
      BY <1>2, <2>2, <2>3, <2>4 DEF Recorded
    <2>6. QED
      BY <1>2, <2>2, <2>4, <2>5 DEF Serves
  <1>5. QED
    BY <1>3, <1>4

LEMMA BindServes ==
    ASSUME TypeOK, ClaimsStand, NEW e \in Event, e.uid \in PV, e.claim # NULL,
           \E f \in log[PVs] : f.uid = e.uid /\ f.claim = e.claim,
           NEW t, DB!BindPVC(e, t)
    PROVE  Serves(e) /\ pvc'[e.claim].pv_uid = e.uid
  <1>1. e.claim \in PVC /\ pvc[e.claim] \in DB!PVCRow
    BY DEF Event, TypeOK
  <1>2. resource_version'[PVs] = e.rv /\ pv' = pv
    BY VersionOf, VolumesName DEF DB!BindPVC
  <1>3. /\ pvc'[e.claim].pv_uid = e.uid
        /\ \A c \in PVC \ {e.claim} : pvc'[c] = pvc[c]
    BY <1>1 DEF DB!BindPVC, TypeOK, DB!PVCRow
  <1>4. \A h \in log[PVs] : h.claim \in PVC \cup {NULL}
    BY PVsFact DEF TypeOK, ClusterTypeOK, Event
  <1>5. \A h \in log[PVs] : h.claim = e.claim => h.uid = e.uid
    BY DEF ClaimsStand
  <1>6. \A h \in log[PVs] : Recorded(h) => Recorded(h)'
    BY <1>2, <1>3, <1>4, <1>5 DEF Recorded, DB!PVRecorded
  <1>7. QED
    BY <1>2, <1>3, <1>6 DEF Serves, DB!PVRecorded

\* A goroutine's event is done: what it has to show for it, unless it is the
\* deletion of a volume that is not recorded.
Settles(g, e) ==
    /\ e \in listing[g] =>
        /\ DB!PVRecorded(e.uid)'
        /\ e.claim # NULL => pvc'[e.claim].pv_uid = e.uid
    /\ e \notin listing[g] =>
        \/ Recorded(e)'
        \/ e.type = "DELETED" /\ ~DB!PVRecorded(e.uid)
    /\ Renews(e) /\ DB!PVRecorded(e.uid)' => SpecOf(pv'[e.uid]) = SpecOf(e)

LEMMA DoneKeepsVolumes ==
    ASSUME SInv, Undisturbed, NEW g \in Goroutine, NEW e \in Offered(g),
           Connected(g), EventDone(g, e), Serves(e), Settles(g, e),
           UNCHANGED <<clusterVars, faultVars>>
    PROVE  Undisturbed'
  <1>1. /\ TypeOK /\ InOrder(PVs) /\ ClaimsStand /\ SpecsStand
        /\ UNCHANGED <<index, object, log, faults, missed>>
        /\ index \in Nat
        /\ e \in Event /\ e.uid \in PV /\ e.rv \in Nat
        /\ cursor[g] \in Nat /\ cursor[g] <= index
        /\ \A f \in log[PVs] : f.uid \in PV /\ f.rv \in Nat /\ f.rv <= index
                                /\ f.type \in EventType
    BY OfferedType, BoundsAreNumbers, PVsFact
       DEF SInv, TypeOK, ClusterTypeOK, clusterVars, faultVars, Undisturbed,
           CursorsStand, Event
  <1>2. /\ pc' = [pc EXCEPT ![g] = "watch"]
        /\ event' = [event EXCEPT ![g] = NULL]
        /\ listing' = [listing EXCEPT ![g] = @ \ {e}]
        /\ cursor' = [cursor EXCEPT ![g] = IF e.rv > @ THEN e.rv ELSE @]
    BY DEF EventDone, Goto
  <1>3. /\ pc'[g] = "watch" /\ listing'[g] = listing[g] \ {e}
        /\ cursor'[g] = IF e.rv > cursor[g] THEN e.rv ELSE cursor[g]
        /\ \A h \in Goroutine \ {g} :
            /\ pc'[h] = pc[h] /\ event'[h] = event[h]
            /\ listing'[h] = listing[h] /\ cursor'[h] = cursor[h]
    BY <1>1, <1>2 DEF TypeOK
  <1>4. \A h \in Goroutine : Connected(h)' <=> Connected(h)
    BY <1>3 DEF Connected
  <1>5. ASSUME listing[g] # {}
        PROVE  e \in listing[g] /\ e.type = "ADDED" /\ cursor'[g] = cursor[g]
    BY <1>1, <1>3, <1>5 DEF Offered, Undisturbed, ListsStand
  <1>6. ASSUME listing[g] = {}
        PROVE  /\ e \in log[PVs] /\ e \notin listing[g]
               /\ e.rv > cursor[g] /\ cursor'[g] = e.rv
               /\ \A f \in log[PVs] : f.rv > cursor[g] => e.rv <= f.rv
    BY <1>1, <1>3, <1>6 DEF Offered
  <1>7. cursor'[g] \in Nat /\ cursor[g] <= cursor'[g] /\ cursor'[g] <= index
        /\ e.rv <= index
    BY <1>1, <1>3, <1>5, <1>6 DEF Undisturbed, ListsStand
  <1>8. CursorsStand'
    <2>1. resource_version'[PVs] <= index
      BY <1>7 DEF Serves, Undisturbed, CursorsStand
    <2>2. QED
      BY <1>1, <1>3, <1>4, <1>7, <2>1 DEF Undisturbed, CursorsStand, Connected
  <1>9. ListsStand'
    <2> SUFFICES ASSUME NEW h \in Goroutine, NEW l \in listing'[h]
                 PROVE
          /\ l.type = "ADDED" /\ l.created # NULL /\ l.rv <= cursor'[h]
          /\ l.claim # NULL =>
              \E f \in log[PVs] : f.uid = l.uid /\ f.claim = l.claim
          /\ \A f \in log[PVs] : f.uid = l.uid /\ f.rv <= cursor'[h] =>
              f.type # "DELETED"
          /\ SpecOf(l) # SpecOf(object[l.uid]) =>
              \E f \in log[PVs] :
                  Latest(f) /\ f.uid = l.uid /\ cursor'[h] < f.rv
      BY <1>1 DEF ListsStand, Latest
    <2>1. l \in listing[h] /\ cursor'[h] = cursor[h]
      BY <1>3, <1>5
    <2>2. QED
      BY <2>1 DEF Undisturbed, ListsStand
  <1>10. EventsStand'
    <2> SUFFICES ASSUME NEW h \in Goroutine, pc'[h] \in Busy
                 PROVE  /\ event'[h] \in Offered(h)'
                        /\ pc'[h] # "bind" =>
                            event'[h].type = "ADDED" \/ Renews(event'[h])
                        /\ pc'[h] = "bind" =>
                            /\ event'[h].claim # NULL
                            /\ \/ /\ event'[h].type = "ADDED"
                                  /\ pv'[event'[h].uid].create_time # NULL
                               \/ /\ event'[h].type = "MODIFIED"
                                  /\ event'[h].phase = "Bound"
      BY DEF EventsStand, DB!PVRecorded
    <2>1. h # g
      BY <1>3 DEF Busy, ExportStep
    <2>2. Offered(h)' = Offered(h)
      BY <1>1, <1>3, <2>1 DEF Offered
    <2>3. event[h].uid \in PV
      BY <1>1, <1>3, <2>1 DEF TypeOK, Busy
    <2>4. DB!PVRecorded(event[h].uid) => pv'[event[h].uid].create_time # NULL
      BY <2>3 DEF Serves, DB!PVRecorded
    <2>5. QED
      BY <1>3, <2>1, <2>2, <2>4 DEF Undisturbed, EventsStand
  <1>11. DeletionsTrue'
    <2>1. e.type = "DELETED" => object[e.uid].phase = "gone"
      BY <1>1, <1>5, <1>6 DEF InOrder
    <2>2. QED
      BY <1>1, <2>1 DEF Serves, Undisturbed, DeletionsTrue
  <1>12. NothingBefore'
    BY <1>4 DEF NothingBefore
  <1>13. AllCovered'
    <2> SUFFICES ASSUME NEW f \in log[PVs]
                 PROVE  \/ Recorded(f)'
                        \/ f.uid \in missed
                        \/ \E h \in Goroutine : Ahead(h, f)'
      BY <1>1 DEF AllCovered
    <2>1. \A h \in Goroutine \ {g} : \A x : Ahead(h, x)' <=> Ahead(h, x)
      BY <1>3 DEF Ahead, Connected
    <2>2. CASE Recorded(f) \/ f.uid \in missed
      BY <2>2 DEF Serves
    <2>3. ASSUME NEW h \in Goroutine \ {g}, Ahead(h, f)
          PROVE  Ahead(h, f)'
      BY <2>1, <2>3
    <2>4. CASE f.rv > cursor'[g]
      BY <1>4, <2>4 DEF Ahead
    <2>5. CASE Ahead(g, f) /\ f.rv <= cursor'[g] /\ listing[g] # {}
      <3>1. CASE f.uid # e.uid
        BY <1>3, <1>5, <2>5, <3>1, <1>1 DEF Ahead
      <3>2. CASE f.uid = e.uid
        <4>0. CASE \E l \in listing[g] \ {e} :
                        l.uid = f.uid /\ f.claim \in {NULL, l.claim}
          BY <1>3, <4>0 DEF Ahead
        <4>1. f.type # "DELETED"
          BY <1>5, <2>5, <3>2 DEF Undisturbed, ListsStand
        <4>2. DB!PVRecorded(f.uid)'
          BY <1>5, <2>5, <3>2 DEF Settles
        <4>3. f.claim # NULL /\ f.claim = e.claim => pvc'[f.claim].pv_uid = f.uid
          BY <1>5, <2>5, <3>2 DEF Settles
        <4>4. CASE f.claim \in {NULL, e.claim}
          BY <4>1, <4>2, <4>3, <4>4 DEF Recorded, DB!PVRecorded
        <4>5. f.rv <= cursor[g] /\ f.rv \in Nat
          BY <1>1, <1>5, <2>5
        <4>6. QED
          BY <1>1, <2>5, <4>0, <4>4, <4>5 DEF Ahead
      <3>3. QED
        BY <3>1, <3>2
    <2>6. CASE Ahead(g, f) /\ f.rv <= cursor'[g] /\ listing[g] = {}
      <3>1. f.rv > cursor[g] /\ f.rv = e.rv
        BY <1>1, <1>6, <2>6 DEF Ahead
      <3>2. f = e
        BY <1>1, <1>6, <2>6, <3>1 DEF InOrder
      <3>3. CASE Recorded(e)'
        BY <3>2, <3>3
      <3>4. CASE e.type = "DELETED" /\ ~DB!PVRecorded(e.uid)
        <4>1. PICK a \in log[PVs] :
                a.uid = e.uid /\ a.type = "ADDED" /\ a.rv < e.rv
          BY <1>1, <1>6, <2>6, <3>4 DEF InOrder
        <4>2. ~Recorded(a)
          BY <3>4, <4>1 DEF Recorded
        <4>3. CASE a.uid \in missed
          BY <3>2, <4>1, <4>3
        <4>4. ASSUME NEW h \in Goroutine, Ahead(h, a)
              PROVE  h # g /\ Ahead(h, e)
          <5>1. a.rv <= cursor[g]
            BY <1>1, <1>6, <2>6, <4>1
          <5>2. h # g
            BY <1>1, <2>6, <4>4, <5>1 DEF Ahead
          <5>3. cursor[h] \in Nat
            BY <1>1 DEF TypeOK
          <5>4. CASE a.rv > cursor[h] /\ Connected(h)
            BY <1>1, <4>1, <5>2, <5>3, <5>4 DEF Ahead
          <5>5. CASE \E l \in listing[h] : l.uid = a.uid
            <6>1. Connected(h)
              BY <5>5 DEF Undisturbed, CursorsStand
            <6>2. e.rv > cursor[h]
              BY <1>1, <1>6, <2>6, <3>4, <4>1, <5>3, <5>5 DEF Undisturbed, ListsStand
            <6>3. QED
              BY <5>2, <6>1, <6>2 DEF Ahead
          <5>6. QED
            BY <4>4, <5>4, <5>5 DEF Ahead
        <4>5. a.uid \in missed \/ \E h \in Goroutine : Ahead(h, a)
          BY <4>1, <4>2 DEF Undisturbed, AllCovered
        <4>6. QED
          BY <2>3, <3>2, <4>3, <4>4, <4>5
      <3>5. QED
        BY <1>6, <2>6, <3>3, <3>4 DEF Settles
    <2>7. Recorded(f) \/ f.uid \in missed \/ \E h \in Goroutine : Ahead(h, f)
      BY DEF Undisturbed, AllCovered
    <2>8. f.rv > cursor'[g] \/ f.rv <= cursor'[g]
      BY <1>1, <1>7
    <2>9. QED
      BY <2>2, <2>3, <2>4, <2>5, <2>6, <2>7, <2>8
  <1>14. SpecsCovered'
    <2> SUFFICES ASSUME NEW v \in PV, DB!PVRecorded(v)', SpecOf(pv'[v]) # SpecOf(object[v])
                 PROVE  \E h \in Goroutine : \E f \in log[PVs] :
                            /\ Latest(f) /\ f.uid = v
                            /\ Connected(h) /\ cursor'[h] < f.rv
      BY <1>1, <1>4 DEF SpecsCovered, Latest
    <2>1. CASE v = e.uid /\ SpecOf(pv'[v]) = SpecOf(e)
      <3>1. CASE listing[g] # {}
        BY <1>5, <2>1, <3>1 DEF Undisturbed, ListsStand
      <3>2. CASE listing[g] = {}
        BY <1>1, <1>6, <2>1, <3>2 DEF SpecsStand
      <3>3. QED
        BY <3>1, <3>2
    <2>2. CASE DB!PVRecorded(v) /\ SpecOf(pv'[v]) = SpecOf(pv[v])
      <3>1. PICK h \in Goroutine, f \in log[PVs] :
                Latest(f) /\ f.uid = v /\ Connected(h) /\ cursor[h] < f.rv
        BY <2>2 DEF Undisturbed, SpecsCovered
      <3>2. CASE h # g
        BY <1>3, <3>1, <3>2
      <3>3. CASE h = g /\ listing[g] # {}
        BY <1>5, <3>1, <3>3
      <3>4. CASE h = g /\ listing[g] = {}
        <4>1. e.rv <= f.rv
          BY <1>6, <3>1, <3>4
        <4>2. f # e
          BY <3>1 DEF Settles, Latest
        <4>3. f.rv # e.rv
          BY <1>1, <1>6, <3>4, <4>2 DEF InOrder
        <4>4. cursor'[g] < f.rv
          BY <1>1, <1>6, <3>4, <4>1, <4>3
        <4>5. QED
          BY <3>1, <3>4, <4>4
      <3>5. QED
        BY <3>2, <3>3, <3>4
    <2>3. QED
      BY <2>1, <2>2 DEF Serves
  <1>15. QED
    BY <1>8, <1>9, <1>10, <1>11, <1>12, <1>13, <1>14 DEF Undisturbed

\* handlePVs takes an event, or is done with it at once.
LEMMA HandlePVsKeepsVolumes ==
    ASSUME SInv, NEW g \in Goroutine, handlePVs(g), faults = 0
    PROVE  Undisturbed'
  <1>1. PICK e \in Offered(g) :
            \/ /\ \/ e.type = "ADDED"
                  \/ e.type = "MODIFIED" /\ e.phase \in {"Available", "Bound"}
               /\ TakeEvent(g, e)
            \/ /\ e.type = "MODIFIED" /\ e.phase \notin {"Available", "Bound"}
               /\ EventDone(g, e) /\ UNCHANGED tableVars
            \/ /\ e.type = "DELETED"
               /\ EventDone(g, e)
               /\ DB!DeletePVRow(e, IF e.deletion # NULL THEN e.deletion ELSE Now)
    BY DEF handlePVs, Receives
  <1>2. /\ pc[g] = "watch" /\ Connected(g)
        /\ UNCHANGED <<clusterVars, faultVars>>
    BY DEF handlePVs, Receives, Connected
  <1>3. TypeOK /\ ClusterTypeOK /\ Undisturbed
    BY DEF SInv, TypeOK
  <1>4. e \in Event /\ e.uid \in PV
    BY <1>3, OfferedType
  <1>5. CASE EventDone(g, e) /\
               (\/ /\ e.type = "MODIFIED" /\ e.phase \notin {"Available", "Bound"}
                   /\ UNCHANGED tableVars
                \/ /\ e.type = "DELETED"
                   /\ DB!DeletePVRow(e, IF e.deletion # NULL THEN e.deletion ELSE Now))
    <2>1. e \in log[PVs] /\ e \notin listing[g]
      BY <1>3, <1>5 DEF Offered, Undisturbed, ListsStand
    <2>2. CASE e.type = "MODIFIED" /\ e.phase \notin {"Available", "Bound"}
               /\ UNCHANGED tableVars
      <3>1. Serves(e)
        BY <2>2, UntouchedServes
      <3>2. Recorded(e)'
        BY <2>2 DEF Recorded
      <3>3. Settles(g, e)
        BY <2>1, <2>2, <3>2 DEF Settles, Renews
      <3>4. QED
        BY <1>2, <1>3, <1>5, <3>1, <3>3, DoneKeepsVolumes
    <2>3. CASE e.type = "DELETED"
               /\ DB!DeletePVRow(e, IF e.deletion # NULL THEN e.deletion ELSE Now)
      <3>1. (IF e.deletion # NULL THEN e.deletion ELSE Now) # NULL
        BY <1>3, NowIsTime, NullIsNoNumber
      <3>2. /\ Serves(e)
            /\ DB!PVRecorded(e.uid) => pv'[e.uid].delete_time # NULL
        BY <1>3, <1>4, <2>3, <3>1, DeleteServes
      <3>3. e.phase = "gone"
        BY <2>1, <2>3 DEF SInv, InOrder
      <3>4. DB!PVRecorded(e.uid) => Recorded(e)'
        BY <2>3, <3>2, <3>3 DEF Recorded
      <3>5. Settles(g, e)
        BY <2>1, <2>3, <3>4 DEF Settles, Renews
      <3>6. QED
        BY <1>2, <1>3, <1>5, <3>2, <3>5, DoneKeepsVolumes
    <2>4. QED
      BY <1>5, <2>2, <2>3
  <1>6. CASE TakeEvent(g, e)
             /\ \/ e.type = "ADDED"
                \/ e.type = "MODIFIED" /\ e.phase \in {"Available", "Bound"}
    BY <1>2, <1>3, <1>6, TakeKeepsVolumes
  <1>7. QED
    BY <1>1, <1>5, <1>6

\* A volume is stored; if it was added with a claim, that is bound next.
LEMMA StoreKeepsVolumes ==
    ASSUME SInv, NEW g \in Goroutine, StorePV(g), faults = 0
    PROVE  Undisturbed'
  <1>1. PICK e : e = event[g]
    OBVIOUS
  <1>2. /\ IF e.type = "ADDED" THEN DB!InsertPV(e) ELSE DB!UpdatePV(e)
        /\ IF e.type = "ADDED" /\ e.claim # NULL
             THEN pc' = [pc EXCEPT ![g] = "bind"] /\ UNCHANGED watchVars
             ELSE EventDone(g, e)
        /\ pc[g] = "store"
        /\ UNCHANGED <<clusterVars, faultVars>>
    BY <1>1 DEF StorePV, Goto
  <1>3. TypeOK /\ Undisturbed /\ Connected(g)
    BY <1>2 DEF SInv, Connected
  <1>4. e \in Offered(g) /\ (e.type = "ADDED" \/ Renews(e))
    BY <1>1, <1>2, <1>3 DEF Undisturbed, EventsStand, Busy
  <1>5. e \in Event /\ e.uid \in PV /\ (e \in listing[g] \/ e \in log[PVs])
    BY <1>3, <1>4, OfferedType DEF Offered
  <1>6. e.created # NULL
    BY <1>3, <1>5 DEF SInv, InOrder, Undisturbed, ListsStand
  <1>7. /\ Serves(e)
        /\ e.type = "ADDED" => DB!PVRecorded(e.uid)'
        /\ e.type # "ADDED" /\ DB!PVRecorded(e.uid)' => SpecOf(pv'[e.uid]) = SpecOf(e)
    BY <1>2, <1>3, <1>5, <1>6, InsertServes, UpdateServes
  <1>8. CASE EventDone(g, e) /\ (e.type # "ADDED" \/ e.claim = NULL)
    <2>1. e \in listing[g] => e.type = "ADDED"
      BY <1>3 DEF Undisturbed, ListsStand
    <2>2. Recorded(e)'
      BY <1>4, <1>7, <1>8 DEF Recorded, Renews, DB!PVRecorded
    <2>3. Settles(g, e)
      BY <1>4, <1>7, <1>8, <2>1, <2>2 DEF Settles, Renews
    <2>4. QED
      BY <1>2, <1>3, <1>4, <1>7, <1>8, <2>3, DoneKeepsVolumes
  <1>9. CASE /\ e.type = "ADDED" /\ e.claim # NULL
             /\ pc' = [pc EXCEPT ![g] = "bind"] /\ UNCHANGED watchVars
    <2>1. /\ UNCHANGED <<index, object, log, listing, cursor, event, faults, missed>>
          /\ pc'[g] = "bind" /\ \A h \in Goroutine \ {g} : pc'[h] = pc[h]
      BY <1>2, <1>3, <1>9 DEF clusterVars, watchVars, faultVars, TypeOK
    <2>2. \A h \in Goroutine : Connected(h)' <=> Connected(h)
      BY <1>2, <2>1 DEF Connected
    <2>3. \A h \in Goroutine : \A f : Ahead(h, f)' <=> Ahead(h, f)
      BY <2>1, <2>2 DEF Ahead, Connected
    <2>4. e.rv \in Nat /\ e.rv <= index
      BY <1>3, <1>5, BoundsAreNumbers, PVsFact
         DEF TypeOK, ClusterTypeOK, Event, Undisturbed, CursorsStand, ListsStand
    <2>5. CursorsStand'
      BY <1>3, <1>7, <2>1, <2>2, <2>4 DEF Serves, Undisturbed, CursorsStand
    <2>6. ListsStand'
      BY <1>3, <2>1 DEF Undisturbed, ListsStand, Latest
    <2>7. EventsStand'
      <3> SUFFICES ASSUME NEW h \in Goroutine, pc'[h] \in Busy
                   PROVE  /\ event[h] \in Offered(h)
                          /\ pc'[h] # "bind" =>
                              event[h].type = "ADDED" \/ Renews(event[h])
                          /\ pc'[h] = "bind" =>
                              /\ event[h].claim # NULL
                              /\ \/ /\ event[h].type = "ADDED"
                                    /\ pv'[event[h].uid].create_time # NULL
                                 \/ /\ event[h].type = "MODIFIED"
                                    /\ event[h].phase = "Bound"
        BY <2>1 DEF EventsStand, Offered, DB!PVRecorded
      <3>1. CASE h = g
        BY <1>1, <1>4, <1>7, <1>9, <2>1, <3>1 DEF DB!PVRecorded
      <3>2. CASE h # g
        <4>1. event[h].uid \in PV /\ pc[h] \in Busy
          BY <1>3, <2>1, <3>2 DEF TypeOK, Busy
        <4>2. DB!PVRecorded(event[h].uid) => pv'[event[h].uid].create_time # NULL
          BY <1>7, <4>1 DEF Serves, DB!PVRecorded
        <4>3. QED
          BY <1>3, <2>1, <3>2, <4>1, <4>2 DEF Undisturbed, EventsStand
      <3>3. QED
        BY <3>1, <3>2
    <2>8. DeletionsTrue' /\ NothingBefore'
      BY <1>3, <1>7, <1>9, <2>1, <2>2
         DEF Serves, Undisturbed, DeletionsTrue, NothingBefore
    <2>9. AllCovered'
      BY <1>3, <1>7, <2>1, <2>2, <2>3 DEF Serves, Undisturbed, AllCovered
    <2>10. SpecsCovered'
      <3> SUFFICES ASSUME NEW v \in PV, DB!PVRecorded(v)', SpecOf(pv'[v]) # SpecOf(object[v])
                   PROVE  \E h \in Goroutine : \E f \in log[PVs] :
                            /\ Latest(f) /\ f.uid = v
                            /\ Connected(h) /\ cursor[h] < f.rv
        BY <2>1, <2>2 DEF SpecsCovered, Latest
      <3>1. CASE DB!PVRecorded(v) /\ SpecOf(pv'[v]) = SpecOf(pv[v])
        BY <1>3, <3>1 DEF Undisturbed, SpecsCovered
      <3>2. CASE v = e.uid /\ SpecOf(pv'[v]) = SpecOf(e)
        <4>1. CASE e \in listing[g]
          BY <1>3, <3>2, <4>1 DEF Undisturbed, ListsStand
        <4>2. CASE e \notin listing[g]
          <5>1. e \in log[PVs] /\ e.rv > cursor[g]
            BY <1>4, <4>2 DEF Offered
          <5>2. PICK f \in log[PVs] : Latest(f) /\ f.uid = e.uid /\ e.rv < f.rv
            BY <3>2, <5>1 DEF SInv, SpecsStand
          <5>3. f.rv \in Nat /\ cursor[g] \in Nat
            BY <1>3, PVsFact DEF TypeOK, ClusterTypeOK
          <5>4. QED
            BY <1>3, <2>4, <3>2, <5>1, <5>2, <5>3
        <4>3. QED
          BY <4>1, <4>2
      <3>3. QED
        BY <1>7, <3>1, <3>2 DEF Serves
    <2>11. QED
      BY <2>5, <2>6, <2>7, <2>8, <2>9, <2>10 DEF Undisturbed
  <1>10. QED
    BY <1>2, <1>8, <1>9

\* The claim of a volume is bound.
LEMMA BindKeepsVolumes ==
    ASSUME SInv, NEW g \in Goroutine, Bind(g), faults = 0
    PROVE  Undisturbed'
  <1>1. PICK e : e = event[g]
    OBVIOUS
  <1>2. PICK t : t = Now
    OBVIOUS
  <1>3. /\ DB!BindPVC(e, t) /\ EventDone(g, e) /\ pc[g] = "bind"
        /\ UNCHANGED <<clusterVars, faultVars>>
    BY <1>1, <1>2 DEF Bind
  <1>4. TypeOK /\ ClaimsStand /\ Undisturbed /\ Connected(g)
    BY <1>3 DEF SInv, Connected
  <1>5. /\ e \in Offered(g) /\ e.claim # NULL
        /\ \/ e.type = "ADDED" /\ DB!PVRecorded(e.uid)
           \/ e.type = "MODIFIED" /\ e.phase = "Bound"
    BY <1>1, <1>3, <1>4 DEF Undisturbed, EventsStand, Busy
  <1>6. e \in Event /\ e.uid \in PV /\ (e \in listing[g] \/ e \in log[PVs])
    BY <1>4, <1>5, OfferedType DEF Offered
  <1>7. \E f \in log[PVs] : f.uid = e.uid /\ f.claim = e.claim
    BY <1>4, <1>5, <1>6 DEF Undisturbed, ListsStand
  <1>8. Serves(e) /\ pvc'[e.claim].pv_uid = e.uid
    BY <1>3, <1>4, <1>5, <1>6, <1>7, BindServes
  <1>9. e.type = "ADDED" => DB!PVRecorded(e.uid)'
    BY <1>5, <1>6, <1>8 DEF Serves
  <1>10. e \in listing[g] => e.type = "ADDED"
    BY <1>4 DEF Undisturbed, ListsStand
  <1>11. Recorded(e)'
    BY <1>5, <1>8, <1>9 DEF Recorded, DB!PVRecorded
  <1>12. ~Renews(e)
    BY <1>5 DEF Renews
  <1>13. Settles(g, e)
    BY <1>8, <1>9, <1>10, <1>11, <1>12 DEF Settles
  <1>14. QED
    BY <1>3, <1>4, <1>5, <1>8, <1>13, DoneKeepsVolumes

\* A fault: nothing is claimed of the rows any more.
LEMMA FaultsKeepVolumes ==
    ASSUME SInv, NEW g \in Goroutine,
           Drop(g) \/ Crash(g) \/ InsertFails(g) \/ CommitFails(g)
    PROVE  UNCHANGED clusterVars /\ faults' # 0
  BY FaultsAreFinite
     DEF SInv, TypeOK, Drop, Crash, InsertFails, CommitFails, Fault, Retry, Exit

LEMMA NextVolumes == SInv /\ [Next]_vars => SInv'
  <1> SUFFICES ASSUME SInv, [Next]_vars PROVE SInv'
    OBVIOUS
  <1>1. TypeOK'
    BY NextType DEF SInv
  <1>2. ASSUME UNCHANGED clusterVars, faults' = 0 => Undisturbed'
        PROVE  SInv'
    <2>1. InOrder(PVs)' /\ ClaimsStand' /\ SpecsStand'
      BY <1>2 DEF SInv, clusterVars, InOrder, ClaimsStand, SpecsStand, Latest,
                  Alive
    <2>2. QED
      BY <1>1, <1>2, <2>1 DEF SInv
  <1>3. CASE ClusterStep
    BY <1>3, ClusterKeepsVolumes
  <1>4. ASSUME NEW g \in Goroutine,
               ReadVersion(g) \/ ConnectList(g) \/ ConnectFrom(g)
        PROVE  SInv'
    BY <1>4, ReadKeepsVolumes, ConnectKeepsVolumes
  <1>5. ASSUME NEW g \in Goroutine,
               \/ CheckExists(g) \/ InsertExport(g) \/ LastID(g)
               \/ CommitExport(g)
        PROVE  SInv'
    BY <1>5, StatementsKeepVolumes
  <1>6. ASSUME NEW g \in Goroutine, handlePVs(g) PROVE SInv'
    <2>1. UNCHANGED clusterVars /\ faults' = faults
      BY <1>6 DEF handlePVs, faultVars
    <2>2. QED
      BY <1>2, <1>6, <2>1, HandlePVsKeepsVolumes
  <1>7. ASSUME NEW g \in Goroutine, StorePV(g) PROVE SInv'
    <2>1. UNCHANGED clusterVars /\ faults' = faults
      BY <1>7 DEF StorePV, faultVars
    <2>2. QED
      BY <1>2, <1>7, <2>1, StoreKeepsVolumes
  <1>8. ASSUME NEW g \in Goroutine, Bind(g) PROVE SInv'
    <2>1. UNCHANGED clusterVars /\ faults' = faults
      BY <1>8 DEF Bind, faultVars
    <2>2. QED
      BY <1>2, <1>8, <2>1, BindKeepsVolumes
  <1>9. ASSUME NEW g \in Goroutine,
               Drop(g) \/ Crash(g) \/ InsertFails(g) \/ CommitFails(g)
        PROVE  SInv'
    BY <1>2, <1>9, FaultsKeepVolumes
  <1>10. CASE UNCHANGED vars
    <2>1. UNCHANGED clusterVars /\ UNCHANGED <<tableVars, pc, watchVars, faultVars>>
      BY <1>10 DEF vars
    <2>2. Undisturbed' <=> Undisturbed
      BY <2>1 DEF Undisturbed, CursorsStand, ListsStand, EventsStand,
            DeletionsTrue, NothingBefore, AllCovered, SpecsCovered, Recorded,
            Ahead, Latest, Offered, Connected, Busy, DB!PVRecorded, clusterVars,
            tableVars, watchVars, faultVars
    <2>3. QED
      BY <1>2, <2>1, <2>2 DEF SInv, faultVars
  <1>11. QED
    BY <1>3, <1>4, <1>5, <1>6, <1>7, <1>8, <1>9, <1>10 DEF Next, Handler

\* As long as no watch is interrupted, cursors, lists and the events in hand of
\* goroutines that handle volumes side by side are what SInv says, and every
\* event is recorded, hidden by a list or still ahead of one of them
\* (SharedVolumesInvariant!SInv).
THEOREM SharedInvariant == Spec => []SInv
  BY InitVolumes, NextVolumes, PTL DEF Spec

\* What the shared version covers is recorded, was hidden by a list, or is still
\* ahead of a goroutine, if no watch is interrupted: for any number of
\* goroutines, volumes and revisions (SharedVolumes!SharedVersionCovers).
THEOREM VersionIsCovered == Spec => []SharedVersionCovers
  <1>1. SInv => SharedVersionCovers
    <2> SUFFICES ASSUME SInv, faults = 0, NEW e \in log[PVs],
                        e.rv <= resource_version[PVs]
                 PROVE  \/ Recorded(e) \/ e.uid \in missed
                        \/ \E g \in Goroutine : Ahead(g, e)
      BY DEF SharedVersionCovers
    <2>1. e.rv \in 1..index /\ index \in Nat
      BY PVsFact, BoundsAreNumbers DEF SInv, TypeOK, ClusterTypeOK
    <2>2. CASE \A g \in Goroutine : ~Connected(g)
      BY <2>1, <2>2 DEF SInv, Undisturbed, NothingBefore
    <2>3. CASE \E g \in Goroutine : Connected(g)
      BY <2>3 DEF SInv, Undisturbed, AllCovered
    <2>4. QED
      BY <2>2, <2>3
  <1>2. QED
    BY <1>1, SharedInvariant, PTL

\* When goroutines that handle volumes side by side have all caught up, and none
\* of their watches was interrupted, the rows are current, whatever older values
\* the slow ones have written over the newer ones of the fast
\* (SharedVolumes!RowsCurrent).
THEOREM RowsAreCurrent == Spec => []RowsCurrent
  <1>1. SInv => RowsCurrent
    <2> SUFFICES ASSUME SInv, \A g \in Goroutine : Drained(g), faults = 0
                 PROVE  Current
      BY DEF RowsCurrent
    <2>1. /\ \A e \in log[PVs] : e.rv \in Nat
          /\ \A g \in Goroutine : cursor[g] \in Nat
      BY PVsFact DEF SInv, TypeOK, ClusterTypeOK
    <2>2. /\ \A e \in log[PVs] : \A g \in Goroutine : ~Ahead(g, e)
          /\ \E g \in Goroutine : Connected(g)
      BY <2>1, SomeGoroutine DEF Drained, Ahead, Connected
    <2>3. \A e \in log[PVs] : Recorded(e) \/ e.uid \in missed
      BY <2>2 DEF SInv, Undisturbed, AllCovered
    <2> SUFFICES ASSUME NEW v \in PV \ missed
                 PROVE  /\ DB!PVRecorded(v) =>
                            /\ SpecOf(pv[v]) = SpecOf(object[v])
                            /\ pv[v].delete_time # NULL
                                    <=> object[v].phase = "gone"
                        /\ Alive(v) => DB!PVRecorded(v)
      BY DEF Current
    <2>4. DB!PVRecorded(v) => SpecOf(pv[v]) = SpecOf(object[v])
      BY <2>1 DEF SInv, Undisturbed, SpecsCovered, Drained
    <2>5. pv[v].delete_time # NULL => object[v].phase = "gone"
      BY DEF SInv, Undisturbed, DeletionsTrue
    <2>6. object[v].phase = "gone" => pv[v].delete_time # NULL
      BY <2>3, PVsFact DEF SInv, InOrder, Recorded
    <2>7. Alive(v) => DB!PVRecorded(v)
      BY <2>3, PVsFact DEF SInv, InOrder, Recorded, Alive
    <2>8. QED
      BY <2>4, <2>5, <2>6, <2>7
  <1>2. QED
    BY <1>1, SharedInvariant, PTL
=============================================================================
