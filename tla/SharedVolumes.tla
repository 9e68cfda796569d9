--------------------------- MODULE SharedVolumes ---------------------------
(***************************************************************************)
(* Several goroutines that handle volumes on one database: those of       *)
(* trackers of different namespaces, which watch the same volumes and     *)
(* share their resource version, and those that Stop and another Watch    *)
(* leave side by side.  Each is the loop of Watch with handlePVs, as in   *)
(* module Tracker; InsertNFS and InsertISCSI, which look for an export and *)
(* insert it if it is not there, are opened up into their statements.     *)
(*                                                                         *)
(* Left to module Tracker: versions that expire, events sent twice, and   *)
(* volumes that are neither NFS nor iSCSI.                                 *)
(***************************************************************************)
EXTENDS Cluster, Integers, FiniteSets

CONSTANTS
    Goroutine,      \* the goroutines
    NFS,            \* the exports that are NFS; the others are iSCSI
    Like,           \* the exports that match the LIKE patterns of each export
    MaxFaults       \* bound: watches closed by the server, goroutines that
                    \* end, and statements and commits that fail

ASSUME ExportsTyped ==
    /\ \A v \in PV : NULL \notin SourcesOf(v)
    /\ NFS \subseteq Source
    /\ Like \in [Source -> SUBSET Source]

ASSUME GoroutinesAreFinite == IsFiniteSet(Goroutine)
ASSUME SomeGoroutine == Goroutine # {}
ASSUME NothingForgotten == MaxCompacted = 0
ASSUME FaultsAreFinite == MaxFaults \in Nat

\* The claims have been created.
ASSUME RoomForClaims == MaxIndex # 0

VARIABLES
    pvc, pv, resource_version,  \* the tables, as in VolumeDB
    exports,        \* the committed rows of tables nfs and iscsi
    last_id,        \* the last id each of them has given out
    source_id,      \* the column nfs_id or iscsi_id of each volume's row
    pc,             \* where each goroutine is
    listing, cursor, event,     \* of each goroutine, as in Tracker
    inserted,       \* the row its transaction has inserted, as a set
    backendID,      \* the variable of handlePVs
    faults,         \* faults so far
    missed          \* history: volumes whose events a fault may have lost

tableVars == <<pvc, pv, resource_version, source_id>>
exportVars == <<exports, last_id>>
watchVars == <<listing, cursor, event>>
txVars == <<inserted, backendID>>
faultVars == <<faults, missed>>

vars == <<clusterVars, tableVars, exportVars, pc, watchVars, txVars,
          faultVars>>

Table == {"nfs", "iscsi"}

TableOf(x) == IF x \in NFS THEN "nfs" ELSE "iscsi"

ExportRow == [id: Nat, export: Source]

\* The other transactions are VolumeDB's.  No pods are watched here.
DB == INSTANCE VolumeDB WITH
    pod <- [p \in Pod |-> [create_time |-> NULL, delete_time |-> NULL]],
    pod_mount <- {},
    sources <- {row.export : row \in exports["nfs"] \cup exports["iscsi"]}

\* "check", "insert", "lastid" and "commit" are InsertNFS and InsertISCSI.
ExportStep == {"check", "insert", "lastid", "commit"}
Step == {"connect", "request", "watch", "store", "bind"} \cup ExportStep

\* The claims are there from the start.
Init ==
    /\ ClusterWithClaims
    /\ exports = [t \in Table |-> {}]
    /\ DB!DBInit
    /\ last_id = [t \in Table |-> 0]
    /\ source_id = [v \in PV |-> 0]
    /\ pc = [g \in Goroutine |-> "connect"]
    /\ listing = [g \in Goroutine |-> {}]
    /\ cursor = [g \in Goroutine |-> 0]
    /\ event = [g \in Goroutine |-> NULL]
    /\ inserted = [g \in Goroutine |-> {}]
    /\ backendID = [g \in Goroutine |-> 0]
    /\ faults = 0
    /\ missed = {}

Goto(g, step) == pc' = [pc EXCEPT ![g] = step]

-----------------------------------------------------------------------------
(* The loop of Watch.                                                      *)

\* getRV.  The version may be the work of any of the goroutines, and the others
\* may write another one before the server is asked.
ReadVersion(g) ==
    /\ pc[g] = "connect"
    /\ cursor' = [cursor EXCEPT ![g] = DB!GetRV(PVs)]
    /\ Goto(g, "request")
    /\ UNCHANGED <<clusterVars, tableVars, exportVars, listing, event, txVars,
                   faultVars>>

\* As in Tracker: what a list taken now hides.
Hidden ==
    {e.uid : e \in {f \in log[PVs] :
        /\ f.rv > DB!GetRV(PVs)
        /\ \/ f.type = "DELETED"
           \/ f.claim \notin {NULL, object[f.uid].claim}}}

ConnectList(g) ==
    /\ pc[g] = "request"
    /\ cursor[g] = 0
    /\ listing' = [listing EXCEPT ![g] = Listing(PVs)]
    /\ cursor' = [cursor EXCEPT ![g] = index]
    /\ missed' = missed \cup Hidden
    /\ Goto(g, "watch")
    /\ UNCHANGED <<clusterVars, tableVars, exportVars, event, txVars, faults>>

ConnectFrom(g) ==
    /\ pc[g] = "request"
    /\ cursor[g] # 0
    /\ Goto(g, "watch")
    /\ UNCHANGED <<clusterVars, tableVars, exportVars, watchVars, txVars,
                   faultVars>>

Offered(g) ==
    IF listing[g] # {}
      THEN listing[g]
      ELSE {e \in log[PVs] :
                /\ e.rv > cursor[g]
                /\ \A f \in log[PVs] : f.rv > cursor[g] => e.rv <= f.rv}

Receives(g, e) == pc[g] = "watch" /\ e \in Offered(g)

\* Slip: an event that the common version covers need not be handled again.
EventDoneForAll(g, e) ==
    LET seen == IF e.rv > DB!GetRV(PVs) THEN e.rv ELSE DB!GetRV(PVs)
    IN  /\ Goto(g, "watch")
        /\ event' = [event EXCEPT ![g] = NULL]
        /\ listing' = [listing EXCEPT ![g] = @ \ {e}]
        /\ cursor' = [cursor EXCEPT ![g] = IF seen > @ THEN seen ELSE @]

EventDone(g, e) ==
    /\ Goto(g, "watch")
    /\ event' = [event EXCEPT ![g] = NULL]
    /\ listing' = [listing EXCEPT ![g] = @ \ {e}]
    /\ cursor' = [cursor EXCEPT ![g] = IF e.rv > @ THEN e.rv ELSE @]

-----------------------------------------------------------------------------
(* handlePVs.                                                              *)

\* An event with an export to record or a claim to bind is kept until that is
\* done.
TakeEvent(g, e) ==
    /\ event' = [event EXCEPT ![g] = e]
    /\ Goto(g, IF e.type = "MODIFIED" /\ e.phase = "Bound"
                 THEN "bind" ELSE "check")
    /\ UNCHANGED <<tableVars, listing, cursor>>

handlePVs(g) ==
    \E e \in log[PVs] \cup listing[g] :
        /\ Receives(g, e)
        /\ UNCHANGED <<clusterVars, exportVars, txVars, faultVars>>
        /\ \/ /\ \/ e.type = "ADDED"
                 \/ e.type = "MODIFIED" /\ e.phase \in {"Available", "Bound"}
              /\ TakeEvent(g, e)
           \/ /\ e.type = "MODIFIED" /\ e.phase \notin {"Available", "Bound"}
              /\ EventDone(g, e)
              /\ UNCHANGED tableVars
           \/ /\ e.type = "DELETED"
              /\ EventDone(g, e)
              /\ DB!DeletePVRow(e, IF e.deletion # NULL THEN e.deletion ELSE Now)
              /\ UNCHANGED source_id

Export(g) == event[g].source
ExportTable(g) == TableOf(Export(g))

\* checkNFSExists and checkISCSIExists: the query sees what is committed, and
\* says nothing about the order of what it finds.
Matching(g) ==
    {row \in exports[ExportTable(g)] : row.export \in Like[Export(g)]}

CheckExists(g) ==
    /\ pc[g] = "check"
    /\ \/ \E row \in Matching(g) :
            /\ backendID' = [backendID EXCEPT ![g] = row.id]
            /\ Goto(g, "commit")
       \/ /\ Matching(g) = {}
          /\ Goto(g, "insert")
          /\ UNCHANGED backendID
    /\ UNCHANGED <<clusterVars, tableVars, exportVars, watchVars, inserted,
                   faultVars>>

\* The id is taken for good, whatever becomes of the row.
InsertExport(g) ==
    LET t == ExportTable(g)
        id == last_id[t] + 1
    IN  /\ pc[g] = "insert"
        /\ last_id' = [last_id EXCEPT ![t] = id]
        /\ inserted' = [inserted EXCEPT
                            ![g] = {[id |-> id, export |-> Export(g)]}]
        /\ Goto(g, "lastid")
        /\ UNCHANGED <<clusterVars, tableVars, exports, watchVars, backendID,
                       faultVars>>

\* Slip: the newest id of the table.
LastIDOfTable(g) ==
    /\ pc[g] = "lastid"
    /\ backendID' = [backendID EXCEPT ![g] = last_id[ExportTable(g)]]
    /\ Goto(g, "commit")
    /\ UNCHANGED <<clusterVars, tableVars, exportVars, watchVars, inserted,
                   faultVars>>

\* LAST_INSERT_ID() is that of the connection.
LastID(g) ==
    /\ pc[g] = "lastid"
    /\ \E row \in inserted[g] : backendID' = [backendID EXCEPT ![g] = row.id]
    /\ Goto(g, "commit")
    /\ UNCHANGED <<clusterVars, tableVars, exportVars, watchVars, inserted,
                   faultVars>>

\* The row becomes visible.
CommitRow(g) ==
    /\ exports' = [exports EXCEPT ![ExportTable(g)] = @ \cup inserted[g]]
    /\ UNCHANGED last_id

CommitExport(g) ==
    /\ pc[g] = "commit"
    /\ CommitRow(g)
    /\ inserted' = [inserted EXCEPT ![g] = {}]
    /\ Goto(g, "store")
    /\ UNCHANGED <<clusterVars, tableVars, watchVars, backendID, faultVars>>

\* InsertPV of a volume that is there changes nothing, and UpdatePV nothing of
\* one that is not.
StorePV(g) ==
    LET e == event[g]
    IN  /\ pc[g] = "store"
        /\ UNCHANGED exportVars
        /\ IF e.type = "ADDED" THEN DB!InsertPV(e) ELSE DB!UpdatePV(e)
        /\ source_id' = IF (e.type = "ADDED") = DB!PVRecorded(e.uid)
                          THEN source_id
                          ELSE [source_id EXCEPT ![e.uid] = backendID[g]]
        /\ IF e.type = "ADDED" /\ e.claim # NULL
             THEN Goto(g, "bind") /\ UNCHANGED watchVars
             ELSE EventDone(g, e)
        /\ backendID' = [backendID EXCEPT ![g] = 0]
        /\ UNCHANGED <<clusterVars, inserted, faultVars>>

Bind(g) ==
    /\ pc[g] = "bind"
    /\ UNCHANGED exportVars
    /\ DB!BindPVC(event[g], Now)
    /\ EventDone(g, event[g])
    /\ UNCHANGED <<clusterVars, source_id, txVars, faultVars>>

-----------------------------------------------------------------------------
(* Faults.                                                                 *)

Fault ==
    /\ faults < MaxFaults
    /\ faults' = faults + 1

\* What a fault in the middle of a list, or of an added volume that has been
\* stored and not bound, keeps g from recording.
Torn(g) ==
    {l.uid : l \in listing[g]}
        \cup (IF pc[g] = "bind" /\ event[g].type = "ADDED"
                THEN {event[g].uid} ELSE {})

Forget(g) ==
    /\ listing' = [listing EXCEPT ![g] = {}]
    /\ cursor' = [cursor EXCEPT ![g] = 0]
    /\ event' = [event EXCEPT ![g] = NULL]
    /\ missed' = missed \cup Torn(g)

Drop(g) ==
    /\ pc[g] = "watch"
    /\ Fault
    /\ Forget(g)
    /\ Goto(g, "connect")
    /\ UNCHANGED <<clusterVars, tableVars, exportVars, txVars>>

\* The server rolls back what is not committed, and the watch is set up anew.
Exit(g) ==
    /\ Forget(g)
    /\ Goto(g, "connect")
    /\ inserted' = [inserted EXCEPT ![g] = {}]
    /\ backendID' = [backendID EXCEPT ![g] = 0]
    /\ UNCHANGED <<clusterVars, tableVars>>

\* A crash, a log.Fatal, or a Stop followed by another Watch.
Crash(g) ==
    /\ pc[g] # "connect"
    /\ Fault
    /\ Exit(g)
    /\ UNCHANGED exportVars

\* Slip: the second attempt does not look for the export again.
RetryInsert(g) ==
    /\ Goto(g, "insert")
    /\ inserted' = [inserted EXCEPT ![g] = {}]
    /\ UNCHANGED <<clusterVars, tableVars, watchVars, backendID, missed>>

\* Slip: the failed attempt is not rolled back.
RetryWithin(g) ==
    /\ Goto(g, "check")
    /\ UNCHANGED <<clusterVars, tableVars, watchVars, inserted, backendID,
                   missed>>

\* runTx rolls back, and starts the function of InsertISCSI again.
Retry(g) ==
    /\ Goto(g, "check")
    /\ inserted' = [inserted EXCEPT ![g] = {}]
    /\ backendID' = [backendID EXCEPT ![g] = 0]
    /\ UNCHANGED <<clusterVars, tableVars, watchVars, missed>>

\* The server refuses the row.  InsertNFS returns -1; its err is that of the
\* if statement, so the deferred function sees none and commits.
InsertFails(g) ==
    /\ pc[g] = "insert"
    /\ Fault
    /\ \/ /\ Export(g) \in NFS
          /\ backendID' = [backendID EXCEPT ![g] = -1]
          /\ Goto(g, "commit")
          /\ UNCHANGED <<clusterVars, tableVars, watchVars, inserted, missed>>
       \/ Export(g) \notin NFS /\ Retry(g)
    /\ UNCHANGED exportVars

\* The commit reports an error, having been carried out or not.  InsertNFS
\* ends the process.
CommitFails(g) ==
    /\ pc[g] = "commit"
    /\ Fault
    /\ CommitRow(g) \/ UNCHANGED exportVars
    /\ \/ Export(g) \in NFS /\ Exit(g)
       \/ Export(g) \notin NFS /\ Retry(g)

-----------------------------------------------------------------------------
Handler(g) ==
    \/ handlePVs(g) \/ CheckExists(g) \/ InsertExport(g) \/ LastID(g)
    \/ CommitExport(g) \/ StorePV(g) \/ Bind(g)

ClusterStep ==
    /\ ClusterNext
    /\ UNCHANGED <<tableVars, exportVars, pc, watchVars, txVars, faultVars>>

Next ==
    \/ ClusterStep
    \/ \E g \in Goroutine :
        \/ ReadVersion(g) \/ ConnectList(g) \/ ConnectFrom(g)
        \/ Handler(g)
        \/ Drop(g) \/ Crash(g)
        \/ InsertFails(g) \/ CommitFails(g)

Spec == Init /\ [][Next]_vars

-----------------------------------------------------------------------------
TypeOK ==
    /\ ClusterTypeOK
    /\ pvc \in [PVC -> DB!PVCRow]
    /\ pv \in [PV -> DB!PVRow]
    /\ resource_version \in [Resource -> Nat]
    /\ exports \in [Table -> SUBSET ExportRow]
    /\ last_id \in [Table -> Nat]
    /\ source_id \in [PV -> Nat \cup {-1}]
    /\ pc \in [Goroutine -> Step]
    /\ listing \in [Goroutine -> SUBSET Event]
    /\ \A g \in Goroutine : \A l \in listing[g] : l.uid \in PV
    /\ cursor \in [Goroutine -> Nat]
    /\ DOMAIN event = Goroutine
    /\ \A g \in Goroutine :
        pc[g] \in ExportStep \cup {"store", "bind"} =>
            event[g] \in Event /\ event[g].uid \in PV
    /\ inserted \in [Goroutine -> SUBSET ExportRow]
    /\ \A g \in Goroutine :
        inserted[g] # {} => pc[g] \in {"lastid", "commit"}
    /\ backendID \in [Goroutine -> Nat \cup {-1}]
    /\ faults \in 0..MaxFaults
    /\ missed \subseteq PV

\* However often its export is edited, a recorded volume refers to a committed
\* row of the right table, whose export is the recorded one or one that it
\* matches as a LIKE pattern.  But for such a match it never refers to the export
\* it had before or to that of another goroutine's volume, and never to a row
\* that was rolled back.  Except for the -1 that InsertNFS returns when its
\* insertion has failed.
SourceResolves ==
    \A v \in PV : DB!PVRecorded(v) =>
        LET x == pv[v].source
        IN  \/ \E row \in exports[TableOf(x)] :
                /\ row.id = source_id[v]
                /\ row.export \in {x} \cup Like[x]
            \/ source_id[v] = -1 /\ faults > 0 /\ x \in NFS

RowsOf(x) == {row \in exports[TableOf(x)] : row.export = x}

\* Two goroutines may both find an export missing and insert it.  But whatever
\* they retry, and however often they are started again, there are never more
\* rows of one export than goroutines.
FewDuplicates ==
    \A x \in Source : x \in Like[x] =>
        Cardinality(RowsOf(x)) <= Cardinality(Goroutine)

\* The database shows what the event said.
Recorded(e) ==
    /\ e.type = "ADDED" => DB!PVRecorded(e.uid)
    /\ e.type = "DELETED" => pv[e.uid].delete_time # NULL
    /\ e.claim # NULL /\ (e.type = "ADDED" \/ e.phase = "Bound")
            => pvc[e.claim].pv_uid = e.uid

Connected(g) == pc[g] \notin {"connect", "request"}

\* g has not handled what e says: e is after its cursor, or its list says the
\* same.
Ahead(g, e) ==
    \/ \E l \in listing[g] :
            l.uid = e.uid /\ e.claim \in {NULL, l.claim}
    \/ Connected(g) /\ e.rv > cursor[g]

\* resource_version.go: more than one watcher "isn't a problem".  The version
\* all goroutines resume from and write, forwards and backwards, may cover
\* events that are not recorded: a deletion handled before another goroutine
\* has stored the volume changes no row.  But as long as no watch is
\* interrupted such an event is still ahead of one of them, or was hidden by
\* its list.
SharedVersionCovers ==
    faults = 0 =>
        \A e \in log[PVs] :
            e.rv <= resource_version[PVs] =>
                \/ Recorded(e)
                \/ e.uid \in missed
                \/ \E g \in Goroutine : Ahead(g, e)

Drained(g) ==
    /\ pc[g] = "watch"
    /\ listing[g] = {}
    /\ \A e \in log[PVs] : e.rv <= cursor[g]

\* The rows of the volumes, but for those that a fault may have cost, are those
\* of their newest events.
Current ==
    \A v \in PV \ missed :
        /\ DB!PVRecorded(v) =>
            /\ SpecOf(pv[v]) = SpecOf(object[v])
            /\ pv[v].delete_time # NULL <=> object[v].phase = "gone"
        /\ Alive(v) => DB!PVRecorded(v)

\* A slow goroutine overwrites what a fast one has recorded with older values,
\* the export of a volume too.  But it then handles the newer events as well:
\* when all have caught up the rows are current, if no watch was interrupted.
RowsCurrent ==
    (\A g \in Goroutine : Drained(g)) /\ faults = 0 => Current
=============================================================================
