---------------------------- MODULE MockTracker ----------------------------
(***************************************************************************)
(* The Watcher on the mock manager, as the tests of watcher_test.go run   *)
(* it.  The loops of Watch, and what makes handlePVs choose a call, are   *)
(* module Tracker's; its tables stay empty.  The mock keeps maps of what  *)
(* it was told last, and no versions, so that every watch lists.            *)
(*                                                                         *)
(* The mock has no locks.  Each resource has a map and a goroutine of its *)
(* own, but all goroutines count in Deletions.                             *)
(***************************************************************************)
EXTENDS TrackerProperties

\* Left to Tracker: what ends the process, and with it the test.
ASSUME NothingIsFatal ==
    /\ \A v \in PV : NULL \notin SourcesOf(v)
    /\ Pod \subseteq Stamped
    /\ MaxCrashes = 0

\* For the claims of the initial state.
ASSUME RoomForClaims == MaxIndex # 0

VARIABLES
    ForUID,         \* PodForUID, PVForUID, PVCForUID: the storage of what is
                    \* in the maps, NULL for what is not
    nfsIDMap,       \* the ids of exports, 0: none; iscsiIDMap is the same
    lastNFSID,
    backendID,      \* the variable of handlePVs
    sourceID,       \* NFSID or ISCSIID of the volumes in the map
    invalidRVs,     \* GetRV says "1", a version that has expired
    Deletions,
    read,           \* what r has read of Deletions and not yet added to
    deleted,        \* history: calls of DeletePod, DeletePV and DeletePVC
    panicked        \* UpdatePV or UpdatePVC has found no entry

sourceVars == <<nfsIDMap, lastNFSID, backendID, sourceID>>
countVars == <<Deletions, read, deleted>>
mockVars == <<ForUID, sourceVars, countVars, invalidRVs, panicked>>
allVars == <<vars, mockVars>>

\* The claims are there from the start.
MockInit ==
    /\ ClusterWithClaims /\ TrackerInit
    /\ ForUID = [u \in Object |-> NULL]
    /\ nfsIDMap = [x \in Source |-> 0]
    /\ lastNFSID = 0
    /\ backendID = 0
    /\ sourceID = [v \in PV |-> 0]
    /\ invalidRVs \in BOOLEAN
    /\ Deletions = 0
    /\ read = [r \in Resource |-> NULL]
    /\ deleted = 0
    /\ panicked = FALSE

-----------------------------------------------------------------------------
\* Slip: the flag is not set.
MockConnectUnflagged(r) ==
    /\ pc[r] = "connect"
    /\ invalidRVs /\ ~initialize[r]
    /\ UNCHANGED allVars

\* Version 1 has expired: no cluster is that young.
MockConnectExpired(r) ==
    /\ pc[r] = "connect"
    /\ invalidRVs /\ ~initialize[r]
    /\ initialize' = [initialize EXCEPT ![r] = TRUE]
    /\ UNCHANGED <<clusterVars, dbVars, pc, rv, listing, cursor, event, drops,
                   crashes, missed, mockVars>>

\* Slip: a watch without a version only gets what is new.
MockConnectUnlisted(r) ==
    /\ pc[r] = "connect"
    /\ pc' = [pc EXCEPT ![r] = "watch"]
    /\ cursor' = [cursor EXCEPT ![r] = index]
    /\ UNCHANGED <<clusterVars, dbVars, initialize, rv, listing, event, drops,
                   crashes, missed, mockVars>>

MockConnect(r) ==
    \/ MockConnectExpired(r)
    \/ /\ invalidRVs => initialize[r]
       /\ ConnectList(r)
       /\ UNCHANGED mockVars

-----------------------------------------------------------------------------
(* The manager's methods.                                                  *)

\* Slip: as the tables do, the map keeps what it has.
InsertOnce(u, storage) ==
    /\ ForUID' = [ForUID EXCEPT ![u] = IF @ = NULL THEN storage ELSE @]
    /\ UNCHANGED <<countVars, invalidRVs, panicked>>

\* InsertPod, InsertPV, InsertPVC: what is there is overwritten.
Insert(u, storage) ==
    /\ ForUID' = [ForUID EXCEPT ![u] = storage]
    /\ UNCHANGED <<countVars, invalidRVs, panicked>>

\* UpdatePV, UpdatePVC: the type assertion fails on a missing entry.
Update(u, storage) ==
    /\ IF ForUID[u] # NULL
         THEN /\ ForUID' = [ForUID EXCEPT ![u] = storage]
              /\ UNCHANGED panicked
         ELSE panicked' = TRUE /\ UNCHANGED ForUID
    /\ UNCHANGED <<countVars, invalidRVs>>

\* DeletePod, DeletePV, DeletePVC, as far as to the reading of Deletions.
Delete(r, u) ==
    /\ ForUID' = [ForUID EXCEPT ![u] = NULL]
    /\ read' = [read EXCEPT ![r] = Deletions]
    /\ deleted' = deleted + 1
    /\ UNCHANGED <<sourceVars, Deletions, invalidRVs, panicked>>

\* Slip: what was read is written back.
CountPostfix(r) ==
    /\ read[r] # NULL
    /\ Deletions' = read[r]
    /\ read' = [read EXCEPT ![r] = NULL]
    /\ UNCHANGED <<vars, ForUID, sourceVars, deleted, invalidRVs, panicked>>

Count(r) ==
    /\ read[r] # NULL
    /\ Deletions' = read[r] + 1
    /\ read' = [read EXCEPT ![r] = NULL]
    /\ UNCHANGED <<vars, ForUID, sourceVars, deleted, invalidRVs, panicked>>

-----------------------------------------------------------------------------
(* The handlers.                                                           *)

Events(r) == {e \in log[r] \cup listing[r] : Receives(r, e)}

MockHandlePods ==
    \E e \in Events("pods") :
        /\ Handled("pods", e)
        /\ UNCHANGED dbVars
        /\ \/ e.type = "ADDED" /\ Insert(e.uid, e.spec) /\ UNCHANGED sourceVars
           \/ e.type = "MODIFIED" /\ UNCHANGED mockVars
           \/ e.type = "DELETED" /\ e.deletion # NULL /\ Delete("pods", e.uid)

MockHandlePVCs ==
    \E e \in Events("persistentvolumeclaims") :
        /\ Handled("persistentvolumeclaims", e)
        /\ UNCHANGED dbVars
        /\ \/ e.type = "ADDED" /\ Insert(e.uid, e.spec) /\ UNCHANGED sourceVars
           \/ /\ e.type = "MODIFIED" /\ e.phase = "Pending"
              /\ Update(e.uid, e.spec) /\ UNCHANGED sourceVars
           \/ e.type = "MODIFIED" /\ e.phase # "Pending" /\ UNCHANGED mockVars
           \/ e.type = "DELETED" /\ Delete("persistentvolumeclaims", e.uid)

MockHandlePVs ==
    \E e \in Events(PVs) :
        /\ \/ startPV(e) /\ UNCHANGED mockVars
           \/ /\ e.type = "MODIFIED" /\ e.phase \notin {"Available", "Bound"}
              /\ PVDone(e) /\ UNCHANGED <<dbVars, mockVars>>
           \/ /\ e.type = "DELETED"
              /\ PVDone(e) /\ Delete(PVs, e.uid) /\ UNCHANGED dbVars
        /\ UNCHANGED <<clusterVars, initialize, rv, drops, crashes, missed>>

\* Slip: ids are not counted.
MockRecordUncounted ==
    LET x == event.source
    IN  /\ pc[PVs] = "source"
        /\ nfsIDMap' = [nfsIDMap EXCEPT ![x] = IF @ # 0 THEN @ ELSE lastNFSID + 1]
        /\ backendID' = nfsIDMap'[x]
        /\ PVGoesTo("store")
        /\ UNCHANGED <<clusterVars, dbVars, initialize, rv, listing, cursor,
                       event, drops, crashes, missed, ForUID, lastNFSID,
                       sourceID, countVars, invalidRVs, panicked>>

\* InsertNFS, InsertISCSI.
MockRecordSource ==
    LET x == event.source
    IN  /\ pc[PVs] = "source"
        /\ IF nfsIDMap[x] # 0
             THEN UNCHANGED <<nfsIDMap, lastNFSID>>
             ELSE /\ lastNFSID' = lastNFSID + 1
                  /\ nfsIDMap' = [nfsIDMap EXCEPT ![x] = lastNFSID']
        /\ backendID' = nfsIDMap'[x]
        /\ PVGoesTo("store")
        /\ UNCHANGED <<clusterVars, dbVars, initialize, rv, listing, cursor,
                       event, drops, crashes, missed, ForUID, sourceID,
                       countVars, invalidRVs, panicked>>

MockStorePV ==
    LET e == event
    IN  /\ pc[PVs] = "store"
        /\ e.source # NULL
        /\ \/ /\ e.type = "ADDED"
              /\ Insert(e.uid, e.spec)
              /\ IF e.claim # NULL
                   THEN PVGoesTo("bind") /\ UNCHANGED <<event, listing, cursor>>
                   ELSE PVDone(e)
           \/ e.type = "MODIFIED" /\ Update(e.uid, e.spec) /\ PVDone(e)
        /\ sourceID' = [sourceID EXCEPT ![e.uid] = backendID]
        /\ backendID' = 0
        /\ UNCHANGED <<clusterVars, dbVars, initialize, rv, drops, crashes,
                       missed, nfsIDMap, lastNFSID>>

\* BindPVC does nothing.
MockBindPV ==
    /\ pc[PVs] = "bind"
    /\ PVDone(event)
    /\ UNCHANGED <<clusterVars, dbVars, initialize, rv, drops, crashes, missed,
                   mockVars>>

-----------------------------------------------------------------------------
Handler(r) ==
    \/ r = "pods" /\ MockHandlePods
    \/ r = "persistentvolumeclaims" /\ MockHandlePVCs
    \/ /\ r = PVs
       /\ MockHandlePVs \/ MockRecordSource \/ MockStorePV \/ MockBindPV

MockDrop(r) == Drop(r) /\ UNCHANGED mockVars

MockClusterStep == ClusterStep /\ UNCHANGED mockVars

MockNext ==
    /\ ~panicked
    /\ \/ MockClusterStep
       \/ \E r \in Resource :
            \/ read[r] = NULL /\ (MockConnect(r) \/ Handler(r) \/ MockDrop(r))
            \/ Count(r)

MockSpec == MockInit /\ [][MockNext]_allVars

\* The goroutines run, and the server answers.
MockFairSpec ==
    /\ MockSpec
    /\ \A r \in Resource :
        WF_allVars(/\ ~panicked
                   /\ \/ read[r] = NULL /\ (MockConnect(r) \/ Handler(r))
                      \/ Count(r))

-----------------------------------------------------------------------------
MockTypeOK ==
    /\ TypeOK
    /\ ForUID \in [Object -> Nat \cup {NULL}]
    /\ nfsIDMap \in [Source -> 0..lastNFSID]
    /\ lastNFSID \in Nat
    /\ backendID \in 0..lastNFSID
    /\ sourceID \in [PV -> 0..lastNFSID]
    /\ invalidRVs \in BOOLEAN
    /\ Deletions \in Nat
    /\ read \in [Resource -> Nat \cup {NULL}]
    /\ deleted \in Nat
    /\ panicked \in BOOLEAN

\* What the tests compare, having slept for a while: once the goroutine of r
\* has caught up its map shows every live object as it is, however often the
\* watch was started again, and shows no other, but for those that were
\* deleted while no watch was open.
MapsConverge ==
    \A r \in Watched : Drained(r) =>
        \A u \in MembersOf(r) :
            /\ Alive(u) => ForUID[u] = object[u].spec
            /\ ForUID[u] # NULL => Alive(u) \/ u \in missed[r]

\* UpdatePV and UpdatePVC use the entry without asking whether it is there.  It
\* is, since every watch lists, and the list comes first.
UpdatesFindEntries == ~panicked

\* Goroutines that count at the same time may lose deletions, but nothing is
\* counted that was not deleted, and zero, on which TestInvalidRV relies, means
\* that there was no deletion.
DeletionsSeen ==
    /\ Deletions <= deleted
    /\ (\A r \in Resource : read[r] = NULL) /\ deleted > 0 => Deletions > 0

\* In the end, after the last dropped watch, the maps show the live objects as
\* they are.
EventuallyCurrent ==
    <>[](\A r \in Watched : \A u \in MembersOf(r) :
            Alive(u) => ForUID[u] = object[u].spec)
=============================================================================
