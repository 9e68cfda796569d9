------------------------------ MODULE Tracker ------------------------------
(***************************************************************************)
(* The volume tracker: a process with one goroutine per resource.  Each   *)
(* goroutine runs the loop of Watcher.Watch: it reads the stored resource *)
(* version, asks the API server for the events after it, and calls the    *)
(* handler of its resource for each event; the handlers call the database. *)
(* The goroutines share nothing but the database.                          *)
(*                                                                         *)
(* Transactions are atomic and committed before the next step; what their *)
(* retries do is not part of this module.  A crash may come between any   *)
(* two transactions.                                                       *)
(***************************************************************************)
EXTENDS Cluster, VolumeDB

CONSTANTS
    Watched,        \* the resources Watch is called for; main does for all
    Overlap,        \* how far before the requested version a watch may start
    MaxDrops,       \* bound: watches closed by the server
    MaxCrashes      \* bound: crashes and stops of the process

ASSUME WatchedTyped == Watched \subseteq Resource
ASSUME OverlapTyped == Overlap \subseteq {0, 1}
ASSUME FaultBoundsAreNumbers == MaxDrops \in Nat /\ MaxCrashes \in Nat

VARIABLES
    pc,             \* where each goroutine is
    initialize,     \* the flag that makes the next watch start from scratch
    rv,             \* the version the current watch was started with, 0: none
    listing,        \* what is still to come of the initial list of the watch
    cursor,         \* the watch has been sent the events up to this revision
    event,          \* the PV event being handled
    drops, crashes, \* faults so far
    missed          \* history: objects whose events a fault may have lost

trackerVars == <<pc, initialize, rv, listing, cursor, event, drops, crashes,
                 missed>>

vars == <<clusterVars, dbVars, trackerVars>>

\* "source", "store" and "bind" are the transactions of handlePVs.
PVHandlerStep == {"source", "store", "bind"}

Step == {"down", "connect", "watch"} \cup PVHandlerStep

\* The process has called Watch for each resource it watches.
Started == [r \in Resource |-> IF r \in Watched THEN "connect" ELSE "down"]

Running == \E r \in Resource : pc[r] # "down"

TrackerInit ==
    /\ DBInit
    /\ pc = Started
    /\ initialize = [r \in Resource |-> FALSE]
    /\ rv = [r \in Resource |-> 0]
    /\ listing = [r \in Resource |-> {}]
    /\ cursor = [r \in Resource |-> 0]
    /\ event = NULL
    /\ drops = 0
    /\ crashes = 0
    /\ missed = [r \in Resource |-> {}]

Init == ClusterInit /\ TrackerInit

-----------------------------------------------------------------------------
(* Starting a watch.                                                       *)

\* Objects of which a list taken now hides something that happened since the
\* stored version: they were deleted, or the claim they had is another one.
Hidden(r) ==
    {e.uid : e \in {f \in log[r] :
        /\ f.rv > resource_version[r]
        /\ \/ f.type = "DELETED"
           \/ f.claim \notin {NULL, object[f.uid].claim}}}

\* Without a version the server lists what is there, then sends the changes.
ConnectList(r) ==
    /\ pc[r] = "connect"
    /\ initialize[r] \/ GetRV(r) = 0
    /\ pc' = [pc EXCEPT ![r] = "watch"]
    /\ rv' = [rv EXCEPT ![r] = 0]
    /\ listing' = [listing EXCEPT ![r] = Listing(r)]
    /\ cursor' = [cursor EXCEPT ![r] = index]
    /\ missed' = [missed EXCEPT ![r] = @ \cup Hidden(r)]
    /\ UNCHANGED <<clusterVars, dbVars, initialize, event, drops, crashes>>

\* Slip: the watch is requested without its version, from now on.
ConnectFromNow(r) ==
    /\ pc[r] = "connect"
    /\ ~initialize[r] /\ GetRV(r) # 0
    /\ GetRV(r) >= compacted
    /\ pc' = [pc EXCEPT ![r] = "watch"]
    /\ rv' = [rv EXCEPT ![r] = GetRV(r)]
    /\ cursor' = [cursor EXCEPT ![r] = index]
    /\ UNCHANGED <<clusterVars, dbVars, initialize, listing, event, drops,
                   crashes, missed>>

\* With one that has not expired it sends the changes after it; some servers
\* send the change of that version again.
ConnectFrom(r) ==
    /\ pc[r] = "connect"
    /\ ~initialize[r] /\ GetRV(r) # 0
    /\ GetRV(r) >= compacted
    /\ pc' = [pc EXCEPT ![r] = "watch"]
    /\ rv' = [rv EXCEPT ![r] = GetRV(r)]
    /\ \E back \in Overlap : cursor' = [cursor EXCEPT ![r] = GetRV(r) - back]
    /\ UNCHANGED <<clusterVars, dbVars, initialize, listing, event, drops,
                   crashes, missed>>

\* Slip: the status is not looked at.
ConnectExpiredUnflagged(r) ==
    /\ pc[r] = "connect"
    /\ ~initialize[r] /\ GetRV(r) # 0
    /\ GetRV(r) < compacted
    /\ UNCHANGED vars

\* A version that has expired is answered with status 410 and EOF.  The flag
\* set here is not reset by any step but a restart.
ConnectExpired(r) ==
    /\ pc[r] = "connect"
    /\ ~initialize[r] /\ GetRV(r) # 0
    /\ GetRV(r) < compacted
    /\ initialize' = [initialize EXCEPT ![r] = TRUE]
    /\ UNCHANGED <<clusterVars, dbVars, pc, rv, listing, cursor, event, drops,
                   crashes, missed>>

-----------------------------------------------------------------------------
(* Receiving an event.                                                     *)

\* The list comes first, in any order, then the log in the order of versions.
Offered(r) ==
    IF listing[r] # {}
      THEN listing[r]
      ELSE {e \in log[r] :
                /\ e.rv > cursor[r]
                /\ \A f \in log[r] : f.rv > cursor[r] => e.rv <= f.rv}

\* e has been dealt with.
Consume(r, e) ==
    /\ listing' = [listing EXCEPT ![r] = @ \ {e}]
    /\ cursor' = [cursor EXCEPT ![r] = IF e.rv > @ THEN e.rv ELSE @]

Receives(r, e) ==
    /\ pc[r] = "watch"
    /\ e \in Offered(r)
    /\ e.rv # rv[r]

SkipDuplicate(r) ==
    /\ pc[r] = "watch"
    /\ \E e \in Offered(r) : e.rv = rv[r] /\ Consume(r, e)
    /\ UNCHANGED <<clusterVars, dbVars, pc, initialize, rv, event, drops,
                   crashes, missed>>

\* Slip: the wrong one of an object's two timestamps.
DeleteTimeCreated(e) == e.created

\* The event's own deletion time, or the time it is handled.
DeleteTime(e) == IF e.deletion # NULL THEN e.deletion ELSE Now

\* Handlers of one transaction, or none: they return to the watch at once.
Handled(r, e) ==
    /\ Consume(r, e)
    /\ UNCHANGED <<clusterVars, pc, initialize, rv, event, drops, crashes,
                   missed>>

handlePods ==
    \E e \in log["pods"] \cup listing["pods"] :
        /\ Receives("pods", e)
        /\ Handled("pods", e)
        /\ \/ e.type = "ADDED" /\ InsertPod(e)
           \/ e.type = "MODIFIED" /\ UNCHANGED dbVars
           \/ e.type = "DELETED" /\ e.deletion # NULL /\ DeletePodRow(e)

handlePVCs ==
    \E e \in log["persistentvolumeclaims"]
               \cup listing["persistentvolumeclaims"] :
        /\ Receives("persistentvolumeclaims", e)
        /\ Handled("persistentvolumeclaims", e)
        /\ \/ e.type = "ADDED" /\ InsertPVC(e)
           \/ e.type = "MODIFIED" /\ e.phase = "Pending" /\ UpdatePVC(e)
           \/ e.type = "MODIFIED" /\ e.phase # "Pending" /\ UNCHANGED dbVars
           \/ e.type = "DELETED" /\ DeletePVCRow(e, DeleteTime(e))

-----------------------------------------------------------------------------
(* handlePVs: up to three transactions, with no others of this goroutine   *)
(* between them.  The event counts as dealt with when the last is done.    *)

PVGoesTo(step) == pc' = [pc EXCEPT ![PVs] = step]

PVDone(e) ==
    /\ PVGoesTo("watch")
    /\ event' = NULL
    /\ Consume(PVs, e)

\* Slip: the export is never recorded.
startPVUnsourced(e) ==
    /\ event' = e
    /\ \/ /\ \/ e.type = "ADDED"
             \/ e.type = "MODIFIED" /\ e.phase = "Available"
          /\ PVGoesTo("store")
       \/ /\ e.type = "MODIFIED" /\ e.phase = "Bound"
          /\ PVGoesTo("bind")
    /\ UNCHANGED <<dbVars, listing, cursor>>

\* Volumes that are neither NFS nor iSCSI skip the first transaction.
startPV(e) ==
    /\ event' = e
    /\ \/ /\ \/ e.type = "ADDED"
             \/ e.type = "MODIFIED" /\ e.phase = "Available"
          /\ PVGoesTo(IF e.source # NULL THEN "source" ELSE "store")
       \/ /\ e.type = "MODIFIED" /\ e.phase = "Bound"
          /\ PVGoesTo("bind")
    /\ UNCHANGED <<dbVars, listing, cursor>>

handlePVs ==
    \E e \in log[PVs] \cup listing[PVs] :
        /\ Receives(PVs, e)
        /\ \/ startPV(e)
           \/ /\ e.type = "MODIFIED" /\ e.phase \notin {"Available", "Bound"}
              /\ PVDone(e) /\ UNCHANGED dbVars
           \/ /\ e.type = "DELETED"
              /\ PVDone(e) /\ DeletePVRow(e, DeleteTime(e))
        /\ UNCHANGED <<clusterVars, initialize, rv, drops, crashes, missed>>

recordSource ==
    /\ pc[PVs] = "source"
    /\ InsertSource(event)
    /\ PVGoesTo("store")
    /\ UNCHANGED <<clusterVars, initialize, rv, listing, cursor, event, drops,
                   crashes, missed>>

storePV ==
    /\ pc[PVs] = "store"
    /\ event.source # NULL
    /\ \/ /\ event.type = "ADDED"
          /\ InsertPV(event)
          /\ \/ /\ event.claim # NULL
                /\ PVGoesTo("bind")
                /\ UNCHANGED <<event, listing, cursor>>
             \/ event.claim = NULL /\ PVDone(event)
       \/ event.type = "MODIFIED" /\ UpdatePV(event) /\ PVDone(event)
    /\ UNCHANGED <<clusterVars, initialize, rv, drops, crashes, missed>>

bindPV ==
    /\ pc[PVs] = "bind"
    /\ BindPVC(event, Now)
    /\ PVDone(event)
    /\ UNCHANGED <<clusterVars, initialize, rv, drops, crashes, missed>>

-----------------------------------------------------------------------------
(* Faults.                                                                 *)

\* An initial list that ends early is not asked for again when one of its
\* objects has left a version to resume from.
Torn(r) == {l.uid : l \in listing[r]}

\* Neither is a volume's binding, when the volume has left its version.
TornBind(r) ==
    IF r = PVs /\ pc[r] = "bind" /\ event.type = "ADDED"
      THEN {event.uid} ELSE {}

\* The server closes the connection: the goroutine starts a new watch.
Drop(r) ==
    /\ pc[r] = "watch"
    /\ drops < MaxDrops
    /\ drops' = drops + 1
    /\ pc' = [pc EXCEPT ![r] = "connect"]
    /\ rv' = [rv EXCEPT ![r] = 0]
    /\ listing' = [listing EXCEPT ![r] = {}]
    /\ cursor' = [cursor EXCEPT ![r] = 0]
    /\ missed' = [missed EXCEPT ![r] = @ \cup Torn(r)]
    /\ UNCHANGED <<clusterVars, dbVars, initialize, event, crashes>>

\* All goroutines end; all that is not in the database is lost.
Exit ==
    /\ pc' = [r \in Resource |-> "down"]
    /\ initialize' = [r \in Resource |-> FALSE]
    /\ rv' = [r \in Resource |-> 0]
    /\ listing' = [r \in Resource |-> {}]
    /\ cursor' = [r \in Resource |-> 0]
    /\ event' = NULL
    /\ missed' = [r \in Resource |-> missed[r] \cup Torn(r) \cup TornBind(r)]
    /\ UNCHANGED <<clusterVars, dbVars, drops>>

\* A crash, a SIGTERM, or the log.Fatal of a failed read or request.
Crash ==
    /\ Running
    /\ crashes < MaxCrashes
    /\ crashes' = crashes + 1
    /\ Exit

\* log.Fatal in InsertPV and UpdatePV.
FatalBackend ==
    /\ pc[PVs] = "store"
    /\ event.source = NULL
    /\ Exit
    /\ UNCHANGED crashes

\* handlePods dereferences the deletion timestamp without a check.
PanicNoTimestamp ==
    /\ \E e \in log["pods"] :
        Receives("pods", e) /\ e.type = "DELETED" /\ e.deletion = NULL
    /\ Exit
    /\ UNCHANGED crashes

\* main watches each resource, from the stored version.
Restart ==
    /\ ~Running
    /\ pc' = Started
    /\ UNCHANGED <<clusterVars, dbVars, initialize, rv, listing, cursor, event,
                   drops, crashes, missed>>

-----------------------------------------------------------------------------
Connect(r) == ConnectList(r) \/ ConnectFrom(r) \/ ConnectExpired(r)

PVHandler == handlePVs \/ recordSource \/ storePV \/ bindPV

ClusterStep == ClusterNext /\ UNCHANGED <<dbVars, trackerVars>>

Next ==
    \/ ClusterStep
    \/ \E r \in Resource : Connect(r) \/ SkipDuplicate(r) \/ Drop(r)
    \/ handlePods
    \/ handlePVCs
    \/ PVHandler
    \/ Crash \/ FatalBackend \/ PanicNoTimestamp \/ Restart

Spec == Init /\ [][Next]_vars

\* The goroutines run, the server answers, and whoever started the tracker
\* starts it again.  Nothing obliges the cluster to change, or faults to occur.
Fairness ==
    /\ \A r \in Resource : WF_vars(Connect(r)) /\ WF_vars(SkipDuplicate(r))
    /\ WF_vars(handlePods)
    /\ WF_vars(handlePVCs)
    /\ WF_vars(PVHandler)
    /\ WF_vars(FatalBackend)
    /\ WF_vars(PanicNoTimestamp)
    /\ WF_vars(Restart)

FairSpec == Spec /\ Fairness
=============================================================================
