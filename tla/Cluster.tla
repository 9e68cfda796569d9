------------------------------ MODULE Cluster ------------------------------
(***************************************************************************)
(* The environment of the tracker: the users and controllers that change  *)
(* pods, claims and volumes, and the API server that turns each change    *)
(* into a watch event.  None of this is code of the repository; it is what *)
(* the code under src/ expects of its environment.                         *)
(*                                                                         *)
(* Every change takes the next revision of one global counter (etcd's     *)
(* index), which is the object's new resourceVersion.  log[r] is the set  *)
(* of events of resource r: their revisions are distinct, so the set is   *)
(* ordered by rv.  Events at or below the revision "compacted" can no     *)
(* longer be replayed.                                                     *)
(***************************************************************************)
EXTENDS Resources

CONSTANTS
    Tick,           \* revisions per tick of the clock that stamps objects
    Stamped,        \* objects whose DELETED event surely has a timestamp
    MaxIndex,       \* bound: revisions
    MaxCompacted    \* bound: revisions the server may forget

ASSUME ClockMoves == Tick \in Nat \ {0}
ASSUME BoundsAreNumbers == MaxIndex \in Nat /\ MaxCompacted \in Nat

VARIABLES
    index,      \* the latest revision
    object,     \* the current state of every object
    log,        \* the events of each resource so far
    compacted   \* the highest revision that has been forgotten

clusterVars == <<index, object, log, compacted>>

\* The endpoint of volumes.
PVs == "persistentvolumes"

\* Creation timestamps have a coarser grain than revisions: with Tick > 1
\* several changes share a timestamp.
Stamp(n) == n \div Tick

\* unversioned.Now() on the tracker's host; no clock skew is modelled.
Now == Stamp(index)

Alive(u) == object[u].phase \notin {"absent", "gone"}

\* What u is before it is created.
NoObject(u) ==
    [rv |-> 0, created |-> NULL, phase |-> "absent", spec |-> 0,
     source |-> IF u \in PV THEN SourceOf[u] ELSE NULL,
     claim |-> NULL, deletion |-> NULL]

ClusterInit ==
    /\ index = 0
    /\ object = [u \in Object |-> NoObject(u)]
    /\ log = [r \in Resource |-> {}]
    /\ compacted = 0

\* Or one with claims, created together at revision 1, that are not bound yet.
ClusterWithClaims ==
    /\ index = 1
    /\ object = [u \in Object |->
                    IF u \in PVC
                      THEN [NoObject(u) EXCEPT !.rv = 1, !.created = Stamp(1),
                                               !.phase = "Pending"]
                      ELSE NoObject(u)]
    /\ log = [r \in Resource |-> {}]
    /\ compacted = 0

-----------------------------------------------------------------------------
\* u takes state s at the next revision, and an event of resource r says so.
Publish(r, type, u, s) ==
    LET new == [s EXCEPT !.rv = index + 1]
    IN  /\ index < MaxIndex
        /\ index' = index + 1
        /\ object' = [object EXCEPT ![u] = new]
        /\ log' = [log EXCEPT ![r] = @ \cup {EventOf(type, u, new)}]
        /\ UNCHANGED compacted

Create(r, u, phase) ==
    /\ object[u].phase = "absent"
    /\ Publish(r, "ADDED", u, [object[u] EXCEPT
            !.phase = phase, !.created = Stamp(index + 1)])

Modify(r, u, s) == Publish(r, "MODIFIED", u, s)

\* Depending on how it was deleted an object may go without a timestamp.
Remove(r, u) ==
    \E t \in {Stamp(index + 1)} \cup (IF u \in Stamped THEN {} ELSE {NULL}) :
        Publish(r, "DELETED", u, [object[u] EXCEPT !.phase = "gone",
                                                   !.deletion = t])

\* The live claim pod p refers to as n, if there is one.
ClaimsNamed(p, n) ==
    {c \in PVC : Alive(c) /\ NameOf[c] = n /\ NamespaceOf[c] = NamespaceOf[p]}

MountsClaim(p, c) ==
    /\ NamespaceOf[p] = NamespaceOf[c]
    /\ \E m \in MountsOf[p] : m[2] = NameOf[c]

CreatePod(p) == Create("pods", p, "Pending")

\* The kubelet starts a pod when all its claims are there.
RunPod(p) ==
    /\ object[p].phase = "Pending"
    /\ \A m \in MountsOf[p] : ClaimsNamed(p, m[2]) # {}
    /\ Modify("pods", p, [object[p] EXCEPT !.phase = "Running"])

DeletePod(p) == Alive(p) /\ Remove("pods", p)

\* Names are unique among the live claims of a namespace.
CreatePVC(c) ==
    /\ \A d \in PVC : Alive(d) =>
            <<NameOf[d], NamespaceOf[d]>> # <<NameOf[c], NamespaceOf[c]>>
    /\ Create("persistentvolumeclaims", c, "Pending")

ModifyPVC(c) ==
    /\ object[c].phase = "Pending"
    /\ Modify("persistentvolumeclaims", c,
              [object[c] EXCEPT !.spec = index + 1])

\* The claim follows the volume that was bound to it.
ConfirmPVC(c) ==
    /\ object[c].phase = "Pending"
    /\ \E v \in PV : object[v].phase = "Bound" /\ object[v].claim = c
    /\ Modify("persistentvolumeclaims", c,
              [object[c] EXCEPT !.phase = "Bound"])

\* Users delete claims only when no live pod refers to them: the assumption
\* of documentation/proposal.md:270-272.
DeletePVC(c) ==
    /\ Alive(c)
    /\ \A p \in Pod : Alive(p) => ~MountsClaim(p, c)
    /\ Remove("persistentvolumeclaims", c)

CreatePV(v) == Create("persistentvolumes", v, "Pending")

\* A new or a recycled volume becomes available; recycling clears the claim.
FreePV(v) ==
    /\ object[v].phase \in {"Pending", "Released"}
    /\ Modify("persistentvolumes", v, [object[v] EXCEPT
            !.phase = "Available", !.claim = NULL, !.spec = index + 1])

\* Users edit what is available, and may give it another export
\* (kubectl/updater.go).
EditPV(v) ==
    /\ object[v].phase = "Available"
    /\ \E x \in EditsOf[v] :
        Modify("persistentvolumes", v,
               [object[v] EXCEPT !.source = x, !.spec = index + 1])

BindPV(v, c) ==
    /\ object[v].phase = "Available"
    /\ object[c].phase = "Pending"
    /\ \A w \in PV : Alive(w) => object[w].claim # c
    /\ Modify("persistentvolumes", v,
              [object[v] EXCEPT !.phase = "Bound", !.claim = c])

\* Any status or metadata change of a bound volume.
TouchPV(v) ==
    /\ object[v].phase = "Bound"
    /\ Modify("persistentvolumes", v, object[v])

\* Released volumes keep the reference to their claim.
ReleasePV(v) ==
    /\ object[v].phase = "Bound"
    /\ object[object[v].claim].phase = "gone"
    /\ Modify("persistentvolumes", v,
              [object[v] EXCEPT !.phase = "Released"])

DeletePV(v) ==
    /\ Alive(v) /\ object[v].phase # "Bound"
    /\ Remove("persistentvolumes", v)

Compact ==
    /\ \E n \in (compacted + 1)..index :
            n <= MaxCompacted /\ compacted' = n
    /\ UNCHANGED <<index, object, log>>

ClusterNext ==
    \/ \E p \in Pod : CreatePod(p) \/ RunPod(p) \/ DeletePod(p)
    \/ \E c \in PVC : \/ CreatePVC(c) \/ ModifyPVC(c) \/ ConfirmPVC(c)
                      \/ DeletePVC(c)
    \/ \E v \in PV : \/ CreatePV(v) \/ FreePV(v) \/ EditPV(v)
                     \/ TouchPV(v) \/ ReleasePV(v) \/ DeletePV(v)
                     \/ \E c \in PVC : BindPV(v, c)
    \/ Compact

-----------------------------------------------------------------------------
\* What the API server sends a watch that asks for no revision: an ADDED
\* event for every live object of r, each with that object's own revision.
Listing(r) ==
    {EventOf("ADDED", u, object[u]) : u \in {x \in MembersOf(r) : Alive(x)}}

ClusterTypeOK ==
    /\ index \in 0..MaxIndex
    /\ object \in [Object -> Snapshot]
    /\ log \in [Resource -> SUBSET Event]
    /\ \A r \in Resource : \A e \in log[r] :
            e.uid \in MembersOf(r) /\ e.rv \in 1..index
    /\ \A v \in PV : object[v].source \in SourcesOf(v)
    /\ compacted \in 0..index
=============================================================================
