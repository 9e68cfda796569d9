----------------------------- MODULE Resources -----------------------------
(***************************************************************************)
(* The vocabulary the API server, the watcher and the database share: the *)
(* resource types and objects of package resources, and the watch events  *)
(* of events.go.                                                           *)
(*                                                                         *)
(* Objects are UIDs.  What the code only copies (names, images, storage,  *)
(* access modes, the raw JSON) is either a constant function of the UID or *)
(* one revision number, spec, that stands for every mutable field of a    *)
(* volume or claim, but for the export behind a volume.                    *)
(***************************************************************************)
EXTENDS Naturals

CONSTANTS
    Pod, PVC, PV,   \* UIDs of the objects in the namespace being watched
    Name,           \* claim names, which pods use to refer to claims
    Namespace,      \* namespaces; the tracker's main watches them all
    Container,      \* container names
    Source,         \* NFS or iSCSI exports
    NULL,           \* SQL's NULL, and Go's nil
    NameOf,         \* the name of each claim
    NamespaceOf,    \* the namespace of each pod and claim
    MountsOf,       \* the <<container, claim name>> pairs of each pod's spec
    SourceOf,       \* the export each PV is created with, NULL if it is
                    \* neither NFS nor iSCSI
    EditsOf         \* the exports each PV may be edited to have

ASSUME KindsDisjoint ==
    /\ Pod \cap PVC = {} /\ Pod \cap PV = {} /\ PVC \cap PV = {}
    /\ NULL \notin Pod \cup PVC \cup PV \cup Source

ASSUME NullIsNoNumber == NULL \notin Nat

ASSUME SpecsTyped ==
    /\ NameOf \in [PVC -> Name]
    /\ NamespaceOf \in [Pod \cup PVC -> Namespace]
    /\ MountsOf \in [Pod -> SUBSET (Container \X Name)]
    /\ SourceOf \in [PV -> Source \cup {NULL}]
    /\ EditsOf \in [PV -> SUBSET (Source \cup {NULL})]

\* The three endpoints main watches.
Resource == {"pods", "persistentvolumeclaims", "persistentvolumes"}

Object == Pod \cup PVC \cup PV

MembersOf(r) ==
    CASE r = "pods" -> Pod
      [] r = "persistentvolumeclaims" -> PVC
      [] r = "persistentvolumes" -> PV

\* A timestamp column or a *unversioned.Time: a time, or nothing.
Time == Nat \cup {NULL}

EventType == {"ADDED", "MODIFIED", "DELETED"}

Phase == {"absent", "Pending", "Running", "Available", "Bound", "Released",
          "gone"}

\* The exports a volume may have.
SourcesOf(v) == {SourceOf[v]} \cup EditsOf[v]

\* The part of an API object the tracker reads.
Snapshot == [rv: Nat, created: Time, phase: Phase, spec: Nat,
             source: Source \cup {NULL}, claim: PVC \cup {NULL},
             deletion: Time]

\* A watch event: the type, and the object as it was at revision rv.
Event ==
    {e \in [type: EventType, uid: Object, rv: Nat, created: Time, phase: Phase,
            spec: Nat, source: Source \cup {NULL}, claim: PVC \cup {NULL},
            deletion: Time] :
        e.uid \in PV => e.source \in SourcesOf(e.uid)}

EventOf(type, u, s) ==
    [type |-> type, uid |-> u, rv |-> s.rv, created |-> s.created,
     phase |-> s.phase, spec |-> s.spec, source |-> s.source,
     claim |-> s.claim, deletion |-> s.deletion]

\* What a volume's object, event or row says the volume is.
SpecOf(x) == <<x.spec, x.source>>
=============================================================================
