----------------------------- MODULE UsageLedger -----------------------------
(***************************************************************************)
(* What the tracker promises, without watches, events or tables: a ledger *)
(* of the objects of a cluster that                                        *)
(*   - opens an entry only for an object that has existed, and closes it  *)
(*     only when the object is gone;                                       *)
(*   - never reopens a closed entry, and never forgets one;                *)
(*   - keeps, for every user of storage (a pod), the claims it uses.  They *)
(*     may be revised while the entry is open, since pods name claims and *)
(*     the ledger has to find out which claim is meant, but the entry of  *)
(*     a user that is closed is final.                                     *)
(* It may lag behind the cluster, and it may miss an object altogether.    *)
(***************************************************************************)
CONSTANTS
    Thing,      \* the objects of the cluster
    User,       \* those of them that use storage
    Claim       \* those of them that are used

VARIABLES
    world,      \* "absent", "live" or "gone": the truth
    ledger,     \* "unknown", "open" or "closed": what is recorded of it
    usage       \* the claims recorded for each user

vars == <<world, ledger, usage>>

Init ==
    /\ world = [u \in Thing |-> "absent"]
    /\ ledger = [u \in Thing |-> "unknown"]
    /\ usage = [u \in User |-> {}]

Begin(u) ==
    /\ world[u] = "absent"
    /\ world' = [world EXCEPT ![u] = "live"]
    /\ UNCHANGED <<ledger, usage>>

End(u) ==
    /\ world[u] = "live"
    /\ world' = [world EXCEPT ![u] = "gone"]
    /\ UNCHANGED <<ledger, usage>>

\* The usage of closed entries is final; unknown users have none.
Revise ==
    /\ usage' \in [User -> SUBSET Claim]
    /\ \A u \in User :
        /\ ledger[u] = "closed" => usage'[u] = usage[u]
        /\ ledger'[u] = "unknown" => usage'[u] = {}

Open(u) ==
    /\ world[u] # "absent"
    /\ ledger[u] = "unknown"
    /\ ledger' = [ledger EXCEPT ![u] = "open"]
    /\ Revise
    /\ UNCHANGED world

Close(u) ==
    /\ world[u] = "gone"
    /\ ledger' = [ledger EXCEPT ![u] = "closed"]
    /\ Revise
    /\ UNCHANGED world

Correct == Revise /\ UNCHANGED <<world, ledger>>

Next ==
    \/ \E u \in Thing : Begin(u) \/ End(u) \/ Open(u) \/ Close(u)
    \/ Correct

Spec == Init /\ [][Next]_vars
=============================================================================
