----------------------------- MODULE AtomicCalls -----------------------------
(***************************************************************************)
(* What the watcher expects of the DBManager: each call is made once, in  *)
(* the order of the events, with all it writes and with its resource      *)
(* version.  Versions therefore go up one by one, over retries, lost      *)
(* commits and restarts.  An unreliable call may store its version and    *)
(* not all the rest; another attempt of it, if there is one, may add that. *)
(***************************************************************************)
EXTENDS Naturals

CONSTANTS
    Goroutine,
    Length,         \* how many calls each makes
    Unreliable      \* the calls, as <<goroutine, number>>, that may go wrong

VARIABLES
    done,           \* the calls of which everything is stored
    version         \* the number of the last call of each goroutine

vars == <<done, version>>

Init ==
    /\ done = {}
    /\ version = [g \in Goroutine |-> 0]

\* The next call of g stores its version.
Advance(g) ==
    /\ version[g] < Length[g]
    /\ version' = [version EXCEPT ![g] = @ + 1]

Latest(g) == <<g, version[g]>>

Perform(g) == Advance(g) /\ done' = done \cup {Latest(g)'}

Botch(g) == Advance(g) /\ Latest(g)' \in Unreliable /\ UNCHANGED done

Repair(g) ==
    /\ Latest(g) \in Unreliable
    /\ done' = done \cup {Latest(g)}
    /\ UNCHANGED version

Next == \E g \in Goroutine : Perform(g) \/ Botch(g) \/ Repair(g)

Spec == Init /\ [][Next]_vars
=============================================================================
