---------------------------- MODULE Transactions ----------------------------
(***************************************************************************)
(* What modules VolumeDB and Tracker take for granted: that a call of the *)
(* DBManager is one transaction.  Here each call is what runTx makes of   *)
(* it: statements sent one by one, errors that are returned, ignored or   *)
(* fatal, rollbacks and retries, over a server that aborts deadlocks and  *)
(* a network that loses connections.                                       *)
(*                                                                         *)
(* Each goroutine has the calls its events lead to, in order; number k of *)
(* them is the event of version k.  What a statement writes is the triple *)
(* <<goroutine, k, statement>>, its "rv" being the resource version.       *)
(***************************************************************************)
EXTENDS Integers, Sequences

CONSTANTS
    Goroutine,      \* the handlers
    Calls,          \* the operations each one's events lead to
    Rejected,       \* statements the server refuses whenever it sees them
    Faults,         \* the kinds of faults that occur
    MaxFaults       \* bound: how many of them

\* InsertPod of a pod without mounts, and of one with two; "Update" is each of
\* UpdatePV, UpdatePVC, DeletePV and DeletePVC.
Statements == [
    InsertPod       |-> <<"pod", "container", "rv">>,
    InsertPodMounts |-> <<"pod", "container", "mount1", "mount2", "rv">>,
    DeletePod       |-> <<"deleted", "badmounts", "rv">>,
    InsertPVC       |-> <<"pvc", "mounts", "rv">>,
    BindPVC         |-> <<"bind", "rv">>,
    InsertPV        |-> <<"pv", "rv">>,
    Update          |-> <<"row", "rv">>]

ASSUME CallsTyped == Calls \in [Goroutine -> Seq(DOMAIN Statements)]
ASSUME FaultsTyped ==
    /\ Faults \subseteq {"deadlock", "timeout", "disconnect", "crash"}
    /\ MaxFaults \in Nat

VARIABLES
    pc,         \* each goroutine: "idle", or in runTx at "begin" or "run"
    call,       \* number of the event it handles, or handled last
    pos,        \* the statement that is next
    session,    \* its transaction on the server
    pending,    \* what that transaction has written
    stored,     \* what has been committed
    version,    \* and the resource version of each goroutine's resource
    repeated,   \* an attempt of this call was committed without its knowing
    running,    \* the process is
    faults

vars == <<pc, call, pos, session, pending, stored, version, repeated, running,
          faults>>

\* The server has no transaction for it, has one, has rolled it back and
\* commits every further statement on its own, or is out of reach.
Session == {"none", "open", "aborted", "lost"}

Operation(g, k) == Calls[g][k]
Last(g) == Len(Statements[Operation(g, call[g])])
Statement(g) == Statements[Operation(g, call[g])][pos[g]]
Write(g) == <<g, call[g], Statement(g)>>

Writes(g, k) ==
    LET stmts == Statements[Operation(g, k)]
    IN  {<<g, k, stmts[i]>> : i \in DOMAIN stmts}

Events == UNION {{g} \X DOMAIN Calls[g] : g \in Goroutine}

Init ==
    /\ pc = [g \in Goroutine |-> "idle"]
    /\ call = [g \in Goroutine |-> 0]
    /\ pos = [g \in Goroutine |-> 1]
    /\ session = [g \in Goroutine |-> "none"]
    /\ pending = [g \in Goroutine |-> {}]
    /\ stored = {}
    /\ version = [g \in Goroutine |-> 0]
    /\ repeated = [g \in Goroutine |-> FALSE]
    /\ running = TRUE
    /\ faults = 0

-----------------------------------------------------------------------------
(* The client's way through a call.                                        *)

\* The handler of the next event makes its call.
Receive(g) ==
    /\ running /\ pc[g] = "idle"
    /\ call[g] < Len(Calls[g])
    /\ call' = [call EXCEPT ![g] = @ + 1]
    /\ pc' = [pc EXCEPT ![g] = "begin"]
    /\ repeated' = [repeated EXCEPT ![g] = FALSE]
    /\ UNCHANGED <<pos, session, pending, stored, version, running, faults>>

Begin(g) ==
    /\ pc[g] = "begin"
    /\ pc' = [pc EXCEPT ![g] = "run"]
    /\ pos' = [pos EXCEPT ![g] = 1]
    /\ session' = [session EXCEPT ![g] = "open"]
    /\ UNCHANGED <<call, pending, stored, version, repeated, running, faults>>

\* Slip: what has been written is still there in the next transaction.
LeaveUnflushed(g, step) ==
    /\ pc' = [pc EXCEPT ![g] = step]
    /\ session' = [session EXCEPT ![g] = "none"]
    /\ UNCHANGED <<call, pos, running, pending>>

\* Whatever the transaction still is on the server is over.
Leave(g, step) ==
    /\ pc' = [pc EXCEPT ![g] = step]
    /\ session' = [session EXCEPT ![g] = "none"]
    /\ pending' = [pending EXCEPT ![g] = {}]
    /\ UNCHANGED <<call, pos, running>>

\* runTx calls the function again after any error but a duplicate: the err of
\* its loop is not the err the loop's condition and the return look at.
Retry(g) == Leave(g, "begin")

Return(g) == Leave(g, "idle")

\* The process ends; the server rolls back what is open.
Exit ==
    /\ running' = FALSE
    /\ pc' = [g \in Goroutine |-> "idle"]
    /\ session' = [g \in Goroutine |-> "none"]
    /\ pending' = [g \in Goroutine |-> {}]
    /\ UNCHANGED <<call, pos>>

\* The server commits W, in which there may be the resource version.
Store(g, W) ==
    /\ stored' = stored \cup W
    /\ version' = IF <<g, call[g], "rv">> \in W
                    THEN [version EXCEPT ![g] = call[g]] ELSE version

AtStatement(g) == pc[g] = "run" /\ pos[g] <= Last(g)
AtCommit(g) == pc[g] = "run" /\ pos[g] > Last(g)

\* A new row for a key that is there already.
Duplicate(g) == Statement(g) \in {"pod", "pv"} /\ Write(g) \in stored

\* BindPVC expects to change the row: its own bind time, written by an earlier
\* attempt of the same call, is no change.
Unchanged(g) == Statement(g) = "bind" /\ repeated[g]

Fails(g) == Unchanged(g) \/ Statement(g) \in Rejected \/ session[g] = "lost"

\* Slip: the mounts of a claim are like those of a pod.
IgnoredMounts(g) == Statement(g) \in {"mount1", "mount2", "mounts"}

\* InsertPod does not look at what insertPodMount returns.
Ignored(g) == Statement(g) \in {"mount1", "mount2"}

\* The log.Fatalf within InsertPod's transaction.
Fatal(g) ==
    /\ Operation(g, call[g]) \in {"InsertPod", "InsertPodMounts"}
    /\ Statement(g) = "rv"

\* A statement fails and leaves the session as s with the writes kept.
Error(g, s, kept) ==
    \/ /\ Ignored(g)
       /\ pos' = [pos EXCEPT ![g] = @ + 1]
       /\ session' = [session EXCEPT ![g] = s]
       /\ pending' = [pending EXCEPT ![g] = kept]
       /\ UNCHANGED <<pc, call, running>>
    \/ ~Ignored(g) /\ Fatal(g) /\ Exit
    \/ ~Ignored(g) /\ ~Fatal(g) /\ Retry(g)

Execute(g) ==
    /\ AtStatement(g) /\ ~Duplicate(g) /\ ~Fails(g)
    /\ \/ /\ session[g] = "open"
          /\ pending' = [pending EXCEPT ![g] = @ \cup {Write(g)}]
          /\ UNCHANGED <<stored, version>>
       \/ /\ session[g] = "aborted"
          /\ Store(g, {Write(g)})
          /\ UNCHANGED pending
    /\ pos' = [pos EXCEPT ![g] = @ + 1]
    /\ UNCHANGED <<pc, call, session, repeated, running, faults>>

\* Slip: a duplicate key is an error like any other.
SkipDuplicateRetried(g) ==
    /\ AtStatement(g) /\ ~Fails(g) /\ Duplicate(g)
    /\ Retry(g)
    /\ UNCHANGED <<stored, version, repeated, faults>>

\* "Don't error on duplicates": rolled back, and nil is returned.
SkipDuplicate(g) ==
    /\ AtStatement(g) /\ ~Fails(g) /\ Duplicate(g)
    /\ Return(g)
    /\ UNCHANGED <<stored, version, repeated, faults>>

\* A statement that cannot succeed.
Refuse(g) ==
    /\ AtStatement(g) /\ Fails(g)
    /\ Error(g, session[g], pending[g])
    /\ UNCHANGED <<stored, version, repeated, faults>>

Commit(g) ==
    /\ AtCommit(g)
    /\ Store(g, pending[g])
    /\ Return(g)
    /\ UNCHANGED <<repeated, faults>>

-----------------------------------------------------------------------------
(* Faults.                                                                 *)

Fault(kind) ==
    /\ kind \in Faults
    /\ faults < MaxFaults
    /\ faults' = faults + 1

\* Error 1213: of two transactions that have written and wait for each other
\* the server rolls back one.
Deadlock(g) ==
    /\ AtStatement(g) /\ session[g] = "open" /\ pending[g] # {}
    /\ \E h \in Goroutine \ {g} : pending[h] # {}
    /\ Fault("deadlock")
    /\ Error(g, "aborted", {})
    /\ UNCHANGED <<stored, version, repeated>>

\* Error 1205, a lock wait timeout: only the statement is rolled back.
LockTimeout(g) ==
    /\ AtStatement(g) /\ session[g] \in {"open", "aborted"}
    /\ \E h \in Goroutine \ {g} : pending[h] # {}
    /\ Fault("timeout")
    /\ Error(g, session[g], pending[g])
    /\ UNCHANGED <<stored, version, repeated>>

\* The connection breaks, and the server rolls back what it had open.
Disconnect(g) ==
    /\ AtStatement(g) /\ session[g] # "lost"
    /\ Fault("disconnect")
    /\ Error(g, "lost", {})
    /\ UNCHANGED <<stored, version, repeated>>

\* It breaks at the commit, before or after the server has committed.
DisconnectAtCommit(g) ==
    /\ AtCommit(g)
    /\ Fault("disconnect")
    /\ \/ UNCHANGED <<stored, version, repeated>>
       \/ /\ Store(g, pending[g])
          /\ repeated' = [repeated EXCEPT ![g] = TRUE]
    /\ Retry(g)

Crash ==
    /\ running
    /\ Fault("crash")
    /\ Exit
    /\ UNCHANGED <<stored, version, repeated>>

\* Slip: the stored version is not asked for.
RestartFromScratch ==
    /\ ~running
    /\ running' = TRUE
    /\ call' = [g \in Goroutine |-> 0]
    /\ UNCHANGED <<pc, pos, session, pending, stored, version, repeated,
                   faults>>

\* Every goroutine goes on after the stored version.
Restart ==
    /\ ~running
    /\ running' = TRUE
    /\ call' = version
    /\ UNCHANGED <<pc, pos, session, pending, stored, version, repeated,
                   faults>>

-----------------------------------------------------------------------------
Proceed(g) ==
    \/ Receive(g) \/ Begin(g) \/ Execute(g) \/ SkipDuplicate(g) \/ Refuse(g)
    \/ Commit(g)

Next ==
    \/ \E g \in Goroutine :
        \/ Proceed(g)
        \/ Deadlock(g) \/ LockTimeout(g) \/ Disconnect(g)
        \/ DisconnectAtCommit(g)
    \/ Crash \/ Restart

Spec == Init /\ [][Next]_vars

\* Goroutines run and the server answers; the tracker is started again.
FairSpec ==
    Spec /\ (\A g \in Goroutine : WF_vars(Proceed(g))) /\ WF_vars(Restart)

-----------------------------------------------------------------------------
TypeOK ==
    /\ pc \in [Goroutine -> {"idle", "begin", "run"}]
    /\ call \in [Goroutine -> Nat]
    /\ \A g \in Goroutine : call[g] <= Len(Calls[g])
    /\ \A g \in Goroutine : pc[g] # "idle" => running /\ call[g] > 0
    /\ pos \in [Goroutine -> Nat \ {0}]
    /\ session \in [Goroutine -> Session]
    /\ \A g \in Goroutine : session[g] # "none" <=> pc[g] = "run"
    /\ stored \subseteq UNION {Writes(e[1], e[2]) : e \in Events}
    /\ version \in [Goroutine -> Nat]
    /\ \A g \in Goroutine : version[g] <= Len(Calls[g])
    /\ DOMAIN pending = Goroutine
    /\ \A g \in Goroutine :
        pending[g] \subseteq IF pc[g] = "run" THEN Writes(g, call[g]) ELSE {}
    /\ repeated \in [Goroutine -> BOOLEAN]
    /\ running \in BOOLEAN
    /\ faults \in 0..MaxFaults

Whole(g, k) == Writes(g, k) \subseteq stored
Untouched(g, k) == Writes(g, k) \cap stored = {}

\* The calls in which an error may go unnoticed.
Lenient(g, k) == Operation(g, k) = "InsertPodMounts"

\* A call is one transaction whatever happens to its statements: all that it
\* writes is stored, or nothing is; and what the stored version covers is
\* stored.  This is what modules VolumeDB and Tracker assume of every call.
\* What insertPodMount's unnoticed errors cost is confined to the pod they
\* occur for: every other call keeps to this, though it shares the server, the
\* process and maybe the goroutine and its version with such a pod.
DamageContained ==
    \A e \in Events : ~Lenient(e[1], e[2]) =>
        /\ Whole(e[1], e[2]) \/ Untouched(e[1], e[2])
        /\ e[2] <= version[e[1]] => Whole(e[1], e[2])

\* The calls of which everything is stored.
Completed == {e \in Events : Whole(e[1], e[2])}

Atomic == INSTANCE AtomicCalls WITH
    Length <- [g \in Goroutine |-> Len(Calls[g])],
    Unreliable <- {e \in Events : Lenient(e[1], e[2])},
    done <- Completed

\* For those who make the calls, statements, rollbacks, retries and restarts do
\* not show: each call is stored once with its version, in the order of the
\* events, and versions never go back.
ImplementsAtomicCalls == Atomic!Spec

\* mysql.go: runTx is there "to make it easier to retry the function if a
\* deadlock results".  So a deadlock never costs an event: what the stored
\* version covers has been stored.
VersionCovers ==
    \A e \in Events : e[2] <= version[e[1]] => Whole(e[1], e[2])

\* Neither the mounts of pods, nor the retry of a BindPVC stand in the way.
Unimpeded(g, k) ==
    /\ ~Lenient(g, k)
    /\ \A j \in 1..k : Operation(g, j) # "BindPVC"

\* Faults come to an end, and then everything is stored: calls are retried, or
\* made again after a restart, as often as it takes.
AllStored ==
    <>[](\A e \in Events : Unimpeded(e[1], e[2]) => Whole(e[1], e[2]))

\* The callers of runTx end the process when it returns an error ("Unable to
\* create pod", "Unable to update PVCs", ...): so every call comes to an end,
\* well or badly.
CallsEnd == \A g \in Goroutine : pc[g] # "idle" ~> pc[g] = "idle"
=============================================================================
