------------------------- MODULE TransactionProofs -------------------------
(***************************************************************************)
(* Whatever the calls, and however many faults there are, every call but  *)
(* those in which an error may go unnoticed is stored whole or not at all, *)
(* and the stored version covers only what is stored.                      *)
(***************************************************************************)
EXTENDS Transactions, TLAPS

StatementName == {"pod", "container", "mount1", "mount2", "deleted",
                  "badmounts", "pvc", "mounts", "bind", "pv", "row", "rv"}

\* The statements of call k of g that precede its statement n.
Done(g, k, n) ==
    {<<g, k, Statements[Operation(g, k)][i]>> : i \in 1..(n - 1)}

AllOrNothing ==
    \A g \in Goroutine : \A k \in DOMAIN Calls[g] :
        ~Lenient(g, k) => Whole(g, k) \/ Untouched(g, k)

\* The first half of the inductive invariant: what a transaction has written
\* is what precedes its next statement, and there is none that the server has
\* rolled back.
TxInv ==
    /\ pc \in [Goroutine -> {"idle", "begin", "run"}]
    /\ call \in [Goroutine -> Nat]
    /\ pos \in [Goroutine -> Nat]
    /\ session \in [Goroutine -> Session]
    /\ version \in [Goroutine -> Nat]
    /\ DOMAIN pending = Goroutine
    /\ pending = [g \in Goroutine |-> pending[g]]
    /\ \A g \in Goroutine :
        /\ pc[g] # "idle" => running /\ call[g] \in DOMAIN Calls[g]
        /\ pc[g] = "run" =>
            /\ pos[g] \in 1..(Last(g) + 1)
            /\ pending[g] \subseteq Writes(g, call[g])
        /\ pc[g] = "run" /\ ~Lenient(g, call[g]) =>
            /\ session[g] = "open"
            /\ pending[g] = Done(g, call[g], pos[g])
        /\ pc[g] # "run" => pending[g] = {}
    /\ AllOrNothing

-----------------------------------------------------------------------------
\* The sequences of statements are sequences, and only one has mounts.
LEMMA StatementsTyped ==
    ASSUME NEW op \in DOMAIN Statements
    PROVE  /\ Statements[op] \in Seq(StatementName)
           /\ \A i \in DOMAIN Statements[op] :
                Statements[op][i] \in {"mount1", "mount2"}
                    => op = "InsertPodMounts"
<1>1. op \in {"InsertPod", "InsertPodMounts", "DeletePod", "InsertPVC",
              "BindPVC", "InsertPV", "Update"}
  BY DEF Statements
<1>2. CASE op = "InsertPod"
  <2>1. Statements[op] = <<"pod", "container", "rv">>
    BY <1>2 DEF Statements
  <2>. QED  BY <2>1 DEF StatementName
<1>3. CASE op = "InsertPodMounts"
  <2>1. Statements[op] = <<"pod", "container", "mount1", "mount2", "rv">>
    BY <1>3 DEF Statements
  <2>. QED  BY <2>1, <1>3 DEF StatementName
<1>4. CASE op = "DeletePod"
  <2>1. Statements[op] = <<"deleted", "badmounts", "rv">>
    BY <1>4 DEF Statements
  <2>. QED  BY <2>1 DEF StatementName
<1>5. CASE op = "InsertPVC"
  <2>1. Statements[op] = <<"pvc", "mounts", "rv">>
    BY <1>5 DEF Statements
  <2>. QED  BY <2>1 DEF StatementName
<1>6. CASE op = "BindPVC"
  <2>1. Statements[op] = <<"bind", "rv">>
    BY <1>6 DEF Statements
  <2>. QED  BY <2>1 DEF StatementName
<1>7. CASE op = "InsertPV"
  <2>1. Statements[op] = <<"pv", "rv">>
    BY <1>7 DEF Statements
  <2>. QED  BY <2>1 DEF StatementName
<1>8. CASE op = "Update"
  <2>1. Statements[op] = <<"row", "rv">>
    BY <1>8 DEF Statements
  <2>. QED  BY <2>1 DEF StatementName
<1>. QED
  BY <1>1, <1>2, <1>3, <1>4, <1>5, <1>6, <1>7, <1>8

\* What is called is an operation.
LEMMA OperationTyped ==
    ASSUME NEW g \in Goroutine, NEW k \in DOMAIN Calls[g]
    PROVE  /\ Operation(g, k) \in DOMAIN Statements
           /\ Statements[Operation(g, k)] \in Seq(StatementName)
           /\ <<g, k>> \in Events
<1>1. Calls[g] \in Seq(DOMAIN Statements)
  BY CallsTyped
<1>2. Operation(g, k) \in DOMAIN Statements
  BY <1>1 DEF Operation
<1>3. <<g, k>> \in {g} \X DOMAIN Calls[g]
  OBVIOUS
<1>. QED
  BY <1>2, <1>3, StatementsTyped DEF Events

\* Errors are ignored only in lenient calls.
LEMMA IgnoredIsLenient ==
    ASSUME TxInv, NEW g \in Goroutine, AtStatement(g), Ignored(g)
    PROVE  Lenient(g, call[g])
<1>1. call[g] \in DOMAIN Calls[g] /\ pos[g] \in 1..Last(g)
  BY DEF TxInv, AtStatement, Last
<1>2. pos[g] \in DOMAIN Statements[Operation(g, call[g])]
  BY <1>1, OperationTyped DEF Last
<1>. QED
  BY <1>1, <1>2, OperationTyped, StatementsTyped
  DEF Ignored, Statement, Lenient

-----------------------------------------------------------------------------
\* The writes of two calls are distinct.
LEMMA WritesDistinct ==
    ASSUME NEW g, NEW k, NEW h, NEW j, <<g, k>> # <<h, j>>
    PROVE  Writes(g, k) \cap Writes(h, j) = {}
BY DEF Writes

\* A call that has executed all its statements has written all it writes.
LEMMA DoneIsAll ==
    ASSUME NEW g \in Goroutine, NEW k \in DOMAIN Calls[g]
    PROVE  Done(g, k, Len(Statements[Operation(g, k)]) + 1) = Writes(g, k)
<1>1. Statements[Operation(g, k)] \in Seq(StatementName)
  BY OperationTyped
<1>. QED
  BY <1>1 DEF Done, Writes

\* Storing all of a call, or some of a lenient one, leaves every other call
\* what it was.
LEMMA StoreSome ==
    ASSUME AllOrNothing, NEW g, NEW k, NEW W, W \subseteq Writes(g, k),
           ~Lenient(g, k) => W = Writes(g, k), stored' = stored \cup W
    PROVE  AllOrNothing'
<1>. SUFFICES ASSUME NEW h \in Goroutine, NEW j \in DOMAIN Calls[h],
                     ~Lenient(h, j)
              PROVE  \/ Writes(h, j) \subseteq stored'
                     \/ Writes(h, j) \cap stored' = {}
  BY DEF AllOrNothing, Writes, Operation, Whole, Untouched, Lenient
<1>1. CASE h = g /\ j = k
  BY <1>1
<1>2. CASE <<h, j>> # <<g, k>>
  <2>1. Writes(h, j) \cap W = {}
    BY <1>2, WritesDistinct
  <2>. QED
    BY <2>1 DEF AllOrNothing, Whole, Untouched
<1>. QED
  BY <1>1, <1>2

\* What is stored is all that AllOrNothing depends on.
LEMMA NothingStored ==
    ASSUME AllOrNothing, UNCHANGED stored
    PROVE  AllOrNothing'
BY DEF AllOrNothing, Writes, Operation, Whole, Untouched, Lenient

\* The stored version is that of a call.
LEMMA StoreTyped ==
    ASSUME TxInv, NEW g \in Goroutine, NEW W, Store(g, W)
    PROVE  version' \in [Goroutine -> Nat]
BY DEF TxInv, Store

\* A step of one goroutine has only that goroutine to answer for.
LEMMA OneGoroutine ==
    ASSUME TxInv, NEW g \in Goroutine,
           NEW p \in {"idle", "begin", "run"}, NEW k \in Nat, NEW n \in Nat,
           NEW s \in Session, NEW W,
           pc' = [pc EXCEPT ![g] = p],
           call' = [call EXCEPT ![g] = k],
           pos' = [pos EXCEPT ![g] = n],
           session' = [session EXCEPT ![g] = s],
           pending' = [pending EXCEPT ![g] = W],
           UNCHANGED running,
           p # "idle" => running /\ k \in DOMAIN Calls[g],
           p = "run" =>
              /\ n \in 1..(Len(Statements[Operation(g, k)]) + 1)
              /\ W \subseteq Writes(g, k),
           p = "run" /\ ~Lenient(g, k) =>
              /\ s = "open"
              /\ W = Done(g, k, n),
           p # "run" => W = {},
           version' \in [Goroutine -> Nat],
           AllOrNothing'
    PROVE  TxInv'
<1>1. /\ pc' \in [Goroutine -> {"idle", "begin", "run"}]
      /\ call' \in [Goroutine -> Nat]
      /\ pos' \in [Goroutine -> Nat]
      /\ session' \in [Goroutine -> Session]
      /\ DOMAIN pending' = Goroutine
      /\ pending' = [h \in Goroutine |-> pending'[h]]
  BY DEF TxInv
<1>2. ASSUME NEW h \in Goroutine
      PROVE  /\ pc'[h] # "idle" => running' /\ call'[h] \in DOMAIN Calls[h]
             /\ pc'[h] = "run" =>
                 /\ pos'[h] \in 1..(Last(h)' + 1)
                 /\ pending'[h] \subseteq Writes(h, call'[h])
             /\ pc'[h] = "run" /\ ~Lenient(h, call'[h]) =>
                 /\ session'[h] = "open"
                 /\ pending'[h] = Done(h, call'[h], pos'[h])
             /\ pc'[h] # "run" => pending'[h] = {}
  <2>1. CASE h = g
    <3>1. /\ pc'[g] = p /\ call'[g] = k /\ pos'[g] = n /\ session'[g] = s
          /\ pending'[g] = W
      BY DEF TxInv
    <3>. QED
      BY <2>1, <3>1 DEF Last, Operation
  <2>2. CASE h # g
    <3>1. /\ pc'[h] = pc[h] /\ call'[h] = call[h] /\ pos'[h] = pos[h]
          /\ session'[h] = session[h] /\ pending'[h] = pending[h]
      BY <2>2 DEF TxInv
    <3>. QED
      BY <3>1 DEF TxInv, Last, Operation
  <2>. QED
    BY <2>1, <2>2
<1>. QED
  BY <1>1, <1>2 DEF TxInv, Done, Operation, Writes, Lenient

-----------------------------------------------------------------------------
\* Leaving a transaction, to return or to begin again.
LEMMA LeaveTxInv ==
    ASSUME TxInv, NEW g \in Goroutine, pc[g] = "run",
           NEW step \in {"idle", "begin"}, Leave(g, step),
           version' \in [Goroutine -> Nat], AllOrNothing'
    PROVE  TxInv'
<1>1. /\ call' = [call EXCEPT ![g] = call[g]] /\ call[g] \in Nat
      /\ pos' = [pos EXCEPT ![g] = pos[g]] /\ pos[g] \in Nat
      /\ "none" \in Session
      /\ running /\ UNCHANGED running /\ call[g] \in DOMAIN Calls[g]
  BY DEF TxInv, Leave, Session
<1>2. /\ pc' = [pc EXCEPT ![g] = step]
      /\ session' = [session EXCEPT ![g] = "none"]
      /\ pending' = [pending EXCEPT ![g] = {}]
  BY DEF Leave
<1>. QED
  BY <1>1, <1>2, OneGoroutine

\* The end of the process.
LEMMA ExitTxInv ==
    ASSUME TxInv, Exit, version' \in [Goroutine -> Nat], AllOrNothing'
    PROVE  TxInv'
<1>1. \A g \in Goroutine : pc'[g] = "idle" /\ pending'[g] = {}
  BY DEF Exit
<1>2. /\ pc' \in [Goroutine -> {"idle", "begin", "run"}]
      /\ call' \in [Goroutine -> Nat]
      /\ pos' \in [Goroutine -> Nat]
      /\ session' \in [Goroutine -> Session]
      /\ DOMAIN pending' = Goroutine
      /\ pending' = [h \in Goroutine |-> pending'[h]]
  BY DEF TxInv, Exit, Session
<1>. QED
  BY <1>1, <1>2 DEF TxInv

\* A failed statement ends the attempt, or the process, or is ignored.
LEMMA ErrorTxInv ==
    ASSUME TxInv, NEW g \in Goroutine, AtStatement(g),
           NEW s \in Session, NEW kept \in SUBSET pending[g],
           Error(g, s, kept), UNCHANGED <<stored, version>>
    PROVE  TxInv'
<1>1. /\ AllOrNothing' /\ version' \in [Goroutine -> Nat]
      /\ pc[g] = "run"
  BY NothingStored DEF TxInv, AtStatement
<1>2. CASE ~Ignored(g)
  BY <1>1, <1>2, ExitTxInv, LeaveTxInv DEF Retry, Error
<1>3. CASE Ignored(g)
  <2>1. Lenient(g, call[g])
    BY <1>3, IgnoredIsLenient
  <2>2. /\ running /\ call[g] \in DOMAIN Calls[g] /\ call[g] \in Nat
        /\ pos[g] \in 1..Last(g)
        /\ kept \subseteq Writes(g, call[g])
        /\ pc = [pc EXCEPT ![g] = "run"]
        /\ call = [call EXCEPT ![g] = call[g]]
    BY <1>1 DEF TxInv, AtStatement, Last
  <2>3. Last(g) \in Nat
    BY <2>2, OperationTyped DEF Last
  <2>4. pos[g] + 1 \in 1..(Last(g) + 1) /\ pos[g] + 1 \in Nat
    BY <2>2, <2>3
  <2>5. /\ pos' = [pos EXCEPT ![g] = pos[g] + 1]
        /\ session' = [session EXCEPT ![g] = s]
        /\ pending' = [pending EXCEPT ![g] = kept]
        /\ UNCHANGED <<pc, call, running>>
    BY <1>3 DEF Error
  <2>. QED
    BY <1>1, <2>1, <2>2, <2>4, <2>5, OneGoroutine DEF Last
<1>. QED
  BY <1>2, <1>3

\* At the commit all of a call has been written, or some of a lenient one.
LEMMA AllWritten ==
    ASSUME TxInv, NEW g \in Goroutine, AtCommit(g)
    PROVE  /\ pending[g] \subseteq Writes(g, call[g])
           /\ ~Lenient(g, call[g]) => pending[g] = Writes(g, call[g])
<1>1. /\ call[g] \in DOMAIN Calls[g]
      /\ pos[g] > Last(g) /\ pos[g] \in 1..(Last(g) + 1)
      /\ pending[g] \subseteq Writes(g, call[g])
      /\ ~Lenient(g, call[g]) => pending[g] = Done(g, call[g], pos[g])
  BY DEF AtCommit, TxInv
<1>2. Last(g) \in Nat
  BY <1>1, OperationTyped DEF Last
<1>3. pos[g] = Last(g) + 1
  BY <1>1, <1>2
<1>. QED
  BY <1>1, <1>3, DoneIsAll DEF Last

\* Executing a statement.
LEMMA ExecuteTxInv ==
    ASSUME TxInv, NEW g \in Goroutine, Execute(g)
    PROVE  TxInv'
<1>1. /\ pc[g] = "run" /\ running
      /\ call[g] \in DOMAIN Calls[g] /\ call[g] \in Nat
      /\ pos[g] \in 1..Last(g)
      /\ pending[g] \subseteq Writes(g, call[g])
      /\ pc = [pc EXCEPT ![g] = "run"]
      /\ call = [call EXCEPT ![g] = call[g]]
      /\ session = [session EXCEPT ![g] = session[g]]
      /\ session[g] \in Session
  BY DEF Execute, AtStatement, TxInv, Last
<1>2. Last(g) \in Nat
  BY <1>1, OperationTyped DEF Last
<1>3. /\ pos[g] + 1 \in 1..(Last(g) + 1) /\ pos[g] + 1 \in Nat
      /\ 1..((pos[g] + 1) - 1) = (1..(pos[g] - 1)) \cup {pos[g]}
  BY <1>1, <1>2
<1>4. Write(g) \in Writes(g, call[g])
  BY <1>1, OperationTyped DEF Write, Writes, Statement, Last
<1>5. /\ pc' = [pc EXCEPT ![g] = "run"]
      /\ call' = [call EXCEPT ![g] = call[g]]
      /\ pos' = [pos EXCEPT ![g] = pos[g] + 1]
      /\ session' = [session EXCEPT ![g] = session[g]]
      /\ UNCHANGED running
  BY <1>1 DEF Execute
<1>6. CASE session[g] = "open"
  <2>1. ~Lenient(g, call[g]) => pending[g] = Done(g, call[g], pos[g])
    BY <1>1 DEF TxInv
  <2>2. /\ ~Lenient(g, call[g]) =>
            pending[g] \cup {Write(g)} = Done(g, call[g], pos[g] + 1)
        /\ pending[g] \cup {Write(g)} \subseteq Writes(g, call[g])
    BY <1>1, <1>3, <1>4, <2>1 DEF Done, Write, Statement
  <2>3. /\ pending' = [pending EXCEPT ![g] = pending[g] \cup {Write(g)}]
        /\ UNCHANGED <<stored, version>>
    BY <1>6 DEF Execute
  <2>4. AllOrNothing' /\ version' \in [Goroutine -> Nat]
    BY <2>3, NothingStored DEF TxInv
  <2>. QED
    BY <1>1, <1>3, <1>5, <1>6, <2>2, <2>3, <2>4, OneGoroutine DEF Last
<1>7. CASE session[g] # "open"
  <2>1. Lenient(g, call[g])
    BY <1>1, <1>7 DEF TxInv
  <2>2. /\ Store(g, {Write(g)})
        /\ pending' = [pending EXCEPT ![g] = pending[g]]
    BY <1>7 DEF Execute, TxInv
  <2>3. /\ {Write(g)} \subseteq Writes(g, call[g])
        /\ AllOrNothing /\ version \in [Goroutine -> Nat]
        /\ stored' = stored \cup {Write(g)}
    BY <1>4, <2>2 DEF Store, TxInv
  <2>4. AllOrNothing'
    BY <2>1, <2>3, StoreSome
  <2>5. version' \in [Goroutine -> Nat]
    BY <2>2, <2>3, StoreTyped
  <2>. QED
    BY <1>1, <1>3, <1>5, <2>1, <2>2, <2>4, <2>5, OneGoroutine DEF Last
<1>. QED
  BY <1>6, <1>7

\* Going on with a call, or with the next one.
LEMMA ProceedTxInv ==
    ASSUME TxInv, NEW g \in Goroutine, Proceed(g)
    PROVE  TxInv'
<1>1. /\ pc[g] \in {"idle", "begin", "run"} /\ call[g] \in Nat
      /\ pos[g] \in Nat /\ session[g] \in Session
      /\ pc = [pc EXCEPT ![g] = pc[g]] /\ call = [call EXCEPT ![g] = call[g]]
      /\ pos = [pos EXCEPT ![g] = pos[g]]
      /\ session = [session EXCEPT ![g] = session[g]]
      /\ pending = [pending EXCEPT ![g] = pending[g]]
  BY DEF TxInv
<1>2. /\ AllOrNothing /\ "open" \in Session
      /\ UNCHANGED version => version' \in [Goroutine -> Nat]
  BY DEF TxInv, Session
<1>3. CASE Receive(g)
  <2>1. Calls[g] \in Seq(DOMAIN Statements)
    BY CallsTyped
  <2>2. call[g] + 1 \in DOMAIN Calls[g] /\ call[g] + 1 \in Nat
    BY <1>1, <1>3, <2>1 DEF Receive
  <2>3. /\ pending[g] = {} /\ AllOrNothing' /\ running
        /\ UNCHANGED <<version, running>>
    BY <1>2, <1>3, NothingStored DEF Receive, TxInv
  <2>4. /\ pc' = [pc EXCEPT ![g] = "begin"]
        /\ call' = [call EXCEPT ![g] = call[g] + 1]
        /\ pos' = [pos EXCEPT ![g] = pos[g]]
        /\ session' = [session EXCEPT ![g] = session[g]]
        /\ pending' = [pending EXCEPT ![g] = pending[g]]
    BY <1>1, <1>3 DEF Receive
  <2>. QED
    BY <1>1, <1>2, <2>2, <2>3, <2>4, OneGoroutine
<1>4. CASE Begin(g)
  <2>1. /\ call[g] \in DOMAIN Calls[g] /\ pending[g] = {} /\ AllOrNothing'
        /\ running /\ UNCHANGED <<version, running>>
    BY <1>2, <1>4, NothingStored DEF Begin, TxInv
  <2>2. Len(Statements[Operation(g, call[g])]) \in Nat
    BY <2>1, OperationTyped
  <2>3. /\ 1 \in Nat /\ 1 \in 1..(Len(Statements[Operation(g, call[g])]) + 1)
        /\ pending[g] = Done(g, call[g], 1)
        /\ pending[g] \subseteq Writes(g, call[g])
    BY <2>1, <2>2 DEF Done
  <2>4. /\ pc' = [pc EXCEPT ![g] = "run"]
        /\ call' = [call EXCEPT ![g] = call[g]]
        /\ pos' = [pos EXCEPT ![g] = 1]
        /\ session' = [session EXCEPT ![g] = "open"]
        /\ pending' = [pending EXCEPT ![g] = pending[g]]
    BY <1>1, <1>4 DEF Begin
  <2>. QED
    BY <1>1, <1>2, <2>1, <2>3, <2>4, OneGoroutine
<1>5. CASE SkipDuplicate(g)
  <2>1. /\ AllOrNothing' /\ version' \in [Goroutine -> Nat]
        /\ pc[g] = "run" /\ Leave(g, "idle")
    BY <1>2, <1>5, NothingStored DEF SkipDuplicate, AtStatement, Return
  <2>. QED
    BY <2>1, LeaveTxInv
<1>6. CASE Refuse(g)
  BY <1>1, <1>6, ErrorTxInv DEF Refuse
<1>7. CASE Commit(g)
  <2>1. /\ pc[g] = "run" /\ Leave(g, "idle") /\ Store(g, pending[g])
    BY <1>7 DEF Commit, AtCommit, Return
  <2>2. AllOrNothing' /\ version' \in [Goroutine -> Nat]
    BY <1>2, <1>7, <2>1, AllWritten, StoreSome, StoreTyped DEF Commit, Store
  <2>. QED
    BY <2>1, <2>2, LeaveTxInv
<1>. QED
  BY <1>3, <1>4, <1>5, <1>6, <1>7, ExecuteTxInv DEF Proceed

\* Faults and restarts.
LEMMA FaultTxInv ==
    ASSUME TxInv,
           \/ \E g \in Goroutine :
                \/ Deadlock(g) \/ LockTimeout(g) \/ Disconnect(g)
                \/ DisconnectAtCommit(g)
           \/ Crash \/ Restart
    PROVE  TxInv'
<1>1. ASSUME NEW g \in Goroutine, Deadlock(g) \/ LockTimeout(g) \/ Disconnect(g)
      PROVE  TxInv'
  <2>1. PICK s \in Session, kept \in SUBSET pending[g] : Error(g, s, kept)
    BY <1>1 DEF Deadlock, LockTimeout, Disconnect, Session
  <2>2. AtStatement(g) /\ UNCHANGED <<stored, version>>
    BY <1>1 DEF Deadlock, LockTimeout, Disconnect
  <2>. QED
    BY <2>1, <2>2, ErrorTxInv
<1>2. ASSUME NEW g \in Goroutine, DisconnectAtCommit(g)
      PROVE  TxInv'
  <2>1. pc[g] = "run" /\ AllOrNothing /\ AtCommit(g)
    BY <1>2 DEF DisconnectAtCommit, AtCommit, TxInv
  <2>2. UNCHANGED <<stored, version>> \/ Store(g, pending[g])
    BY <1>2 DEF DisconnectAtCommit
  <2>3. AllOrNothing'
    BY <2>1, <2>2, AllWritten, StoreSome, NothingStored DEF Store
  <2>4. version' \in [Goroutine -> Nat]
    BY <2>2, StoreTyped DEF TxInv
  <2>. QED
    BY <1>2, <2>1, <2>3, <2>4, LeaveTxInv DEF DisconnectAtCommit, Retry
<1>3. CASE Crash
  BY <1>3, ExitTxInv, NothingStored DEF Crash, TxInv
<1>4. CASE Restart
  <2>1. AllOrNothing'
    BY <1>4, NothingStored DEF Restart, TxInv
  <2>. QED
    BY <1>4, <2>1 DEF Restart, TxInv
<1>. QED
  BY <1>1, <1>2, <1>3, <1>4

LEMMA InitTxInv == Init => TxInv
BY DEF Init, TxInv, AllOrNothing, Session, Untouched

LEMMA NextTxInv == ASSUME TxInv, [Next]_vars PROVE TxInv'
<1>1. CASE UNCHANGED vars
  <2>1. AllOrNothing => AllOrNothing'
    BY <1>1, NothingStored DEF vars
  <2>. QED
    BY <1>1, <2>1 DEF vars, TxInv, Last, Done, Operation, Writes, Lenient
<1>. QED
  BY <1>1, ProceedTxInv, FaultTxInv DEF Next

-----------------------------------------------------------------------------
(* The stored version.                                                     *)

\* The second half of the inductive invariant: the goroutines of a running
\* process have left nothing behind them, lenient calls aside.
NothingBehind ==
    running =>
        \A g \in Goroutine : \A k \in DOMAIN Calls[g] :
            /\ ~Lenient(g, k)
            /\ k < call[g] \/ (k = call[g] /\ pc[g] = "idle")
            => Whole(g, k)

Covered ==
    \A g \in Goroutine : \A k \in DOMAIN Calls[g] :
        ~Lenient(g, k) /\ k <= version[g] => Whole(g, k)

\* An event is a call of a goroutine.
LEMMA Contained == AllOrNothing /\ Covered => DamageContained
<1>1. ASSUME AllOrNothing, Covered, NEW e \in Events, ~Lenient(e[1], e[2])
      PROVE  /\ Whole(e[1], e[2]) \/ Untouched(e[1], e[2])
             /\ e[2] <= version[e[1]] => Whole(e[1], e[2])
  <2>1. e[1] \in Goroutine /\ e[2] \in DOMAIN Calls[e[1]]
    BY DEF Events
  <2>. QED
    BY <1>1, <2>1 DEF Covered, AllOrNothing
<1>. QED
  BY <1>1 DEF DamageContained

\* What is numbered is a number.
LEMMA NumbersTyped ==
    ASSUME NEW g \in Goroutine, NEW k \in DOMAIN Calls[g]
    PROVE  k \in Nat /\ k > 0
<1>1. Calls[g] \in Seq(DOMAIN Statements)
  BY CallsTyped
<1>. QED
  BY <1>1

\* What has been stored stays stored.
LEMMA StillWhole ==
    ASSUME stored \subseteq stored', NEW g, NEW k
    PROVE  /\ Whole(g, k) => Whole(g, k)'
           /\ Lenient(g, k)' <=> Lenient(g, k)
BY DEF Whole, Writes, Operation, Lenient

\* A step of g that stores no version, and stays within its call.
LEMMA StaysCovered ==
    ASSUME NothingBehind, Covered, NEW g \in Goroutine,
           stored \subseteq stored', UNCHANGED <<version, call, running>>,
           \A h \in Goroutine \ {g} : pc'[h] = pc[h],
           pc'[g] # "idle"
    PROVE  NothingBehind' /\ Covered'
<1>1. Covered'
  BY StillWhole DEF Covered
<1>2. NothingBehind'
  BY StillWhole DEF NothingBehind
<1>. QED
  BY <1>1, <1>2

\* A step of g in a call of which everything is then stored, or in a lenient
\* one.
LEMMA EndsCovered ==
    ASSUME TxInv, NothingBehind, Covered, NEW g \in Goroutine,
           pc[g] = "run", stored \subseteq stored',
           ~Lenient(g, call[g]) => Writes(g, call[g]) \subseteq stored',
           UNCHANGED <<call, running>>,
           version' = version \/ version' = [version EXCEPT ![g] = call[g]],
           \A h \in Goroutine \ {g} : pc'[h] = pc[h]
    PROVE  NothingBehind' /\ Covered'
<1>1. running /\ call[g] \in Nat
  BY DEF TxInv
<1>2. ASSUME NEW k \in DOMAIN Calls[g], k <= call[g], ~Lenient(g, k)
      PROVE  Whole(g, k)'
  <2>1. CASE k < call[g]
    BY <1>1, <1>2, <2>1, StillWhole DEF NothingBehind
  <2>2. CASE k = call[g]
    BY <1>2, <2>2 DEF Whole, Writes, Operation
  <2>. QED
    BY <1>1, <1>2, <2>1, <2>2, NumbersTyped
<1>3. Covered'
  BY <1>2, StillWhole DEF Covered, TxInv
<1>4. NothingBehind'
  BY <1>1, <1>2, StillWhole DEF NothingBehind
<1>. QED
  BY <1>3, <1>4

\* The end of the process.
LEMMA ExitCovered ==
    ASSUME Covered, Exit, UNCHANGED <<stored, version>>
    PROVE  NothingBehind' /\ Covered'
BY DEF Covered, NothingBehind, Exit, Whole, Writes, Operation, Lenient

LEMMA ErrorCovered ==
    ASSUME TxInv, NothingBehind, Covered, NEW g \in Goroutine,
           AtStatement(g), NEW s, NEW kept, Error(g, s, kept),
           UNCHANGED <<stored, version>>
    PROVE  NothingBehind' /\ Covered'
<1>1. CASE Exit
  BY <1>1, ExitCovered
<1>2. CASE ~Exit
  <2>1. /\ pc'[g] # "idle" /\ UNCHANGED <<call, running>>
        /\ \A h \in Goroutine \ {g} : pc'[h] = pc[h]
    BY <1>2 DEF Error, AtStatement, Retry, Leave, TxInv
  <2>. QED
    BY <2>1, StaysCovered
<1>. QED
  BY <1>1, <1>2

LEMMA ProceedCovered ==
    ASSUME TxInv, NothingBehind, Covered, NEW g \in Goroutine, Proceed(g)
    PROVE  NothingBehind' /\ Covered'
<1>1. CASE Receive(g)
  <2>1. /\ running /\ pc[g] = "idle" /\ call[g] \in Nat
        /\ UNCHANGED <<stored, version, running>>
        /\ call'[g] = call[g] + 1 /\ pc'[g] # "idle"
        /\ \A h \in Goroutine \ {g} : pc'[h] = pc[h] /\ call'[h] = call[h]
    BY <1>1 DEF Receive, TxInv
  <2>2. \A k \in DOMAIN Calls[g] : k < call'[g] => k < call[g] \/ k = call[g]
    BY <2>1, NumbersTyped
  <2>3. NothingBehind'
    BY <2>1, <2>2, StillWhole DEF NothingBehind
  <2>4. Covered'
    BY <2>1, StillWhole DEF Covered
  <2>. QED
    BY <2>3, <2>4
<1>2. CASE Begin(g)
  <2>1. /\ pc'[g] # "idle" /\ UNCHANGED <<stored, version, call, running>>
        /\ \A h \in Goroutine \ {g} : pc'[h] = pc[h]
    BY <1>2 DEF Begin, TxInv
  <2>. QED
    BY <2>1, StaysCovered
<1>3. CASE Execute(g)
  <2>1. pc[g] = "run" /\ UNCHANGED <<pc, call, running>>
    BY <1>3 DEF Execute, AtStatement
  <2>2. CASE session[g] = "open"
    <3>1. UNCHANGED <<stored, version>>
      BY <1>3, <2>2 DEF Execute
    <3>. QED
      BY <2>1, <3>1, StaysCovered
  <2>3. CASE session[g] # "open"
    <3>1. Lenient(g, call[g])
      BY <2>1, <2>3 DEF TxInv
    <3>2. Store(g, {Write(g)})
      BY <1>3, <2>3 DEF Execute
    <3>. QED
      BY <2>1, <3>1, <3>2, EndsCovered DEF Store
  <2>. QED
    BY <2>2, <2>3
<1>4. CASE SkipDuplicate(g)
  <2>1. /\ AtStatement(g) /\ Duplicate(g) /\ pc[g] = "run"
        /\ UNCHANGED <<stored, version, call, running>>
        /\ \A h \in Goroutine \ {g} : pc'[h] = pc[h]
    BY <1>4 DEF SkipDuplicate, Return, Leave, AtStatement, TxInv
  <2>2. /\ call[g] \in DOMAIN Calls[g] /\ pos[g] \in 1..Last(g)
        /\ AllOrNothing
    BY <2>1 DEF TxInv, AtStatement, Last
  <2>3. Write(g) \in Writes(g, call[g])
    BY <2>2, OperationTyped DEF Write, Writes, Statement, Last
  <2>4. ~Lenient(g, call[g]) => Writes(g, call[g]) \subseteq stored
    BY <2>1, <2>2, <2>3 DEF AllOrNothing, Duplicate, Whole, Untouched
  <2>. QED
    BY <2>1, <2>4, EndsCovered
<1>5. CASE Refuse(g)
  BY <1>5, ErrorCovered DEF Refuse
<1>6. CASE Commit(g)
  <2>1. /\ pc[g] = "run" /\ Store(g, pending[g])
        /\ UNCHANGED <<call, running>>
        /\ \A h \in Goroutine \ {g} : pc'[h] = pc[h]
    BY <1>6 DEF Commit, AtCommit, Return, Leave, TxInv
  <2>2. ~Lenient(g, call[g]) => pending[g] = Writes(g, call[g])
    BY <1>6, AllWritten DEF Commit
  <2>. QED
    BY <2>1, <2>2, EndsCovered DEF Store
<1>. QED
  BY <1>1, <1>2, <1>3, <1>4, <1>5, <1>6 DEF Proceed

LEMMA NextCovered ==
    ASSUME TxInv, NothingBehind, Covered, [Next]_vars
    PROVE  NothingBehind' /\ Covered'
<1>1. CASE \E g \in Goroutine : Deadlock(g) \/ LockTimeout(g) \/ Disconnect(g)
  BY <1>1, ErrorCovered DEF Deadlock, LockTimeout, Disconnect
<1>2. ASSUME NEW g \in Goroutine, DisconnectAtCommit(g)
      PROVE  NothingBehind' /\ Covered'
  <2>1. /\ pc[g] = "run" /\ UNCHANGED <<call, running>> /\ pc'[g] # "idle"
        /\ \A h \in Goroutine \ {g} : pc'[h] = pc[h]
    BY <1>2 DEF DisconnectAtCommit, AtCommit, Retry, Leave, TxInv
  <2>2. CASE UNCHANGED <<stored, version>>
    BY <2>1, <2>2, StaysCovered
  <2>3. CASE Store(g, pending[g])
    <3>1. ~Lenient(g, call[g]) => pending[g] = Writes(g, call[g])
      BY <1>2, AllWritten DEF DisconnectAtCommit
    <3>. QED
      BY <2>1, <2>3, <3>1, EndsCovered DEF Store
  <2>. QED
    BY <1>2, <2>2, <2>3 DEF DisconnectAtCommit
<1>3. CASE Crash
  BY <1>3, ExitCovered DEF Crash
<1>4. CASE Restart
  <2>1. /\ call' = version /\ UNCHANGED <<stored, version>>
        /\ version \in [Goroutine -> Nat]
    BY <1>4 DEF Restart, TxInv
  <2>2. \A h \in Goroutine : \A k \in DOMAIN Calls[h] :
            k < call'[h] \/ k = call'[h] => k <= version[h]
    BY <2>1, NumbersTyped
  <2>. QED
    BY <2>1, <2>2, StillWhole DEF NothingBehind, Covered
<1>5. CASE UNCHANGED vars
  BY <1>5, StillWhole DEF vars, NothingBehind, Covered
<1>. QED
  BY <1>1, <1>2, <1>3, <1>4, <1>5, ProceedCovered DEF Next

-----------------------------------------------------------------------------
\* DamageContained: for any goroutines, calls, faults and refused statements,
\* every call but an InsertPod with mounts is stored whole or not at all, and
\* the version a restarted process resumes from covers only those stored.
THEOREM OthersAreAtomic == Spec => []DamageContained
<1>1. Init => TxInv /\ NothingBehind /\ Covered
  <2>1. ASSUME Init PROVE NothingBehind /\ Covered
    BY <2>1, NumbersTyped DEF Init, NothingBehind, Covered
  <2>. QED
    BY <2>1, InitTxInv
<1>2. TxInv /\ NothingBehind /\ Covered /\ [Next]_vars
        => TxInv' /\ NothingBehind' /\ Covered'
  BY NextTxInv, NextCovered
<1>3. TxInv /\ Covered => DamageContained
  BY Contained DEF TxInv
<1>. QED
  BY <1>1, <1>2, <1>3, PTL DEF Spec

\* VersionCovers, which a deadlock can break, holds for all calls if no pod
\* mounts a claim: then no error goes unnoticed.
THEOREM VersionsAreCovered ==
    ASSUME \A g \in Goroutine : \A k \in DOMAIN Calls[g] : ~Lenient(g, k)
    PROVE  Spec => []VersionCovers
<1>1. DamageContained => VersionCovers
  <2>1. ASSUME NEW e \in Events
        PROVE  ~Lenient(e[1], e[2])
    <3>1. e[1] \in Goroutine /\ e[2] \in DOMAIN Calls[e[1]]
      BY DEF Events
    <3>. QED
      BY <3>1
  <2>. QED
    BY <2>1 DEF DamageContained, VersionCovers
<1>. QED
  BY <1>1, OthersAreAtomic, PTL

-----------------------------------------------------------------------------
(* Types.                                                                  *)

\* What is typed beyond TxInv.
TxTypes ==
    /\ \A g \in Goroutine : call[g] <= Len(Calls[g]) /\ version[g] <= Len(Calls[g])
    /\ pos \in [Goroutine -> Nat \ {0}]
    /\ \A g \in Goroutine : session[g] # "none" <=> pc[g] = "run"
    /\ stored \subseteq UNION {Writes(e[1], e[2]) : e \in Events}
    /\ repeated \in [Goroutine -> BOOLEAN]
    /\ running \in BOOLEAN
    /\ faults \in 0..MaxFaults

LEMMA TypesMean == TxInv /\ TxTypes => TypeOK
<1>1. ASSUME TxInv, TxTypes, NEW g \in Goroutine, pc[g] # "idle"
      PROVE  call[g] > 0
  BY <1>1, NumbersTyped DEF TxInv
<1>. QED
  BY <1>1 DEF TxInv, TxTypes, TypeOK

\* A call's writes are those of an event, and its number is that of one.
LEMMA CallIsEvent ==
    ASSUME TxInv, NEW g \in Goroutine, pc[g] # "idle"
    PROVE  /\ call[g] \in Nat /\ call[g] <= Len(Calls[g])
           /\ Writes(g, call[g]) \subseteq UNION {Writes(e[1], e[2]) : e \in Events}
<1>1. call[g] \in DOMAIN Calls[g]
  BY DEF TxInv
<1>2. call[g] \in Nat /\ call[g] <= Len(Calls[g])
  <2>1. Calls[g] \in Seq(DOMAIN Statements)
    BY CallsTyped
  <2>. QED
    BY <1>1, <2>1
<1>3. <<g, call[g]>> \in Events
  BY <1>1 DEF Events
<1>. QED
  BY <1>2, <1>3

\* The four things a step does to the client's side.
LEMMA LeaveTypes ==
    ASSUME TxTypes, NEW g \in Goroutine, NEW step \in {"idle", "begin"},
           pc \in [Goroutine -> {"idle", "begin", "run"}],
           session \in [Goroutine -> Session], Leave(g, step)
    PROVE  /\ \A h \in Goroutine : call'[h] <= Len(Calls[h])
           /\ pos' \in [Goroutine -> Nat \ {0}]
           /\ \A h \in Goroutine : session'[h] # "none" <=> pc'[h] = "run"
           /\ running' \in BOOLEAN
BY DEF TxTypes, Leave

LEMMA ErrorTypes ==
    ASSUME TxTypes, TxInv, NEW g \in Goroutine, AtStatement(g),
           NEW s \in Session \ {"none"}, NEW kept, Error(g, s, kept)
    PROVE  /\ \A h \in Goroutine : call'[h] <= Len(Calls[h])
           /\ pos' \in [Goroutine -> Nat \ {0}]
           /\ \A h \in Goroutine : session'[h] # "none" <=> pc'[h] = "run"
           /\ running' \in BOOLEAN
<1>1. CASE Exit
  BY <1>1 DEF Exit, TxTypes
<1>2. CASE Retry(g)
  BY <1>2, LeaveTypes DEF Retry, TxInv
<1>3. CASE Ignored(g)
  <2>1. /\ pos' = [pos EXCEPT ![g] = pos[g] + 1]
        /\ session' = [session EXCEPT ![g] = s]
        /\ UNCHANGED <<pc, call, running>> /\ pc[g] = "run"
    BY <1>3 DEF Error, AtStatement
  <2>2. pos[g] + 1 \in Nat \ {0}
    BY DEF TxTypes
  <2>. QED
    BY <2>1, <2>2 DEF TxTypes, TxInv
<1>. QED
  BY <1>1, <1>2, <1>3 DEF Error

\* And what it stores.
LEMMA StoreTypes ==
    ASSUME TxTypes, TxInv, NEW g \in Goroutine, pc[g] = "run",
           NEW W, W \subseteq Writes(g, call[g]), Store(g, W)
    PROVE  /\ stored' \subseteq UNION {Writes(e[1], e[2]) : e \in Events}
           /\ \A h \in Goroutine : version'[h] <= Len(Calls[h])
BY CallIsEvent DEF TxTypes, TxInv, Store

LEMMA FaultTyped ==
    ASSUME TxTypes, UNCHANGED faults \/ \E kind : Fault(kind)
    PROVE  faults' \in 0..MaxFaults
<1>1. CASE UNCHANGED faults
  BY <1>1 DEF TxTypes
<1>2. CASE \E kind : Fault(kind)
  BY <1>2, FaultsTyped DEF TxTypes, Fault
<1>. QED
  BY <1>1, <1>2

LEMMA NextTypes ==
    ASSUME TxTypes, TxInv, TxInv', [Next]_vars
    PROVE  TxTypes'
<1>1. CASE UNCHANGED vars
  BY <1>1 DEF vars, TxTypes, Writes, Operation, Events
<1>2. ASSUME NEW g \in Goroutine, Receive(g)
      PROVE  TxTypes'
  <2>1. /\ pc[g] = "idle" /\ pc' = [pc EXCEPT ![g] = "begin"]
        /\ call' = [call EXCEPT ![g] = call[g] + 1]
        /\ call[g] < Len(Calls[g])
        /\ repeated' = [repeated EXCEPT ![g] = FALSE]
        /\ UNCHANGED <<pos, session, stored, version, running, faults>>
    BY <1>2 DEF Receive
  <2>2. call[g] \in Nat /\ Len(Calls[g]) \in Nat
    BY CallsTyped DEF TxInv
  <2>3. \A h \in Goroutine : call'[h] <= Len(Calls[h])
    BY <2>1, <2>2 DEF TxTypes, TxInv
  <2>4. \A h \in Goroutine : session'[h] # "none" <=> pc'[h] = "run"
    BY <2>1 DEF TxTypes, TxInv
  <2>5. repeated' \in [Goroutine -> BOOLEAN]
    BY <2>1 DEF TxTypes
  <2>. QED
    BY <2>1, <2>3, <2>4, <2>5 DEF TxTypes, Writes, Operation, Events
<1>7. ASSUME NEW g \in Goroutine, Begin(g)
      PROVE  TxTypes'
  <2>1. /\ pc' = [pc EXCEPT ![g] = "run"]
        /\ pos' = [pos EXCEPT ![g] = 1]
        /\ session' = [session EXCEPT ![g] = "open"]
        /\ UNCHANGED <<call, stored, version, repeated, running, faults>>
    BY <1>7 DEF Begin
  <2>2. \A h \in Goroutine : session'[h] # "none" <=> pc'[h] = "run"
    BY <2>1 DEF TxTypes, TxInv
  <2>3. pos' \in [Goroutine -> Nat \ {0}]
    BY <2>1 DEF TxTypes
  <2>. QED
    BY <2>1, <2>2, <2>3 DEF TxTypes, Writes, Operation, Events
<1>3. ASSUME NEW g \in Goroutine, Execute(g)
      PROVE  TxTypes'
  <2>1. /\ AtStatement(g) /\ pos' = [pos EXCEPT ![g] = pos[g] + 1]
        /\ UNCHANGED <<pc, call, session, repeated, running, faults>>
        /\ UNCHANGED <<stored, version>> \/ Store(g, {Write(g)})
    BY <1>3 DEF Execute
  <2>2. Write(g) \in Writes(g, call[g])
    <3>1. Statements[Operation(g, call[g])] \in Seq(StatementName)
      BY <2>1, OperationTyped DEF TxInv, AtStatement
    <3>2. pos[g] \in DOMAIN Statements[Operation(g, call[g])]
      BY <2>1, <3>1 DEF AtStatement, Last, TxTypes
    <3>. QED
      BY <3>2 DEF Write, Writes, Statement
  <2>3. /\ stored' \subseteq UNION {Writes(e[1], e[2]) : e \in Events}
        /\ \A h \in Goroutine : version'[h] <= Len(Calls[h])
    BY <2>1, <2>2, StoreTypes DEF AtStatement, TxTypes
  <2>4. pos' \in [Goroutine -> Nat \ {0}]
    BY <2>1 DEF TxTypes
  <2>. QED
    BY <2>1, <2>3, <2>4 DEF TxTypes
<1>4. ASSUME NEW g \in Goroutine, SkipDuplicate(g) \/ Commit(g) \/ DisconnectAtCommit(g)
      PROVE  TxTypes'
  <2>1. /\ pc[g] = "run" /\ \E step \in {"idle", "begin"} : Leave(g, step)
        /\ UNCHANGED faults \/ \E kind : Fault(kind)
    BY <1>4 DEF SkipDuplicate, Commit, DisconnectAtCommit, AtStatement, AtCommit,
           Return, Retry
  <2>4. repeated' \in [Goroutine -> BOOLEAN]
    BY <1>4 DEF SkipDuplicate, Commit, DisconnectAtCommit, TxTypes
  <2>2. \/ UNCHANGED <<stored, version>>
        \/ pending[g] \subseteq Writes(g, call[g]) /\ Store(g, pending[g])
    BY <1>4, <2>1 DEF SkipDuplicate, Commit, DisconnectAtCommit, TxInv
  <2>3. /\ stored' \subseteq UNION {Writes(e[1], e[2]) : e \in Events}
        /\ \A h \in Goroutine : version'[h] <= Len(Calls[h])
    BY <2>1, <2>2, StoreTypes DEF TxTypes
  <2>. QED
    <3>1. /\ \A h \in Goroutine : call'[h] <= Len(Calls[h])
          /\ pos' \in [Goroutine -> Nat \ {0}]
          /\ \A h \in Goroutine : session'[h] # "none" <=> pc'[h] = "run"
          /\ running' \in BOOLEAN
      <4>1. /\ pc \in [Goroutine -> {"idle", "begin", "run"}]
            /\ session \in [Goroutine -> Session]
        BY DEF TxInv
      <4>. QED
        BY <2>1, <4>1, LeaveTypes
    <3>. QED
      BY <2>1, <2>3, <2>4, <3>1, FaultTyped DEF TxTypes, Writes, Operation, Events
<1>5. ASSUME NEW g \in Goroutine, Refuse(g) \/ Deadlock(g) \/ LockTimeout(g) \/ Disconnect(g)
      PROVE  TxTypes'
  <2>1. /\ AtStatement(g) /\ UNCHANGED <<stored, version, repeated>>
        /\ UNCHANGED faults \/ \E kind : Fault(kind)
    BY <1>5 DEF Refuse, Deadlock, LockTimeout, Disconnect
  <2>2. session[g] \in Session \ {"none"}
    BY <2>1 DEF TxTypes, TxInv, AtStatement
  <2>3. \E s \in Session \ {"none"} : \E kept : Error(g, s, kept)
    BY <1>5, <2>2 DEF Refuse, Deadlock, LockTimeout, Disconnect, Session
  <2>4. \A h \in Goroutine : version'[h] <= Len(Calls[h])
    BY <2>1 DEF TxTypes
  <2>. QED
    BY <2>1, <2>3, <2>4, FaultTyped, ErrorTypes
       DEF TxTypes, Writes, Operation, Events
<1>6. CASE Crash \/ Restart
  <2>1. faults' \in 0..MaxFaults /\ running' \in BOOLEAN
    BY <1>6, FaultTyped DEF Crash, Exit, Restart
  <2>2. \A h \in Goroutine : session'[h] # "none" <=> pc'[h] = "run"
    BY <1>6 DEF Crash, Exit, Restart, TxTypes
  <2>. QED
    BY <1>6, <2>1, <2>2
       DEF Crash, Exit, Restart, TxTypes, Writes, Operation, Events
<1>. QED
  BY <1>1, <1>2, <1>3, <1>4, <1>5, <1>6, <1>7 DEF Next, Proceed

\* Every variable has its type, whatever the calls are and whatever faults
\* occur.
THEOREM TransactionsTypeCorrect == Spec => []TypeOK
<1>1. Init => TxTypes
  <2>1. \A g \in Goroutine : Calls[g] \in Seq(DOMAIN Statements)
    BY CallsTyped
  <2>. QED
    BY <2>1, FaultsTyped DEF Init, TxTypes
<1>. QED
  BY <1>1, InitTxInv, NextTxInv, NextTypes, TypesMean, PTL DEF Spec

-----------------------------------------------------------------------------
(* Calls are atomic.                                                       *)

\* How versions move: the version is the last thing of a call that is written,
\* so a call that has one has been committed; and every goroutine is at the call
\* its version has, or at the next.
VersionsMove ==
    /\ \A g \in Goroutine : \A k \in DOMAIN Calls[g] :
        <<g, k, "rv">> \in stored \/ <<g, k, "pod">> \in stored
            => k <= version[g]
    /\ \A g \in Goroutine :
        /\ running /\ pc[g] = "idle" => call[g] = version[g]
        /\ pc[g] # "idle" => call[g] \in {version[g], version[g] + 1}
        /\ AtCommit(g) =>
            \/ <<g, call[g], "rv">> \in pending[g]
            \/ pending[g] = {} /\ version[g] = call[g]
        /\ session[g] = "aborted" => pending[g] = {} /\ pos[g] > 1
        /\ session[g] = "lost" => pending[g] = {}

\* The version comes last, and a row of its own first.
LEMMA StatementsOrdered ==
    ASSUME NEW op \in DOMAIN Statements
    PROVE  /\ Statements[op][Len(Statements[op])] = "rv"
           /\ Len(Statements[op]) \in 2..5
           /\ DOMAIN Statements[op] = 1..Len(Statements[op])
           /\ \A i \in DOMAIN Statements[op] :
                Statements[op][i] \in {"pod", "pv"} => i = 1
<1>1. op \in {"InsertPod", "InsertPodMounts", "DeletePod", "InsertPVC",
              "BindPVC", "InsertPV", "Update"}
  BY DEF Statements
<1>2. CASE op = "InsertPod"
  <2>1. Statements[op] = <<"pod", "container", "rv">>
    BY <1>2 DEF Statements
  <2>. QED  BY <2>1
<1>3. CASE op = "InsertPodMounts"
  <2>1. Statements[op] = <<"pod", "container", "mount1", "mount2", "rv">>
    BY <1>3 DEF Statements
  <2>. QED  BY <2>1
<1>4. CASE op = "DeletePod"
  <2>1. Statements[op] = <<"deleted", "badmounts", "rv">>
    BY <1>4 DEF Statements
  <2>. QED  BY <2>1
<1>5. CASE op = "InsertPVC"
  <2>1. Statements[op] = <<"pvc", "mounts", "rv">>
    BY <1>5 DEF Statements
  <2>. QED  BY <2>1
<1>6. CASE op = "BindPVC"
  <2>1. Statements[op] = <<"bind", "rv">>
    BY <1>6 DEF Statements
  <2>. QED  BY <2>1
<1>7. CASE op = "InsertPV"
  <2>1. Statements[op] = <<"pv", "rv">>
    BY <1>7 DEF Statements
  <2>. QED  BY <2>1
<1>8. CASE op = "Update"
  <2>1. Statements[op] = <<"row", "rv">>
    BY <1>8 DEF Statements
  <2>. QED  BY <2>1
<1>. QED
  BY <1>1, <1>2, <1>3, <1>4, <1>5, <1>6, <1>7, <1>8

LEMMA OperationOrdered ==
    ASSUME NEW g \in Goroutine, NEW k \in DOMAIN Calls[g]
    PROVE  LET stmts == Statements[Operation(g, k)]
           IN  /\ stmts[Len(stmts)] = "rv"
               /\ Len(stmts) \in 2..5
               /\ DOMAIN stmts = 1..Len(stmts)
               /\ Len(stmts) \in DOMAIN stmts
               /\ \A i \in DOMAIN stmts : stmts[i] \in {"pod", "pv"} => i = 1
<1>. DEFINE stmts == Statements[Operation(g, k)]
<1>1. Operation(g, k) \in DOMAIN Statements
  BY OperationTyped
<1>2. /\ stmts[Len(stmts)] = "rv"
      /\ Len(stmts) \in 2..5
      /\ DOMAIN stmts = 1..Len(stmts)
      /\ \A i \in DOMAIN stmts : stmts[i] \in {"pod", "pv"} => i = 1
  BY <1>1, StatementsOrdered
<1>. HIDE DEF stmts
<1>3. Len(stmts) \in 1..Len(stmts)
  BY <1>2
<1>. QED
  BY <1>2, <1>3 DEF stmts

\* Every call writes its version.
LEMMA VersionWritten ==
    ASSUME NEW g \in Goroutine, NEW k \in DOMAIN Calls[g]
    PROVE  <<g, k, "rv">> \in Writes(g, k)
<1>. DEFINE stmts == Statements[Operation(g, k)]
<1>1. /\ stmts[Len(stmts)] = "rv"
      /\ Len(stmts) \in DOMAIN stmts
  BY OperationOrdered
<1>2. Writes(g, k) = {<<g, k, stmts[i]>> : i \in DOMAIN stmts}
  BY DEF Writes
<1>. HIDE DEF stmts
<1>. QED
  BY <1>1, <1>2

\* What a step of g may do to the tables: to store something of its call, a new
\* row with the version only.
StoresSome(g) ==
    \/ UNCHANGED <<stored, version>>
    \/ \E W \in SUBSET Writes(g, call[g]) :
        /\ Store(g, W)
        /\ <<g, call[g], "pod">> \in W => <<g, call[g], "rv">> \in W

\* After such a step VersionsMove holds for all if it does for g.
LEMMA OneMoves ==
    ASSUME TxInv, VersionsMove, NEW g \in Goroutine, pc[g] = "run",
           StoresSome(g), UNCHANGED <<call, running>>,
           \A h \in Goroutine \ {g} :
               /\ pc'[h] = pc[h] /\ pos'[h] = pos[h]
               /\ session'[h] = session[h] /\ pending'[h] = pending[h],
           pc'[g] = "idle" => version'[g] = call[g],
           AtCommit(g)' =>
               \/ <<g, call[g], "rv">> \in pending'[g]
               \/ pending'[g] = {} /\ version'[g] = call[g],
           session'[g] = "aborted" => pending'[g] = {} /\ pos'[g] > 1,
           session'[g] = "lost" => pending'[g] = {}
    PROVE  VersionsMove'
<1>1. /\ call[g] \in Nat /\ version \in [Goroutine -> Nat] /\ running
      /\ call[g] \in {version[g], version[g] + 1}
      /\ call[g] \in DOMAIN Calls[g]
  BY DEF TxInv, VersionsMove
<1>2. PICK W \in SUBSET Writes(g, call[g]) :
        /\ stored' = stored \cup W
        /\ \A h \in Goroutine \ {g} : version'[h] = version[h]
        /\ version'[g] = IF <<g, call[g], "rv">> \in W
                           THEN call[g] ELSE version[g]
        /\ <<g, call[g], "pod">> \in W => <<g, call[g], "rv">> \in W
  <2>1. CASE UNCHANGED <<stored, version>>
    <3>. WITNESS {} \in SUBSET Writes(g, call[g])
    <3>. QED
      BY <2>1
  <2>2. CASE ~UNCHANGED <<stored, version>>
    BY <1>1, <2>2 DEF StoresSome, Store
  <2>. QED
    BY <2>1, <2>2
<1>3. version'[g] \in {version[g], call[g]} /\ version[g] <= version'[g]
  BY <1>1, <1>2
<1>4. ASSUME NEW h \in Goroutine, NEW k \in DOMAIN Calls[h],
             <<h, k, "rv">> \in stored' \/ <<h, k, "pod">> \in stored'
      PROVE  k <= version'[h]
  <2>1. CASE <<h, k, "rv">> \in stored \/ <<h, k, "pod">> \in stored
    <3>1. k <= version[h] /\ k \in Nat
      BY <2>1, NumbersTyped DEF VersionsMove
    <3>. QED
      BY <1>1, <1>2, <1>3, <3>1
  <2>2. CASE <<h, k, "rv">> \in W \/ <<h, k, "pod">> \in W
    <3>1. h = g /\ k = call[g]
      BY <2>2 DEF Writes
    <3>. QED
      BY <1>1, <1>2, <2>2, <3>1
  <2>. QED
    BY <1>2, <1>4, <2>1, <2>2
<1>5. ASSUME NEW h \in Goroutine
      PROVE  /\ running' /\ pc'[h] = "idle" => call'[h] = version'[h]
             /\ pc'[h] # "idle" => call'[h] \in {version'[h], version'[h] + 1}
             /\ AtCommit(h)' =>
                 \/ <<h, call'[h], "rv">> \in pending'[h]
                 \/ pending'[h] = {} /\ version'[h] = call'[h]
             /\ session'[h] = "aborted" => pending'[h] = {} /\ pos'[h] > 1
             /\ session'[h] = "lost" => pending'[h] = {}
  <2>1. CASE h = g
    BY <1>1, <1>3, <2>1
  <2>2. CASE h # g
    <3>1. AtCommit(h)' <=> AtCommit(h)
      BY <2>2 DEF AtCommit, Last, Operation
    <3>. QED
      BY <1>2, <2>2, <3>1 DEF VersionsMove
  <2>. QED
    BY <2>1, <2>2
<1>. QED
  BY <1>4, <1>5 DEF VersionsMove

\* Where Exit leaves them, goroutines are not running.
LEMMA ExitMoves ==
    ASSUME TxInv, VersionsMove, Exit, UNCHANGED <<stored, version>>
    PROVE  VersionsMove'
<1>1. /\ ~running'
      /\ \A g \in Goroutine :
            pc'[g] = "idle" /\ session'[g] = "none" /\ pending'[g] = {}
  BY DEF Exit
<1>2. \A g \in Goroutine : ~AtCommit(g)'
  BY <1>1 DEF AtCommit
<1>. QED
  BY <1>1, <1>2 DEF VersionsMove

\* The next attempt of the same call.
LEMMA RetryMoves ==
    ASSUME TxInv, VersionsMove, NEW g \in Goroutine, pc[g] = "run", Retry(g),
           StoresSome(g)
    PROVE  VersionsMove'
<1>1. /\ pc' = [pc EXCEPT ![g] = "begin"]
      /\ session' = [session EXCEPT ![g] = "none"]
      /\ pending' = [pending EXCEPT ![g] = {}]
      /\ UNCHANGED <<call, pos, running>>
  BY DEF Retry, Leave
<1>2. /\ pc'[g] = "begin" /\ session'[g] = "none"
      /\ \A h \in Goroutine \ {g} :
            /\ pc'[h] = pc[h] /\ pos'[h] = pos[h]
            /\ session'[h] = session[h] /\ pending'[h] = pending[h]
  BY <1>1 DEF TxInv
<1>3. ~AtCommit(g)'
  BY <1>2 DEF AtCommit
<1>. QED
  BY <1>1, <1>2, <1>3, OneMoves

\* A statement that fails is never the one for the version, unless its error
\* is noticed.
LEMMA ErrorMoves ==
    ASSUME TxInv, VersionsMove, NEW g \in Goroutine, AtStatement(g),
           NEW s \in Session, NEW kept, Error(g, s, kept),
           s \in {"aborted", "lost"} => kept = {},
           UNCHANGED <<stored, version>>
    PROVE  VersionsMove'
<1>1. pc[g] = "run" /\ pos[g] \in 1..Last(g) /\ call[g] \in DOMAIN Calls[g]
  BY DEF AtStatement, TxInv, Last
<1>2. CASE Exit
  BY <1>2, ExitMoves
<1>3. CASE Retry(g)
  BY <1>1, <1>3, RetryMoves DEF StoresSome
<1>4. CASE Ignored(g)
  <2>1. /\ pos' = [pos EXCEPT ![g] = pos[g] + 1]
        /\ session' = [session EXCEPT ![g] = s]
        /\ pending' = [pending EXCEPT ![g] = kept]
        /\ UNCHANGED <<pc, call, running>>
    BY <1>4 DEF Error
  <2>2. Statement(g) # "rv"
    BY <1>4 DEF Ignored
  <2>3. pos[g] # Last(g) /\ Last(g) \in Nat
    BY <1>1, <2>2, OperationOrdered DEF Statement, Last
  <2>4. /\ pos'[g] = pos[g] + 1 /\ session'[g] = s /\ pending'[g] = kept
        /\ \A h \in Goroutine \ {g} :
            /\ pc'[h] = pc[h] /\ pos'[h] = pos[h]
            /\ session'[h] = session[h] /\ pending'[h] = pending[h]
    BY <2>1 DEF TxInv
  <2>5. ~AtCommit(g)'
    BY <1>1, <2>1, <2>3, <2>4 DEF AtCommit, Last, Operation
  <2>6. pos'[g] > 1
    BY <1>1, <2>3, <2>4
  <2>7. pc'[g] # "idle"
    BY <1>1, <2>1
  <2>. QED
    BY <1>1, <2>1, <2>4, <2>5, <2>6, <2>7, OneMoves
       DEF StoresSome
<1>. QED
  BY <1>2, <1>3, <1>4 DEF Error

LEMMA ExecuteMoves ==
    ASSUME TxInv, VersionsMove, NEW g \in Goroutine, Execute(g)
    PROVE  VersionsMove'
<1>1. /\ pc[g] = "run" /\ pos[g] \in 1..Last(g) /\ session[g] # "lost"
      /\ call[g] \in DOMAIN Calls[g]
      /\ pos' = [pos EXCEPT ![g] = pos[g] + 1]
      /\ UNCHANGED <<pc, call, session, running>>
  BY DEF Execute, AtStatement, TxInv, Last, Fails
<1>2. /\ Write(g) \in Writes(g, call[g])
      /\ Write(g) = <<g, call[g], Statement(g)>>
      /\ pos[g] = Last(g) => Statement(g) = "rv"
      /\ Statement(g) = "pod" => pos[g] = 1
      /\ Last(g) \in Nat
  BY <1>1, OperationOrdered DEF Write, Writes, Statement, Last
<1>3. /\ pos'[g] = pos[g] + 1
      /\ \A h \in Goroutine \ {g} : pos'[h] = pos[h]
  BY <1>1 DEF TxInv
<1>4. AtCommit(g)' => pos[g] = Last(g)
  BY <1>1, <1>2, <1>3 DEF AtCommit, Last, Operation
<1>5. CASE session[g] = "open"
  <2>1. /\ pending' = [pending EXCEPT ![g] = pending[g] \cup {Write(g)}]
        /\ UNCHANGED <<stored, version>>
    BY <1>5 DEF Execute
  <2>2. /\ pending'[g] = pending[g] \cup {Write(g)}
        /\ \A h \in Goroutine \ {g} : pending'[h] = pending[h]
    BY <2>1 DEF TxInv
  <2>3. AtCommit(g)' => <<g, call[g], "rv">> \in pending'[g]
    BY <1>2, <1>4, <2>2
  <2>. QED
    BY <1>1, <1>3, <1>5, <2>1, <2>2, <2>3, OneMoves DEF StoresSome
<1>6. CASE session[g] = "aborted"
  <2>1. /\ Store(g, {Write(g)}) /\ UNCHANGED pending
        /\ pending[g] = {} /\ pos[g] > 1
    BY <1>6 DEF Execute, VersionsMove
  <2>2. StoresSome(g)
    <3>1. /\ {Write(g)} \in SUBSET Writes(g, call[g])
          /\ <<g, call[g], "pod">> \notin {Write(g)}
      BY <1>2, <2>1
    <3>. QED
      BY <2>1, <3>1 DEF StoresSome
  <2>3. AtCommit(g)' => version'[g] = call[g]
    BY <1>2, <1>4, <2>1 DEF Store, TxInv
  <2>4. pos'[g] > 1
    BY <1>1, <1>3
  <2>. QED
    BY <1>1, <1>3, <1>6, <2>1, <2>2, <2>3, <2>4, OneMoves
<1>. QED
  BY <1>5, <1>6 DEF Execute

\* At the commit the version is among what has been written, unless it has
\* been stored on its own.
LEMMA CommitMoves ==
    ASSUME TxInv, VersionsMove, NEW g \in Goroutine, AtCommit(g),
           Store(g, pending[g])
    PROVE  version'[g] = call[g] /\ StoresSome(g)
<1>1. /\ pending[g] \in SUBSET Writes(g, call[g])
      /\ \/ <<g, call[g], "rv">> \in pending[g]
         \/ pending[g] = {} /\ version[g] = call[g]
  BY AllWritten DEF VersionsMove
<1>2. StoresSome(g)
  BY <1>1 DEF StoresSome
<1>3. version'[g] = call[g]
  BY <1>1 DEF Store, TxInv
<1>. QED
  BY <1>2, <1>3

LEMMA ProceedMoves ==
    ASSUME TxInv, VersionsMove, NEW g \in Goroutine, Proceed(g)
    PROVE  VersionsMove'
<1>1. CASE Receive(g)
  <2>1. /\ running /\ pc[g] = "idle" /\ call[g] = version[g]
        /\ UNCHANGED <<pos, session, pending, stored, version, running>>
        /\ pc'[g] = "begin" /\ call'[g] = call[g] + 1
        /\ \A h \in Goroutine \ {g} : pc'[h] = pc[h] /\ call'[h] = call[h]
    BY <1>1 DEF Receive, TxInv, VersionsMove
  <2>2. ~AtCommit(g)' /\ \A h \in Goroutine \ {g} : AtCommit(h)' <=> AtCommit(h)
    BY <2>1 DEF AtCommit, Last, Operation
  <2>3. session[g] = "aborted" => pending[g] = {} /\ pos[g] > 1
    BY DEF VersionsMove
  <2>. QED
    BY <2>1, <2>2, <2>3 DEF VersionsMove
<1>2. CASE Begin(g)
  <2>1. /\ call[g] \in DOMAIN Calls[g] /\ pc[g] = "begin"
        /\ UNCHANGED <<pending, stored, version, call, running>>
        /\ pc'[g] = "run" /\ pos'[g] = 1 /\ session'[g] = "open"
        /\ \A h \in Goroutine \ {g} :
            pc'[h] = pc[h] /\ pos'[h] = pos[h] /\ session'[h] = session[h]
    BY <1>2 DEF Begin, TxInv
  <2>2. ~AtCommit(g)'
    <3>1. Last(g) \in 2..5
      BY <2>1, OperationOrdered DEF Last
    <3>2. Last(g)' = Last(g)
      BY <2>1 DEF Last, Operation
    <3>. QED
      BY <2>1, <3>1, <3>2 DEF AtCommit
  <2>3. \A h \in Goroutine \ {g} : AtCommit(h)' <=> AtCommit(h)
    BY <2>1 DEF AtCommit, Last, Operation
  <2>. QED
    BY <2>1, <2>2, <2>3 DEF VersionsMove
<1>3. CASE SkipDuplicate(g)
  <2>1. /\ AtStatement(g) /\ Duplicate(g) /\ pc[g] = "run"
        /\ call[g] \in DOMAIN Calls[g] /\ pos[g] \in 1..Last(g)
        /\ Return(g) /\ UNCHANGED <<stored, version>>
    BY <1>3 DEF SkipDuplicate, AtStatement, TxInv, Last
  <2>2. Write(g) \in Writes(g, call[g])
    BY <2>1, OperationTyped DEF Write, Writes, Statement, Last
  <2>3. call[g] <= version[g]
    <3>1. CASE Statement(g) = "pod"
      BY <2>1, <3>1 DEF Duplicate, Write, VersionsMove
    <3>2. CASE Statement(g) = "pv"
      <4>1. ~Lenient(g, call[g])
        <5>1. Statements["InsertPodMounts"]
                = <<"pod", "container", "mount1", "mount2", "rv">>
          BY DEF Statements
        <5>2. CASE Operation(g, call[g]) = "InsertPodMounts"
          BY <2>1, <3>2, <5>1, <5>2 DEF Statement, Last
        <5>. QED
          BY <5>2 DEF Lenient
      <4>2. Writes(g, call[g]) \subseteq stored
        BY <2>1, <2>2, <4>1
        DEF TxInv, AllOrNothing, Whole, Untouched, Duplicate
      <4>. QED
        BY <2>1, <4>2, VersionWritten DEF VersionsMove
    <3>. QED
      BY <2>1, <3>1, <3>2 DEF Duplicate
  <2>4. call[g] = version[g]
    <3>1. version[g] \in Nat
      BY DEF TxInv
    <3>2. call[g] \in {version[g], version[g] + 1}
      BY <2>1 DEF VersionsMove
    <3>. QED
      BY <2>3, <3>1, <3>2
  <2>5. /\ UNCHANGED <<call, pos, running>>
        /\ pc'[g] = "idle" /\ session'[g] = "none" /\ pending'[g] = {}
        /\ \A h \in Goroutine \ {g} :
            /\ pc'[h] = pc[h] /\ pos'[h] = pos[h]
            /\ session'[h] = session[h] /\ pending'[h] = pending[h]
    BY <2>1 DEF Return, Leave, TxInv
  <2>6. ~AtCommit(g)'
    BY <2>5 DEF AtCommit
  <2>. QED
    BY <2>1, <2>4, <2>5, <2>6, OneMoves DEF StoresSome
<1>4. CASE Refuse(g)
  <2>1. /\ AtStatement(g) /\ Error(g, session[g], pending[g])
        /\ UNCHANGED <<stored, version>>
        /\ session[g] \in Session
        /\ session[g] \in {"aborted", "lost"} => pending[g] = {}
    BY <1>4 DEF Refuse, VersionsMove, TxInv
  <2>. QED
    BY <2>1, ErrorMoves
<1>5. CASE Commit(g)
  <2>1. /\ AtCommit(g) /\ pc[g] = "run" /\ Store(g, pending[g]) /\ Return(g)
    BY <1>5 DEF Commit, AtCommit
  <2>2. /\ UNCHANGED <<call, pos, running>>
        /\ pc'[g] = "idle" /\ session'[g] = "none" /\ pending'[g] = {}
        /\ \A h \in Goroutine \ {g} :
            /\ pc'[h] = pc[h] /\ pos'[h] = pos[h]
            /\ session'[h] = session[h] /\ pending'[h] = pending[h]
    BY <2>1 DEF Return, Leave, TxInv
  <2>3. ~AtCommit(g)'
    BY <2>2 DEF AtCommit
  <2>. QED
    BY <2>1, <2>2, <2>3, CommitMoves, OneMoves
<1>. QED
  BY <1>1, <1>2, <1>3, <1>4, <1>5, ExecuteMoves DEF Proceed

LEMMA NextMoves ==
    ASSUME TxInv, VersionsMove, [Next]_vars
    PROVE  VersionsMove'
<1>1. ASSUME NEW g \in Goroutine, Deadlock(g) \/ LockTimeout(g) \/ Disconnect(g)
      PROVE  VersionsMove'
  <2>1. AtStatement(g) /\ UNCHANGED <<stored, version>>
    BY <1>1 DEF Deadlock, LockTimeout, Disconnect
  <2>2. session[g] \in {"aborted", "lost"} => pending[g] = {}
    BY DEF VersionsMove
  <2>3. \E s \in Session : \E kept :
            Error(g, s, kept) /\ (s \in {"aborted", "lost"} => kept = {})
    BY <1>1, <2>2 DEF Deadlock, LockTimeout, Disconnect, Session
  <2>. QED
    BY <2>1, <2>3, ErrorMoves
<1>2. ASSUME NEW g \in Goroutine, DisconnectAtCommit(g)
      PROVE  VersionsMove'
  <2>1. AtCommit(g) /\ pc[g] = "run" /\ Retry(g)
    BY <1>2 DEF DisconnectAtCommit, AtCommit
  <2>2. CASE UNCHANGED <<stored, version>>
    BY <2>1, <2>2, RetryMoves DEF StoresSome
  <2>3. CASE Store(g, pending[g])
    BY <2>1, <2>3, CommitMoves, RetryMoves
  <2>. QED
    BY <1>2, <2>2, <2>3 DEF DisconnectAtCommit
<1>3. CASE Crash
  BY <1>3, ExitMoves DEF Crash
<1>4. CASE Restart
  <2>1. /\ ~running /\ call' = version
        /\ UNCHANGED <<pc, pos, session, pending, stored, version>>
        /\ \A g \in Goroutine : pc[g] = "idle"
    BY <1>4 DEF Restart, TxInv
  <2>2. \A g \in Goroutine : ~AtCommit(g)'
    BY <2>1 DEF AtCommit
  <2>. QED
    BY <2>1, <2>2 DEF VersionsMove
<1>5. CASE UNCHANGED vars
  BY <1>5 DEF vars, VersionsMove, AtCommit, Last, Operation
<1>. QED
  BY <1>1, <1>2, <1>3, <1>4, <1>5, ProceedMoves DEF Next

\* What is stored becomes complete by a step of g in its call only.
LEMMA OneCompletes ==
    ASSUME NEW g \in Goroutine, call[g] \in DOMAIN Calls[g],
           NEW W, W \subseteq Writes(g, call[g]), stored' = stored \cup W
    PROVE  Completed' = IF Writes(g, call[g]) \subseteq stored'
                          THEN Completed \cup {<<g, call[g]>>}
                          ELSE Completed
<1>1. <<g, call[g]>> \in Events
  BY DEF Events
<1>2. Completed' = {e \in Events : Writes(e[1], e[2]) \subseteq stored'}
  BY DEF Completed, Events, Whole, Writes, Operation
<1>3. ASSUME NEW e \in Events, e # <<g, call[g]>>
      PROVE  Writes(e[1], e[2]) \subseteq stored'
                <=> Writes(e[1], e[2]) \subseteq stored
  <2>1. e = <<e[1], e[2]>>
    BY DEF Events
  <2>2. Writes(g, call[g]) \cap Writes(e[1], e[2]) = {}
    BY <1>3, <2>1, WritesDistinct
  <2>. QED
    BY <2>2
<1>4. Writes(g, call[g]) \subseteq stored => Writes(g, call[g]) \subseteq stored'
  OBVIOUS
<1>. HIDE DEF Events
<1>. QED
  BY <1>1, <1>2, <1>3, <1>4 DEF Completed, Whole

\* Nothing is stored, or all of a call with its version, or of one that may go
\* wrong some of it.
LEMMA StoreIsAtomic ==
    ASSUME TxInv, TxTypes, Covered, VersionsMove, VersionsMove',
           NEW g \in Goroutine, pc[g] = "run",
           NEW W, W \subseteq Writes(g, call[g]), Store(g, W),
           ~Lenient(g, call[g]) => W = Writes(g, call[g])
    PROVE  [Atomic!Next]_(Atomic!vars)
<1>1. /\ call[g] \in DOMAIN Calls[g] /\ call[g] \in Nat
      /\ version \in [Goroutine -> Nat] /\ call[g] <= Len(Calls[g])
      /\ call[g] \in {version[g], version[g] + 1}
      /\ Len(Calls[g]) \in Nat
  <2>1. Len(Calls[g]) \in Nat
    BY CallsTyped
  <2>. QED
    BY <2>1 DEF TxInv, TxTypes, VersionsMove
<1>2. /\ stored' = stored \cup W
      /\ version' = IF <<g, call[g], "rv">> \in W
                      THEN [version EXCEPT ![g] = call[g]] ELSE version
  BY DEF Store
<1>3. Completed' = IF Writes(g, call[g]) \subseteq stored'
                     THEN Completed \cup {<<g, call[g]>>} ELSE Completed
  BY <1>1, <1>2, OneCompletes
<1>4. <<g, call[g]>> \in Events
  BY <1>1 DEF Events
<1>5. Lenient(g, call[g]) => <<g, call[g]>> \in {e \in Events : Lenient(e[1], e[2])}
  BY <1>4
<1>6. CASE version'[g] = version[g]
  <2>1. version' = version
    BY <1>1, <1>2, <1>6
  <2>2. CASE Completed' = Completed
    BY <2>1, <2>2 DEF Atomic!vars
  <2>3. CASE Completed' # Completed
    <3>1. /\ Writes(g, call[g]) \subseteq stored'
          /\ Completed' = Completed \cup {<<g, call[g]>>}
          /\ <<g, call[g]>> \notin Completed
      BY <1>3, <2>3
    <3>2. call[g] <= version[g]
      BY <1>1, <1>6, <3>1, VersionWritten DEF VersionsMove
    <3>3. call[g] = version[g]
      BY <1>1, <3>2
    <3>4. Lenient(g, call[g])
      <4>1. ~Whole(g, call[g])
        BY <1>4, <3>1 DEF Completed
      <4>. QED
        BY <1>1, <3>2, <4>1 DEF Covered
    <3>5. Atomic!Repair(g)
      BY <1>5, <2>1, <3>1, <3>3, <3>4 DEF Atomic!Repair, Atomic!Latest
    <3>. QED
      BY <3>5 DEF Atomic!Next
  <2>. QED
    BY <2>2, <2>3
<1>7. CASE version'[g] # version[g]
  <2>1. /\ version' = [version EXCEPT ![g] = version[g] + 1]
        /\ version[g] + 1 = call[g]
    BY <1>1, <1>2, <1>7
  <2>2. version[g] < Len(Calls[g])
    BY <1>1, <2>1
  <2>3. Atomic!Advance(g) /\ Atomic!Latest(g)' = <<g, call[g]>>
    BY <1>1, <2>1, <2>2 DEF Atomic!Advance, Atomic!Latest
  <2>4. CASE Writes(g, call[g]) \subseteq stored'
    <3>1. Atomic!Perform(g)
      BY <1>3, <2>3, <2>4 DEF Atomic!Perform
    <3>. QED
      BY <3>1 DEF Atomic!Next
  <2>5. CASE ~(Writes(g, call[g]) \subseteq stored')
    <3>1. Lenient(g, call[g]) /\ Completed' = Completed
      BY <1>2, <1>3, <2>5
    <3>2. Atomic!Botch(g)
      BY <1>5, <2>3, <3>1 DEF Atomic!Botch
    <3>. QED
      BY <3>2 DEF Atomic!Next
  <2>. QED
    BY <2>4, <2>5
<1>. QED
  BY <1>6, <1>7

\* Every other step does not show.
LEMMA NothingShows ==
    ASSUME UNCHANGED <<stored, version>>
    PROVE  UNCHANGED Atomic!vars
<1>1. Completed' = Completed
  BY DEF Completed, Events, Whole, Writes, Operation
<1>. QED
  BY <1>1 DEF Atomic!vars

LEMMA NextIsAtomic ==
    ASSUME TxInv, TxTypes, Covered, VersionsMove, VersionsMove', [Next]_vars
    PROVE  [Atomic!Next]_(Atomic!vars)
<1>1. CASE UNCHANGED <<stored, version>>
  BY <1>1, NothingShows
<1>2. ASSUME NEW g \in Goroutine, Execute(g), ~UNCHANGED <<stored, version>>
      PROVE  [Atomic!Next]_(Atomic!vars)
  <2>1. /\ pc[g] = "run" /\ session[g] = "aborted" /\ Store(g, {Write(g)})
        /\ call[g] \in DOMAIN Calls[g] /\ pos[g] \in 1..Last(g)
    BY <1>2 DEF Execute, AtStatement, TxInv, Last
  <2>2. Lenient(g, call[g])
    BY <2>1 DEF TxInv
  <2>3. {Write(g)} \subseteq Writes(g, call[g])
    BY <2>1, OperationTyped DEF Write, Writes, Statement, Last
  <2>. QED
    BY <2>1, <2>2, <2>3, StoreIsAtomic
<1>3. ASSUME NEW g \in Goroutine, AtCommit(g), Store(g, pending[g])
      PROVE  [Atomic!Next]_(Atomic!vars)
  <2>1. pc[g] = "run"
    BY <1>3 DEF AtCommit
  <2>. QED
    BY <1>3, <2>1, AllWritten, StoreIsAtomic
<1>4. CASE ~UNCHANGED <<stored, version>>
  <2>1. \E g \in Goroutine :
            Execute(g) \/ (AtCommit(g) /\ Store(g, pending[g]))
    BY <1>4 DEF Next, Proceed, Receive, Begin, SkipDuplicate, Refuse, Commit,
       Deadlock, LockTimeout, Disconnect, DisconnectAtCommit, Crash, Restart,
       vars
  <2>. QED
    BY <1>2, <1>3, <1>4, <2>1
<1>. QED
  BY <1>1, <1>4

LEMMA AtomicStarts == Init => Atomic!Init
<1>1. ASSUME Init PROVE Completed = {}
  <2>1. ASSUME NEW e \in Events PROVE ~Whole(e[1], e[2])
    <3>1. e[1] \in Goroutine /\ e[2] \in DOMAIN Calls[e[1]]
      BY DEF Events
    <3>. QED
      BY <1>1, <3>1, VersionWritten DEF Whole, Init
  <2>. QED
    BY <2>1 DEF Completed
<1>. QED
  BY <1>1 DEF Init, Atomic!Init

\* The calls implement atomic ones: over any deadlocks, timeouts, broken
\* connections, crashes and restarts, each call of runTx is stored once, with
\* its resource version and in the order of the events, and versions never go
\* back; only an InsertPod with mounts may store its version and less than all.
THEOREM CallsAreAtomic == Spec => ImplementsAtomicCalls
<1>1. Init => /\ TxInv /\ TxTypes /\ NothingBehind /\ Covered /\ VersionsMove
              /\ Atomic!Init
  <2>1. \A g \in Goroutine : Calls[g] \in Seq(DOMAIN Statements)
    BY CallsTyped
  <2>2. ASSUME Init PROVE VersionsMove
    BY <2>2 DEF Init, VersionsMove, AtCommit
  <2>3. ASSUME Init PROVE TxTypes
    BY <2>1, <2>3, FaultsTyped DEF Init, TxTypes
  <2>4. ASSUME Init PROVE NothingBehind /\ Covered
    BY <2>4, NumbersTyped DEF Init, NothingBehind, Covered
  <2>. QED
    BY <2>2, <2>3, <2>4, InitTxInv, AtomicStarts
<1>2. TxInv /\ TxTypes /\ NothingBehind /\ Covered /\ VersionsMove /\ [Next]_vars
        => /\ TxInv' /\ TxTypes' /\ NothingBehind' /\ Covered' /\ VersionsMove'
           /\ [Atomic!Next]_(Atomic!vars)
  BY NextTxInv, NextTypes, NextCovered, NextMoves, NextIsAtomic
<1>. QED
  BY <1>1, <1>2, PTL DEF Spec, ImplementsAtomicCalls, Atomic!Spec
=============================================================================
