# A TLA+ specification of kubevoltracker

kubevoltracker watches the pods, persistent volume claims and persistent
volumes of a Kubernetes cluster and records in MySQL who used which storage and
when. This directory models the part of it that decides whether that record is
right: the watch loops, the event handlers, the transactions, the retry layer
under them and the channels between the goroutines. TLC checks the modules on
small instances, and TLAPS proves the central properties for all of them.

Paths below are relative to the repository (`watcher.go:251` is
`src/watcher.go`, line 251).

## 1. The system

| component | state | operations |
|---|---|---|
| main (`kubevoltracker.go`) | none | connects, starts a watch of each of three resources, waits for a signal |
| Watcher (`watcher.go`) | `stopChannels`; in each goroutine `initialize`, `rv`, the event in hand | `Watch`, `Stop`, `Destroy`, `getRV`, `handlePods`, `handlePVs`, `handlePVCs` |
| API client (`apiclient.go`, `events.go`) | per watch: `eventChan`, `done`, the response body; two goroutines, a reader and a closer | `Watch` |
| database manager (`dbmanager/types.go`, `dbmanager/mysql`) | the tables `pod`, `pvc`, `pv`, `pod_mount`, `container`, `nfs`, `iscsi`, `resource_version` | inserts, updates, deletions, `BindPVC`, `GetRV`; each is a transaction run by `runTx` (`InsertNFS` has its own) |
| mock manager (`dbmanager/mock`) | maps of what it was told, ids of exports, a counter of deletions | the same interface, for the tests of `watcher_test.go` |
| `kubectl`, `load_test` | test tools | |
| `queries`, `docker_image`, `kubernetes-yaml` | none | read-only SQL, deployment |

How they interact. A goroutine per resource reads the resource version stored
for its resource, asks the API server for the events after it (or, without a
version, for a list of what there is, followed by events), and hands them to its
handler one by one. A handler calls the database manager; each call is one
transaction, which also stores the event's version. So the tables are the only
memory that survives, and the stored version is a promise that everything up to
it is in them. The three goroutines share nothing else: an event of one resource
may be handled long before or after the event of another that preceded it.
Trackers of different namespaces may share a database. They then handle the same
volumes, which have no namespace, and share the volumes' version.

What is hard, component by component, and what correct means:

- **Watch loop.** Versions expire, servers close watches, lists arrive in any
  order, events are sent twice, the process crashes between any two
  transactions. *The stored version must never cover an event that is not
  recorded; every event is recorded in the end.*
- **Handlers.** A pod names its claims and may be handled before or after them;
  volumes are bound to claims that have no row yet; deletions come late and are
  replayed. *Rows tell the truth about the cluster; a closed entry is final; a
  mount of a live pod ends up with the claim it uses.*
- **Retry layer.** Deadlocks, lock timeouts, broken connections, errors ignored
  or fatal in the middle. *A call is stored whole or not at all, and comes to an
  end.*
- **Exports.** `InsertNFS` and `InsertISCSI` look for an export and insert it if
  it is not there; trackers race, attempts fail and are repeated, patterns match
  more than was meant. *A volume refers to a row that exists and is its own.*
- **Several trackers.** One stores a version that another resumes from, or
  overwrites what a faster one has recorded. *What the common version covers is
  recorded, or some goroutine is still to see it; when all have caught up the
  rows are current.* Both hold only while no watch is interrupted (section 5).
- **Client.** Unbuffered channels, two ways to end a session at either end,
  `Stop` and `Destroy` at any point. *No panic, no connection left open, stopped
  goroutines end.*
- **Mock.** No versions, so every watch lists again; no locks. *The maps show
  the cluster once a goroutine has caught up, and never need an entry they do
  not have.*

`PROJECT.json` lists these hazards at their lines, with the properties aimed at
each.

## 2. Modules

| module | what it is |
|---|---|
| `Resources` | UIDs, names, timestamps, events: `resources/`, `events.go` |
| `Cluster` | *external*: users, controllers, kubelet, API server, etcd compaction |
| `VolumeDB` | the tables, and one action per committed transaction of `dbmanager/mysql` |
| `Tracker` | EXTENDS both: the goroutines of `Watcher.Watch`, the handlers, faults |
| `UsageLedger` | abstract specification: a ledger of objects and their use of storage |
| `TrackerProperties` | the properties, and the refinement mapping to the ledger |
| `ClusterInvariant` | what holds of the cluster whatever watches it; a part of each invariant below |
| `TrackerInvariant` | the inductive invariant behind `CheckpointCovers` |
| `LedgerInvariant` | EXTENDS it: those behind the properties of rows and mounts, and the refinement |
| `Transactions` | `runTx` and its statements, over a server and a network that fail |
| `AtomicCalls` | abstract specification: calls that are made once, in order, each with its version |
| `WatchClient` | the channels and goroutines behind `Watcher.Watch`, `Stop` and `APIClient.Watch` |
| `SharedVolumes` | EXTENDS `Cluster`, uses `VolumeDB`: several goroutines that handle volumes on one database, with `InsertNFS` and `InsertISCSI` statement by statement |
| `SharedVolumesInvariant` | the inductive invariant behind `SharedVersionCovers` and `RowsCurrent` |
| `MockTracker` | EXTENDS `TrackerProperties`: the loops and handlers on the mock manager |
| `MockInvariant` | the inductive invariant behind `MapsConverge` and `UpdatesFindEntries` |
| `MCTracker`, `MCTransactions`, `MCWatchClient`, `MCSharedVolumes`, `MCMockTracker` | instances for TLC |
| `ClusterProofs`, `TrackerProofs`, `CheckpointProofs`, `LedgerProofs`, `TransactionProofs`, `ClientProofs`, `SharedVolumesProofs`, `MockProofs` | TLAPS proofs; the first has the lemmas about `Cluster` the others need, and from `TrackerProofs` to `LedgerProofs` each builds on the one before |

Three levels fit together like this: `Tracker` takes it that every call is one
atomic transaction and that events arrive at `Offered`; `Transactions` opens the
first assumption, `WatchClient` the second. `Transactions!DamageContained` is
what `Tracker` relies on, and `AtomicCalls` is how a call looks from there;
where it is not covered (a pod with mounts, section 5) `Tracker` is too
optimistic. `SharedVolumes` opens a third one, that `recordSource` is a single
step and that no other goroutine writes the rows and the version of volumes.
`MockTracker` keeps the loop and replaces the database.

### Tracker and the code

| code | model |
|---|---|
| `getRV`, `client.Watch` (`watcher.go:251-252`) | `ConnectList` (no version, or `initialize`), `ConnectFrom` |
| status 410 (`watcher.go:261-273`, `apiclient.go:154-173`) | `ConnectExpired` |
| EOF (`apiclient.go:119-124`) | `Drop` |
| duplicate check (`watcher.go:282`) | `SkipDuplicate`; `Receives` is its negation |
| `handlePods`, `handlePVCs` | an action each: at most one transaction |
| `handlePVs` | `handlePVs` takes the event; `recordSource`, `storePV`, `bindPV` are its transactions, a crash may come before each |
| `log.Fatal` in `InsertPV`, `UpdatePV` | `FatalBackend` |
| `*p.DeletionTimestamp` (`watcher.go:102`) | `PanicNoTimestamp` |
| signal, crash, other `log.Fatal` | `Crash`; `Exit` says what is lost |
| `main` | `Started`, `Restart` |

`pc[r]` is where the goroutine of resource `r` is, `rv[r]` and `initialize[r]`
are the code's variables, `listing[r]` and `cursor[r]` are what the server still
has to send: the rest of a list (in any order), and the events after a revision.
`missed[r]` is a history variable. It collects the objects of which a fault can
have cost an event, by three definitions a reader can check one at a time:
`Hidden` (a list after an expired version does not show deletions), `Torn` (a
list that was cut off) and `TornBind` (a crash between `InsertPV` and
`BindPVC`). No handler reads it. The last two are deviations from the README
(section 5; the run `torn_bind` shows the last); the properties excuse exactly
these objects.

Left out of `Tracker`: ERROR events (all handlers ignore them), the container
table (its rows are inserted with the pod's and never change), columns that are
copied from the object and never looked at. Names, exports and namespaces are
model values, compared for equality. Timestamps are revisions divided by `Tick`:
`Tick = 1` gives each object its own creation time, a larger one makes several
share it. There is no clock skew; `unversioned.Now()` is the time of the latest
revision. `bind_time` has a resolution of microseconds, so `VolumeDB!BindPVC`
always changes the row; that a repeated one does not is in `Transactions`.
TIMESTAMP columns without NOT NULL are taken to be nullable
(`explicit_defaults_for_timestamp`). Transactions of different goroutines are
serializable in `Tracker`.

`Cluster` is the environment of the code. Its assumptions: names are unique
among the live claims of a namespace; claims are deleted only when no live pod
names them (`documentation/proposal.md:270-272`); a pod runs only when its
claims exist; a volume is bound to one claim at a time. `FreePV` is the
controller's change of a new or recycled volume, `EditPV` the user's of an
available one, as `kubectl/updater.go` makes it: another size, and perhaps
another export (`watcher_test.go:213`, `watcher_mysql_test.go:963`). A volume is
created with the export `SourceOf`, and may be edited to have any in `EditsOf`;
the present one is in its object, its events and its row. Sizes are the revision
of the last change (`spec`). Edits of volumes in another phase are left out: of
a bound volume the handler does look at the claim only (`watcher.go:135-145`),
of the others at nothing.

### Transactions and the code

Each goroutine has a sequence of calls, call `k` being that of its event `k`. A
call goes through `Begin`, `Execute` for each statement (the lists in
`Statements`, in the order of `insert.go`, `delete.go`, `update.go` and
`bind.go`) and `Commit`. `Error` says what the code does with a failed
statement: ignore it (`insertPodMount`, `insert.go:252`), end the process
(`insert.go:257`), or retry, which is what `runTx` does with every error because
`err :=` (`mysql.go:138`) hides it from the loop's condition. `SkipDuplicate` is
`mysql.go:118`. After a deadlock MySQL has rolled back the transaction
(`session = "aborted"`) and commits each further statement on its own; after a
broken connection each fails (`"lost"`). A commit may be lost before or after
the server has done it. An earlier lost acknowledgement is what `repeated`
remembers, for `BindPVC`'s count of rows.

### WatchClient and the code

`goroutine[w]` is the goroutine of the `w`th call of `Watcher.Watch`; a session
is one pass of its outer loop, with the `reader` and `closer` goroutines of
`apiclient.go:92-178`. `Deliver` is the rendezvous on the unbuffered
`eventChan`. `outbox` is what the reader has to send before it does anything
else: an ERROR line that does not decode as an event leads to two messages. The
body is closed by the reader's `defer` or by the closer. The last session of a
goroutine does not get an end of stream, so that the bound on sessions does not
look like a deadlock of the loop.

`Destroy` and `CloseDatabase` are the two halves of `Watcher.Destroy`; nobody
waits in between for the goroutines. A goroutine may then find the database
closed: in `getRV` (`ConnectClosed`: `log.Panicf` ends the process) or in a
handler (`HandleClosed`: `Begin` fails, and `runTx` tries for ever, which is the
state `"spin"`; `InsertNFS` ends the process). `Watch` and `Stop` are not called
after `Destroy`; none of the callers does.

### SharedVolumes and the code

Each goroutine has its own `pc`, `listing`, `cursor`, `event` and `backendID`,
and the tables are common. `TakeEvent`, `StorePV` and `Bind` are `handlePVs` with
the transactions of `VolumeDB`. Between them are the statements of `InsertNFS`
and `InsertISCSI`: `CheckExists`, which sees what is committed, `InsertExport`,
which takes an id and keeps the row to its transaction (`inserted`), `LastID`
and `CommitExport`. The two functions differ in their failures. `InsertNFS` has
a transaction of its own, whose deferred function commits after a failed
insertion and ends the process after a failed commit; `InsertISCSI` is run by
`runTx`, which starts it again. `Like` gives the exports that match an export's
patterns. `exports` are the rows of `nfs` and `iscsi` with their ids, which
`source_id` refers to. `Crash` stands for every end of a goroutine, after which
the watch is set up anew by a restart or another `Watch`.

`ReadVersion` is `getRV` (`watcher.go:251`) and `ConnectList` and `ConnectFrom`
the request (`watcher.go:252`), a step of its own: other goroutines may store
versions in between, and then a goroutine that has read none asks for a list all
the same. (In `Tracker` the two are one step. Nobody else writes the version
there, and what the cluster does in between is as if it had been done before the
read.)

The volumes' claims are there from the start (`ClusterWithClaims`): what claims
do is in `Tracker`, and they leave room for the volumes in the bound on changes.
Versions do not expire here, and all exports are supported.

### MockTracker and the code

`ForUID` stands for the three maps (UIDs are disjoint), with the storage of what
is in them. `MockConnect` is `GetRV`, which returns no version or, with
`invalidRVs`, one that has expired. `Delete` and `Count` are the two halves of
`Deletions++`, which is a read and a write without a lock; between them other
goroutines may do the same. The handlers choose the manager's calls as in
`Tracker`; the volume handler's steps are `Tracker`'s with the mock's methods.
Two goroutines in `Deletions++` at once are a data race. The model takes the
outcomes Go's compilers produce for it, a lost increment, and no torn word.

## 3. Runs

`CHECK_DEADLOCK FALSE` is in every cfg: the bounded cluster, the finite calls
and a process that has ended do stop.

| run | properties | instance | states |
|---|---|---|---|
| `mounts` | `OneRowPerMount` `LiveMountsConverge` `ImplementsLedger` | 1 pod, 2 claims of one name, 6 changes in ticks of 2, pods without a deletion timestamp, 1 drop | 535k |
| `volumes` | `TypeOK` `CheckpointCovers` `RowsAreTrue` `SourcesKnown` | 1 claim, deleted with a timestamp or without, 1 volume that may be moved to another export, 6 changes, 1 crash | 1.78M |
| `progress` | `IInv` `EventuallyRecorded` | 1 claim (not watched), 2 volumes, one of them unsupported, 5 changes; 2 revisions compacted, resent events, 1 drop, 1 crash; no edits | 819k |
| `transactions` | `TypeOK` `DamageContained` `AllStored` `ImplementsAtomicCalls` | 3 goroutines, 2 calls each, 3 faults of 4 kinds | 372k |
| `client` | `TypeOK` `NeverPanics` `DoneWhenLeft` `BodiesClosed` `StopEnds` | 2 watches, 2 sessions each, 1 line, `Destroy` | 88k |
| `shared` | `TypeOK` `SourceResolves` `FewDuplicates` `SharedVersionCovers` `RowsCurrent` | 2 goroutines, 1 claim, 2 volumes, one that may be moved between two NFS exports and one with an iSCSI export, 3 changes after the claim, 1 fault | 2.47M |
| `mock` | `MockTypeOK` `MapsConverge` `UpdatesFindEntries` `DeletionsSeen` `EventuallyCurrent` | 1 pod, 1 claim, 1 volume, 3 changes after the claim, 1 drop, versions invalid or not | 821k |

Why the bounds are enough for what is asked. A mount can go wrong with one pod
and two claims of its name, one before and one after (a third adds another
instance of the same race): six changes are the two lives of the claims and one
of the pod. A volume's life with its claim is create, free, create, bind, touch,
release or delete, or create, free, edit, bind and so on, within six changes; a
second crash only repeats a restart that starts from the database alone. Expiry
needs two events that are forgotten and one that is not. In `volumes` it is the
claim whose deletion may come without a timestamp, which `handlePVCs` and
`handlePVs` treat alike (`DeleteTime`). Ticks of two revisions
let a pod and its claim have the same age. Three faults per transaction history
cover a lost commit followed by a failing retry and a crash. Two sessions
suffice for the client because a session shares nothing with the next but
`goroutine`; two watches because `Stop` and `Watch` only know the latest. One
line is enough for it, because two messages can come of one line, and the end of
the stream and its errors are no lines.

In `shared` the first volume may be moved between two NFS exports: the one it is
created with, and one with a wildcard in its path, which as a pattern matches
the other. The second has an iSCSI export, a row of the other table, which may
have the same id. The goroutines are symmetric, which is sound because only
invariants are checked. Three changes are few, but have the cases the properties are about, each of which TLC reaches in
this run:

- a volume is created, freed and edited, and a slow goroutine writes the freed
  volume's row over the edited one's, the old export over the new included;
- the new export of an edited volume is looked for, and its pattern finds the
  old one;
- a goroutine reads no version, and takes its list when another has stored one;
- two volumes are created and the first is deleted; one goroutine handles the
  deletion before the other has stored the volume, so that the version covers an
  event of which the rows show nothing.

With `MaxIndex = 5` and no fault TLC has checked `SInv`, and with it
`SharedVersionCovers` and `RowsCurrent`, as well (2.4M states). A second fault in
`shared` repeats one of two goroutines' restarts or attempts, each of which
starts from the tables alone. Changes of a bound or released volume are left to
`volumes`.

What the properties mean:

- `CheckpointCovers`: whatever is at or below the stored version is in the
  database, in the goroutine's hands, or excused by name. A restart starts from
  that version, so anything else would be lost for ever, silently.
- `RowsAreTrue`: recorded times are those of the object, never early, never of a
  live object, and a binding is one the API server has shown.
- `LiveMountsConverge`: when the two goroutines have caught up, a live pod's
  mount shows its claim, if the claim is not younger than the pod and no other
  claim of its name has its age. That is as far as the promise of
  `documentation/proposal.md:265-266` goes.
- `ImplementsLedger`: the detailed specification implements `UsageLedger` under
  the mapping in `TrackerProperties`: entries open for objects that existed,
  close for objects that are gone, never reopen, and what a closed pod mounted
  is final, over every crash and replay.
- `OneRowPerMount`: a mount has a row, and no two that differ. The table has no
  key, and `pod_mount` is a set in the model: rows that are equal in all columns,
  such as those of a container that mounts one claim twice, are one there. A
  replay adds no such row, since its transaction fails on the pod first.
- `EventuallyRecorded`: faults are finitely many; after them all events get
  recorded.
- `DamageContained`: a call is stored whole or not at all, and the stored
  version covers only what is stored: the atomicity `Tracker` takes for granted.
  Excepted is an `InsertPod` with mounts, whose statements may fail unnoticed;
  what is claimed is that no other call suffers from it, not even the later ones
  of that goroutine.
- `ImplementsAtomicCalls`: `Transactions` implements `AtomicCalls`. Statements,
  rollbacks, retries and restarts do not show to the callers: with every step
  nothing is stored, or all of a goroutine's next call with its version, so
  versions go up one by one and no call is left out or stored by halves. An
  `InsertPod` with mounts may store its version and less than all, and another
  attempt of it may add the rest.
- `AllStored`: its liveness. It leaves out what follows a `BindPVC` in a
  goroutine, because a lost acknowledgement makes that call retry for ever.
- `NeverPanics`, `DoneWhenLeft`, `BodiesClosed`, `StopEnds`: the life of the
  channels, as section 1 says, whatever `Stop` and `Destroy` interrupt.
- `SourceResolves`: the id in a volume's row is that of a committed row, of the
  right table, with the export the row says the volume has, however often that is
  edited, or one its patterns match: never a row that was rolled back, and, but
  for such a match, never the row of the export it had before or of another
  goroutine's volume. It does not claim that the match is right. It excepts the
  -1 of `insert.go:362`, for NFS, after a failure.
- `FewDuplicates`: there are at most as many rows of an export as goroutines,
  however often attempts are repeated. One row is what one would expect, and
  what neither a unique key nor a lock ensures.
- `SharedVersionCovers`: `CheckpointCovers` for a version that several
  goroutines write and resume from. It claims less: the version may be that of a
  deletion which changed no row, because the volume was still in the hands of a
  slower goroutine. As long as no watch is interrupted, a goroutine that is
  still to see the event (`Ahead`) makes that good.
- `RowsCurrent`: if no fault interrupts a watch, every goroutine that writes an
  old event's values goes on to write the newer ones, so the rows are current
  when all have caught up: size, export, and whether the volume is deleted.
- `MapsConverge`, `EventuallyCurrent`: what the tests of `watcher_test.go` wait
  for with a sleep. `UpdatesFindEntries`: `UpdatePV` and `UpdatePVC` of the mock
  panic without an entry, and always have one, since every watch begins with a
  list. `DeletionsSeen`: the count may miss deletions, but zero, which
  `watcher_test.go:352` compares with, means there was none. That is all the
  test needs, and as much as unsynchronized increments allow.

Every property has a mutant in `PROJECT.json`: an operator next to the
definition it changes, marked "Slip", with a mistake one could make there.

### Fairness

`Tracker!Fairness`: the goroutines are scheduled and the server answers
(`Connect`, the handlers, `SkipDuplicate`), and the process is restarted, which
the README expects of the operator and the manifest asks of Kubernetes. Nothing
is assumed of the cluster, of drops and crashes. `Transactions!FairSpec`:
`Proceed` and `Restart`, no fault. `WatchClient!FairSpec`: weak fairness for the
goroutines and for the answer to a request, none for the server's lines; strong
fairness for the stop branch of the select, because Go chooses among ready
branches at random. `MockTracker!MockFairSpec`: weak fairness for each goroutine
and the server's answers, none for drops. `SharedVolumes` states safety only.

## 4. Proofs

All theorems hold for every value of the constants that satisfies the ASSUMEs of
`Resources`, `Cluster`, `Tracker`, `Transactions`, `WatchClient`,
`SharedVolumes` and `MockTracker` (types, disjoint UIDs, NULL being no number,
`Tick > 0`, `Overlap` at most 1, bounds that are numbers; in `SharedVolumes`
finitely many goroutines and at least one, supported exports, and room for the
claims of its initial state; in `MockTracker` that room too, and what leaves the
test running: supported exports, deletion timestamps and no crash). Each follows
from an inductive invariant `Inv`, by `Init => Inv`, `Inv /\ [Next]_vars =>
Inv'` with a lemma for each group of actions, and `Inv => Property`.

**The tracker.** The invariants build on each other:

- `TrackerProofs!TypeCorrect`: `Spec => []TypeOK`.
- `CheckpointProofs!InvariantHolds`, `CheckpointSafe`: `Spec => []IInv` and with
  it `Spec => []CheckpointCovers`, for any number of objects, crashes, drops and
  expiries. `CheckpointCovers` is not inductive. That a handled event may store
  its version rests on three facts: its goroutine has seen everything before it
  (`Seen`), the cursor and the version keep their distance (`VersionsStand`),
  and the event in hand is the next one (`EventStands`). `ListStands` says what
  a listed object stands for: the events of that object before the list.
  `LogStands` and `ClaimsStand` are invariants of the API server's side, among
  them that a deleted object has no later event and that no two volumes hold one
  claim.
- `LedgerProofs!RowsInvariant`: `Spec => []RInv`, on top of `IInv`. From it
  `RecordsTrue` (`RowsAreTrue`), `SourcesBeforeVolumes` (`SourcesKnown`) and
  `MountsOnce` (`OneRowPerMount`). A row is only as true as the event it was made
  from, so `LogTrue` and `ListTrue` carry the times from the objects to the
  events and lists; `SourceStands` carries the export from one transaction to
  the next. For `OneRowPerMount` what matters is that `ClaimsFor` is never empty
  and, if claims differ in age, a single claim, and that `addPVCPodMount`
  changes rows in place.
- `LedgerProofs!LedgerImplemented`: `Spec => ImplementsLedger`. Every step maps
  to a step of `UsageLedger` or a stutter. The cases that need an invariant are
  the replays: a repeated `InsertPod` or `DeletePod` of a closed entry must
  change no mount. `MountsStand` has the reason: what a deleted pod mounts is
  not younger than its deletion, so there is nothing left for `BadMounts` to
  find.
- `LedgerProofs!MountsConverge`: `NamesInOneNamespace => Spec =>
  []LiveMountsConverge`. Neither query for the claim of a mount looks at the
  namespace, so claims of two namespaces must not share a name; the run
  `clobber_namespaces` shows what happens when they do. The invariant `MInv`,
  on top of `IInv` and `RInv`: a live pod's mount shows the live claim of its
  name, or that claim is still to come (`ToCome`), in a list, by the present
  watch, or after the stored version. A mount is given another claim only by an
  insertion; the replay of an old claim's insertion can do that after the right
  one was there, and then the right one's insertion is to be replayed as well,
  because claims of one name follow each other (`NamesStand`).

**The transactions.**

- `TransactionProofs!TransactionsTypeCorrect`: `Spec => []TypeOK`.
- `TransactionProofs!OthersAreAtomic`: `Spec => []DamageContained`, for any
  goroutines, calls and faults. The invariant `TxInv`: a transaction has written
  exactly the statements before its next one, and, unless errors may go
  unnoticed in its call, none goes on after the server has rolled it back.
  `NothingBehind` and `Covered` add that a goroutine of a running process has
  stored all calls before its current one, and a stopped one those up to its
  version.
- `TransactionProofs!VersionsAreCovered`: `Spec => []VersionCovers` if no pod
  has mounts. With mounts the run `tx_deadlock` refutes it.
- `TransactionProofs!CallsAreAtomic`: `Spec => ImplementsAtomicCalls`. Most steps
  stutter. A commit, one whose acknowledgement is lost as well, and a statement
  that the server commits on its own after a rollback map to `Perform`, `Botch`
  or `Repair`, or stutter. That it is never a version twice or out of turn rests
  on `VersionsMove`: a goroutine is at the call its version has or at the next
  one, which a return keeps only because at every commit the version is among
  what is committed or has been stored alone before; and a new row is never
  stored without the version, so that a duplicate key means a call that is done.

**The client.**

- `ClientProofs!ClientInvariant`: `Spec => []CInv`, for any number of watches,
  sessions and lines. From it `ClientTypeCorrect` (`TypeOK`), `ChannelsAreSafe`
  (`NeverPanics`) and `LeftSessionsAreDone` (`DoneWhenLeft`). `NeverPanics` is
  not inductive. A goroutine does not read a closed `eventChan` because its
  reader closes it only after it has sent what ends the session
  (`ReadersStand`), and does not close `done` twice because a session is told
  once, when it is left (`DoneWhenLeft`), and is not returned to
  (`GoroutinesStand`).

**Goroutines on one database.**

- `SharedVolumesProofs!SharedTypeCorrect`: `Spec => []TypeOK`.
- `SharedVolumesProofs!SourcesResolve`, `DuplicatesFew`: `Spec =>
  []SourceResolves` and `Spec => []FewDuplicates`, for any number of goroutines,
  volumes, exports and failures, and any `Like`. The invariant is `ExportsInv`.
  `BackendStands` follows the id from where it is found or read back to where it
  is stored: what a goroutine holds fits a row that is committed, or that its
  own commit will add. `RowsCounted` counts with the rows of an export the
  goroutines about to add one (`Adding`). A goroutine joins those only when it
  has found no row; so all goroutines may be among them then, and from there
  each turns its place into at most one row. An attempt that fails gives its
  place back, which is why retries do not add up.
- `SharedVolumesProofs!SharedInvariant`: `Spec => []SInv`; from it
  `VersionIsCovered` (`SharedVersionCovers`) and `RowsAreCurrent`
  (`RowsCurrent`), for any number of goroutines and volumes. The invariant says
  two things of undisturbed goroutines. `AllCovered`: once one of them has
  connected, every event is recorded, hidden by a list, or ahead of one of them.
  The step that is hard is a deletion that changes no row. The volume is not
  recorded then, so by `AllCovered` itself its addition is ahead of some
  goroutine, which is not the one that is done with the deletion; and whoever
  has the addition ahead has the deletion ahead too. `SpecsCovered`: while a row
  is out of date, the event that last changed the volume's size or export
  (`Latest`) is ahead of one of them. Whoever writes an old value has the newest
  one still ahead: an event with another spec comes before `Latest`
  (`SpecsStand`), and so does a list with another spec (`ListsStand`).

**The mock.** All over `MockSpec`, from `MockProofs!MockInvariantHolds`:
`MockSpec => []MockInv`.

- `MockTypeCorrect` (`MockTypeOK`), `MapsAreCurrent` (`MapsConverge`),
  `UpdatesAreSafe` (`UpdatesFindEntries`) and `DeletionsAreSeen`
  (`DeletionsSeen`), for any number of objects, lists and dropped watches.
  `MapsConverge` speaks of a goroutine that has caught up and is far from
  inductive. `EntriesOf` says what holds before: a live object's entry is right,
  or what will make it right is in `Coming`, what the watch is still to bring;
  the entry of an object that is gone has its deletion there; and an update
  there finds its entry, or comes after the addition that makes one. An old
  event or list may still put an old spec into a map; `SpecsTold` and
  `ListsTold` say that one with the present spec then follows. `InHandStands` is
  needed because the volume handler has stored its event before it is done with
  it. `DeletionsSeen` needs of the counter that what a goroutine has read is less
  than what has been deleted since (`CountsStand`).

Only model-checked: the liveness properties (`EventuallyRecorded`, `AllStored`,
`BodiesClosed`, `StopEnds`, `EventuallyCurrent`: fairness and ENABLED are out of
the prover's reach). Every other property of a passing run has a theorem. Of the
inductive invariants TLC checks `IInv`, in the run `progress`; the others have
been checked on the instances of `mounts`, `volumes`, `transactions`, `client`,
`shared` and `mock` before they were proved.

## 5. Where the code does something else

Each of these is a run TLC ends with a counterexample; `PROJECT.json` quotes the
sentence it contradicts.

| run | what happens |
|---|---|
| `clobber_namespaces` | a correct mount of a running pod is overwritten by a claim of the same name in another namespace |
| `torn_bind` | a crash between `InsertPV` and `BindPVC` loses the binding |
| `tx_deadlock` | a deadlock in `insertPodMount` loses the pod and stores its version |
| `tx_rejected` | every permanent error is retried for ever |
| `client_leak` | a reader waits for ever to send to a session that was left |

The properties of the passing runs make further exceptions, each for something
the code does:

- `LiveMountsConverge` speaks of live pods: a pod whose two events are both
  handled before that of the claim it used keeps a wrong mount, because
  `InsertPVC` only revises the mounts of pods that are not deleted.
  And it speaks of the time when the two goroutines have caught up. An entry
  once right may be cleared before that, even with one namespace: a pod and its
  claim are deleted and a new claim takes the name; its insertion revises the
  row of the pod, whose deletion is not handled yet, and `DeletePod` then drops
  the row as a bad mount.
- Claims of one name and one creation time give a mount two rows (`Distinct`);
  `insertPodMount` returns an error then, which `InsertPod` ignores.
- `Torn` in `missed`: a list that is cut off is resumed after the objects it has
  not shown.
- A lost acknowledgement makes `BindPVC` retry for ever (`Unimpeded`).
- `StopEnds` says a stopped goroutine ends, not that it has ended when `Stop`
  returns: a `Watch` right after it overlaps with the handler in progress. And
  it excepts a goroutine under whose handler `Destroy` has closed the database:
  that tries its transaction for ever, although `watcher.go:296` says that
  `Destroy` "stops all active goroutines". Besides, weak fairness of `Loop` takes
  it that a handler that has its database returns. `Transactions` shows two cases
  in which one never does, and the goroutine, stopped or not, never ends: a
  statement the server refuses (`tx_rejected`), and a `BindPVC` whose
  acknowledgement was lost.
- After one expired version (`initialize`, `watcher.go:270`, never reset) every
  later watch of that goroutine lists everything. That costs time, and hides
  deletions (`Hidden`), but no property of what is recorded besides.
- `EventuallyRecorded` excepts clusters with a volume that is neither NFS nor
  iSCSI, whose event ends the process on every restart.
- `SharedVersionCovers` and `RowsCurrent` except faults, and need to. Let one
  tracker have listed a volume before a change, and another after it. If the
  first loses its watch before it has seen the change, it resumes from the
  version of the second, and so never handles it; if its handling of the list
  was slow, the old value it has written comes last and stays. A deletion can be
  lost in the same way: the second handles it before the first has stored the
  volume, and stores the version of a later event; the first, interrupted after
  that, resumes from there. `resource_version.go:68` says of several watchers of
  one version "This isn't a problem"; without interruptions it is not, which is
  what the two properties show, and with one interruption it is. The comment
  claims more than the two properties. A single
  watcher has neither problem: what a fault may cost it is what `missed` names,
  in `Tracker`.
- The version may cover a deletion no row shows: a goroutine that handles the
  `DELETED` before another has stored the volume updates nothing and stores the
  version; the other then inserts the volume as a live one, and closes it only
  when it handles the deletion too.
- `FewDuplicates` does not say that exports are unique: two goroutines that miss
  an export at the same time both insert it.

## 6. Not modelled

- The load generator (`load_test`) is a single-threaded script that creates and
  deletes random objects. Nothing in the tracker depends on its bookkeeping.
- The `kubectl` wrappers write YAML and run a command. What that does to the
  cluster is in `Cluster`.
- Queries are read-only; deployment is manifests.
- `NewParams` and `ValidateConnection` connect, prepare statements and end the
  process if that fails: no state is left behind.
- `Watch` of an unknown resource leaves an entry in `stopChannels` without a
  goroutine. `main` watches the three that are known.
- The LIKE on names, resources and namespaces: none of them can hold a wildcard
  but `_`, which Kubernetes does not allow in names. The case-insensitivity of
  MySQL's collation, and NULL `fs_type`.
- The claims' and pods' goroutines of several trackers: they write the rows and
  versions of their own namespace, except for the mounts, whose common matching
  by name the run `clobber_namespaces` shows.

## 7. Plan

Order of work; all of it is done.

1. `Resources`, `Cluster`, `VolumeDB`, `Tracker`: the path from an event to the
   tables and back to the version to resume from.
2. `TrackerProperties`, `UsageLedger`: properties and abstract specification.
3. `TrackerInvariant`, `TrackerProofs`, `CheckpointProofs`.
4. `Transactions` and its proofs: the atomicity the rest stands on.
5. `WatchClient`: the channels.
6. `SharedVolumes`: goroutines of several trackers, or of several calls of
   `Watch`, on one database; exports found or created, with LIKE and failures.
7. `Destroy` in `WatchClient`.
8. `MockTracker`: the mock manager.
9. Proofs for `SharedVolumes`: `TypeOK`, `SourceResolves`, `FewDuplicates`.
10. Proofs: `TypeOK` of `Transactions`; `RowsAreTrue`, `SourcesKnown`,
    `OneRowPerMount` and the refinement of `UsageLedger`; `LiveMountsConverge`;
    the safety of `WatchClient`; `SharedVersionCovers` and `RowsCurrent`.
11. `MockInvariant` and the proofs for `MockTracker`; `AtomicCalls`, and that
    `Transactions` implements it.
12. `EditPV`: volumes that are edited, their exports too; the steps between the
    version read and the watch in `SharedVolumes`.
