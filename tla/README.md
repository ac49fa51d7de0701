# Verification of Terraform's state handling and concurrency

The repository is a course repository that carries a complete copy of the
Terraform source under `src/terraform`; everything else in it (`HW`,
`ter-homeworks`, `branching`, `shvirtd-example-python`) is text, small
configurations and one single-route web application. The program worth a model
is Terraform, and of Terraform the parts that several processes or goroutines
enter at once or that must survive a failure: the state in a file and in a
remote store, the graph walk, the promises between tasks, the apply of changes
to resources, and the operation that runs it and can be stopped. Paths below are
relative to `src/terraform/internal`.

This file says what the system consists of, what each module models, what each
run and each proof shows and under which assumptions, and what is left out.

## 1. Inventory

| Component | State it keeps | Operations | Hard behaviour | What makes it correct |
|---|---|---|---|---|
| Filesystem state manager, `states/statemgr/filesystem.go` | the state file, its backup and lock info file; per manager the open file, the snapshot read, the snapshot written, the backup contents, the lock ID | `Lock`/`LockWithContext`, `RefreshState`, `WriteState`, `WriteStateForMigration`, `Unlock` | processes race on path, inode and fcntl lock; crashes between system calls; deadline of the lock | one holder; nothing overwritten unread; backup before clobber; serial and lineage; the lock is given up |
| Remote state manager, `states/remote/state.go`, over the Consul client, `backend/remote-state/consul/client.go` | state, lineage, serial, and the same as last read; the index for the client's CAS; in Consul the link and its chunks | `RefreshState`, `WriteState`, `PersistState`, `WriteStateForMigration`; `Get` and `Put` in several requests | a request fails or its answer is lost; the serial advances first; chunks are put before and removed after the link; the lock is lost | serials grow, nothing is overwritten unread, the link can be read, what is reported persisted is what was written |
| Graph walker, `dag/walk.go` | vertices, edges, one `walkerVertex` (channels, deps) per vertex, diagnostics | `Update`, `Wait`; goroutines `walkVertex`, `waitDeps` | the graph changes while it is walked; channels are replaced under a running goroutine | a vertex starts after its dependencies, is skipped exactly below a failure, and the walk ends |
| Promises and tasks, `promising` | per promise the responsible task, the result, the list of waiters; per task what it awaits | `NewPromise`, getters, `Resolve`, `AsyncTask`, `MainTask`, `Once.Do` | the search for a cycle takes no lock while responsibility, waiting and results change | no cycle of waiting tasks, no lost wake-up, one result, a (small) cycle fails as a whole |
| Resource instance apply, `terraform/node_resource_*`, and the order of its nodes, `terraform/transform_*` | current and deposed objects with status, dependencies and create_before_destroy; the planned change; the apply graph | plan, create, update, both replacements, destroy, destroy deposed, provisioners, hooks | any step of any node fails; the process dies; configuration and recorded dependencies disagree | no object is lost, what failed is tainted, what is replaced is destroyed when unused, the graph has no cycle |
| Local operation, `backend/local`, `terraform/context.go`, `command/meta.go` | the stop and cancel contexts, the state lock, the run condition of the context, the stop hook, the state hook's `ForcePersist` | `RunOperation`, `opApply`, `opWait`, `Context.Stop`, `acquireRun`/`releaseRun`, `StateHook` | two interrupts, a stop before, during and after a run; persisting from two goroutines; a kill | a stop ends the process, nothing that was created is missing from the persisted state |
| RPC handles and stopper, `rpcapi` | handle table, stop channels | open, close, dependency checks | concurrent requests | no use after close |
| Provider installer, check state, other lock clients, moved blocks | lock file and cache; check results; a remote lock; moves in the state | their own | partial failure, order | see "Not modelled" |

The components interact through few seams. A command locks a state manager,
runs one local operation, and unlocks it. The operation refreshes the state,
and has the graph of the plan or apply walked by the walker; each vertex is a
node that reads and writes the state in memory, whose updates the state hook
writes to the manager. The stacks runtime does not use the walker for its
evaluation but tasks and promises.

The modules keep to the same seams. `LocalOperation` composes the command, the
operation, the core, the hook and the nodes, with a manager that writes and
persists and a node reduced to one change; `ResourceApply` opens the node, and
its walk is the one `GraphWalk` specifies; `RemoteState` and `Filesystem` open
the manager.

`PROJECT.json` lists every component with its status, and the hazards of the
code at the lines where they bite.

## 2. Modules

| Module | Models | Proofs |
|---|---|---|
| `StateStore` | what a lockable state manager promises (abstract) | |
| `Filesystem` | `statemgr.Filesystem`, implements `StateStore` | `FilesystemProofs`, `FilesystemStoreProofs` |
| `SnapshotStore` | what a state manager promises without a lock (abstract) | |
| `RemoteState` | `remote.State` over the Consul client, implements `SnapshotStore` | `RemoteStateProofs` |
| `GraphWalk` | what `AcyclicGraph.Walk` promises (abstract) | |
| `Walker` | `dag.Walker`, implements `GraphWalk` | `WalkerProofs` |
| `Promising` | package `promising` | `PromisingProofs` |
| `ApplyGraph` | the order of the nodes of an apply | |
| `ResourceApply` | managed resources from run to run, over `ApplyGraph` | `ResourceApplyProofs`, `ResourceApplyGraphProofs` |
| `LocalOperation` | `terraform apply` in one process, with interrupts | `LocalOperationProofs` |
| `MC...` | instances for TLC | |

Definitions named as a mutant (`\* Mutant: ...`) are a plausible slip in the
definition that follows them. They are part of no specification; replacing the
definition by its mutant makes TLC refute the property the mutant belongs to.

### Filesystem

A process runs one command: it locks (unless `-lock=false`), refreshes, writes
any number of snapshots, unlocks, exits, and may crash between any two system
calls. Every system call that another process can observe is an action of its
own: `stat`, `open` with `O_CREAT`, reading for the backup, the fcntl lock,
creating and filling the info file, truncating, writing, and on unlock the
removal of the info file, the release, the second `stat` and the removal of an
empty file. The directory entry of the state (`dirEntry`), the contents of each
inode (`data`) and the owner of its fcntl lock are separate, because an open
file and the file at the path may differ. Snapshots are records of lineage,
serial and state; `Torn` is what an interrupted write leaves. A lineage of 0 is
no lineage, as a migrated snapshot may have it.

Each file operation whose error the code looks at has a failing variant: the
open, the lock info, the refresh, and in `writeState` the creation of the backup,
its contents, `Seek` and `Truncate`, and `statefile.Write`, which may have written
nothing or a part. The process goes on, with the lock and with `s.file` as the
code has changed it by then: after a failed `Truncate` the new state is in
`s.file` and not in the file, after a failed `Write` the serial has advanced too
and the file is empty or torn. It may write again, from there. `left` is
bookkeeping for the properties: what such an error has left in the file, which
is what the process knows of it (`Known`).

`StateStore` has a holder, a stored snapshot and what the holder knows to be
stored. A write replaces the snapshot, or fails and may lose it, with an error
(`FailWrite`) or with a crash (`CrashInWrite`). The refinement mapping takes the
stored snapshot from the path, except while a write is between truncation and
completion, when it is the one that is being replaced.

Left out: `-state`/`-state-out` (a read path other than the write path), the
Windows lock, and the flush to disk (a crash of the machine rather than of the
process).

### RemoteState

Commands, each with a manager of its own, share a workspace. Each request to
Consul is an action: reading the link and each chunk of a large state
(`GetLink`, `GetChunk`), the first request of `Put` that finds the chunks to
clean up (`ChunkedMode`), each chunk (`PutChunk`), the transaction that replaces
the link (`Store`), and the removal of the old chunks (`CleanupOldChunks`). A
request may fail before it has an effect, and the answer to the transaction may
be lost after it. A call of the manager holds `State.mu` from its first to its
last request, so calls of one manager do not interleave, while those of two
commands do. `setup` fixes the circumstances of a behaviour: whether there is a
snapshot at first, whether locks and answers may be lost, whether the workspace
may be deleted, whether a command may persist before it has a state. Where
nothing is lost, the lock lets one command work at a time. A snapshot stands for
its serialisation and its hash; a nil state is written as the empty one. A
lineage of 0 is none: such a snapshot, and any that is to replace an empty one,
is imported without a comparison, as is a forced one. `unchecked` remembers that
a command has done so since it last read or stored, and `rising` that so far
every snapshot was stored over one with a smaller serial.

`SnapshotStore` has the stored snapshot and the one each command knows. A
command may store a snapshot only when it knows the stored one. The refinement
mapping takes the snapshot from the link; a command that reads the chunks of a
link knows what the link named when it was read, although it is not done.

What the model shows of the code beyond its properties: the client takes the
index of the link before it reads the chunks, so that it keeps it when a chunk
is missing; with an index of 0 it writes without a comparison; deleting a
workspace leaves its chunks; when the answer to the very first, large snapshot is
lost, the next `PersistState` reads that snapshot, puts it again, and cleans up
the chunks it has just linked, because the old hash is the new one; the same
happens to a forced import of the linked state with a serial less by one; a lineage set by
`WriteStateForMigration` is replaced by a new one when the first read, made by
`PersistState`, finds nothing.

Left out: the flag that a forced import sets in a client (`EnableForcePush`,
which only the HCP Terraform backend has), compression, deleting the whole
client, and the session that keeps the Consul lock, of which only the loss is
modelled.

### Walker

`Update` holds `changeLock` throughout, but its goroutines run meanwhile, so it
is modelled in the steps they can observe: the difference of the graphs, the
closing of each cancel channel, the replacement of the dependencies of each
vertex, and the start of the new goroutines. `walkVertex` receives either a
result of its dependencies, a new dependency channel or the cancellation;
`waitDeps` waits for each dependency or its own cancellation. Since a vertex can
be removed and added again, goroutines belong to a vertex and the `Update` that
created them. `GraphWalk` is the walk of one graph: run after the dependencies
have run well, skip below what has not, end when everything has settled.

What the model shows of the code beyond its properties, which only a caller that
updates a walk under way would meet (`AcyclicGraph.Walk`, the one caller, never
does): a cancelled vertex closes its `DoneCh`, so that what waits for it takes it
for one that was walked; a vertex that is removed and added again is executed
again, although the comment of `Walker` says that re-adding has no effect; and an
edge of a removed vertex stays in `w.edges` (`dag/walk.go:257` looks up the
removed waiter and gives up), so that with three updates, the second without the
vertex and the third with the vertex and its edge again, the edge does not count
as new and the vertex starts without waiting: `WaitsForItsDeps` fails there.

Left out: two first calls of `Update` in parallel (the lazy initialisation at
`dag/walk.go:158` is outside the lock; no caller makes them), and the pure graph
algorithms of the package.

### Promising

The getter announces what its task awaits and then follows, without a lock, the
responsible task of the promise, what that task awaits, and so on; each atomic
load is an action (`Load`, `Awaits`, `Confirm`). On a cycle it walks a second
time to collect the promises and fails them one by one. Then it enters the list
of waiters under `waitingMu`, unless there is a result. A critical section of
`waitingMu` is one action: of its writes only `responsible` is read without the
mutex, once. `AsyncTask` delegates its promises one at a time before the
goroutine starts; `Once` publishes its promise before it delegates it. `doomed`
records the promises of the first cycle that stands and `gets` counts calls;
no action reads them except for the bound.

Left out: uses the package answers with a panic (two getters in one task, a
resolver used by a task that is not responsible for it, a promise delegated by
a task that does not have it) are no states of a correct caller; contexts and
tracing. The getter takes a context and never looks at it, so that its comment
("If the given context is cancelled ... the function will return") does not
describe it; the model has no contexts.

### ResourceApply and ApplyGraph

Instances (`Inst`, one per resource) have remote objects, identified by the
instance and the run that created them. `Plan` refreshes the state and chooses
an action for each instance: any that the provider may plan, but an update at
least where what it refers to changes. `ApplyGraph` builds the edges of the apply
graph from the configuration's references, the dependencies that the state
records, and `create_before_destroy`, which is forced on what such a resource
depends on; the edges to its destroyers are turned round. The nodes then run as
`GraphWalk` has it. A node is cut where it changes what others see or what a
crash would lose: the depose of the current object, the call of the provider,
the record of its answer, the provisioners with the second record, the state
hook. The provider may do its work, fail, or fail after it has done it; so may
provisioners and hooks. `saved` is the snapshot that is stored. A state hook
stores the working state, or leaves it in the memory of the state manager, which
is what a manager with an interval does; the node fails with a failed write or
persist, and a persist may fail although the snapshot is stored. `Finish` stores
the final state. After `FinishUnstored`, when that has failed, and after `Crash`
the next run starts from `saved`; objects it does not know are in `lost`. A user
who pushes the copy in `errored.tfstate` after a failed final persist
(`LocalOperation` has that part) continues as after `Finish`.

Every error of the code before the provider is called is one alternative of
`ApplyStart`, a hook's error also stands for the stop hook. What the model shows
of the code beyond its properties: a failed update replaces the recorded
dependencies by those of the configuration, although the object may still refer
to the old ones (`ReplacedIsUnused` is therefore about recorded dependencies); a
deposed object left by an earlier run is ordered by the dependencies of the
current object of its instance; an early error after the depose leaves no current
object; when a provisioner is to run, another node's hook may save the new
object as ready, and a crash then forgets that it was not provisioned; a failed
deletion whose provider returns a value loses `create_before_destroy`; with a
manager that stores at each write a crash loses only what is at work, with any
other all since the last interval.

Left out: data and ephemeral resources, forgotten objects, deferrals, actions,
targets, providers and modules as nodes, postconditions, errors of encoding, a
store that fails and destroys the stored snapshot (`Filesystem` has that), the
persist that a stop forces (`LocalOperation` has that), and a provider that
creates an object but returns none with its error.

### LocalOperation

One process: `RunOperation`, which waits for the end of the operation and for
two interrupts; `opApply` and `opWait`; the goroutine of `Context.Apply`; the
nodes, each making one change, recording it and calling the state hook; and the
goroutine that calls `Context.Stop`. A state is the set of nodes whose changes
it has, in four places: made (`performed`), in the working state, written to the
manager (`mem`), persisted (`saved`). `PersistState` succeeds, or fails with or
without having stored the state. After a failed final persist `copy` says what
`backupStateForError` has done with the final state: written to `errored.tfstate`
(`file`), printed (`terminal`), reported as lost (`lost`), or reported as written
although the file could not be opened (`unwritten`). The mutexes of the state
hook and of the working state are `InHook`, that of the context is `CtxFree`. A
hook may persist or not until it is forced, and then always tries: both rules of
the source do so, the default one (`statemgr/persistent.go:190`) and that of the
cloud state (`cloud/state.go:250`). `KillLosesLittle` would not hold of a manager
that declines even then.

What the model shows of the code beyond its properties: after a cancellation
`opApply` gives up the lock while nodes may still persist; `Stop` persists once
more, perhaps after the lock was given up, when the final persist failed;
`releaseRun` leaves the cancel function of the run, so that a later `Stop`
cancels a run that is over; an interrupt during the plan that precedes an apply
is not passed to the core.

Left out: refresh and plan operations, and the local manager, for which writing
is persisting.

## 3. Runs

| Run | Instance | Shows |
|---|---|---|
| `fs_locked` | 2 processes with locking, file exists, 2 states, 2 inodes, 1 session each with up to 2 writes, migrations with and without a lineage, errors of every file operation and crashes | type, exclusion, holder uses the file at the path, no lost update, the first snapshot read is backed up before it is clobbered, serials, a `WriteState` without error has persisted the state, refinement of `StateStore` |
| `fs_lock_liveness` | 2 processes, no file at first, 3 inodes, managers locked again after `Unlock`, fairness | `LockWithContext` returns, a lock is given up |
| `remote` | 2 commands, 3 calls each, the empty state and a large one of 2 chunks; imports with and without force and lineage; a snapshot exists and locks and answers are lost, or nothing is lost and it is created and deleted | type, the link can be read while serials rise, what is persisted is what was written, serials grow but for unchecked imports, refinement of `SnapshotStore` |
| `remote_bug_retry` | 1 command, no snapshot at first, answers are lost | violation: a success that has stored an older state |
| `walk_static` | every acyclic graph on 4 vertices, any callback may fail, one `Update` | refinement of `GraphWalk` with its liveness |
| `walk_dynamic` | any 2 graphs on 2 or 3 vertices, the second at any moment, one vertex may fail | type, dependencies first, skips only on failure, the walk ends |
| `promise_safety` | 3 tasks, 3 promises, 3 getter calls, symmetry | type, no deadlock, wake-ups, one result, alarms, a cycle of up to 3 promises fails as one |
| `promise_ends` | 2 tasks, 2 promises, 1 `Once`, 3 getter calls, fairness | every getter returns, a cycle fails |
| `promise_bug_ring` | 4 tasks that each make a promise, start the next task and await its promise | violation: a promise of a cycle gets an ordinary result |
| `apply` | 2 resources and 2 runs (1 if they are without a reference then), 3 resources and 1 run, references that come, go and turn round, resources that come and go, any failure, hooks that store or do not, crashes | type, no object lost, failed is tainted, what is replaced is unused, a clean run leaves what is configured, a crash or a failed final store loses only what is at work or newer than the last store, cycles only where the state disagrees with the configuration |
| `local` | 3 nodes, 2 interrupts, any persist and any copy may fail, a kill at any time, fairness | type, nothing forgotten unless the final persist and its copy both fail, a kill after a stop loses little, persists under the lock, a stop ends the process |
| `local_bug_stop` | 2 nodes | violation: operations start after `Stop` has returned |

**Bounds.** Two processes are what one lock can be contested by, and three
inodes are enough for each to have a file of its own while a third is at the
path. Two writes per session are what a retry after an error and a comparison
with an outdated first read need. `-lock=false` (`LockFree`) is modelled and in no run: a
command that takes no lock has none of the properties but its own. Two commands over Consul
with three calls each leave room for a persist whose answer is lost, a retry,
and a persist of the other between; two chunks are the fewest of which one can be
missing; one of the two states is small so that links with and without chunks
follow each other. Four vertices hold chains,
diamonds and two independent branches; vertices are numbered against their
edges, which loses no graph up to names. With a second graph three vertices
leave room for one that stays, one that goes and one that comes. Three tasks
and three promises are the shortest cycle that is seen neither in one hop nor
by both ends; three calls of getters are what closes it. With four calls and
two tasks, and with `Once` and three tasks, the results are the same, at run
times beyond a routine check. Four tasks are out of reach as such; `RingSpec`
fixes the program that makes them a ring, from `Init` on, and leaves the order of
all loads and results open. Two resources with a reference have every pair of
actions, and the second run meets what the first has left deposed, tainted or
lost; a chain of three has a resource in the middle that may have no change.
Three nodes are enough for one to hold the hook, one to wait for it and one to
await its provider when the stop comes. `Symmetry` permutes inodes, processes and
states of `Filesystem`, promises and tasks other than `Main`, which no safety
property tells apart; no run with a
liveness property uses it.

Deadlock is not checked in any run: processes exit, a walk ends, tasks return,
commands and runs are bounded, so every model stops by design. That nothing
stops early is what the liveness properties say.

**Fairness.** `Filesystem`: a call that has begun goes on, a finished process
exits, and the deadline passes (strong fairness of `Timeout`, because it is
enabled only while the loop waits). A command that holds the lock is not
assumed ever to unlock it: it may wait for an approval. `Walker`: goroutines
are scheduled, callbacks return, the caller calls `Wait`; `Update` is not
assumed to be called. `Promising`: goroutines are scheduled, and the function of
a task returns once it stops calling, `Machinery(t) \/ End(t)`; this is what the
package asks of a task, and without it a promise may stay unresolved for ever.
`LocalOperation`: goroutines are scheduled; the user need not answer the
approval, nor a provider its request, unless it has been asked to stop
(`watchStop`); no interrupt is assumed. `StopEnds` is hence about a stop that
reaches a run, or a cancellation.

**Disagreements.** A run whose name has `bug` in it checks what a comment of the
source says and finds a behaviour of the code that does not fit; the
`findings` in `PROJECT.json` quote the comments.

- *Older state persisted.* Without an earlier read, as in the first
  `PersistState` of a workspace whose `Put` returned an error although it was
  stored, the next `PersistState` refreshes first. What the caller wrote in
  between is replaced by what is read, stored again and reported as persisted.
- *Stop before the run.* `opWait` stops the core in a goroutine. When `Stop` runs
  before `Apply` has acquired its run, there is nothing to stop, and
  `acquireRun` resets the stop hook: the whole graph is walked.
- *Cycle of four.* Two getters may find the same cycle. Each walks it a second
  time to collect its promises, without a lock, and stops early where a task of
  the cycle has been woken by the other and has returned. It then fails only the
  promises it has collected and returns an error; if its task resolves its own
  promise before the other getter comes to it, the waiter of that promise gets an
  ordinary value. `CycleFailsAsOne` is what `promise.go:275` wants;
  `SmallCycleFailsAsOne` restricts it to cycles of three promises, for which it
  is a theorem (`SmallCycleFailed`); what holds of all cycles is that the first
  promise that gets a result is failed (`FirstOfCycleFails`).

The models also show the following, for which no run is kept. Each was a
counterexample of TLC, under the properties restricted since.

- *Two holders* (`statemgr/filesystem.go:381`, against `locker.go:36`). `Unlock`
  removes the state file if it is empty and was created by this manager, after
  it has released the lock. A process that has the file open by then locks the
  unlinked inode; the next one creates a new file and locks that. `fs_locked`
  and `LockExcludes` therefore have a file that exists.
- *Failure in a write* (`filesystem.go:194`). Without a change of state no backup
  is made, but the file is truncated all the same, and a crash or an error of the
  write that follows loses the snapshot; `BackedUpBeforeClobber` excepts it.
- *Older backup* (`filesystem.go:473`). The contents for the backup are read
  when the file is opened, before the lock is obtained. When another command
  stores a snapshot in between, the backup is of the one before, and the one
  that the first write destroys is nowhere. `BackedUpBeforeClobber` therefore
  says which snapshot is in the backup, the one read first, and that it is the
  destroyed one when the refresh has found the same.
- *Serial after an error* (`filesystem.go:185`). A failed write leaves the new
  state, and after `statefile.Write` the new serial, in `s.file`; the manager
  does not read the file again. `SerialFollows` is about writes that replace a
  snapshot; one that follows a failed `statefile.Write` skips a serial.
- *Silent failure* (`statemgr/filesystem.go:146`). `writeState` returns no error
  when it cannot open the file. A locked manager has it open; with `-lock=false`
  a `WriteState` reports success and nothing is written. `WritesPersist`
  therefore is about processes that lock.
- *Forced re-put* (`statemgr/migrate.go:63`, against `consul/client.go:257`). A
  forced import may bring back the state that is linked, with a serial less by
  one: `PersistState` raises the serial and puts the linked snapshot once more,
  chunks and all, and `Put` then removes the chunks of the previous hash, which
  is the same. `ChunksIntact` is therefore stated while serials rise.
- *Stop before the first write* (`backend/local/hook_state.go:93`). A stop before
  the first write of a first apply persists a nil state as the empty one and
  leaves `readState` nil; the next `PersistState` reads the empty state over what
  was written meanwhile. It is the loss of `remote_bug_retry` without a lost
  answer; the setups of `remote` have no early persist.
- *First snapshot without a lock* (`consul/client.go:205`). Two commands that have
  both found nothing, and lost the lock, put without a comparison, and the second
  overwrites the first. The setups with losses have a snapshot.
- *Copy that is not made* (`statemgr/filesystem.go:146`, against
  `backend_apply.go:527`). The manager of `errored.tfstate` is not locked, so
  the same silent failure meets `backupStateForError`: where the file cannot be
  opened, the user is told that "the state has been written to the file
  "errored.tfstate"", nothing is printed, and the changes are recorded nowhere.
  `NothingForgotten` excepts it (`unwritten`), as it does the loss that is
  reported.
- *Cancelled dependency* (`dag/walk.go:429`). A vertex removed before it ran
  closes its done channel without diagnostics, which a waiter that is not
  replaced in time takes for success; `WaitsForItsDeps` counts it as ended.
- *Stale edge* (`dag/walk.go:257`). `Update` forgets to drop an edge whose waiter
  is removed in the same call; when both return, the edge is not new and is not
  waited for.
- *False alarm* (`promising/promise.go:137`, against `errors.go:15`). The task
  that reads a promise failed for an earlier cycle is taken for a waiting one,
  because the promise keeps its responsible task; a getter that follows it
  meanwhile fails its own promise. `FirstAlarmIsReal` shows that this needs an
  earlier failure.
- *Cycle of destroyers* (`terraform/transform_destroy_cbd.go:55`).
  `create_before_destroy` is forced along the references of the configuration,
  while destroy edges follow the dependencies in the state; where a reference
  was removed, or a failed deletion has dropped the flag, an apply graph may
  have a cycle.
- *Turned reference* (`terraform/transform_destroy_edge.go:139`). When a
  reference is turned round and both resources are replaced, the destroyer of
  either waits for that of the other, once by the dependencies of the state and
  once by those of the configuration, and the plan cannot be applied.
  `AcyclicIfInherited` shows that a cycle needs one or the other: either
  `create_before_destroy` is not inherited along what is recorded
  (`CBDInherited`), or what is recorded and what is configured together go in a
  circle (`DependenciesOrdered`).
- *Destruction of dependencies* (`node_resource_apply_instance.go:60`). A comment
  has applying depend on the destruction of what is referred to, too; the
  reference transformer leaves such edges out.

## 4. Proofs

The theorems hold for all sets of processes, commands, states, nodes, tasks and
promises and all bounds, from the assumptions the modules declare: the model
values are distinct, `Main` is a task, bounds are naturals, inodes are finitely
many. TLC evaluates these assumptions in the runs, and has checked each
inductive invariant on the instances of the runs before it was proved.

`FilesystemProofs`
- `TypeCorrect`. `TypeOK` is inductive together with `Control`, which relates
  the point a process has reached to what it has open and holds: a manager that
  writes has read, a process on its way to the lock does not hold it.
- `LockExcludes`: `MutualExclusion` where the file exists at first. The fcntl
  lock belongs to an inode, so exclusion needs that everyone has the same one
  open: no manager has created the file, so none removes it, and the directory
  entry never changes.
- `HolderHasPath`: `HolderUsesPath`, from the same argument.
- `NoUpdateLost`: `NoLostUpdate` where all processes lock. By exclusion only the
  holder changes the contents from its refresh on; the proof follows them through
  its writes and through each of their errors.

`FilesystemStoreProofs`, where the file exists at first and all processes lock
- `ImplementsStore`: `ImplementsStateStore`. `Locked` puts the invariants above
  together; `Knowledge` reads them as facts about the abstract store: what the
  holder's manager takes for the latest snapshot is what is stored, from its
  refresh to the end of its writes. Then a step changes what is stored only
  where the holder knows it (`Works`), a step without the lock is not seen
  (`Unseen`), and giving up the lock leaves what is stored unless it is a crash
  in a write (`GivesUp`). An error in a write is a `FailWrite` of the store.
- `SerialsFollow` and `WritesPersist`: `SerialFollows` and `WritePersists`, from
  `Replacing`: between the truncation and the write the manager has the lineage
  and the serial of the snapshot it has destroyed, and the state it was asked to
  write; between writes the same holds of what an error has left (`Continues`).
- `BackupFirst`: `BackedUpBeforeClobber` for managers used for one session, as
  the commands do. `BackedUp` relates `writtenBackup` to the backup file, which
  no other process touches while the lock is held; `AsRead` says that until its
  first truncation a manager has what it read last, and the file holds it.

`RemoteStateProofs`, under `Trusted` but for the types: over a connection that
loses answers or locks a snapshot exists from the start and stays, and a command
has a state before it persists, as in the run `remote`; `remote_bug_retry` shows
what happens otherwise.
- `TypeCorrect`, with a `Control` that says in which calls a request is made and
  when what is put has a state.
- `ImplementsStore`: `ImplementsSnapshotStore`. The step that matters is `Store`:
  that the CAS succeeds must mean that the command knows the stored snapshot.
  `IndexAt` says so: as long as a command's index is the current one, the link
  holds what it has read, and an index of 0, for which there is no comparison,
  is that of a command that found nothing while nobody else works (`Sharing`).
  Reading the link and its chunks is not atomic; the index read with the link is
  what makes it count as of the moment the link was read.
- `SerialsGrow`: `SerialGrows`, from `ContinuesAt`: what a command is about to
  put has the lineage of what it has read and a greater serial (`Succeeds`),
  unless it has been imported `unchecked`.
- `PersistedIsTrue`: `PersistedIsWritten`, also from `ContinuesAt`: a command at
  work has the state its caller wrote last.
- `LinkIsReadable`: `ChunksIntact`. `ChunksAt` follows the chunks of what is about
  to be linked, and says of a command that cleans up that the link has moved on
  to a greater serial, hence to other chunks. Both are claimed only while serials
  rise, and of a command only if it will not end that (`Rises`).

`LocalOperationProofs`
- `TypeCorrect`: the sets of changes are nested, `saved` in `mem` in `working` in
  `performed`.
- `NothingIsForgotten`: `NothingForgotten`. `Nodes` says which of the four sets
  has the change of a node at each point, and that all nodes are done when the
  apply has returned a state; `Stages` that the final write takes that state, and
  what its persist has left; `Left` how `opApply` gets past it: well, with a copy
  or the failure to make one, or by a cancellation. A later persist by `Stop` that
  ends the failure has stored all there is.
- `KillAfterStop`: `KillLosesLittle`, from `Nodes`: what is persisted is all that
  was written, and a node that has written is in the hook until it is persisted.
- `PersistedUnderLock`: `PersistsUnderLock`; `Left` is needed because a persist by
  `Stop` after the end of the operation has nothing to add but after a failure.

`ResourceApplyProofs`, for any instances, pairs of configurations and bounds
- `TypeCorrect`: `TypeOK`.
- `NoObjectIsLost`: `NoObjectLost`. `Applies`, `Destroys` and `Deposes` say, for
  the three kinds of nodes of an instance, what is in hand and what is recorded
  at each point: a node writes over a record only when that is empty, of the same
  object, or of one that is gone. They rest on two edges of the graph, which a
  plan always has (`DestroyedFirst`, `DestroyedLast`): a creating node waits for
  the destruction of what it replaces, a node that destroys a deposed object
  waits for the creation of the new one. By `ObjectsAt` a deposed object is of an
  earlier run than its key, so the key of a run is free when the run deposes
  under it, and a restored object cannot take the place of a new one.
- `FailedAreTainted`: `FailedIsTainted`, from the same invariant, in which
  `Marked` follows a broken object also while it is deposed or in hand.
- `CrashLosesOnlyWork`: `CrashLosesLittle`. `SavedInv` says that what is not
  stored belongs to a creating node before the end of its hook, or to one that
  has ended since the last store; a hook that stores stores everything, and what
  it finds in the hands of other nodes is recorded or of a creating node, too
  (`HeldIsRecorded`).

`ResourceApplyGraphProofs`, where the graph as a whole matters
- `PlansAcyclic`: `AcyclicIfInherited`. `EdgeForm` says what kinds of edges there
  are, `NoCycle` puts the nodes in layers: those that destroy first wait only for
  such nodes of their dependents, creating nodes for those and for creating nodes
  of their dependencies, nodes that destroy last for all of them. Inside each
  layer the order of the dependencies excludes a circle, and inheritance keeps a
  dependent in the layer of what it depends on. `CBDOnly` gives that what is
  deposed is configured with `create_before_destroy`, whatever has failed.
- `ReplacedAreUnused`: `ReplacedIsUnused`. `Worked` says that a node at work has
  had what it waits for done; `IdInv` orders the objects of an instance by the
  runs that made and deposed them, so that a deposed object is none of the
  current ones; `RunInv` says what a plan has given (`Kinds`: the nodes of each
  instance; `Links`: their edges), and what is complete at each point of a node
  (`Good`). When a deposed object is destroyed, the node of each recorded
  dependent has therefore ended well, or there was nothing to change, and both
  leave it referring to current objects only. That this lasts is `Settled`: what
  a node has applied refers to objects whose nodes were done before it, and
  `RefIdsStay` where there is no node, because an instance without a change
  refers only to what keeps its identity.
- `CleanRuns`: `CleanRun`, from the same invariants, with `Gone` (a node of a
  deposed object that ends well has removed it) and `Forgotten` (what is lost
  stays where it is).

`WalkerProofs`, for any graphs and any number of updates
- `TypeCorrect`: `TypeOK`, which needs of the walker's copy of the graph that a
  vertex to rewire has a goroutine (`Basic`).
- `DependenciesFirst` and `SkipsHaveCause`: `WaitsForItsDeps` and
  `SkipsOnlyOnFailure`, as long as no removed vertex returns (`NoneReturns`,
  which holds of itself up to two updates, `TwoUpdates`, as in the run); the
  stale edge above is why. `DepsInv` says that each vertex has the dependencies
  of the latest graph; `Channels` that the waiter a goroutine receives from is
  replaced only by a newer one and that only replaced waiters are cancelled;
  `Waiter` what a waiter's answer means for its graph; `Decided` that a goroutine
  past its last receive is cleared or blocked by the graph of some update. That
  a result, once recorded, stays (`ResultKept`) keeps the answer true afterwards.
- `ImplementsWalk`: with a single `Update`, as `AcyclicGraph.Walk` makes it, the
  safety part of `ImplementsGraphWalk`. `Static` adds that nothing is cancelled
  and what each goroutine has recorded at each point (`Recorded`).

`PromisingProofs`
- `TypeCorrect`. `TypeOK` is inductive; it contains `NilNotFollowed`, that each
  step of a search finds the pointer it follows.
- `DeadlockFree`: `NoDeadlock` for any number of tasks. `NoDeadlock` is not
  inductive, since the last task to block may find its cycle before or after
  others do. The strengthening is `CycleSeen`: when the tasks of a set wait for
  each other, one of them is still searching inside the set, or is about to
  fail the promise it awaits. The announcement that closes the cycle starts
  such a search (`Get`); the cycle cannot lose it, because whoever becomes
  responsible for a promise does not wait (`CycleKept`), and the search, which
  finds every responsibility unchanged and every task waiting, leaves the set
  only by failing one of its promises, which ends the cycle (`SearchStep`).
  This rests on `Control`: what is announced is what is awaited, a new task
  does nothing before its launch, the second pass starts at the promise asked
  for.
- `NoWakeUpLost`: `WokenWithResult`, from `Waits`: a blocked task is in the list
  of its promise or the promise has its result.
- `OneResult`: `ResolvedOnce`, from `Ownership`: what a task owns or is handing
  over it is responsible for, and a promise in someone's responsibility has no
  result or a forced one.
- `FirstAlarmReal`: `FirstAlarmIsReal`. The search takes no lock, and what it has
  seen may be out of date when it goes on. As long as nothing has been forced
  (`NoneForced`), what it looks at is awaited by a task that its own task depends
  on, or has its result (`OnTrack`, said with the sets of tasks that are closed
  under waiting, `Closed`). Steps of others keep this because a responsibility
  moves only away from a task that awaits nothing (`ClosedBefore`) and what is
  awaited stays awaited until it has a result (`AwaitedKept`).
- `FirstOfCycleFails`: once a cycle stands, none of its tasks can resolve its
  promise, so that the first of its promises to get a result is failed by a
  search, for any number of tasks. `CycleStands` says that until then every
  promise of the cycle is the responsibility of a task that awaits another of
  them.
- `SmallCycleFailed`: `SmallCycleFailsAsOne`, for cycles of at most three promises
  among any number of tasks and promises. The inductive invariant is `Ring`, which
  `Calm` starts: before the first cycle nothing is forced and no search collects,
  because the first alarm shows a cycle (`AlarmCycle`), and every cycle that an
  announcement closes goes through the task that makes it, so that the one
  recorded is the only one that is minimal (`OneCycle`, `CycleRecorded`,
  `RingBegins`). From then on a
  promise of the cycle without a result is the responsibility of a task that
  awaits the next one, until that task itself is the one that fails it
  (`Pending`). As long as two promises are without a result the cycle does not
  change (`CycleFrozen`), so that a second pass follows it (`Following`) and the
  pass of one of its tasks gathers all of it in its order (`Gathered`, `Fails`):
  a promise that is failed while the one whose task awaits it has no result yet
  is failed by that task, whose list goes on to that one (`FailedBehind`). Three
  is where this ends: in a longer cycle a task may be woken and return while two
  promises of the rest are still open, and the pass of another getter stops
  there. That at most three elements are what `Cardinality` says needs that
  finitely many promises have been made (`Counted`).

**Only model-checked.** All liveness properties, and with them that `Walker`
implements the fairness of `GraphWalk` (the prover does not treat fairness and
`ENABLED`), and that a small cycle does fail in the end (`SmallCycleFails`). Every
safety invariant and action property of the passing runs is a theorem, under the
conditions said with it. Without a file at first `Filesystem` has only the
liveness properties checked, since two holders are possible there (*Two holders*).

## 5. Not modelled

- `rpcapi`: the handle table is one map behind one mutex with checks of
  dependencies, each operation atomic; the stopper closes channels. The hazard,
  use after close, is answered by a check in the same critical section.
- `providercache`: selection among remote packages, and directories on disk;
  almost all of it is I/O and hashes.
- `checks`: a map behind a mutex, filled by nodes whose order the graph fixes;
  misuse panics.
- `refactoring`: moves are a function of a state and a configuration, computed
  before the plan; a candidate for a checked function rather than for a process.
- `instances`: a lookup structure behind one mutex, written before it is read
  by the order of the graph, which `Walker` has.
- The other remote clients: each is a lock and two requests against a service;
  Consul's is the one with more than that.
- Plan, validate and destroy graphs, and in the apply graph providers, modules,
  outputs and data: their edges follow references only; the edges that are hard
  to get right are those `ApplyGraph` has.
- Front ends, pure data, and clients of services that are not in the repository:
  configuration and expression languages, plan files, commands and views,
  plugins and generated code, the test runner, the HCP Terraform backend, the
  evaluator of stacks, the course material. They are by far the most lines.

What is left out of a component that is modelled is said with its module above.

## 6. Where to go on

1. A session for the Consul lock, so that its loss is a consequence of missed
   renewals; moved blocks as functions.
2. `GraphWalk` for a walk that is updated: what the caller of several `Update`s
   may rely on, as an abstract specification.
