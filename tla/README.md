# Astro Canvas in TLA+

TLA+ specifications of the Astro Canvas workflow engine and of the parts of its server and
browser client that follow it, the TLC configurations that check them, and proofs that TLAPS
checks. Paths are relative to `src/`; `engine/`, `server/`, `store/` and `manager/` stand for
`backend/src/astro_canvas/engine/` and so on, `stores/` and `api/` for `frontend/src/stores/` and
`frontend/src/api/`.

Check a configuration with `tlc -config <run>.cfg <module>.tla`, the proofs of a component with
`tlapm <module>Proofs.tla`. `PROJECT.json` lists components, runs, the source lines behind every
definition, the hazards, and for every property a mutation of the model that breaks it.

## 1. The system

Astro Canvas runs workflows: documents whose nodes, wired into a graph, are calls of Python
functions. The browser edits the document and saves it; the server compiles it, decides which nodes
are out of date by content hash, executes them on threads or in worker processes, caches what they
return, and streams status events back. A batch runs one workflow over the rows of a table.

| Component | State it keeps | Operations | Talks to |
|---|---|---|---|
| Scheduler, one per workflow (`engine/scheduler.py`) | a `NodeRecord` per node, the asyncio task of each node, the debounce task, the run lock, the run in progress, the auto-run switch | `update`, `set_auto_run`, `start_run`/`run`, `cancel`, `cancel_node`, `close`, lazy inputs, expansions | cache, executors, event bus; called by HTTP handlers and the batch runner |
| Output cache (`engine/cache.py`, `engine/worker.py`) | memory LRU, index of outputs (SQLite), blob directory | `lookup`, `store`, `adopt`, `refs`, `evict`, `collect` | shared by all schedulers; worker processes write blobs by themselves |
| Executors (`engine/executors.py`) | a thread pool, worker processes | run one node call, cancel it | scheduler |
| Batch runner (`engine/batch.py`) | one `BatchRun` per batch: rows, abort flag, status | submit, cancel, close | a scheduler per row, the shared cache, the event bus |
| Event bus and WebSocket session (`engine/events.py`, `server/ws.py`) | a bounded queue per subscription, a send lock per socket | publish, subscribe, forward, snapshot | scheduler on one side, client on the other |
| Client session (`api/ws.ts`, `stores/session.ts`, `stores/execution.ts`) | the socket, the wanted workflow, node statuses, the current run | open, run, cancel, reconnect | WebSocket and HTTP |
| Workflow store (`stores/workflow.ts`) | the open document, change counters, the save timer and promise, undo and redo stacks | edit, save, load, undo, redo | HTTP |
| Runtime (`server/runtime.py`) | the open workspace, its schedulers, tables, watcher and trust decisions | save, load, recover, delete, switch, recompile | everything on the server |
| File index and uploads (`store/files.py`, `server/workspace.py`, `packs/core/.../io/paths.py`) | the folder, the table of hashes | upload, delete, ask for a hash, fingerprint a loader's file | other programs, the scheduler, loader nodes |
| Pack manager (`manager/packs.py`) | the environment, snapshots, pack records, the node registry | install, update, uninstall, roll back, enable | `uv`, registry, clients |
| Graph compiler (`engine/graph.py`) | none | flatten, validate, sort | scheduler |
| Trust gate (`manager/trust.py`) | decisions per snippet, quarantine mark | record, compile | runtime, scheduler |

The remaining components (session, undo history, run history, bundles, registry client, users, HTTP
plumbing, previews, command line, SDK, canvas widgets, node packs, packaging) are listed with the
reason they are not modelled in `PROJECT.json` and in section 7.

What is hard, and what makes each part correct:

- **Scheduler.** Edits, cancels, timeouts and the debounce interleave with a run at its awaits;
  node tasks exist before they take their first step and outlive the run that started them.
  Correct means: no record stays `running` with nothing behind it; at most one auto-run waits; runs
  go one at a time in order and an explicit one is never lost; a cancelled run starts nothing; the
  cost gate holds; a run that reports `done` has done what it planned; everything comes to rest.
- **Output cache.** Workers write while the collector deletes, the index and the directory are
  updated separately, the server may stop between them. Correct means: the byte account is exact;
  a lookup returns all of a node's outputs or nothing; a row always has its blobs; a collection
  leaves exactly what is referenced.
- **Autosave.** Several calls of `saveNow` are suspended at once, answers cross, the document is
  replaced under a PUT. Correct means: no edit is forgotten, the toolbar tells the truth, "saved"
  means stored.
- **Event stream.** A snapshot and live events share one socket, events of the server's threads reach
  the loop later than its own, HTTP answers race all of them, queues are bounded, connections break.
  Correct means: the canvas shows the engine's state.
- **Batch.** Rows in flight, a cancel or a failure between a row's end and its report. Correct
  means: nothing succeeds after a cancel, a failure stops the rest exactly when asked to, the final
  event is last and right, the batch ends.
- **Lazy inputs.** A node's thread blocks in the middle of its call until the loop has computed what
  it asked for, on the same pool; cancelling the node does not stop its thread. Correct means: every
  call anybody awaits is queued or on a thread, nobody waits for what has ended, a shared input is
  computed once, and the threads come back to the pool.
- **Packs.** Requests run on threads without a lock and interleave between calls of `uv`, transactions,
  changes of the registry and the two halves of recompiling a workflow; `uv` moves other packs than the
  one asked for, fails or runs out of time halfway, an import may fail, the server may restart. Correct
  means: the open workflows follow the registry, a rollback restores its snapshot, and the list of packs
  and the restart banner tell the truth.
- **Runtime.** A switch of the workspace awaits the closing of every scheduler while other requests go
  on, and trust and pack requests recompile from threads of their own. Correct means: no workflow is
  served from another folder, what was dropped never runs again, the engine runs the stored document
  under the decisions made for it, a recovery returns the last save, one watcher watches the open folder.
- **Files.** Files change while they are uploaded, hashed and loaded. Correct means: what is remembered
  of a file is true of the file that is there, and no upload replaces what it was not told to.
- **Graph compiler.** One pass over a document whose every part may be wrong. Correct means: what is
  sorted is sorted, exactly what cannot run is left out, every input of what runs arrives.
- **Not modelled yet.** Session (two openings interleaving at awaits), undo (a bounded stack with
  coalescing).

## 2. The modules

| Module | Models | Instance for TLC |
|---|---|---|
| `Scheduler` | the reactive scheduler of one workflow | `MCScheduler` |
| `RunQueue` | what the scheduler promises about its runs, abstractly | through `Scheduler` |
| `SchedulerProofs` | theorems about `Scheduler` | |
| `OutputCache` | the cache of a workspace, its workers and its collector | `MCOutputCache` |
| `Autosave` | saving the open workflow, browser and server | `MCAutosave` |
| `AutosaveProofs` | theorems about `Autosave` | |
| `EventStream` | from the scheduler's status changes to the canvas | `MCEventStream` |
| `Batch` | one batch | `MCBatch` |
| `BatchAndStreamProofs` | theorems about `Batch` and `EventStream` | |
| `LazyInputs` | node calls that ask for lazy inputs, and the thread pool | `MCLazyInputs` |
| `LazyInputsProofs` | theorems about `LazyInputs` | |
| `PackManager` | the pack manager, the environment and the registry | `MCPackManager` |
| `PackManagerProofs` | theorems about `PackManager` | |
| `Runtime` | the runtime of a workspace and its requests | `MCRuntime` |
| `RuntimeProofs` | theorems about `Runtime` | |
| `WorkspaceFiles` | uploads, the index of hashes, a loader node | itself |
| `WorkspaceFilesProofs` | theorems about `WorkspaceFiles` | |
| `GraphCompile` | from a document to the graph the scheduler runs | `MCGraphCompile` |
| `GraphAndCacheProofs` | theorems about `OutputCache` and `GraphCompile` | |

### Scheduler

All of the scheduler runs on one event loop, so an action is the code between two awaits. One such
stretch is long: a pass of `_execute_plan` looks at every pending node. It is taken node by node
(`BeginPass`, then `DropNode`, `SkipNode`, `DeferNode`, `TakeCached`, `GateNode` or `LaunchNode` for
the next pending node, then `EndPass`), and `AtAwait` holds every other action back until it is over.

| State | Code | Actions | Code |
|---|---|---|---|
| `doc` | the document last passed to `update`, compiled | `EditParam`, `SaveUnchanged`, `RemoveOrRestore`, `BreakOrRepair` | `update` with a document that differs in one parameter, in nothing that is hashed, in one node, in the validity of one node |
| `rec` | `records` | `SetAutoRun`, `DebounceFires` | `set_auto_run`, `_debounced` |
| `task` | `_tasks` and what each coroutine holds | `RequestRun`, `BeginRun` | `start_run` and `run` up to the lock, `_plan` |
| `cache` | the shared output cache, by key | the pass | `_execute_plan` |
| `deb`, `auto` | `_debounce`, `auto_run` | `FinishRun`, `KillRun`, `LimitReached`, `Drained` | the ends of `run`: normal, `CancelledError`, `run_timeout_s` |
| `queue`, `run` | who waits for `_run_lock`, and the run that holds it | `TaskNeverStarts`, `TaskStarts`, `TaskSucceeds`, `TaskFails`, `TaskCancelled` | `_execute_node` up to and after its await |
| | | `CancelRun`, `CancelNode`, `Evict`, `SharedStore` | `cancel`, `_cancel_node`, eviction, a batch row on the same cache |

Nodes are numbered in topological order. A key, a hash in the code, is here the function from a node
and its ancestors to their parameter versions; a value is written the same way by what it was really
computed from. So "the cache is right" is an equation, `cache[k] = k`, and a value computed from two
versions of one ancestor (`Mixed`) is visible. `run.touched` and `run.suspect` only observe.

Left out: expansions, `close`, progress, messages, statistics. Lazy inputs are in `LazyInputs`. A
process node differs from a thread node only in where it computes; that part is in `OutputCache`.

### RunQueue

Requests wait in one line and begin in order, one at a time; only a waiting auto-run is ever
withdrawn, and at most one waits. `Scheduler!Runs` instantiates it with `waiting <- queue` and
`holder` read off `run`; `ImplementsRunQueue` is both checked and proved.

### OutputCache

`lru`, `nbytes` are `MemoryLRU` (`SizeOf` is the sum the account should be); `rows`, `used` the outputs
table and its `last_used` order; `blobs` the directory; `job` the worker of each process key; `gc` the
collector between its deletions. The loop does one thing at a time (`OnLoop`): lookups (`LookupMemory`, `LookupDisk`, `LookupDangling`),
`Store`, `StartJob`, `Adopt`. Workers (`JobReads`, `JobWrites`) and a collection (`GcEvict`, `GcScan`,
`GcDelete`, `GcEnd`) interleave. `Crash` loses the memory and the jobs, may leave blobs of a store
whose rows were not committed, and the next start collects. Keys and digests are opaque; `Content`
says which digest each port of a key has, so that two keys can share a blob.

### Autosave

`Edit` and `SaveLayout` change the document; `TimerFires`, `UserSaves` and `UserRuns` call `saveNow`,
whose suspended calls are `call`; `waiting[c]` are the calls that await the promise of call `c`'s PUT, in
that order. When it is answered (`Answered`, `Failed`) the continuations due are put in `micro` in the
order JavaScript resumes them, the issuer of the PUT first, and `Resume` takes them one by one before
any browser event (`Settled`). `ServerSaves` applies PUTs in any order;
`GetServed` and `Load` open a document, possibly the same one, while its PUT is still in flight.

### EventStream

`ChangeStatus`, `BeginRun`, `FinishRun` publish on the loop: the subscription takes the event unless its
queue is full (`Offer`). Trust and pack requests recompile on a thread: `ThreadUpdates` changes the
records of some nodes (`due`), then for each of them in any order `ThreadReads` reads the status
it has by then and `ThreadPublishes` hands the event to `call_soon_threadsafe` (`calls`), which
`Deliver` empties on the loop, after whatever the loop has published meanwhile. The records of one update
change in one step; several updates, on as many threads as there are, interleave at all the others.
`HandleSubscribe`, `ReplySent`, `IssuesSent`, `StatusSent` are the command loop answering `subscribe`
one awaited send at a time; `Forward` and `EventSent` the forwarder; `sends` is the fair send lock.
`SocketOpens`, `SocketBreaks`, `Receive` are the client's socket; `StatusServed`, `StatusFails`,
`StatusApplied`, `PostRun`, `RunAccepted` its HTTP requests. `openWorkflow` asks for the status before it
subscribes, and every time the socket opens it is asked for again (`asked`, by who waits). A status is the number
of the change that made it, so order and staleness can be read off. `behind` and `disputed` only observe, for
each part of the canvas (a node, or 0 for the current run): the subscription was not given its latest news;
an HTTP answer has changed it after the socket's last word.

### Batch

One coroutine per row: `SkipRow`, `StartRow` behind a semaphore, `Compute`, `StopRun`, `RunTimesOut`
for what its scheduler can do, `RunReturned` (the record is final), `RowEnded` (after
`scheduler.close()`: the event, and perhaps the abort), then `Finish`; `Cancel` at any time.

### LazyInputs

`line` is the queue of `ThreadPoolExecutor`, `thread` what each of its threads does, `ensure` the
`_ensure` coroutine the loop runs for a thread that asked; `task` and `run` are the scheduler's,
without keys and gates, which `Scheduler` has. `TaskStarts` reads the ordinary inputs and queues the
call, `ThreadTakes` begins it, `CallAsks` is `ctx.needs` up to `future.result()`. `EnsureWalks` goes
over what the input depends on up to the first `await task`; `EnsureResumes` is the code behind that
await and goes on. `CallAnswered`, `CallUnanswered` are what the blocked thread makes of the outcome,
`CallReturns` and `CallFails` the end of the call, whose result counts only if its task still awaits
it (`mine`). `TaskCancelled` takes a queued call out of the pool and leaves a thread that has begun to
itself: it may still ask, and what it asks for is launched. Nodes of the plan do not feed each other,
so that a run launches all of them in one pass.

### PackManager

`env` is the environment, `modules`, `registered`, `records`, `restart`, `compiled` belong to the
process and `rows`, `snapshots` to the database; `job` is what each request's thread is doing.
`TakeSnapshot` is the first step of an install, an update and an uninstallation. Then `uv` is called:
`UvInstalls`, `UvUpgrades`, `UvUninstalls`, `RollbackRemoves`, `RollbackInstalls`. `Results` is what a
call may leave. An install, an update and the second call of a rollback are all a plain `uv pip install`:
the versions asked for are there, with what these packs cannot do without, and everything else that was
installed is kept, upgraded, downgraded or removed at will (`Resolutions`). `uv` locks the environment, so a call is one step; one that
fails or is killed may have done part of its work (`CutShort`), and ends the request (`UvStops`), except that a rollback
passes over a call that exits badly in time. A call the server's death interrupts is one cut short,
and then `Restart`.

`FindAdded` and `ImportTest` decide whether an install is rolled back, by the steps a
rollback of its own takes too (`Diff`, `RollbackRemoves`, `RollbackInstalls`, `RolledBack`). `LookUp`, `Load`,
`AllLoaded` register what is new, `Forget` and `Uninstalled` drop what is gone, `CommitEnabled` and `Drop` switch
a pack. Each of them ends in `_changed`: `Recompile` compiles the open workflow with the registry of that
moment, `SetGraph` sets the graph, and other requests come in between. `Restart` loses the
process and discovers what the environment holds. The packs table is read and written in one step
wherever the code does it in one transaction.

### Runtime

Requests are whole handlers, interleaved at their awaits: `BeginDelete`/`EndDelete` around the closing
of one scheduler, `BeginSwitch`, `CloseSchedulers`, `EndSwitch` around the watcher's and the
schedulers'. `Put` is `save` with its hook, which may trust snippets written here (`Trusts`) and has
nobody else recompiled. `Put` and `Access` begin `Scheduler.update` and `LoadEnds` ends it, because
requests on threads can come between: a decision about a snippet (`Decide`) and a change of packs
(`PacksChange`) each occupy a thread of `Threads`, which lists the open schedulers and, one after the other,
reads the document, sets and compiles it, and sets the graph (`ListSchedulers`, `PickScheduler`, `Recompile`,
`Recompiled`); several threads interleave at each of these. A scheduler is the number of its
creation; its `work` is an armed debounce, a run, or both. `Damage` makes a stored document unreadable, which is what
recovery is for. `crowded`, `raced` and `owed` only observe.

### WorkspaceFiles

`files` holds every file there has been, so that a handle keeps the file a name no longer leads to.
`BeginUpload`, `WriteBlock`, `EndUpload` are an upload in one request; `BeginChunks`, `EndChunks` one in
chunks, moved to its name by the last; `InfoStat`, `InfoLook`, `InfoRead`, `InfoRemember` are
`FileIndex.info` on its thread; `Edit` computes the loader's key, `Run`, `LoadRead`, `LoadDone` load.
`Delete`, `OutsideWrite`, `OutsideRemove` change the folder at any moment. Every write is assumed to
give its file a modification time of its own: two writes of equal size in one tick of the file system's
clock, or a program that restores times, are outside the model, as they are outside the code's.

### GraphCompile

One action per iteration of a loop of `compile`: `Flatten` one body, wire one edge, check one node,
release one node in Kahn's sort, admit one node. Dictionaries and sets are visited in every order, where
the code does not sort. `_bypass` and the subgraphs' promoted params are operators; values of params are
present, absent or refused.

## 3. The runs

All state spaces of passing runs are explored completely. Deadlock is not checked where the modelled
system may come to rest, because the user has no more events to offer under the bounds; it is
checked in `cache`, where lookups can always go on.

| Run | Properties | Instance, and why it is enough |
|---|---|---|
| `scheduler_all` | `RunningHasTask`, `AbortedRunStartsNothing`, `ComesToRest`, `ImplementsRunQueue` | Two wired nodes, the second expensive, two outside events of any of 12 kinds, two explicit runs. Two events are enough for one to hit between the launch and the first step of a task and the other to undo it; two runs and the auto-run give a line of three behind the lock. The safety properties among these are proved without the bounds. |
| `scheduler_chain` | `GatedUntilAsked`, `UndisturbedRunCompletes` | Three nodes in a chain, the middle one expensive: the shortest graph with something before, at and behind the gate. Edits, saves, switches, failures and both cancels; removals and results of other schedulers are left out because they open the gate (a consumer runs while its expensive source is gone, or on what another scheduler computed). Both properties are proved: the second for every kind of outside event, the first for all but those two. |
| `cache` | `MemoryAccount`, `LookupWholeOrNothing`, `DanglingOnlyFromAdopt`, `CollectionIsExact` | Two process nodes and three others over three digests, two pairs of which are shared; memory and disk limits of 2, below what is stored, so that both evict; one crash. All four are proved without the bounds. |
| `autosave` | `NoEditForgotten`, `SaveStateTruthful`, `SavedIsStored`, `EditsAreSaved` | One workflow opened twice, three suspended calls, two edits or layout saves, one failed PUT. Three calls are a saver and two that wait for it, which is what makes two PUTs overlap. The safety properties are proved for any number of each. |
| `events` | `EventsInOrder`, `ViewIsCurrent`, `CatchesUp` | One node, two pieces of news (a change on the loop, an update on a thread, a run), a queue of two (a run, its end and a change overflow it while the forwarder waits), two in all of the answered GETs and POSTs and the lost connections. Two pieces of news are one of a thread and one of the loop that overtakes it. One node: with two the snapshot can be overtaken, see section 4. The safety properties are proved for any number of threads, changes, runs, answers and losses. |
| `batch` | `FinishedIsLast`, `NothingSucceedsAfterCancel`, `FailureStopsTheRest`, `BatchEnds` | Five rows on two slots, both values of `continue_on_error`. The safety properties are proved for any number of rows and slots. |
| `lazy` | `EachCallIsSingle`, `NobodyWaitsForNothing`, `ComesToRest` | Two nodes that ask for the same input, which is computed from another node. Three threads: with both askers blocked one is left, so that what they share is computed while both wait, and after a cancel an orphaned thread and two askers can block all three. Two runs, one cancel, and one failed call or eviction, so that a node is asked for again while a thread still computes it. The first two are proved for every graph and pool. |
| `packs` | `CanvasFollowsRegistry`, `RestartIsHonest`, `ListIsTruthful`, `RollbackRestores` | Two packs, the second requiring the first, which is shipped; two versions of each, an upgrade of the second whose import fails, a version of the first without a pin; every outcome of `uv` over these, one of its calls failing or cut short anywhere. Two requests in progress, three requests and restarts in all: install, then a change that a third request rolls back, or two that overlap and a restart. All four are proved without the bounds. |
| `runtime` | `SwitchIsClean`, `EngineRunsStored`, `OpenIsStored`, `RecoversLastSave`, `WatcherFollows` | Two folders that both know two workflows, two documents, two saves, two threads, two schedulers; and three in all of the trust decisions (one in a folder), switches (also overlapping), deletions, changes of packs and damaged rows. Two switches let a scheduler be made between the halves of one and be closed by the other; two threads and the loop let updates of one scheduler cross, two saves let one repair that, or add a decision the other workflow does not learn of. All five are proved without the bounds. |
| `files` | `HashIsOfWhatIsThere`, `KeyNamesContent`, `UploadsKeepWhatIsThere` | Two uploads of one name, one request for a hash beside the uploads' own, files of two blocks, three events. Two blocks are enough to mix two contents in one reading. All three are proved without the bounds. |
| `graph` | `OrderIsTopological`, `StuckIsCyclic`, `GraphIsWhatCanRun`, `InputsArrive` | 24,600 documents, each with two sets of quarantined nodes: all wirings of three two-input nodes by at most three edges, all faults of a node or an edge along a chain with a shortcut, instances that feed each other with boundary ports and promoted params that exist or not, recursion and missing bodies. `MAX_SUBGRAPH_DEPTH` is 2 instead of 8: recursion reaches it, nothing else does. All four are proved for every document, registry and bound. |
| `scheduler_key` | `StoredUnderItsKey` (violated) | Section 4. |

Each property's comment in its module says what it is about. Some deserve a word:

- `ComesToRest` of `LazyInputs` exempts the state in which every thread is blocked and a call is
  queued behind them (`AllBlocked`): there the server does not go on, see section 4.
- `UndisturbedRunCompletes` exempts what lies behind a node the run found failed, cancelled or being
  cancelled (`run.suspect`). Without the exemption it is false, see section 4.
- `SavedIsStored` holds only as long as no two PUTs have overlapped, and speaks of edits: a saved
  layout is not counted as a change (section 4).
- `LookupWholeOrNothing` holds where a node's outputs are all writable or none is (section 4).
- `ViewIsCurrent` and `CatchesUp` speak of each part of the canvas by itself, and of every session with its
  answered requests. They exempt a part only as long as the subscription was not given its latest
  news (`behind`), or an answer over HTTP says something else than the socket's last word
  (`disputed`). The next event of the node, or the next subscription, ends the first; the next message
  about it, the second. For both the code has no remedy (section 4).
- `CanvasFollowsRegistry` is about any requests. It exempts two recompilations of which one began while
  the other was under way (`crossed`), until one begins alone.
- `RestartIsHonest` and `ListIsTruthful` are about requests one after the other, of which no install and
  no failed call of `uv` has changed an installed pack (`unseen`): then the code asks for no restart
  (section 4). Updates and rollbacks that move other packs are covered. `RollbackRestores` is about rollbacks that nothing overlapped.
- `EngineRunsStored` exempts a scheduler two updates of which have overlapped (`raced`), until
  one on the loop overlaps none, and asks of a graph the decisions it was told of (`owed`);
  `OpenIsStored` and half of `SwitchIsClean` a workflow used between the closing and the dropping of its
  scheduler (`crowded`): what the code does there is in section 4.
- `KeyNamesContent` is about keys computed while the file was there.
- `InputsArrive` exempts nodes inside an instance behind an edge that leaves a missing port (section 4).

The type invariants of all modules but `GraphCompile` are theorems (section 5), and
the runs do not repeat them.

**Fairness.** `FairSpec` of each module assumes weak fairness of what the platform drives and of
nothing a user does. `Scheduler`: the debounce sleep ends, the loop serves every ready callback, and
a node call returns or fails (what `run_timeout_s` is for). `Autosave`: timers run out, promises
resume, a request is answered or fails. `EventStream`: tasks, threads and messages make progress, requests are answered or fail, runs end, and
the client reconnects until it succeeds (`api/ws.ts` retries for ever). `Batch`: each row's coroutine
goes on; `run_timeout_s` ends a run that does not. `LazyInputs`: the loop and the threads, as a whole,
make some step whenever one is possible, which is weaker than fairness to each of them. No strong
fairness is assumed anywhere.

## 4. Where the code and its documentation differ

One run ends in a counterexample that shows the code doing something else than a doc says.

- `scheduler_key` (`StoredUnderItsKey`). `_launch` captures the node's parameters when the task is
  created (`engine/scheduler.py:541`); `_execute_node` reads `rec.key` at its first step and stores
  under it. An edit that lands between the two stores the old parameters' output under the new key.
  `docs/concepts.md:127`: "A result is stored under the hash of everything that produced it".

Met while modelling, without a run of their own. The engine and the canvas:

- A run launches a node that failed before, but its record says `error` until the task's first step
  (`engine/scheduler.py:506`); the same pass reads that and skips the node's consumers, and the run
  reports `done`. `engine/scheduler.py:422`: "Execute `targets` (default: every leaf) plus dirty
  ancestors".
- A node with one output that cannot be written to disk has rows for the others only
  (`engine/cache.py:435`); once it leaves memory, `lookup` returns those, not `None`, and consumers of
  the missing port fail at every run. Docstring at `:394`.
- `saveNow` waits for the PUT in flight once and does not look again (`stores/workflow.ts:1205`); two
  calls that waited, or one that waited and the saver's next round, issue PUTs side by side that the
  server may apply in either order. `:1202`: "awaits an in-flight save first". `autosave` contains it.
- The snapshot a subscriber gets is taken once and sent one await at a time while the forwarder is
  live (`server/ws.py:169`): a change sent in between is overwritten by the snapshot's older status,
  where `stores/session.ts:41` expects a reconnect to replay the state. It takes two nodes, one sent
  before the other; `ViewIsCurrent` is false with two.
- Threads that wait for a lazy input keep their place in the pool (`engine/scheduler.py:810`), so
  enough of them leave none for what they wait for; with `ASTRO_CANVAS_MAX_WORKERS=1` one node
  suffices. `docs/formats/workflow.md:103` says such an input is computed on demand. Cancelling or
  timing out the run frees its tasks and not the threads, and a thread whose task is gone can block
  the pool with no run left to cancel. These states are in `lazy`.
- A cancelled node's thread may still ask, and `_ensure` then launches nodes although the run was
  aborted; `AbortedRunStartsNothing` is about a workflow without lazy inputs. Also in `lazy`.
- `stores/session.ts:83`: "WS events keep the state current". Three things stand against it, and `events`
  contains each. A status published on the thread of a trust or pack request waits for the loop
  (`engine/events.py:278`); one the loop publishes meanwhile overtakes it, and the older one is the
  client's last. A full queue drops events and nobody is told (`:208`). An HTTP
  status answer computed before a change may be applied after the event of that change
  (`stores/session.ts:80`), and the answer of a POST may arrive after the run's end and name it current
  again (`:131`). The canvas stays wrong there until the next news of the node or the next
  subscription.
- Batch mode's *Save layout* does not bump `changeSeq` (`stores/batch.ts:201`), so the save it
  schedules finds nothing to send; `docs/guide/batch.md:22` says it writes into the document.
- `session.run` posts the run even if the save before it failed (`stores/session.ts:129`; `:124`).
- Rows in flight at once look for a shared key before either has stored it and compute it twice
  (`engine/batch.py:507`); `docs/guide/batch.md:41` says they compute it once.
- A node that becomes invalid while it runs ends `dirty` with no run to clear it, so `settling()`
  stays true with auto-run on (`engine/scheduler.py:581`; docstring at `:312`).


The runtime (`server/runtime.py`):

- A request between the closing of the schedulers and the clearing of the dictionary makes or uses a
  scheduler that is never closed and works on the old workspace (docstring at `:165`); `crowded` marks it.
- `recompile_all` reads a scheduler's document on a thread and sets it again: a save in between is put
  back in the engine (the row keeps it), and no debounce is armed for what the decision allowed. Two of
  them, or one and the loop's update, compile and set the graph in different orders, and the graph of
  the older decisions stays; `raced` marks it. `server/trust.py:34`: "every node with that snippet follows".
- What a save adds to the trusted snippets (`server/runtime.py:351`) recompiles the saved
  workflow only: another open one with the same snippet follows at its next update.
- A deletion that waits across a switch deletes the other folder's row of the same id.
- A switch whose folder cannot be opened leaves the old one without its watcher; switches that overlap
  can leave one behind that nobody stops. `close` waits for runs queued behind the run lock to run.

Packs (`manager/packs.py`):

- `rollback` takes no snapshot (`:526`); `server/manager.py:5`: "everything that touches the environment
  snapshots first". `server/manager.py:206` speaks of `uv pip sync`; the code installs and removes a
  difference.
- An install that changes a pack already imported (the one asked for, or one that `uv` moves to resolve
  it, `docs/guide/packs.md:17`, `:31`) loads no entry point that is new, so no restart is asked for and the
  old code keeps running (`:369`-`:391`). Neither is one when `uv` runs out of time halfway, or a rollback is
  left by `UvError` (`manager/uv.py:205`) before `:551`. `:404`: "New code always needs a restart to take
  effect". `unseen` marks these.
- The reinstall of a rollback (`:548`) is a plain `uv pip install`: it brings back what the pinned packs
  require and may move what it does not pin, and a direct version has no pin at all, yet the answer says ok.
  `docs/guide/packs.md:84`: "matches the snapshot line for line".
- `_changed` compiles with the registry of one moment and sets the graph at a later one
  (`engine/scheduler.py:173`-`:177`), on threads without a lock: of two that cross, the one with the older
  registry may be last, and the open workflow stays compiled with it (`crossed`).
- The rollback after a failed import test may fail itself; its result is not looked at (`:376`) and the
  answer says "rolled back". Only the first of several new entry points is tested.
- Two installs that overlap: the rollback of one removes the pack of the other. A pack disabled, rolled
  back away and installed again after a restart is registered while the list says disabled (comment at
  `:285`).

Files:

- Keys are computed by an edit only (`engine/scheduler.py:178`), so a Run after a file was replaced
  serves the old output; `docs/guide/data.md:41` says "on the next edit or Run".
- A key computed while the file was missing keeps its meaning "missing": what a run stores under it
  after the file has come is served when the file is gone again.
- Parts of unfinished or refused chunked uploads are never removed. An upload's answer describes
  whatever is at the path by then. One told to overwrite a file that is still being uploaded writes
  into the same file.
- `restore_inputs` (`manager/bundles.py:535`) writes to `imports/` without looking whether a file is
  there; `docs/guide/bundles.md:46`: "Yours is kept; nothing is overwritten". Not modelled.

The graph compiler (`engine/graph.py`):

- Behind two disabled nodes in a row a consumer gets `dangling_edge` (`:382`), where
  `docs/formats/workflow.md:52` promises a pass-through or `upstream_disabled`.
- Nodes downstream of a cycle are told "node is part of a cycle" (`:555`).
- An edge from a port an instance does not have into another instance puts the error on the instance's
  id (`:324`), which no flat node has: the inner nodes still run without that input, where
  `docs/formats/workflow.md:83` excludes nodes with errors and everything downstream.

## 5. What is proved

Each theorem holds for every value of the constants that satisfies the module's named assumption; none
uses a bound. The provers see steps only, so each safety property is drawn from an inductive invariant.

| Module | Theorem | Statement |
|---|---|---|
| `SchedulerProofs` | `TypeCorrect` | `Spec => []TypeOK` |
| | `RunningHasTaskAlways` | `Spec => []RunningHasTask` |
| | `OneAutoRunAlways` | `Spec => []OneAutoRun` |
| | `AbortedRunStartsNothingAlways` | `Spec => AbortedRunStartsNothing` |
| | `UndisturbedRunCompletesAlways` | `Spec => UndisturbedRunCompletes` |
| | `GatedUntilAskedAlways` | `Spec => []GatedUntilAsked`, if `Ops` has neither `"remove"` nor `"share"` |
| | `ImplementsRunQueueAlways` | `Spec => ImplementsRunQueue` |
| `GraphAndCacheProofs` | `TypeCorrect` | `Spec => []TypeOK` |
| | `MemoryAccountAlways` | `Spec => []MemoryAccount` |
| | `DanglingOnlyFromAdoptAlways` | `Spec => []DanglingOnlyFromAdopt` |
| | `LookupWholeOrNothingAlways` | `Spec => []LookupWholeOrNothing`, if `AllOrNone` |
| | `CollectionIsExactAlways` | `Spec => CollectionIsExact` |
| | `OrderIsTopologicalAlways` | `CompileSpec => []OrderIsTopological` |
| | `StuckIsCyclicAlways` | `CompileSpec => []StuckIsCyclic` |
| | `GraphIsWhatCanRunAlways` | `CompileSpec => []GraphIsWhatCanRun` |
| | `InputsArriveAlways` | `CompileSpec => []InputsArrive` |
| `AutosaveProofs` | `TypeCorrect` | `Spec => []TypeOK` |
| | `SuspendedCallsAreServed` | `Spec => []Lists` |
| | `NoEditForgottenAlways` | `Spec => []NoEditForgotten` |
| | `SaveStateTruthfulAlways` | `Spec => []SaveStateTruthful` |
| | `SavedIsStoredAlways` | `Spec => []SavedIsStored` |
| `LazyInputsProofs` | `TypeCorrect` | `Spec => []TypeOK` |
| | `NobodyWaitsForNothingAlways` | `Spec => []NobodyWaitsForNothing` |
| | `EachCallIsSingleAlways` | `Spec => []EachCallIsSingle` |
| `BatchAndStreamProofs` | `TypeCorrect` | `Spec => []TypeOK` |
| | `FinishedIsLastAlways` | `Spec => []FinishedIsLast` |
| | `FailureStopsTheRestAlways` | `Spec => FailureStopsTheRest` |
| | `NothingSucceedsAfterCancelAlways` | `Spec => NothingSucceedsAfterCancel` |
| | `StreamTypeCorrect` | `StreamSpec => []StreamTyped` |
| | `EventsInOrderAlways` | `StreamSpec => []EventsInOrder` |
| | `FirstNodeIsCurrentAlways` | `StreamSpec => []FirstNodeIsCurrent` |
| | `ViewIsCurrentAlways` | `StreamSpec => []ViewIsCurrent`, if `NumNodes = 1` |
| `PackManagerProofs` | `TypeCorrect` | `Spec => []TypeOK` |
| | `CanvasFollowsRegistryAlways` | `Spec => []CanvasFollowsRegistry` |
| | `RestartIsHonestAlways` | `Spec => []RestartIsHonest` |
| | `ListIsTruthfulAlways` | `Spec => []ListIsTruthful` |
| | `RollbackRestoresAlways` | `Spec => RollbackRestores` |
| `RuntimeProofs` | `TypeCorrect` | `Spec => []TypeOK` |
| | `SwitchIsCleanAlways` | `Spec => []SwitchIsClean` |
| | `OpenIsStoredAlways` | `Spec => []OpenIsStored` |
| | `EngineRunsStoredAlways` | `Spec => []EngineRunsStored` |
| | `WatcherFollowsAlways` | `Spec => []WatcherFollows` |
| | `RecoversLastSaveAlways` | `Spec => []RecoversLastSave` |
| `WorkspaceFilesProofs` | `FilesInvAlways` | `Spec => []FilesInv` |
| | `HashIsOfWhatIsThereAlways` | `Spec => []HashIsOfWhatIsThere` |
| | `KeyNamesContentAlways` | `Spec => []KeyNamesContent` |
| | `UploadsKeepWhatIsThereAlways` | `Spec => UploadsKeepWhatIsThere` |

**`SchedulerProofs`** (the sources of a node have smaller numbers; the bounds are naturals):

- `TypeOK` is inductive. Its work is in the operators: the key of a node is a function on nodes that
  exist (`KeyOfType`), what is computed from values is a value (`ComputedType`), withdrawing a request
  leaves a queue (`RemoveAtProperties`).
- `RunningHasTask` is inductive next to `TypeOK`. A task is cleared only together with its own
  record; where a record is recreated under a running task (remove, then restore), `own` is false and
  the new record is `dirty`.
- `OneAutoRun` is inductive next to `TypeOK`: its second and third conjuncts tie `deb` to the queue
  and to the run, which is what makes arming the debounce again leave one auto-run. The lemmas
  `DroppedLeavesNoAuto` and `DropKeepsOneAuto` say what withdrawing does to the queue.
- `AbortedRunStartsNothing` is about steps. It needs `AbortedTasks`: once `run.abort` is set, a task
  that has not taken its first step is cancelled, and no pass holds nodes it could still launch
  (`AbortedTasksInductive`). From there a record that turns `running` contradicts the guard of
  `TaskStarts` (`StepStartsNothing`).
- `UndisturbedRunCompletes` is about one step, the end of a run, and needs what the whole run was. `RunInv`
  says of a run nothing outside has touched: its plan compiles (`PlanLive`); a pass knows the failures still
  ahead of it as suspects, and what it has put off has an input it has dealt with that is neither done nor
  failed (`PassSees`); what it has dealt with is done, under way, stale behind the gate, or excused
  (`Accounted`), where a node is excused if it depends on a suspect (`Lost`) or if the run cannot report
  "done" any more (`Doomed`). `Doomed` survives, for a failed record is overwritten only by a task that
  starts, and those the run waits for had none (`LaunchedAfresh`, `CreatedActive`, `OwnersRun`). When a pass
  ends with nothing under way, the least node still pending would wait for one that is dealt with and not
  done: so each is excused (`EndPassGoesOn`). At the end "done" rules out `Doomed`, and `Lost` remains.
- `GatedUntilAsked`: while nobody asked, only auto-runs wait and run (`OnlyAuto`), what is expensive or
  behind something expensive is neither running nor done (`BehindQuiet`), no key in the cache covers an
  expensive node (`CheapCache`), and whatever of it is still pending is expensive itself or has a source in
  the plan that is behind one (`PlanWaits`), so the pass gates or defers it. `NoneRemoved` keeps the keys
  current. A consumer may run while its expensive source is removed, and is behind it again once that is
  restored; a result another scheduler stores lets the consumers through: hence the hypothesis.
- `ImplementsRunQueue`: `StepRefines` maps each action to a step of `RunQueue` or a stutter, using
  `OneAutoRun` for `AskAuto` (none waits) and `DropWithdraws` for the withdrawals.

**`GraphAndCacheProofs`**, the cache (contents give a digest to every port; weights are positive). `SizeOf` is a
recursive function, and its sum is characterised by the least length at which it could fail
(`SumsExist`, `SumIsSize`); from there: what a put and a get do to the account (`SizeOfBoth`,
`SizeWithoutOne`, and `ShrunkProperties` for the loop that pushes out). `IndexInv` relates index and
directory: every key with rows is in the order of use (`Known`); the rows of a key are all that could be
written (`Written`); what the collector is about to delete is not referenced, and what is not referenced
is about to be deleted or was written since the collection began (`Spares`). A worker that adopts what
was deleted meanwhile is the only way past it, and `lost` records it. `LookupWholeOrNothing` is proved
where each node on a thread can write all of its outputs or none (`AllOrNone`); without that it is false
in the code too (section 4).

The graph, with no assumption on documents, registry or subgraphs. `CompileInv` says of each part of `compile`
what the next ones rely on. `Wires`: an edge that left no wire has made its target fail. `Sorting`, for Kahn's
algorithm: the counter of a node is the number of its sources that have not yet released it (`Waits`), and a
node that waits for nothing is in the order, in the queue or about to join it, once. A released node is one
whose counter was 1, and the source that releases it is the last of the order, so what joins the order has
all its sources there. `StuckIsCyclic` follows when the queue is empty: what is left waits for something
left, and of any set of nodes that feed each other the first to join the order would come before its own
source (`WaitingIsStuck`). `Assembly`: the part of the order already visited is split into the graph, the
blocked and the failed, as the nodes before each of them decide.

`InputsArrive` takes a drawn edge through the stages. `Inlined`: an id ends in the name of a node of a body
already visited, and bodies have different prefixes, so no node is an instance (`NodesAreNoInstances`).
`EdgesResolved`: an edge is carried to where its ends resolve, or reported. `Arriving`: behind the bypass an
edge is left into the same input, from one of the origins of the drawn one, or the node has failed.
`Delivered`: a visited edge is a wire unless one of its ends has failed. With `GraphIsWhatCanRun`, the wire of
a node of the graph comes from a node of the graph. That resolving, with its bounded loop, stays among the
origins is by the least hop at which it could leave them (`ResolvedIsReached`, `BypassedIsReached`); both
recursive functions are shown to exist in the same way (`HopsExist`, `OriginsExist`).

**`AutosaveProofs`** (at least one call). `Lists` says where the suspended calls stand: each waits for one
PUT that is on its way, or is about to resume, once, the issuer first. `SeqNumbers` says what a PUT
carries: no more than the edits of its load, and with the current number the current content. On these two
rest `Shown` (the toolbar), `NoEditForgotten`, which is inductive next to them, and `Alone`: as long as
no two PUTs overlap, `saving` is the one in flight and what was saved last is what the server has.

**`LazyInputsProofs`** (inputs have smaller numbers; planned nodes do not feed each other).
`NobodyWaitsForNothing` is inductive next to the types. `OnePlace` says that the call of a task is queued
once or on one thread, and that only such calls are queued or counted. `Calm` is about an undisturbed past:
what is done is in the cache, what has a task is not and has its inputs there, and no `_ensure` skips an
input that is missing (`Steady`); so a second call of a node would need a task of something cached.

**`BatchAndStreamProofs`**, the batch. The invariant ties each row's phase to its record (`StateFollowsPhase`), what was
published to both (`ToldSoFar`), the abort flag to a cancel or a reported failure (`WhyAborted`), and
says that at the end every row is over (`AllOver`): nothing can follow the last event, and the final
status is a function of what no longer changes.

The event stream, for any number of nodes, threads, changes, runs, answers and losses and any size of the queue.
All that is on its way to the client is one line: the wire, then who waits for the lock, then the queue (`Line`).
Lemmas say what a step does to it: the bus adds a message at its end, a reply of the command loop joins it
before the queue (`Inserted`), receiving takes the first (`Shifted`), and forwarding and sending leave it as it is.
For `EventsInOrder`, the loop's next event is younger than all events on the line, if what threads hold and
what waits for the loop are changes already made (`EventsInv` with `ThreadsUpTo`). `RunFollowed` looks
ahead: from the run that the socket's messages alone have made the canvas show, those on the line lead to the run in
progress, and each `run.finished` names the run that the messages before it will show; what an HTTP answer shows instead is forgotten with
the next message that names a run. `NodeFollowed` says the same of the first node: the last of its statuses on the line
is the one it has, unless a thread has yet to publish one (`Unsettled`). Then `Deliver` decides: what it delivers is the
record's status, or the node is `behind`. Both hold while the client is subscribed, which happens once on a
connection and before anything is queued for it (`Connected`). Nothing of this can be said of a node further
back in the snapshot (section 4), hence `FirstNodeIsCurrent` (the run and the node the snapshot begins with) for every workflow and
`ViewIsCurrent` for one of a single node.

**`PackManagerProofs`** (the requirements of a pack are distributions). `CanvasFollowsRegistry` compares two
variables that requests change at different steps, so `Followed` says who owes what: where `compiled`
differs from `registered`, some request stands between its change and its recompilation (`Owes`), or is about
to set a graph of the registry as it is (`SetsRegistry`). As long as none crossed another only one is
about to set a graph; if the registry has changed since it compiled, the request that changed it owes a
later one.
`RollbackInv`: what an unoverlapped rollback removes and pins is exactly the difference between the environment
and the snapshot, but for lines without a pin; behind the first call, what differs is pinned; behind the second, what
differs is settled by the resolution (`RollbackGoesOn`, `Settles`), for every outcome of `uv`.
`ToldInv` is for requests one after the other: what has a record is installed, and the process runs the installed
version or nothing of it (`Known`); what the list says is loaded is registered (`Shown`). Where it is not so, the request in
progress is at a place from which it will forget the pack, load it or ask for a restart (`Moves`, `Enables`), also
if the server stops there; where a rollback may be left behind a first call that removed something, `unseen` says so.
`InOrder` is what a request has seen or committed on its way and nobody has changed.

**`RuntimeProofs`** (the folder opened at start-up is one of the folders; documents are not the marks
for none and unreadable). `OpenIsOwn`: an open scheduler is of the open folder, because the step that
changes the folder empties the dictionary. `ClosedStay`: while a switch waits, and unless a request used
a workflow in that time, no open scheduler is armed and each one that runs is waited for; `LoopQuiet` is
why an update that began before the closing cannot arm one (it is over: the closing needs the loop).
`OrphansRest` follows for what is dropped, with the deletions still waiting for it. `RecoversLastSave` is
inductive with the types: a save that writes no version found its hash in the row. `OpenStored`: what is
being deleted is not open, so an open workflow keeps its row. `WatchInv`: while no two switches overlap, the
one in progress is the newest and has found the one watcher. `EngineInv` is
about each open workflow (`FlowInv`): unless `raced`, one update of its scheduler is under way at most, on the loop
or on a thread (`OneUpdates`); the scheduler has the stored document, and so has the thread that updates it; and
the graph about to be set, or the one there if none is, knows the decisions owed, or a thread has still to list, reach or compile
the scheduler (`Waits`). That survives any number of threads: a decision is owed from the moment
it is made, and its own thread has not listed the schedulers yet; a thread that has compiled has used the
decisions of that moment, which are all that are owed.

**`WorkspaceFilesProofs`** (files have at least one block). Times are never used twice, so a pair of time
and size names one state of one file as long as nobody has written it since: `SeenIsPast` bounds every
time remembered anywhere by the clock, `RowsTrue` says that a row whose time is that of the file there
has its hash, `ReadersTrue` and `LoaderTrue` that a reader that stands behind a file of unchanged time
has read a prefix of its blocks, `CacheTrue` the same of stored outputs; `PartsHidden` keeps the parts of
chunked uploads out of reach of every name. `UploadsKeepWhatIsThere` is then a fact about each step:
only an upload's own last step gives a name to its file, after it has looked again.

Only model-checked: liveness (`ComesToRest` of two modules, `EditsAreSaved`, `CatchesUp`, `BatchEnds`), since
the prover has no rule for fairness. Every other property of a passing run is a theorem.

## 6. Plan

Done: the scheduler, cache, autosave, event stream, batch and lazy inputs first, then the pack manager,
the runtime, files and the graph compiler. Left, the most important first:

1. `Session`: `openWorkflow`, `createWorkflow`, `closeWorkflow` interleaving at their awaits, composed
   with the subscription of `EventStream`. Question: do document, statuses and subscription agree?
2. `UndoHistory`: commit, coalescing, transactions, the bounded stack, undo and redo against an abstract
   history. Question: does undo restore the document before the last change?

## 7. Not modelled, and why

- Planned above: session, undo history. Of the scheduler: expansions, `close`, and lazy inputs of nodes
  that feed other nodes of the same plan. Of the runtime: the batch runner's part in a switch, shutdown,
  the pool of runtimes of a multi-user server. Of the trust gate: the hashing of snippets and their
  authors. Of files: listings, folders, the shared mount.
- File system or network I/O with no state between steps: bundles, registry client, HTTP plumbing, run
  history (rows nobody reads back but a view and the cost estimate, here the constant `Expensive`).
- Libraries' business: sign-in (fastapi-users), file system events (watchfiles).
- Pure functions for display, or user interface: previews, layouts, hints, canvas, editors, the batch table.
- Node packs: a node call is an action that returns or fails. Most of the repository's lines are here,
  numerical kernels and their declarations. Command line, SDK, launchers and deployment declare or start
  what is modelled.
- Data everywhere: parameters are versions, values what they were computed from, blobs digests,
  documents their content, packages version numbers.
