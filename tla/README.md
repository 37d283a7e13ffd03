# cognee-rs: TLA+ models of its runs, locks, items and sessions

cognee-rs is an AI-memory library. `add` stores documents in datasets, `cognify`
turns the documents of a dataset into a graph and a vector index, `search` and
`recall` read them; `update`, `improve`, `remember` and `forget` change them
again. This directory holds TLA+ modules for the parts where concurrency, failure
and recovery meet, the TLC configurations that check them, and TLAPS proofs of
the properties that matter most. Paths below are relative to `crates/` unless they
start with `docs/`.

## 1. Inventory

| Part | State it keeps | Operations | Hard behaviour | What makes it correct |
|---|---|---|---|---|
| cognify run (`cognify/src/tasks.rs`, `rollback.rs`, `failure.rs`) | local frame of the call, failure report, rollback scope | skip completed items, run the pipeline, teardown, mark survivors, sweep | a failure or a kill after any write; a dropped future; a fatal error against one an item may survive | what is in the stores has an owner; a marked item has its artifacts; a failed run leaves nothing |
| run sweeper (`delete/src/sweep.rs`) | items and slugs it has read | read items, read exclusive slugs, delete nodes, points, rows, clear markers | claims read before and used after; failure half way | rows go last; artifacts claimed by others stay |
| startup recovery (`delete/src/startup_recovery.rs`, `bindings-common/src/services.rs`) | candidates | list, `try_lock`, claim, re-read, sweep, close | a live run in another process; a second recovery; a kill during recovery | dead runs only, one recovery each, close after rollback, retry until it works |
| run ownership (`core/src/run_ownership.rs`) | marker directory, OS file lock, `closed` flag | `acquire`, `claim`, `mark_closed`, drop | order of unlock and unlink; a kill in between | the OS lock is held while its run lives |
| ownership ledger (`database/src/ops/graph_storage.rs`) | rows (data item or nil, dataset, slug) with the creating run | upsert, select by run, exclusive slugs, delete | two runs naming one row: the first keeps the tag; rows of entity types, which name no item | every artifact is in reach of a row |
| completion markers (`database/src/ops/data.rs`) | one flag per item and dataset | mark, read, clear | a marker that outlives its artifacts | see cognify run |
| pipeline run rows (`core/src/pipeline_run_registry/`, `database/src/pipelines/`) | append-only status rows | STARTED, COMPLETED, ERRORED, `reset_orphan_run` | a write that fails, and is only logged | an abandoned run stays findable |
| dataset locks (`core/src/dataset_locks.rs`) | map id -> Weak mutex, task-local set of held ids | `lock`, `try_lock`, `hold`, `lock_arc` | replacing and pruning entries; nesting; cancellation | exclusive, re-entrant, no lost permit, no deadlock |
| pipeline executor (`core/src/pipeline.rs`, `rate_limiter.rs`, `cancellation.rs`) | frames of each item, batches, attempts, item status, run rows | chunks, retries, iterators, streams, batches, cancellation | items of a chunk interleave; cancellation or failure anywhere; a stalled stream | COMPLETED means all done, an item is recorded only when it is, a cancelled run stops and ends |
| pipeline run registry (`core/src/pipeline_run_registry/`) | map of slots, order of eviction, channels, rows | register inline or in the background, subscribe, abort, shutdown, retention | two locks, check-then-act, tasks that outlive their slot | live runs keep their slot, subscribers hear the true ending last |
| improve sessions (`session/src/improve_lock.rs`, `watermark.rs`, `agent_context_extraction.rs`, `lib/src/api/improve/`, `remember.rs`, `auto_improve_debounce.rs`) | entries, trace steps, state rows, session claims | remember, debounce, claim, persist, extract | improves of one session into two datasets; steps appended meanwhile; files that are loaded and saved, and that expire | one improve per session, nothing passed unseen, nothing stranded, all end |
| background tasks (`lib/src/background_tasks.rs`) | counter, notify | spawn, drop, wait | a task ending between the count and the wait | `wait` returns |
| add and create-and-grant (`ingestion/src/pipeline.rs`) | dataset rows, grants, item rows, files | find or create, grant, look up, refresh, create | two adds at once; a failed grant; the row is written without the dataset lock | one row per content, no dataset seen without its grant |
| delete, forget, update (`delete/src/lib.rs`, `lib/src/api/update.rs`) | the ledger, the stores, rows and files | forget an item, a dataset or a user, memory only or not; replace | failure after any delete; a cognify that listed the items before; files that rows share | ledger last, files follow rows, no memory without a row |
| session stores (`session/src/fs_store.rs`) | one file per session and kind | load, change, save, expire | two writers of one file | see improve sessions |
| component manager (`lib/src/component_manager.rs`) | version-keyed cache of backends | get, rebuild | configuration advancing during a rebuild | no stale backend is cached |
| pacing (`utils/src/pacing.rs`) | shared back-off state | reserve, report | many callers | the limit holds |

The parts without behaviour over time (models, hashing, chunking, ontology,
rendering, search scoring), pure I/O (LLM and embedding clients, storage
adapters, telemetry) and wrappers (command line, bindings) are listed in
`PROJECT.json` with the reason why they are left out.

How the parts interact: a run holds its dataset's lock for its whole length, and
an ownership marker from before its STARTED row until after its terminal row and
its rollback. Recovery takes the dataset lock with `try_lock`, then the marker,
and uses the run sweeper under both. The sweeper finds what to delete in the
ledger that `upsert_provenance` filled, and the next run finds what to skip in
the completion markers. Forget, update and improve hold the same lock; add holds
it only while it finds or creates the dataset. An improve claims its sessions
under the lock of its dataset. The executor writes the run rows of a cognify, and
the registry writes rows of its own around any work it is given. All but the locks
and the registry is in a database, a file system or stores that several processes
share.

## 2. Modules

| Module | What it is |
|---|---|
| `CognifyRuns` | runs, sweeps, recovery, markers, ledger, stores, kills and faults |
| `MCCognifyRuns` | instances of it for TLC |
| `CognifyRunsProofs` | lemmas on its records and steps; type correctness |
| `CognifyRunsSafety` | recovery is safe and exclusive; dataset locks are exclusive |
| `CognifyRunsRollback` | the ledger, the stores and the markers: rollback before close, failed runs, completion markers, owners of artifacts |
| `DatasetLocks`, `MCDatasetLocks` | the lock registry, its mutexes and the calls of its tasks |
| `AbstractLock` | what callers rely on: nobody enters what another task is inside of |
| `DatasetLocksProofs` | exclusion, permits, no circle of waiting, and the refinement of `AbstractLock` |
| `PipelineExecutor`, `MCPipelineExecutor` | one execution of a pipeline |
| `PipelineExecutorProofs` | what COMPLETED stands for, and what failure and cancellation stop |
| `RunRegistry`, `MCRunRegistry` | the in-memory registry of runs |
| `RunRegistryProofs` | eviction spares running runs, the last word is the outcome |
| `ImproveSessions`, `MCImproveSessions` | remembers, debounce, improves and background tasks |
| `ImproveSessionsProofs` | improves exclude each other, the watermark, the debounce |
| `DatasetItems`, `MCDatasetItems` | adds, updates, cognifies and forgets of the items of datasets |
| `DatasetItemsProofs` | the ledger covers the graph; rows, files, contents, grants, markers and forgotten memory |

The modules meet where one uses what another provides. `CognifyRuns`,
`ImproveSessions` and `DatasetItems` have one holder per dataset for the locks:
that is `AbstractLock`, which `DatasetLocks` refines. A cognify is one long run in
`CognifyRuns` and six steps in `DatasetItems`, where a failed run has been rolled
back. What the executor of `PipelineExecutor` does between STARTED and a terminal
row is `WriteLedger` to `FinishWork` in `CognifyRuns`.

### CognifyRuns

The actors are runs and, for each process, its recovery pass. `pc` says what an
actor does next. `frame[r]` holds the local variables of `cognify_in_scope`,
`sweep[a]` those of `RunSweeper::run_in_scope`, `cand[p]` the candidate list of
recovery. `lock` is the dataset lock of each process, with its holder: the
mechanism behind it is `DatasetLocks`. `status` is the latest `pipeline_runs`
row, `dir` and `flock` are the marker directory and its OS lock, `closed` the
flag of a `RunOwnership`. `ledger` maps (owner, slug) to the run in the row's
`pipeline_run_id`; a slug stands for one graph node with its vector point. The
owner of a row is an item, or the dataset where the code writes a nil `data_id`:
`upsert_provenance` does so for the types of entities (`cognify/src/tasks.rs:5104`),
of which there is one row for each dataset and type, whichever items have it. `Typed`
are the datasets in which a run writes such rows. `graph` and `vector` are the contents of the
stores, `marked` the completion markers.

`vouched` and `stranded` are history variables, which no guard reads: what the
run that marked an item had extracted for it (its own rows, and the types of its
dataset), and the items whose clearing a sweep failed to do.

| Code | Actions |
|---|---|
| `cognify`, `cognify_in_scope` up to the pipeline | `Call`, `Acquire`, `SkipComplete`, `AcquireOwnership`, `WriteStarted` |
| `add_data_points`, `upsert_provenance`, `index_data_points` | `WriteLedger`, `WriteGraph`, `IndexVector` |
| how the executor ends | `TaskFails`, `FinishWork`, `WriteCompleted`, `WriteErrored` |
| post-pipeline teardown, `on_run_completed`, `on_run_failed` | `TeardownOk`, `TeardownFails`, `AppendErrored`, `MarkItem`, `MarkEnd` |
| `RunSweeper::run_in_scope` | `SweepItems`, `SweepNodes`, `SweepGraph`, `SweepVector`, `SweepRows`, `SweepClear`, `SweepEnd` |
| `RunOwnership::drop` | `DropOwnership`, `Unlink` |
| `recover_stale_pipeline_runs` | `Recover`, `RecoverSkip`, `RecoverClaim`, `Recheck`, `RecoverClose`, `RecoverEnd` |
| the environment | `Crash`, `Start`, `DropFuture` |

Each action ends where the code awaits a store, a file system or a lock, so runs
and recoveries interleave there. An I/O call may fail wherever the code handles
its failure. A failed delete may have deleted some of what it was asked to. Every
failed call, kill and dropped future costs one of `MaxFaults`; the failure of a
task itself (`TaskFails`, `TeardownFails`) is free.

What the model does not have:

- The text and the extraction. Which (owner, slug) pairs a run finds is free, so
  two runs may extract different nodes from one item, as an LLM does.
- Edges. They have ledger rows of their own, which a sweep selects by run next to the
  node rows, and deletes for what is exclusive among them. They do not simply go with
  the nodes: an edge whose endpoints both survive stays in the graph although its row
  and its point are deleted (`delete/src/sweep.rs:141`, "that residual is Python's
  too"). So `NoOwnerlessArtifact` is about nodes and their points only.
- The clock. `min_age` lets recovery pass over any candidate, so `RecoverSkip`
  is always possible; a skip for another reason looks the same.
- The branch of recovery for a dataset that is gone (waits for deletes), a failed
  candidate listing (it ends the pass without a change), `run_ownership_dir`
  unset (as a failed `acquire`), the lookup of the dataset's prior runs (its
  failure is the early return of `SkipComplete`), the short-circuit for documents
  without content, bulk-load scopes, and the gate that runs recovery once per
  process (in the model recovery may run at any time, which is weaker).

### DatasetLocks

`registry` maps an id to a Weak entry, `owner` and `queue` are the state of the
tokio mutexes, `stack[t]` the calls of one task, innermost last; `held` in a
frame is the task-local set of a `hold`. `Call` is `lock`, `try_lock` or `hold`;
`LockArc` is `lock_arc` with the replacing of dead entries and the pruning;
`Request` and `Granted` are the two halves of `lock_owned` (and `Request` alone
`try_lock_owned`); `Finish` and `Release` the end of what ran inside and the drop
of the guards; `Cancel` a future dropped while it waits. The mutex itself, fair
and first come first served, is tokio's and is marked external in the map.

`ImplementsAbstractLock` is the refinement: the calls of a task, in the abstract,
are its frames that are `in`, each with the ids it names.

### PipelineExecutor

The items of a run are taken in chunks of `concurrency`. `stack[i]` is the
recursion of `execute_from` for one item, the innermost call last, and a frame
says what it waits for. `owed[i]` counts the values of an item that no task has
taken, dropped or returned yet; `late` and `lateBatch` count calls made after the
cancellation. None of the three is read by a guard.

| Code | Actions |
|---|---|
| `execute_unscoped` | `Start`, `Split`, `NextChunk`, `Record`, `RecordError` |
| `execute_items_seq`, `execute_items_par`, `execute_one_item` | `StartItem`, `ItemDone` (and `Ends`, where a result is recorded) |
| `execute_from`, `call_with_retry` | `Enter`, `Acquire`, `Return`, `Retry` |
| `process_iter`, `process_stream` | `Iterate`, `Stream`, `StreamCancelled` |
| `dispatch_batch` | `Dispatch` (within the two above), `Admit`, `BatchReturn`, `EachNext` |
| token bucket, cancellation, abort of a handle | `Refill`, `Cancel`, `Abort` |

Left out: provenance stamps, task events, telemetry and the values themselves.
`MaxYield` bounds what an iterator or a stream produces.

### RunRegistry

`slot` is the map of runs, `order` the queue of eviction; each has a lock of its
own in the code, and an action is one critical section. A slot holds the number of
its channel: a slot made anew for the same id has a new one, so that a subscriber,
a finisher or an abort may hold a channel that nobody else has. `reg` is where a
register call is, `task` where its work is.

| Code | Actions |
|---|---|
| `ensure_capacity`, `create_slot` | `Check`, `Pick`, `Evict`, `Create`, `Push` |
| `run_work_inline`, `finish_slot` | `BeginInline`, `LogStarted`, `Work`, `LogTerminal`, `FinishSlot` |
| `register_background` | `Spawn`, `StoreHandle`, `SpawnFinisher`, `Finisher` |
| `ScopedRunWatcher` | `WatchStarted`, `WatchCompleted`, `WatchErrored` |
| `subscribe`, `abort` | `Subscribe`, `StartAbort`, `AbortRow`, `AbortSend`, `AbortMark` |
| `shutdown`, `run_retention` | `Shutdown`, `ShutdownSkip`, `ShutdownClear`, `Retain`, `RetainRemove`, `RetainOrder` |

The work is an arbitrary future. `Work` returns either result, whether the work has
reported to a watcher or not and whatever the watcher has published: a cognify whose
teardown fails does so after its COMPLETED row (`TeardownFails` of `CognifyRuns`), and
then subscribers hear of a completion first and of a failure afterwards.

`MaxRuns` is the capacity the code looks at before it makes a slot, and no bound on the
map: the placeholder of an early subscriber is not counted against it, and two
registrations may both find room for one.

Left out: `publish_already_completed`, payload rows and events, a subscriber that
lags behind its channel, a `subscribe` that finds the map locked, and work that panics.

### ImproveSessions

A call is a remember and the improve it launches, or an improve by itself. `qa`
are the entries of a session, named by who stored them, `trace` its trace steps in
order with the appends that are under way, `ctx` its state rows: the debounce mark and
the extraction watermark. With the file store these are three files; a change is a load
and a save, with other calls in between, and a file that has not been written for the
TTL reads as empty (`Expire`), each by itself. With a database a change is one step, but
for the append of a trace step, which looks up the last number and then inserts the
next one, so that two appends may take the same. `trace[s].torn` remembers that two
appends overlapped or that the trace has expired; no guard reads it. `lock` is the registry of session claims, with the mutex object a
session has at the moment, `arc` the mutex a call has resolved, `taken` what it
holds. `bridged` and `seen` record what improves have done, entry by entry and step by step.

| Code | Actions |
|---|---|
| `remember_session`, `create_qa_entry` | `Store`, `SaveQa` |
| `launch_session_auto_improve`, `should_auto_improve`, `mark_auto_improve_fired` | `ReadState`, `Count`, `Update`, `UpdateSave`, `Create`, `CreateSave` |
| `improve_locks`, `acquire_improve_lock_many` | `Resolve`, `Acquire` |
| stages of `run_improve` | `PersistRead`, `Persisted`, `NextStage`, `ExtractRead`, `Extracted`, `Advance`, `AdvanceSave`, `Release` |
| `BackgroundTasks` | `Spawn`, `End`, `Notify`, `WaitBegin`, `WaitRead`, `WaitPoll`, `WaitWoken` |
| the session's own life | `TraceLoad`, `TraceSave`, `Expire`, `DeleteSession` |

Left out: the debounce by time, the stages that keep no state these two meet, edits
of entries, the Redis store (which appends a step in one command), and the turn lock of
completions, which `remember` does not take around the append of a trace step.

### DatasetItems

`row` are the data rows with dataset, content, file and completion marker, `files`
the stored files, `ledger` the ownership rows (dataset, item, node), `graph` the
nodes in the store of a dataset, its own or the one they all share. The item of a row
is `None` for the nodes in `Type`: entity types are recorded with a nil `data_id`, so
the forget of an item does not select them. `at[c]` holds the local variables of a
call, among them the rows as it has read them. A new row is named after the call that
makes it, since its id is random in the code. So is a stored file, which is a choice:
the storage puts a file named after its content into a directory of four random hex
digits (`storage/src/local_storage.rs:20`), so that two calls that store one content
have different files but for one case in 65536. Comments call the files
content-addressed and shared by the rows of one content (`database/src/ops/data.rs:147`,
`delete/src/lib.rs:987`); rows that share a file are in the instances from the
start. `replaced` remembers the files that a row no longer names.

| Code | Actions |
|---|---|
| `DeleteService::execute`, `execute_datasets_by_id`, `update` | `Begin`, `Hold` (and `Done`, `Onward`) |
| `resolve_targets`, `execute_resolved` | `Resolve`, `Clear`, `CleanGraph`, `CleanLedger`, `Detach`, `DropDataset`, `Purge`, `Erase`, `CountReferences`, `Unlink` |
| `execute_memory_only` | `CleanGraph`, `CleanLedger`, `Unmark` |
| any step of them failing | `ForgetFails` |
| `process_input_preferring`, `persist_data_with_acl_and_locks`, `persist_pinned_row` | `StoreFile`, `FindDataset`, `Grant`, `LockContent`, `Lookup`, `Refresh`, `CreateRow` |
| the caller of `cognify`, `cognify` | `List`, `Filter`, `Read`, `RecordLedger`, `WriteGraph`, `MarkComplete` |

Left out: the scope All, the orphan sweep of the hard mode, previews, search
history, the history of pipeline runs that a forget of a dataset deletes
(`delete/src/lib.rs:927`), edges, session pruning, legacy ids, loaders and metadata, and the several inputs
of one add.

## 3. Runs

| Run | Instance | Distinct states | What it shows |
|---|---|---|---|
| `one_process` | 1 process, 2 runs, 2 items and their dataset's types, 1 slug, scopes WholeRun and FailedItems, both values of `incremental_loading`, 1 fault | 2658 k | `TypeOK`, `NoOwnerlessArtifact`, `MarkedBacked`, `OnePerDataset` |
| `recovery_races` | 3 processes, 1 run, 1 item and the types, 1 slug, scopes WholeRun and Nothing, 4 faults | 442 k | `RecoveryOnlyDead`, `OneRecoverer`, `RolledBackBeforeClosed` |
| `liveness` | 1 process, 2 runs, 1 item, 1 slug, scope WholeRun, 2 faults | 188 k | `AbandonedRunsAreClosed`, `CallsReturn`, `FailedRunLeavesNothing` |
| `locks` | 3 tasks, 2 ids, 3 mutexes, pruning at 1 entry, nesting 2 | 138 k | `TypeOK`, `Exclusive`, `NoLostPermit`, `NoCircularWait`, `ImplementsAbstractLock` |
| `pipeline_executor` | 4 pipelines, 2 items, concurrency 1 and 2, batches of 2, 2 attempts, 3 values per iterator or stream, 1 permit | 288 k | `TypeOK`, `CompletedIsComplete`, `MarkedIsDone`, `CancelStopsWork`, `FailureStopsRun`, `CancelEnds` |
| `run_registry` | a background and an inline run, room for 1, 2 channels per run, 3 scenarios | 788 k | `TypeOK`, `LastWord`, `EvictsOnlyEnded`, `SubscriberHears` |
| `improve_sessions` | 3 calls, 2 sessions, 2 datasets, threshold 2, overlap 1, window 2, pruning at 1 entry, 5 scenarios | 235 k | `TypeOK`, `OneImprovePerSession`, `SeenBeforePassed`, `NothingStranded`, `ImprovesEnd`, `WaitReturns` |
| `dataset_items` | 3 calls, 2 datasets, 2 items, 2 contents with a node in common and a type, 50 scenarios | 127 k | `TypeOK`, `LedgerCoversGraph`, `MarkedBacked`, `NoDanglingFile`, `OneRowPerContent`, `FilesFollowRows`, `SeenIsGranted`, `MemoryHasRow`, `ForgetLeavesNothing` |
| `peer_recovery` | 2 processes, 2 runs, 1 fault | stops | violates `RecoverySparesLiveRuns` |
| `kill_before_sweep` | 1 process, 1 run, 1 fault | stops | violates `KilledRunsAreFound` |
| `shared_store` | 2 datasets on one store, 1 process, 2 runs, no fault | stops | violates `MarkedBacked` |
| `update_race` | an update and a cognify of one item | stops | violates `UpdateTakesEffect` |

The properties in words:

- `NoOwnerlessArtifact`: a node or a point is in a store only while a ledger row
  names it. Otherwise no sweep and no delete would ever find it.
- `MarkedBacked`: an item that later runs skip has everything the run that
  marked it extracted, its own rows and the types of its dataset, unless someone is
  still due to clear the marker. Of the types it does not promise those whose row
  was made by a run that is STARTED when the item is marked (`Doomed`); the code does
  not keep that promise (section 4).
  `one_process` has one dataset; what two sweeps of two datasets on one store can do to
  it is the matter of `shared_store` and of section 4.
- `OnePerDataset`: in one process one run or recovery works on a dataset.
- `RecoveryOnlyDead`, `OneRecoverer`: recovery claims only a run that is over,
  and no two processes recover one run.
- `RolledBackBeforeClosed`: recovery writes ERRORED for a dead run only when no
  ledger row of that run is left; a closed run is never looked at again.
- `FailedRunLeavesNothing`: without any other fault, a failed run that is done
  has no ledger row.
- `AbandonedRunsAreClosed`: a killed or dropped run that is STARTED and has a
  marker is rolled back and closed, whatever fails in the recoveries that try.
- `CallsReturn`: who waits for a dataset's lock gets it and returns.
- `Exclusive`, `NoLostPermit`, `NoCircularWait`: no two tasks inside calls on one
  dataset although entries are pruned and remade; no cancelled waiter keeps a
  permit; no circle of tasks that wait for each other, or for themselves, unless
  a nested call names a dataset the enclosing one does not, which no caller does.
- `ImplementsAbstractLock`: `DatasetLocks` refines `AbstractLock`.
- `CompletedIsComplete`, `MarkedIsDone`: a COMPLETED row, and the record of an
  item as completed, stand for work that is all done, no value lost in a batch. (An
  item that failed and is recorded as completed all the same would not violate
  `MarkedIsDone`, which asks only for items whose result is a success.)
- `CancelStopsWork`, `CancelEnds`: after a cancellation an item makes no more than
  the attempts of the task it is in, no batch task is called, and the run ends even
  when a stream has stalled.
- `FailureStopsRun`: no item starts after one of an earlier chunk has failed.
- `EvictsOnlyEnded`: a run keeps its slot until it is over or aborted.
- `LastWord`, `SubscriberHears`: a subscriber, early ones too, hears of an ending by
  the time the run is over. It may hear of both; the last one it hears of, unless the
  run is aborted, is how the work returned, and the slot shows the same.
- `OneImprovePerSession`: improves with a common session exclude each other, under
  different datasets too.
- `SeenBeforePassed`: the watermark passes no trace step that was not shown to an
  extraction, and not the end of the trace, but for steps a whole window has left
  behind; where two appends overlapped or the trace has expired it says nothing.
- `NothingStranded`: with a database, the debounce leaves fewer entries than its
  threshold unbridged once all is quiet and nothing has failed.
- `ImprovesEnd`, `WaitReturns`: launched improves end, and so does a wait for them.
- `LedgerCoversGraph`: whatever step of a forget fails, every node in a graph is
  named by a ledger row, so a retry finds it.
- `MarkedBacked` (of `DatasetItems`): an item marked as cognified has its memory, that
  is, all that is recorded for it.
- `NoDanglingFile`, `FilesFollowRows`: no row names a file that is gone, and no
  file outlives the rows that named it, also when two rows share it and are
  deleted at the same time.
- `OneRowPerContent`: concurrent adds of one content make one row.
- `SeenIsGranted`: a dataset that others can see has its grants.
- `MemoryHasRow`: a cognify does not bring back the memory of a forgotten item.
- `ForgetLeavesNothing`: a forget removes all that is recorded for its item or dataset,
  and the graph keeps exactly what is recorded: the nodes of other items, and types,
  which stay until the dataset is forgotten.

Bounds. Two runs are enough for a run to share a row, an item or a slug with an
earlier one, to skip what it marked, and to wait for it. Two items with one slug
is the case in which one row of a slug goes and another stays, and with the type row of
their dataset there is a row that both rely on and neither owns. Under the scope
Nothing a run rolls nothing back, which `recovery_races` has; `one_process` asks what a
rollback may break. Types are left out of `liveness`, where they are rows like the
others and cost states, and of `peer_recovery` and `kill_before_sweep`, which need
none. One fault is a
failed call, a kill or a dropped future anywhere; two are also a failure of what
handles the first (the kill, or a failed step, of the recovery of a killed run).
The questions of `recovery_races` are about one run and all who may recover it:
three processes and four faults let the run be killed and two recoveries be cut
off before a third finishes. `PruneThreshold` is 64 in the code, 1024 for the
session claims; 1 makes every creation of a mutex prune. An id has at most one
mutex in use, so three mutex objects for two ids leave one for a registry that
goes wrong.

Four pipelines have every kind of task in a position where it matters: an iterator
and a stream before a batch task, an enriching task, an iterator whose values go on
one by one, a rate limit, a weight of zero. Three values are one batch and a rest.
With room for one run, the second registration must evict. The scenario with a
shutdown has no subscribers, which keeps it small. `Scenarios` of a module
name the calls of an instance and what may go wrong in it, so that a run asks
several questions without their product: every pair of seven adds, updates and
forgets next to a cognify; forgets that fail; adds to a dataset that is not there
yet; rows that share a file. Two contents share a node, so that the forget of one
item meets a node of the other; a type that one of them has shows what the forget of an
item leaves. Threshold, overlap and window of `improve_sessions` are the smallest for
which an entry may wait, a step is shown twice and a step is left behind.

Deadlock is checked except in `run_registry` and `improve_sessions`, where the
calls of an instance come to an end and nothing is left to do. In `CognifyRuns` the
system rests only in `Quiet`, when every call has returned and no recovery is under
way, in `DatasetItems` when all calls are over.

In `one_process`, `recovery_races` and `locks` items, runs, slugs, processes, tasks and mutexes are interchangeable, and TLC uses that
symmetry. Dataset ids of `DatasetLocks` are ordered and are not permuted. The
runs with liveness properties use no symmetry.

`FailedRunLeavesNothing` says nothing for the scope Nothing, under which callers
ask to keep everything. `MarkedBacked` has an explicit exception, `stranded`: when
the clearing of a marker fails, or the sweeper dies between the row deletion and
the clearing, the marker stays although the rows are gone, and later runs skip
the item. The code warns and goes on.

Fairness. Run, sweep and drop steps are weakly fair: the tokio runtime polls a
task that can go on. A killed process is started again and calls recovery
(`bindings-common/src/services.rs` at each start; docs/configuration.md says that
a long-running server calls it on an interval). `RecoverClaim` is strongly fair,
because a row only grows older than `min_age` and because another run does not
hold a dataset for ever. In `PipelineExecutor` items are polled, calls of tasks
return and the refiller ticks; nothing is assumed of streams. In `RunRegistry` the
steps of a register call, its work and its finisher are weakly fair for each run.
In `ImproveSessions` an improve is strongly fair, because the tokio mutexes behind
the dataset locks and the session claims serve their waiters in turn; a wait is
weakly fair. `DatasetLocks` and `DatasetItems` are checked for safety only.

Exceptions written into properties, each for something the code does: `MarkedBacked`
of `DatasetItems` excepts items whose updates bring the content the item has, or one
another, and failing forgets; `ForgetLeavesNothing` excepts the forget of an item
without a row, which has nothing to look for; `NothingStranded` excepts the file store; `SeenBeforePassed` excepts sessions
whose appends overlapped or whose trace expired; `LastWord` and `EvictsOnlyEnded`
except aborted runs, and what a shutdown has cleared: a run that registers after the
shutdown has listed the runs loses its slot before its finisher takes the channel; `SeenIsGranted` excepts a grant that fails; `MemoryHasRow`
is about items whose files are theirs alone and were not replaced, and that no forget
looks for in another dataset (`FilesGo`). Section 4 says what happens in them.

## 4. Findings

1. `peer_recovery`. Recovery takes the dataset lock of its own process only. A
   ledger row keeps the tag of the run that created it, so a live run in another
   process that extracts the same node relies on a dead run's row; recovery
   deletes row, node and point under it. `bindings-common/src/services.rs:145`
   says recovery is safe with any number of processes.
2. `kill_before_sweep`. The executor writes ERRORED before the sweep. A process
   killed in between leaves rows and artifacts of a run that recovery does not
   list. `delete/src/startup_recovery.rs:9` says such a row is still STARTED.
3. `shared_store`. A sweep reads exclusive slugs and deletes the artifacts later,
   under the lock of its own dataset. On a store that datasets share, a run of
   another dataset can claim the slug in between, and loses the artifact it then
   marks complete. docs/operations.md:317 says that a sweep keeps it.
4. `update_race`. `cognify` is handed items that were listed before it got the
   dataset's lock. One that listed a document before an update reads its old file,
   which an update leaves in storage, and marks the row after the update cleared
   the marker; the update's own cognify then skips the document.
   `lib/src/api/update.rs:61` says that the replaced document is cognified.

Met while modelling, and without a run of their own:

- A sweep keeps what another dataset claims and then deletes all rows of its own run.
  Two sweeps of two datasets on one store can each read the claim of the other first,
  so that both keep the artifact and both delete their rows: `NoOwnerlessArtifact`
  fails on the instance of `shared_store`, after 27 steps and without a fault.
  docs/operations.md:319 says "never an artifact with no owner at all".
- A sweep counts the claims of all datasets, because by default they share a store
  (`database/src/ops/graph_storage.rs:1200`). Where a dataset has a store of its own,
  a failed run keeps a node that only a dataset in another store names too, and
  deletes its rows: the node in its own store has no owner then, and it takes one
  sweep and no fault.
- The row of an entity type names no item and keeps the tag of the run that wrote it
  first. Run r1 is killed after it has written the type of an entity of one item; r2
  extracts the same type from another item, finds the row there, and marks its item.
  Recovery of r1 deletes the row, the node and the point, which are the only ones, and
  clears the marker of r1's item only: the items it has listed are those named by r1's
  rows (`get_data_ids_for_run`). The marked item has lost its type and is not cognified
  again. docs/operations.md:317 says that a sweep keeps "an entity a surviving file also
  produced"; with a row for each item it would. On the instance of `one_process`
  TLC finds this in 31 steps when `VouchedFor` is without `~Doomed(k)`.
- The forget of an item leaves the types that only this item had, row, node and point,
  until the dataset is forgotten. The comment at `cognify/src/tasks.rs:5105` says so and
  calls the correction a change of its own.
- Nested `hold`s that name new ids in descending order can deadlock; no caller does.
- The finisher of a background run does not set `finished_at`
  (`core/src/pipeline_run_registry/default_impl.rs:554`, "retention will eventually
  clean them up"), but retention and eviction look for nothing else: such runs stay,
  the registry fills up, and a shutdown takes them for "in-flight" and writes ERRORED
  over COMPLETED. An abort that comes before the handle is stored reports a failure
  and leaves the task running.
- A task of weight zero makes the executor return after STARTED without a terminal
  row. A batch task is not retried.
- The file session store loads and saves whole files: two remembers of one session
  can lose an entry, a trace step or a state row. No lock is taken around the append of
  a trace step (`session/src/session_manager.rs:421`, `lib/src/api/remember.rs:1187`). If
  an extraction reads between the saves of two overlapping appends, the second save
  puts its step where the first one was, and the watermark passes it unseen. With a
  database the two may take the same number, and the later one be sorted first.
- A trace file that expires leaves its watermark, which is in another file.
  `session/src/watermark.rs:12` says that a watermark above the total is stale and the
  stage starts over; the extraction of traces subtracts with `saturating_sub`
  (`session/src/agent_context_extraction.rs:492`) and has nothing pending until there
  are more new steps than the old watermark.
- The comment in `subscribe` (`core/src/pipeline_run_registry/default_impl.rs:574`) says
  that an early subscriber's channel never gets an event and is replaced by
  registration; the code after it stores the channel in a placeholder slot and
  `create_slot` keeps it, which is what `SubscriberHears` is about. The case that is
  missed is another one: the map is locked at the moment.
- A grant that fails after the dataset was created is not made good by a later add,
  which finds the row.
- A forget that fails after it has detached the rows leaves rows and files that a
  retry does not find; a memory-only forget that fails between the memory and the
  markers leaves a marked item without memory.
- An update with unchanged content writes back the row as it was read, with a marker
  that may have been cleared since. The files that re-adds and updates replace stay,
  and a cognify that listed the item before can read them after it was forgotten.
- A forget that names an item without a row goes on under the lock of the dataset it
  names, which need not be that of the item. If an update brings the row back and a
  forget of the right dataset detaches it meanwhile, the first one purges row and file
  under the wrong lock.
- An add writes its row after it has given back the dataset's lock, so a row may name
  a dataset that was deleted meanwhile.

## 5. Proofs

The theorems hold for every value of the constants that satisfies the named
assumption of its module, and the hypotheses a theorem names; TLC evaluates the assumptions in every run. Each proof
goes the same way: an inductive invariant, shown to hold at the start and to
survive every action, that implies the property. The properties alone are hardly
ever inductive, and what has to be added is the reason why the code is right.
Lemmas that say what an action leaves alone (`RunStays`, `OthersRead`, `GoodKept`)
keep the proofs to the actions that can disturb a conjunct.

### CognifyRuns

For any number of processes, runs, datasets, items, slugs, stores and faults.
`ConstantsAssumption` is on the types and the disjointness of the constants.

- `TypeCorrect`: `Spec => []TypeOK`. `TypeOK` is inductive: besides types it says
  that a called run has a process and a dataset, and that an actor in a sweep, or
  a recovery with a claim, has a run. Without these `LockOf` and `Target` would
  have no type.
- `RecoverySafe` and `RecoveryExclusive`, from `MarkerInvariant`. `RecoveryOnlyDead`
  alone is not inductive: what keeps recovery from a live run is that the run has
  the OS lock. `MarkerInv` adds that a run before `acquire` has no marker, that an
  owner whose marker exists holds its OS lock, and that a claiming recovery holds
  it. "Whose marker exists" matters: a run goes on when its `acquire` failed. So
  does the order of `RunOwnership::drop`, lock before marker.
- `DatasetExclusive`, from `LockInvariant`: every run at work and every recovery
  with a claim is the recorded holder of its lock, so two of them are the same.
- `RollbackBeforeClose`: `Spec => RolledBackBeforeClosed`, an action property, from
  `RowInvariant`. The sweep selects rows by run, dataset and item, so that it
  misses none of a run's rows needs: a run's items are of its dataset (`ItemsInv`),
  so is every row it tagged (`TagInv`), recovery sweeps all items, and past the
  row deletion none is left (`SweptInv`). That none comes back needs
  `MarkerInv`: only the run itself tags rows for it, and it is over.
- `FailedRunClean`: `Spec => []FailedRunLeavesNothing`. While there is no fault a run
  goes from its failure to its return in few ways, and `FailInv` follows it: a run
  that may still fail has no ERRORED row; after that row it is in a sweep of all its
  items, and past the deletion of the rows of that sweep it has none (`Clean`). That
  the others give it none back is `TagInv` again. The count of faults enters by one
  lemma: a step that does not count one is none that cuts a sweep short.

The other three need hypotheses on the constants, each with a run, or a trace, that
shows why: `OneProcess` (only one process uses the database; on the instance of
finding 1 all three properties fail), `OwnStores` (datasets do not share a store;
finding 3), `OneDataset` (the first two observations at the end of section 4). Runs,
items, slugs, rollback scopes, crashes, dropped futures and failed calls are still
unlimited. What they share: with one process the lock of a dataset excludes everybody
else (`Alone`), so the rows of the dataset an actor works on change only in its own
steps (`RowsAlone`), and so do the artifacts of a store of its own
(`ArtifactsAlone`). `WorkInv`, which needs no hypothesis, says that what a run has
extracted is of its dataset and that it has recorded what it is about to write.

- `LiveRunsSpared`: `OneProcess`, `Spec => []RecoverySparesLiveRuns`, from `HeldInv`: a
  run at work has a row for everything it has extracted, though the row may be tagged
  with a dead run that recovery would roll back.
- `MarkedStaysBacked`: `OneProcess` and `OwnStores`, `Spec => []MarkedBacked`. What an item
  vouches for may be a row of its own or one of its dataset (`Owner`). A marker
  outlives its run, so the invariant follows what the marker vouches for from its
  extraction on. `StoredInv`: what a run at work has extracted, and later what it extracted
  from the items it will mark, is recorded, and stored or about to be; its own sweep
  of the failed items before the marking spares it, because a slug that an item to
  be kept names is not exclusive (`SweepInv`). Once marked, `MarkInv`: it stays, under
  rows of runs that will sweep no more, or the marker is excused. Only the recovery of
  a dead run that made the row can take it; such a run is STARTED (`RecoverInv`), the
  row itself is the excuse until recovery deletes it, and by then the item is on the
  list to clear (`SweepInv`), which is why `run_in_scope` reads the items first.
  From there the list is the excuse, until the marker goes or the item is stranded.
  This argument needs a row that names the item, so it does not hold for a row of the
  whole dataset: of those the invariant has that its maker is not STARTED when the item is
  marked, and hence never again, so that no recovery takes it. Without that exception
  the property is false (section 4).
- `NothingOwnerless`: `OneProcess` and `OneDataset`, `Spec => []NoOwnerlessArtifact`.
  An artifact is written after its row (`WorkInv`, `StoredInv`). It loses its last row
  only in `SweepRows`, and then its slug was exclusive to the sweep; `CoverInv` says
  that the sweep has listed every such slug, and has removed its node and its point by
  the time it comes to the rows. A failed or partial delete ends the sweep before.

### DatasetLocks

For any number of tasks, ids and mutexes and any depth of nesting.
`LocksAssumption` takes ids from `0..MaxId`: they are UUIDs, ordered numbers of
128 bits.

- `LocksInvariant`. `LocksInv` has, besides `TypeOK` and `NoLostPermit`: `StacksOK`
  (a call has, is to take or rides on every id it names, takes them in ascending
  order, and only the innermost call of a task is not inside a hold), `GuardsOK`
  (an id has one mutex at a time: the mutex of a guard, and one that a call has
  resolved, is the registry's, and its permit is with the task of the call) and
  `QueuesOK` (a task is queued once, on the mutex it waits for, and does not have
  its permit). That pruning and replacing dead entries is harmless is `GuardsOK`:
  an entry is dead only when no call has its mutex.
- `LocksExclusive`, `PermitsNotLost`, `LocksTypeCorrect` follow from `LocksInv`.
- `NoCircle`. A task that waits for an id has only smaller ones, but for nested
  calls, which the property excepts. So the ids along a circle of waits would
  ascend; the proof takes a least one.
- `ImplementsLock`: `Spec => ImplementsAbstractLock`. A step into a call is `Enter`, a
  step out of one is `Leave`, all others stutter. That `Enter` is allowed is
  `Exclusive`, because the datasets that the abstract calls of a task name are
  datasets it is inside of (`CallsHeld`).

### DatasetItems

For any number of calls, datasets, items and contents and any mix of operations.
`ItemsAssumption`: a file that is there at the start is named after an item, a row
of the start is in a dataset, and a call is not an item, because new ids are new.
Every content yields at least one node that is not a type: `upsert_provenance` writes a
ledger row for the Document node of each item.

- `ItemsTypeCorrect`, from `StateInv`: `CallsOK` (a call is at a place of its job, with
  the rows that the place works on) and `KeysApart` (the add locks exclude).
- `LedgerAlwaysCovers`, from `LedgerInv`: a node has a ledger row that no forget is
  about to delete. "About to" is the point: between the deletion of nodes and that of
  ledger rows a forget is to delete rows (`Doomed`) whose nodes must be gone already,
  and no cognify can have written them again, since both have the dataset's lock.
- `SeenAreGranted`, from `SeenInv`: a dataset without grants has a call, with the
  dataset's lock, that is about to make them.
- `ContentHasOneRow`, from `ContentInv`: while a call is to create a row its content has
  none; this is what the content lock across lookup and creation is for.
- `RowsHaveFiles`, from `FilesInv`: the file a forget is to remove is named by no row,
  and no row can come to name it, because a file gets a name of its own when stored.
- `FilesGoWithRows`, from `FollowInv`: a file without a row is in the hand of a forget
  that counts references after its row is gone, so the last of two sees none.

The other three are about executions in which no step fails, as their properties are:

- `ForgetRemovesMemory`: `Spec => ForgetLeavesNothing`, an action property. From
  `TargetsInv`: the targets of a forget are those its scope names, and past the ledger
  step no ledger row names them, since whoever could write one needs the lock that the
  forget has. Rows of types name no item (`Owner`), so for the forget of an item the
  theorem says that they stay together with their nodes. And from `GraphInv`, the converse of `LedgerInv`: a ledger row has
  its node, or a cognify is about to write the node, or a forget to delete the row.
- `MarksAreBacked`: `Spec => []MarkedBacked`. `HomeInv` says that an item does not move
  between datasets, though an add gives the lock back before it writes its row, and an
  update writes a row it has read before. `NewsInv` says that an update finds
  another content than it brings, so the marker it writes back is cleared. With both,
  `MarksInv`: a marked item has a ledger row, or a memory-only forget is to clear its
  marker and has the lock until then; and no item that a full forget is to clean is
  marked, because phase 0 has cleared the dataset. `GraphInv` has the nodes.
- `MemoryGoesWithRow`: `Spec => []MemoryHasRow`. `MemInv` follows the file of an item
  instead of its row. What a cognify has listed is gone, or still the file of the row,
  or in the hand of a forget that has erased the row (`Traced`); that forget has the
  lock, so a cognify that has the lock and can read the file has an item that is
  there. A row without a dataset has a forget, with the lock, that will erase it
  (`Purges`). Each of the three conditions of `FilesGo` is used: a file that is shared
  or was replaced outlives the row, and a forget under another lock breaks `Purges`.

### PipelineExecutor

For any set of pipelines, any number of items, values, attempts, permits and
concurrency. `ExecutorAssumption` lets only an iterator or a stream feed a batch
task: `Task::call` panics on a batch task (`core/src/task.rs:722`).

- `ExecutorTypeCorrect`, `MarkedItemsAreDone`, `CompletedMeansAllDone`. The invariant of
  an item (`ItemOK`) says that `owed`, the number of values produced and not yet
  through, is the number that its frames hold. A sum over a stack would be a
  recursive definition, which the provers cannot unfold; `Holds` says instead that
  there is a function with the partial sums, and the lemmas on `Holds` push, pop
  and replace a frame. An item that ends has no frames, so it owes nothing. `RunInv`
  adds that items up to `base` went through (`Progress`) and that nothing but
  STARTED is recorded before the end (`Recorded`).
- `CancellationStopsWork`: of the calls since the cancellation all but the current one
  are attempts before it (`LateOK`), so there are at most as many as attempts.
- `FailureStopsChunks`: `base` is a multiple of the concurrency and what is past
  `base + conc` waits, so what has started is in the chunk of the failure or before.

### RunRegistry

For any number of runs, any room and any pattern of aborts and subscriptions.

- `RegistryTypeCorrect`, from `TypesInv`: a slot has the newest channel of its run, work
  starts after its slot is made, and an outcome is there exactly when work has ended.
- `EvictionSparesRunning`: `Spec => EvictsOnlyEnded`, an action property, from
  `EndedInv`: a finished slot, a victim picked for eviction and a run collected by the
  retention have ended. The victim is removed under another lock than it was picked
  under; that is harmless because a run that has ended stays so (`EndedStays`).
- `LastWordIsTheOutcome`: `Spec => []LastWord`, from `StoryInv`, which follows a run that
  nobody aborts while the map is not cleared. From the making of its slot until its work
  is over the slot is in the map (`Made`, by `EndedInv`: eviction and retention take
  ended runs only), so the watcher, the finisher and a subscriber who has heard anything
  have the channel of that one slot (`Tuned`), whenever they took it. What the watcher
  announces may be wrong; `finish_slot` or the finisher speaks after it, through that
  channel, and what it says is the outcome (`Last`).

### ImproveSessions

For any number of calls and sessions, any threshold, overlap and window.
`ImproveAssumption`: calls are finitely many, each names a session, and sessions are
numbers, since claims are taken in their order.

- `ImproveTypeCorrect`. That `running` is a number needs that it counts the spawned
  tasks (`running = Cardinality(Tasks)`).
- `ImprovesExclude`, from `ClaimsInv`: the mutex an improve has resolved is the one in the
  registry until the improve ends, although entries are pruned meanwhile, so two
  improves of one session resolve the same.
- `WatermarkFollows`: `Spec => []SeenBeforePassed`, from `WatermarkInv`: what an extraction
  or a save has in hand is good too (`Passed` of the watermark in a state file that was
  read, `Showing` of the window that is about to be shown). Between the read and the
  write the trace only grows behind what it holds, or it is torn (`Longer`), which is
  where the two exceptions come from. The file that an improve writes back has a
  watermark it has read; nobody else works on the session, by `ClaimsInv`.
- `DebounceStrandsNothing`, from `StrandInv`: all but fewer than the threshold of a
  session's entries are bridged, or an improve is on its way that is still to read
  them, or someone has stored an entry and not decided yet. A mark covers what it
  counts, also the mark that a call has read and will compare with.

### Only model-checked

- Liveness, which is out of this prover's reach: `AbandonedRunsAreClosed`,
  `CallsReturn`, `CancelEnds`, `SubscriberHears`, `ImprovesEnd`, `WaitReturns`.

Every other property of a passing run is a theorem; `MarkedBacked` and
`NoOwnerlessArtifact` of `CognifyRuns` under the hypotheses named above, without which
they are false.

## 6. Not modelled, and the plan

`PROJECT.json` lists every part with the reason. Most of the code is of three
kinds that have no place in a model of this sort: adapters that talk to stores,
models and services (graph, vector and relational backends, LLM and embedding
clients, storage, telemetry), pure computations over text and numbers (chunking,
loaders, ranking and retrieval, ontology matching, rendering), and wrappers (command
line, language bindings, configuration). Their failures and delays are the faults
and interleavings of the modules here. What has state and could still be modelled:
the component manager's cache, the pacing of provider calls, bulk-load scopes, the
turn lock of completions, and recovery's branch for a dataset that is gone.
