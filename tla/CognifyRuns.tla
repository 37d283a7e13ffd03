----------------------------- MODULE CognifyRuns -----------------------------
(***************************************************************************)
(* Cognify runs on a shared database: the run itself, its rollback sweep,  *)
(* and the startup recovery of the runs a dead process left behind.        *)
(*                                                                         *)
(* A run of `cognify` waits for its dataset's in-process lock, skips the   *)
(* items an earlier run marked complete, takes an ownership marker, writes *)
(* a STARTED row, then for what it extracts an ownership-ledger row, the   *)
(* graph node and the vector point, in that order.  It ends by a terminal  *)
(* row and either marks its items complete or sweeps what it created.      *)
(* Recovery looks for STARTED rows whose marker nobody holds and sweeps    *)
(* and closes those runs.                                                  *)
(*                                                                         *)
(* A process may be killed, a caller may drop a run's future, and any      *)
(* write or read of a store may fail: each costs one unit of MaxFaults.    *)
(* Payloads are abstracted away: a data item is a model value, and a slug  *)
(* is the identity of one graph node with its vector point.                *)
(***************************************************************************)
EXTENDS Naturals, FiniteSets

CONSTANTS
    Proc,        \* operating system processes sharing the database
    Run,         \* pipeline run ids: the bound on the calls of cognify
    Dataset,
    Data,        \* data items; each row belongs to one dataset
    Slug,        \* graph node ids, content addressed
    Typed,       \* datasets whose entities are given types
    Store,       \* physical graph + vector stores
    DatasetOf,   \* [Owner -> Dataset]: an item's dataset; a dataset is its own
    StoreOf,     \* [Dataset -> Store]; constant on a shared store
    Scopes,      \* the rollback scopes callers may choose
    Incremental, \* the values of incremental_loading callers may choose
    MaxFaults,   \* bound on kills, dropped futures and failed I/O calls
    Free, NoRun  \* null values

ASSUME ConstantsAssumption ==
    /\ DatasetOf \in [Data \cup Dataset -> Dataset]
    /\ \A ds \in Dataset : DatasetOf[ds] = ds
    /\ Data \cap Dataset = {}
    /\ Typed \subseteq Dataset
    /\ StoreOf \in [Dataset -> Store]
    /\ Scopes \subseteq {"WholeRun", "FailedItems", "Nothing"}
    /\ Incremental \subseteq BOOLEAN
    /\ MaxFaults \in Nat
    /\ Run \cap Proc = {}
    /\ Free \notin Run \cup Proc
    /\ NoRun \notin Run

VARIABLES
    up,       \* the processes that are running
    pc,       \* what each run, and each process's recovery, is about to do
    call,     \* the process and the dataset of each run
    frame,    \* the local variables of each run's cognify_in_scope
    lock,     \* the dataset locks of each process: Free or the holder
    status,   \* the latest pipeline_runs row of each run
    dir,      \* runs whose ownership marker directory exists
    flock,    \* the holder of each marker's OS file lock
    closed,   \* actors whose RunOwnership is marked closed
    ledger,   \* the ownership ledger: <<owner, slug>> -> the run that made it
    graph,    \* <<store, slug>> present in the graph stores
    vector,   \* <<store, slug>> present in the vector stores
    marked,   \* data items with a completion marker
    vouched,  \* what the run that marked each item extracted from it
    sweep,    \* the sweep each actor is executing
    cand,     \* the candidates each recovery has still to look at
    faults,   \* faults so far
    stranded  \* items a sweep rolled back but whose marker it did not clear

callVars   == <<call, frame>>
markerVars == <<dir, flock, closed>>
storeVars  == <<ledger, graph, vector, marked, vouched, stranded>>
scanVars   == <<up, cand>>

vars == <<pc, lock, status, sweep, faults, callVars, markerVars, storeVars,
          scanVars>>

-----------------------------------------------------------------------------
(* Types *)

Actor == Run \cup Proc      \* a process name stands for its recovery pass

\* A ledger row belongs to a data item or, with a nil data_id, to its dataset as
\* a whole: there is one row for each entity type, whichever items have it.
Owner == Data \cup Dataset
Key   == Owner \X Slug

SweepPhase == {"items", "nodes", "graph", "vector", "rows", "clear"}

\* Not yet the owner of a marker / between acquiring it and dropping it / over.
Early  == {"idle", "wait", "skip", "own"}
Owning == {"start", "work", "complete", "error", "teardown", "append", "mark",
           "drop"} \cup SweepPhase
Over   == {"unlink", "done", "dropped", "dead"}

RunPhase  == Early \cup Owning \cup Over
Claimed   == {"recheck", "close", "drop", "unlink"} \cup SweepPhase
ProcPhase == {"idle", "scan"} \cup Claimed

\* The phases in which a run holds its dataset's lock.
Holding == {"skip", "own", "unlink"} \cup Owning

Scope  == {"WholeRun", "FailedItems", "Nothing"}
Status == {"none", "STARTED", "COMPLETED", "ERRORED"}

Frame == [items : SUBSET Data,    \* the items to process
          scope : Scope,          \* config.rollback_scope
          incr : BOOLEAN,         \* config.incremental_loading
          prod : SUBSET Key,      \* what the tasks have extracted so far
          graph : SUBSET Slug,    \* recorded, but not yet in the graph store
          vector : SUBSET Slug,   \* recorded, but not yet in the vector store
          failed : SUBSET Data,   \* outstanding items of the failure report
          mark : SUBSET Data]     \* survivors still to mark complete
Sweep == [run : Run \cup {NoRun}, data : SUBSET Owner, affected : SUBSET Data,
          nodes : SUBSET Slug, warned : BOOLEAN,
          next : {"drop", "append", "mark", "close"}]

NoCall  == [proc |-> Free, ds |-> Free]
NoFrame == [items |-> {}, scope |-> "Nothing", incr |-> FALSE, prod |-> {},
            graph |-> {}, vector |-> {}, failed |-> {}, mark |-> {}]
NoSweep == [run |-> NoRun, data |-> {}, affected |-> {}, nodes |-> {},
            warned |-> FALSE, next |-> "drop"]

ItemsOf(ds) == {d \in Data : DatasetOf[d] = ds}

PhaseOK ==
    /\ pc \in [Actor -> RunPhase \cup ProcPhase]
    /\ \A r \in Run : pc[r] \in RunPhase
    /\ \A p \in Proc : pc[p] \in ProcPhase

CallOK ==
    /\ call \in [Run -> [proc : Proc, ds : Dataset] \cup {NoCall}]
    /\ \A r \in Run : pc[r] # "idle" => call[r] # NoCall

FrameOK == frame \in [Run -> Frame]

EnvOK ==
    /\ up \subseteq Proc
    /\ lock \in [Proc \X Dataset -> Actor \cup {Free}]
    /\ status \in [Run -> Status]
    /\ cand \in [Proc -> SUBSET Run]
    /\ faults \in 0..MaxFaults

MarkerOK ==
    /\ dir \subseteq Run
    /\ flock \in [Run -> Actor \cup {Free}]
    /\ closed \subseteq Actor

StoreOK ==
    /\ ledger \in [Key -> Run \cup {NoRun}]
    /\ graph \subseteq Store \X Slug
    /\ vector \subseteq Store \X Slug
    /\ marked \subseteq Data
    /\ vouched \in [Data -> SUBSET Key]
    /\ stranded \subseteq Data

SweepOK ==
    /\ sweep \in [Actor -> Sweep]
    /\ \A r \in Run : pc[r] \in SweepPhase =>
          sweep[r].run = r /\ sweep[r].next # "close"
    /\ \A p \in Proc : pc[p] \in Claimed => sweep[p].run \in Run
    /\ \A p \in Proc : pc[p] \in SweepPhase => sweep[p].next = "close"

\* Every variable has its type; a run that was called has a process and a
\* dataset, and a sweep, or a recovery that holds a marker, has a run.
TypeOK ==
    /\ PhaseOK
    /\ CallOK
    /\ FrameOK
    /\ EnvOK
    /\ MarkerOK
    /\ StoreOK
    /\ SweepOK

Init ==
    /\ up = Proc
    /\ pc = [a \in Actor |-> "idle"]
    /\ call = [r \in Run |-> NoCall]
    /\ frame = [r \in Run |-> NoFrame]
    /\ lock = [k \in Proc \X Dataset |-> Free]
    /\ status = [r \in Run |-> "none"]
    /\ dir = {}
    /\ flock = [r \in Run |-> Free]
    /\ closed = {}
    /\ ledger = [k \in Key |-> NoRun]
    /\ graph = {}
    /\ vector = {}
    /\ marked = {}
    /\ vouched = [d \in Data |-> {}]
    /\ sweep = [a \in Actor |-> NoSweep]
    /\ cand = [p \in Proc |-> {}]
    /\ faults = 0
    /\ stranded = {}

-----------------------------------------------------------------------------
(* Helpers *)

Goto(a, phase) == pc' = [pc EXCEPT ![a] = phase]

\* One unit of bad luck: an I/O call that fails, a kill, a dropped future.
Fault == faults < MaxFaults /\ faults' = faults + 1
Ok    == UNCHANGED faults

\* The dataset lock a run takes, and the one recovery takes for its candidate.
LockOf(a) == IF a \in Run THEN <<call[a].proc, call[a].ds>>
                          ELSE <<a, call[sweep[a].run].ds>>

\* The run whose marker an actor's RunOwnership stands for.
Target(a) == IF a \in Run THEN a ELSE sweep[a].run

StoreFor(r) == StoreOf[call[r].ds]

LogRow(r, row) == status' = [status EXCEPT ![r] = row]

\* Mutant: the run id was not captured, so the sweep selects on nothing.
StartSweepAnonymous(a, r, D, next) ==
    /\ Goto(a, "items")
    /\ sweep' = [sweep EXCEPT ![a] = [NoSweep EXCEPT !.data = D, !.next = next]]

\* The whole-run or item scope that a sweep starts with.
StartSweep(a, r, D, next) ==
    /\ Goto(a, "items")
    /\ sweep' = [sweep EXCEPT ![a] = [NoSweep EXCEPT !.run = r, !.data = D,
                                                     !.next = next]]

-----------------------------------------------------------------------------
(* A run: cognify, cognify_in_scope *)

Call(r, p, ds) ==
    /\ pc[r] = "idle"
    /\ p \in up
    /\ Goto(r, "wait")
    /\ call' = [call EXCEPT ![r] = [proc |-> p, ds |-> ds]]
    /\ UNCHANGED <<lock, status, sweep, faults, frame>>
    /\ UNCHANGED <<markerVars, storeVars, scanVars>>

\* DatasetLocks::hold.  The other arguments of the call are first read under
\* the lock, so they are chosen here.
Acquire(r, D, scope, incr) ==
    /\ pc[r] = "wait"
    /\ lock[LockOf(r)] = Free
    /\ Goto(r, "skip")
    /\ lock' = [lock EXCEPT ![LockOf(r)] = r]
    /\ frame' = [frame EXCEPT ![r] = [NoFrame EXCEPT !.items = D, !.scope = scope,
                                                     !.incr = incr]]
    /\ UNCHANGED <<status, sweep, faults, call>>
    /\ UNCHANGED <<markerVars, storeVars, scanVars>>

\* Mutant: the early return of a failed read keeps the dataset's lock.
SkipCompleteKeepsLock(r) ==
    /\ pc[r] = "skip"
    /\ \/ /\ frame' = [frame EXCEPT ![r].items =
                          IF frame[r].incr THEN @ \ marked ELSE @]
          /\ Goto(r, "own")
          /\ Ok
       \/ /\ frame[r].incr
          /\ Goto(r, "done")
          /\ frame' = [frame EXCEPT ![r] = NoFrame]
          /\ Fault
    /\ UNCHANGED <<lock, status, sweep, call>>
    /\ UNCHANGED <<markerVars, storeVars, scanVars>>

\* drop_already_complete.  A failed read is the run's early return.
SkipComplete(r) ==
    /\ pc[r] = "skip"
    /\ \/ /\ frame' = [frame EXCEPT ![r].items =
                          IF frame[r].incr THEN @ \ marked ELSE @]
          /\ Goto(r, "own")
          /\ Ok
          /\ UNCHANGED lock
       \/ /\ frame[r].incr
          /\ Goto(r, "done")
          /\ lock' = [lock EXCEPT ![LockOf(r)] = Free]
          /\ frame' = [frame EXCEPT ![r] = NoFrame]
          /\ Fault
    /\ UNCHANGED <<status, sweep, call>>
    /\ UNCHANGED <<markerVars, storeVars, scanVars>>

\* RunOwnership::acquire.  When it fails the run goes on without a marker.
AcquireOwnership(r) ==
    /\ pc[r] = "own"
    /\ Goto(r, "start")
    /\ \/ /\ dir' = dir \cup {r}
          /\ flock' = [flock EXCEPT ![r] = r]
          /\ Ok
       \/ /\ UNCHANGED <<dir, flock>>
          /\ Fault
    /\ UNCHANGED <<lock, status, sweep, closed>>
    /\ UNCHANGED <<callVars, storeVars, scanVars>>

\* on_pipeline_run_started: a failed write is only logged.  A run that found
\* nothing to do goes straight to its COMPLETED row (record_run_without_work).
WriteStarted(r) ==
    /\ pc[r] = "start"
    /\ Goto(r, IF frame[r].items = {} THEN "complete" ELSE "work")
    /\ \/ LogRow(r, "STARTED") /\ Ok
       \/ UNCHANGED status /\ Fault
    /\ UNCHANGED <<lock, sweep>>
    /\ UNCHANGED <<callVars, markerVars, storeVars, scanVars>>

\* Whose rows a run writes: its items' own, and the dataset's for the types of
\* their entities, which belong to no item.
Owners(r) == frame[r].items \cup ({call[r].ds} \cap Typed)

\* upsert_provenance_graph: rows are keyed by logical identity, and an upsert
\* keeps the tag of the run that created the row.  It comes before the graph
\* write of what it names; the post-pipeline teardown writes the same way.
WriteLedger(r, S) ==
    /\ pc[r] \in {"work", "teardown"}
    /\ frame[r].graph = {}
    /\ ledger' = [k \in Key |-> IF k \in S /\ ledger[k] = NoRun
                                THEN r ELSE ledger[k]]
    /\ LET slugs == {k[2] : k \in S} IN
       frame' = [frame EXCEPT ![r] = [frame[r] EXCEPT !.prod = @ \cup S,
                                                      !.graph = slugs,
                                                      !.vector = @ \cup slugs]]
    /\ UNCHANGED <<pc, lock, status, sweep, faults, call>>
    /\ UNCHANGED <<graph, vector, marked, vouched, stranded>>
    /\ UNCHANGED <<markerVars, scanVars>>

WriteGraph(r, s) ==
    /\ pc[r] \in {"work", "teardown"}
    /\ s \in frame[r].graph
    /\ graph' = graph \cup {<<StoreFor(r), s>>}
    /\ frame' = [frame EXCEPT ![r].graph = @ \ {s}]
    /\ UNCHANGED <<pc, lock, status, sweep, faults, call>>
    /\ UNCHANGED <<ledger, vector, marked, vouched, stranded>>
    /\ UNCHANGED <<markerVars, scanVars>>

IndexVector(r, s) ==
    /\ pc[r] \in {"work", "teardown"}
    /\ frame[r].graph = {}
    /\ s \in frame[r].vector
    /\ vector' = vector \cup {<<StoreFor(r), s>>}
    /\ frame' = [frame EXCEPT ![r].vector = @ \ {s}]
    /\ UNCHANGED <<pc, lock, status, sweep, faults, call>>
    /\ UNCHANGED <<ledger, graph, marked, vouched, stranded>>
    /\ UNCHANGED <<markerVars, scanVars>>

\* Everything the run has recorded is in the stores.
AllWritten(r) == frame[r].graph = {} /\ frame[r].vector = {}

\* A fatal failure: an LLM call, a store write, is_fatal, cancellation.
TaskFails(r) ==
    /\ pc[r] = "work"
    /\ Goto(r, "error")
    /\ UNCHANGED <<lock, status, sweep, faults, callVars>>
    /\ UNCHANGED <<markerVars, storeVars, scanVars>>

\* The executor's success, with a report that is_fatal tolerates.  An item that
\* produced nothing was dropped at classification (unreached).  Only under
\* FailedItems may items have failed, and then some item survived.
FinishWork(r, F) ==
    LET unreached == frame[r].items \ {k[1] : k \in frame[r].prod} IN
    /\ pc[r] = "work"
    /\ AllWritten(r)
    /\ unreached \subseteq F /\ F \subseteq frame[r].items
    /\ F # unreached => frame[r].scope = "FailedItems" /\ F # frame[r].items
    /\ Goto(r, "complete")
    /\ frame' = [frame EXCEPT ![r].failed = F]
    /\ UNCHANGED <<lock, status, sweep, faults, call>>
    /\ UNCHANGED <<markerVars, storeVars, scanVars>>

\* on_pipeline_run_completed, then mark_closed.  A failed write fails the run.
WriteCompleted(r) ==
    /\ pc[r] = "complete"
    /\ \/ /\ LogRow(r, "COMPLETED")
          /\ closed' = closed \cup {r}
          /\ Goto(r, IF frame[r].items = {} THEN "drop" ELSE "teardown")
          /\ Ok
       \/ /\ Goto(r, "error")
          /\ UNCHANGED <<status, closed>>
          /\ Fault
    /\ UNCHANGED <<lock, sweep, dir, flock>>
    /\ UNCHANGED <<callVars, storeVars, scanVars>>

\* Mutant: only the scope FailedItems sweeps after a failure.
WriteErroredNoSweep(r) ==
    /\ pc[r] = "error"
    /\ \/ LogRow(r, "ERRORED") /\ closed' = closed \cup {r} /\ Ok
       \/ UNCHANGED <<status, closed>> /\ Fault
    /\ IF frame[r].items = {} \/ frame[r].scope # "FailedItems"
         THEN Goto(r, "drop") /\ UNCHANGED sweep
         ELSE StartSweep(r, r, Owner, "drop")
    /\ UNCHANGED <<lock, dir, flock>>
    /\ UNCHANGED <<callVars, storeVars, scanVars>>

\* on_pipeline_run_errored; the marker is closed unless that write failed too.
\* Then on_run_failed: decide_sweep, and the sweep unless the scope is Nothing.
WriteErrored(r) ==
    /\ pc[r] = "error"
    /\ \/ LogRow(r, "ERRORED") /\ closed' = closed \cup {r} /\ Ok
       \/ UNCHANGED <<status, closed>> /\ Fault
    /\ IF frame[r].items = {} \/ frame[r].scope = "Nothing"
         THEN Goto(r, "drop") /\ UNCHANGED sweep
         ELSE StartSweep(r, r, Owner, "drop")
    /\ UNCHANGED <<lock, dir, flock>>
    /\ UNCHANGED <<callVars, storeVars, scanVars>>

\* The end of the post-pipeline teardown.  On success on_run_completed sweeps
\* the outstanding items and marks the survivors; on failure on_run_failed
\* sweeps the run and appends an ERRORED row after the COMPLETED one.
TeardownOk(r) ==
    /\ pc[r] = "teardown"
    /\ AllWritten(r)
    /\ frame' = [frame EXCEPT ![r].mark =
           IF frame[r].incr THEN frame[r].items \ frame[r].failed ELSE {}]
    /\ IF frame[r].scope = "FailedItems" /\ frame[r].failed # {}
         THEN StartSweep(r, r, frame[r].failed, "mark")
         ELSE Goto(r, "mark") /\ UNCHANGED sweep
    /\ UNCHANGED <<lock, status, faults, call>>
    /\ UNCHANGED <<markerVars, storeVars, scanVars>>

TeardownFails(r) ==
    /\ pc[r] = "teardown"
    /\ IF frame[r].scope = "Nothing"
         THEN Goto(r, "append") /\ UNCHANGED sweep
         ELSE StartSweep(r, r, Owner, "append")
    /\ UNCHANGED <<lock, status, faults, callVars>>
    /\ UNCHANGED <<markerVars, storeVars, scanVars>>

AppendErrored(r) ==
    /\ pc[r] = "append"
    /\ Goto(r, "drop")
    /\ \/ LogRow(r, "ERRORED") /\ Ok
       \/ UNCHANGED status /\ Fault
    /\ UNCHANGED <<lock, sweep>>
    /\ UNCHANGED <<callVars, markerVars, storeVars, scanVars>>

\* A row of the whole dataset whose maker is still STARTED: a run that did not
\* end.  Its recovery will delete the row, whoever has extracted the type since.
Doomed(k) == k[1] \in Dataset /\ \E q \in Run : ledger[k] = q /\ status[q] = "STARTED"

\* What the marker of an item stands for: the rows of the item itself, and those
\* of its dataset, without the ones that recovery is going to take: they are the
\* exception of MarkedBacked.
VouchedFor(r, d) ==
    {k \in frame[r].prod : k[1] \in {d, DatasetOf[d]} /\ ~Doomed(k)}

\* mark_complete: a failed write is a warning, and the item is redone.
MarkItem(r, d) ==
    /\ pc[r] = "mark"
    /\ d \in frame[r].mark
    /\ frame' = [frame EXCEPT ![r].mark = @ \ {d}]
    /\ \/ /\ marked' = marked \cup {d}
          /\ vouched' = [vouched EXCEPT ![d] = VouchedFor(r, d)]
          /\ stranded' = stranded \ {d}
          /\ Ok
       \/ UNCHANGED <<marked, vouched, stranded>> /\ Fault
    /\ UNCHANGED <<pc, lock, status, sweep, call>>
    /\ UNCHANGED <<ledger, graph, vector>>
    /\ UNCHANGED <<markerVars, scanVars>>

MarkEnd(r) ==
    /\ pc[r] = "mark"
    /\ frame[r].mark = {}
    /\ Goto(r, "drop")
    /\ UNCHANGED <<lock, status, sweep, faults>>
    /\ UNCHANGED <<callVars, markerVars, storeVars, scanVars>>

-----------------------------------------------------------------------------
(* RunOwnership::drop, for the run or the recovery pass that holds it: the OS *)
(* lock goes first, then the marker if it is closed, then the dataset lock.   *)

DropOwnership(a) ==
    /\ pc[a] = "drop"
    /\ Goto(a, "unlink")
    /\ flock' = [flock EXCEPT ![Target(a)] = IF @ = a THEN Free ELSE @]
    /\ UNCHANGED <<lock, status, sweep, faults, dir, closed>>
    /\ UNCHANGED <<callVars, storeVars, scanVars>>

\* Mutant: the marker is removed even when the run is not closed.
UnlinkAlways(a) ==
    /\ pc[a] = "unlink"
    /\ Goto(a, IF a \in Run THEN "done" ELSE "scan")
    /\ dir' = dir \ {Target(a)}
    /\ closed' = closed \ {a}
    /\ lock' = [lock EXCEPT ![LockOf(a)] = Free]
    /\ sweep' = [sweep EXCEPT ![a] = NoSweep]
    /\ frame' = [r \in Run |-> IF r = a THEN NoFrame ELSE frame[r]]
    /\ UNCHANGED <<status, faults, flock, call>>
    /\ UNCHANGED <<storeVars, scanVars>>

Unlink(a) ==
    /\ pc[a] = "unlink"
    /\ Goto(a, IF a \in Run THEN "done" ELSE "scan")
    /\ dir' = IF a \in closed THEN dir \ {Target(a)} ELSE dir
    /\ closed' = closed \ {a}
    /\ lock' = [lock EXCEPT ![LockOf(a)] = Free]
    /\ sweep' = [sweep EXCEPT ![a] = NoSweep]
    /\ frame' = [r \in Run |-> IF r = a THEN NoFrame ELSE frame[r]]
    /\ UNCHANGED <<status, faults, flock, call>>
    /\ UNCHANGED <<storeVars, scanVars>>

-----------------------------------------------------------------------------
(* RunSweeper::run_in_scope, executed by a failed run or by recovery *)

\* node_selection: the rows the sweep's run created, in its dataset and items.
Selected(sw) ==
    {k \in Key : /\ ledger[k] = sw.run
                 /\ DatasetOf[k[1]] = call[sw.run].ds
                 /\ k[1] \in sw.data}

\* Mutant: claims from outside the selection are not looked at.
AllSlugs(sw) == {k[2] : k \in Selected(sw)}

\* get_unique_nodes_for_run: selected slugs no row outside the selection claims.
UniqueSlugs(sw) ==
    {s \in Slug : /\ \E k \in Selected(sw) : k[2] = s
                  /\ ~ \E k \in Key \ Selected(sw) : k[2] = s /\ ledger[k] # NoRun}

\* The sweep is over; recovery still knows whose marker it holds.
LeaveSweep(a, phase) ==
    /\ Goto(a, phase)
    /\ sweep' = [sweep EXCEPT ![a] = [NoSweep EXCEPT !.run = sweep[a].run]]

\* sweep_logging_failure: a run only logs the error, recovery gives this
\* candidate up and leaves it STARTED.
SweepFail(a) ==
    /\ LeaveSweep(a, IF a \in Run THEN sweep[a].next ELSE "drop")
    /\ Fault

\* get_data_ids_for_run, read before anything is deleted.  The nil id may be among
\* them, and stands for no item whose marker could be cleared.
SweepItems(a) ==
    /\ pc[a] = "items"
    /\ \/ /\ sweep' = [sweep EXCEPT ![a].affected =
                                          Data \cap {k[1] : k \in Selected(sweep[a])}]
          /\ Goto(a, "nodes")
          /\ Ok
       \/ SweepFail(a)
    /\ UNCHANGED <<lock, status>>
    /\ UNCHANGED <<callVars, markerVars, storeVars, scanVars>>

SweepNodes(a) ==
    /\ pc[a] = "nodes"
    /\ \/ /\ sweep' = [sweep EXCEPT ![a].nodes = UniqueSlugs(sweep[a])]
          /\ Goto(a, "graph")
          /\ Ok
       \/ SweepFail(a)
    /\ UNCHANGED <<lock, status>>
    /\ UNCHANGED <<callVars, markerVars, storeVars, scanVars>>

\* delete_graph_artifacts; a failed delete may have removed some of the nodes.
SweepGraph(a) ==
    /\ pc[a] = "graph"
    /\ LET gone(S) == graph' = graph \ ({StoreFor(sweep[a].run)} \X S) IN
       \/ /\ gone(sweep[a].nodes)
          /\ Goto(a, "vector")
          /\ UNCHANGED sweep
          /\ Ok
       \/ /\ \E S \in SUBSET sweep[a].nodes : gone(S)
          /\ SweepFail(a)
    /\ UNCHANGED <<lock, status, ledger, vector, marked, vouched, stranded>>
    /\ UNCHANGED <<callVars, markerVars, scanVars>>

\* Mutant: the vector store is swept best effort, and the rows go regardless.
SweepVectorBestEffort(a) ==
    /\ pc[a] = "vector"
    /\ LET gone(S) == vector' = vector \ ({StoreFor(sweep[a].run)} \X S) IN
       \/ gone(sweep[a].nodes) /\ UNCHANGED sweep /\ Ok
       \/ /\ \E S \in SUBSET sweep[a].nodes : gone(S)
          /\ sweep' = [sweep EXCEPT ![a].warned = TRUE]
          /\ Fault
    /\ Goto(a, "rows")
    /\ UNCHANGED <<lock, status, ledger, graph, marked, vouched, stranded>>
    /\ UNCHANGED <<callVars, markerVars, scanVars>>

\* delete_vector_artifacts.  A failure on the legacy collection is a warning.
SweepVector(a) ==
    /\ pc[a] = "vector"
    /\ LET gone(S) == vector' = vector \ ({StoreFor(sweep[a].run)} \X S) IN
       \/ /\ gone(sweep[a].nodes)
          /\ Goto(a, "rows")
          /\ \/ UNCHANGED sweep /\ Ok
             \/ sweep' = [sweep EXCEPT ![a].warned = TRUE] /\ Fault
       \/ /\ \E S \in SUBSET sweep[a].nodes : gone(S)
          /\ SweepFail(a)
    /\ UNCHANGED <<lock, status, ledger, graph, marked, vouched, stranded>>
    /\ UNCHANGED <<callVars, markerVars, scanVars>>

\* delete_nodes_for_run: every selected row, exclusive or not.
SweepRows(a) ==
    /\ pc[a] = "rows"
    /\ \/ /\ ledger' = [k \in Key |-> IF k \in Selected(sweep[a])
                                      THEN NoRun ELSE ledger[k]]
          /\ Goto(a, "clear")
          /\ UNCHANGED sweep
          /\ Ok
       \/ SweepFail(a) /\ UNCHANGED ledger
    /\ UNCHANGED <<lock, status, graph, vector, marked, vouched, stranded>>
    /\ UNCHANGED <<callVars, markerVars, scanVars>>

\* clear_cognify_pipeline_status_for_data, best effort for each item.
SweepClear(a, d) ==
    /\ pc[a] = "clear"
    /\ d \in sweep[a].affected
    /\ \/ /\ marked' = marked \ {d}
          /\ vouched' = [vouched EXCEPT ![d] = {}]
          /\ stranded' = stranded \ {d}
          /\ sweep' = [sweep EXCEPT ![a].affected = @ \ {d}]
          /\ Ok
       \/ /\ stranded' = stranded \cup {d}
          /\ sweep' = [sweep EXCEPT ![a].affected = @ \ {d}, ![a].warned = TRUE]
          /\ Fault
          /\ UNCHANGED <<marked, vouched>>
    /\ UNCHANGED <<pc, lock, status, ledger, graph, vector>>
    /\ UNCHANGED <<callVars, markerVars, scanVars>>

\* Recovery closes the run only after a sweep without warnings.
SweepEnd(a) ==
    /\ pc[a] = "clear"
    /\ sweep[a].affected = {}
    /\ LeaveSweep(a, IF a \in Proc /\ sweep[a].warned THEN "drop"
                                                       ELSE sweep[a].next)
    /\ UNCHANGED <<lock, status, faults>>
    /\ UNCHANGED <<callVars, markerVars, storeVars, scanVars>>

-----------------------------------------------------------------------------
(* recover_stale_pipeline_runs *)

\* A pass without candidates returns at once.
Recover(p) ==
    /\ pc[p] = "idle"
    /\ p \in up
    /\ Goto(p, "scan")
    /\ cand' = [cand EXCEPT ![p] = {r \in Run : status[r] = "STARTED"}]
    /\ cand'[p] # {}
    /\ UNCHANGED <<lock, status, sweep, faults, up>>
    /\ UNCHANGED <<callVars, markerVars, storeVars>>

\* Mutants: the dataset's lock, or the marker's OS lock, is not looked at.
ClaimableLocked(p, r) == r \in dir /\ flock[r] = Free
ClaimableHeld(p, r)   == lock[<<p, call[r].ds>>] = Free /\ r \in dir

\* DatasetLocks::try_lock, then RunOwnership::claim.
Claimable(p, r) ==
    /\ lock[<<p, call[r].ds>>] = Free
    /\ r \in dir
    /\ flock[r] = Free

\* A candidate is passed over when one of these fails or when it is younger
\* than min_age.  There is no clock: any candidate may be too young.
RecoverSkip(p, r) ==
    /\ pc[p] = "scan"
    /\ r \in cand[p]
    /\ cand' = [cand EXCEPT ![p] = @ \ {r}]
    /\ UNCHANGED <<pc, lock, status, sweep, faults, up>>
    /\ UNCHANGED <<callVars, markerVars, storeVars>>

\* Mutant: the claim tests the OS lock and lets go of it.
RecoverProbe(p, r) ==
    /\ pc[p] = "scan"
    /\ r \in cand[p]
    /\ Claimable(p, r)
    /\ cand' = [cand EXCEPT ![p] = @ \ {r}]
    /\ lock' = [lock EXCEPT ![<<p, call[r].ds>>] = p]
    /\ sweep' = [sweep EXCEPT ![p] = [NoSweep EXCEPT !.run = r]]
    /\ Goto(p, "recheck")
    /\ UNCHANGED <<status, faults, up, dir, flock, closed>>
    /\ UNCHANGED <<callVars, storeVars>>

RecoverClaim(p, r) ==
    /\ pc[p] = "scan"
    /\ r \in cand[p]
    /\ Claimable(p, r)
    /\ cand' = [cand EXCEPT ![p] = @ \ {r}]
    /\ lock' = [lock EXCEPT ![<<p, call[r].ds>>] = p]
    /\ flock' = [flock EXCEPT ![r] = p]
    /\ sweep' = [sweep EXCEPT ![p] = [NoSweep EXCEPT !.run = r]]
    /\ Goto(p, "recheck")
    /\ UNCHANGED <<status, faults, up, dir, closed>>
    /\ UNCHANGED <<callVars, storeVars>>

\* Mutant: the run is closed without a rollback.
RecheckAndClose(p) ==
    LET r == sweep[p].run IN
    /\ pc[p] = "recheck"
    /\ \/ /\ status[r] = "STARTED"
          /\ Goto(p, "close")
          /\ UNCHANGED closed
       \/ /\ status[r] # "STARTED"
          /\ Goto(p, "drop")
          /\ closed' = closed \cup {p}
    /\ UNCHANGED <<lock, status, sweep, faults, dir, flock>>
    /\ UNCHANGED <<callVars, storeVars, scanVars>>

\* The latest row is read again under the locks.
Recheck(p) ==
    LET r == sweep[p].run IN
    /\ pc[p] = "recheck"
    /\ \/ /\ status[r] = "STARTED"
          /\ StartSweep(p, r, Owner, "close")
          /\ UNCHANGED closed
          /\ Ok
       \/ /\ status[r] # "STARTED"
          /\ Goto(p, "drop")
          /\ closed' = closed \cup {p}
          /\ UNCHANGED sweep
          /\ Ok
       \/ /\ Goto(p, "drop")
          /\ UNCHANGED <<sweep, closed>>
          /\ Fault
    /\ UNCHANGED <<lock, status, dir, flock>>
    /\ UNCHANGED <<callVars, storeVars, scanVars>>

\* reset_orphan_run, which writes only when the latest row is still STARTED.
RecoverClose(p) ==
    LET r == sweep[p].run IN
    /\ pc[p] = "close"
    /\ Goto(p, "drop")
    /\ \/ /\ LogRow(r, IF status[r] = "STARTED" THEN "ERRORED" ELSE status[r])
          /\ closed' = closed \cup {p}
          /\ Ok
       \/ UNCHANGED <<status, closed>> /\ Fault
    /\ UNCHANGED <<lock, sweep, dir, flock>>
    /\ UNCHANGED <<callVars, storeVars, scanVars>>

RecoverEnd(p) ==
    /\ pc[p] = "scan"
    /\ cand[p] = {}
    /\ Goto(p, "idle")
    /\ UNCHANGED <<lock, status, sweep, faults>>
    /\ UNCHANGED <<callVars, markerVars, storeVars, scanVars>>

-----------------------------------------------------------------------------
(* The environment *)

\* What dies with an actor: its volatile state, and the clearing it had to do.
Forget(Dead) ==
    /\ frame' = [r \in Run |-> IF r \in Dead THEN NoFrame ELSE frame[r]]
    /\ sweep' = [a \in Actor |-> IF a \in Dead THEN NoSweep ELSE sweep[a]]
    /\ flock' = [r \in Run |-> IF flock[r] \in Dead THEN Free ELSE flock[r]]
    /\ closed' = closed \ Dead
    /\ stranded' = stranded \cup
           UNION {IF pc[a] = "clear" THEN sweep[a].affected ELSE {} : a \in Dead}

\* The process is killed: the OS releases its file locks, markers stay.
Crash(p) ==
    LET Dead == {p} \cup {r \in Run : call[r].proc = p} IN
    /\ p \in up
    /\ Fault
    /\ up' = up \ {p}
    /\ pc' = [a \in Actor |->
                 CASE a = p -> "idle"
                   [] a \in Dead \cap Run /\ pc[a] \notin {"done", "dropped"} -> "dead"
                   [] OTHER -> pc[a]]
    /\ lock' = [k \in Proc \X Dataset |-> IF k[1] = p THEN Free ELSE lock[k]]
    /\ cand' = [cand EXCEPT ![p] = {}]
    /\ Forget(Dead)
    /\ UNCHANGED <<status, call, dir, ledger, graph, vector, marked, vouched>>

Start(p) ==
    /\ p \notin up
    /\ up' = up \cup {p}
    /\ UNCHANGED <<pc, lock, status, sweep, faults, cand>>
    /\ UNCHANGED <<callVars, markerVars, storeVars>>

\* The caller drops the run's future at an await: no sweep, but its
\* RunOwnership and its dataset lock are dropped.
DropFuture(r) ==
    /\ pc[r] \in (Holding \cup {"wait"}) \ {"drop", "unlink"}
    /\ Fault
    /\ Goto(r, "dropped")
    /\ lock' = [k \in Proc \X Dataset |-> IF lock[k] = r THEN Free ELSE lock[k]]
    /\ dir' = IF r \in closed THEN dir \ {r} ELSE dir
    /\ Forget({r})
    /\ UNCHANGED <<status, call, ledger, graph, vector, marked, vouched>>
    /\ UNCHANGED scanVars

\* Every call has returned, and no recovery is under way.
Quiet ==
    /\ \A r \in Run : pc[r] \in {"done", "dropped", "dead"}
    /\ \A p \in Proc : pc[p] = "idle"
    /\ UNCHANGED vars

-----------------------------------------------------------------------------
RunStep(r) ==
    \/ \E D \in SUBSET ItemsOf(call[r].ds) \ {{}}, scope \in Scopes,
          incr \in Incremental : Acquire(r, D, scope, incr)
    \/ SkipComplete(r)
    \/ AcquireOwnership(r)
    \/ WriteStarted(r)
    \/ \E S \in SUBSET ((Owners(r) \X Slug) \ frame[r].prod) \ {{}} :
          WriteLedger(r, S)
    \/ \E s \in Slug : WriteGraph(r, s) \/ IndexVector(r, s)
    \/ TaskFails(r)
    \/ \E F \in SUBSET frame[r].items : FinishWork(r, F)
    \/ WriteCompleted(r)
    \/ WriteErrored(r)
    \/ TeardownOk(r)
    \/ TeardownFails(r)
    \/ AppendErrored(r)
    \/ \E d \in Data : MarkItem(r, d)
    \/ MarkEnd(r)

SweepStep(a) ==
    \/ SweepItems(a)
    \/ SweepNodes(a)
    \/ SweepGraph(a)
    \/ SweepVector(a)
    \/ SweepRows(a)
    \/ \E d \in Data : SweepClear(a, d)
    \/ SweepEnd(a)

OwnershipStep(a) == DropOwnership(a) \/ Unlink(a)

RecoveryStep(p) ==
    \/ Recover(p)
    \/ \E r \in Run : RecoverSkip(p, r) \/ RecoverClaim(p, r)
    \/ Recheck(p)
    \/ RecoverClose(p)
    \/ RecoverEnd(p)

Next ==
    \/ \E r \in Run, p \in Proc, ds \in Dataset : Call(r, p, ds)
    \/ \E r \in Run : RunStep(r) \/ DropFuture(r)
    \/ \E a \in Actor : SweepStep(a) \/ OwnershipStep(a)
    \/ \E p \in Proc : RecoveryStep(p) \/ Crash(p) \/ Start(p)
    \/ Quiet

Spec == Init /\ [][Next]_vars

\* Every task that can take a step eventually does, a process that was killed
\* is started again, and recovery is called again (at each start, or by a server
\* on an interval).  Rows only grow older, so a candidate that can be claimed
\* time and again is not for ever too young.
Fairness ==
    /\ \A r \in Run : WF_vars(RunStep(r))
    /\ \A a \in Actor : WF_vars(SweepStep(a) \/ OwnershipStep(a))
    /\ \A p \in Proc : WF_vars(RecoveryStep(p)) /\ WF_vars(Start(p))
    /\ \A p \in Proc, r \in Run : SF_vars(RecoverClaim(p, r))

FairSpec == Spec /\ Fairness

-----------------------------------------------------------------------------
(* Safety *)

\* A graph node or a vector point is there only while an ownership row names
\* it: rows are written before the artifact (extract_graph, add_data_points)
\* and a sweep deletes them after it.  An artifact without a row is one that no
\* sweep and no delete can ever find again.
NoOwnerlessArtifact ==
    \A st \in Store, s \in Slug :
        <<st, s>> \in graph \cup vector =>
            \E k \in Key : /\ k[2] = s
                           /\ ledger[k] # NoRun
                           /\ StoreOf[DatasetOf[k[1]]] = st

\* What the marker of d stands for is recorded and stored.
Backed(d) ==
    \A k \in vouched[d] :
        /\ ledger[k] # NoRun
        /\ <<StoreOf[DatasetOf[d]], k[2]>> \in graph \cap vector

\* A later run skips an item that carries a completion marker, for ever, so a
\* marked item must have all its rows, and the rows of its dataset that the run
\* which marked it wrote or met, each with its node and its point.  It may lack
\* some of it only while somebody is still due to clear the marker: a sweep
\* under way that has the item on its list, a recovery that will come back for
\* a run still STARTED with rows for it; or when the sweep's clearing of this
\* very marker failed or was cut off.
\* One thing is not promised, as the code does not: a type that a run which is
\* still STARTED at the time of the marking had recorded first.  Its row keeps
\* the tag of that run and names no item, so the recovery of that run takes the
\* type from every item of the dataset and clears nobody's marker for it.
MarkedBacked ==
    \A d \in Data :
        \/ d \notin marked
        \/ Backed(d)
        \/ d \in stranded
        \/ \E a \in Actor : pc[a] \in SweepPhase /\ d \in sweep[a].affected
        \/ \E s \in Slug : /\ ledger[<<d, s>>] # NoRun
                           /\ status[ledger[<<d, s>>]] = "STARTED"

\* Runs and recoveries of one process never work on one dataset together
\* (DatasetLocks::hold around cognify, try_lock in recovery).
DatasetOfActor(a) == IF a \in Run THEN call[a].ds ELSE call[sweep[a].run].ds
Working(p) == {r \in Run : call[r].proc = p /\ pc[r] \in Holding}
                  \cup {q \in {p} : pc[q] \in Claimed}
OnePerDataset ==
    \A p \in Proc : \A a, b \in Working(p) :
        DatasetOfActor(a) = DatasetOfActor(b) => a = b

\* Recovery, in any process, holds the marker only of a run that is over: a
\* live run, however old its STARTED row, is never rolled back under its feet.
RecoveryOnlyDead ==
    \A p \in Proc : pc[p] \in Claimed => pc[sweep[p].run] \in Over

\* No two recovery passes, of different processes, work on the same run.
OneRecoverer ==
    \A p, q \in Proc :
        /\ {pc[p], pc[q]} \subseteq Claimed \ {"unlink"}
        /\ sweep[p].run = sweep[q].run
        => p = q

\* Recovery closes a run only after its rollback: the STARTED row of a run that
\* is over turns ERRORED only when no ownership row of that run is left.
RolledBackBeforeClosed ==
    [][\A r \in Run :
          pc[r] \in Over /\ status[r] = "STARTED" /\ status'[r] = "ERRORED" =>
              \A k \in Key : ledger[k] # r]_vars

\* A run that failed, and whose process met no other fault, leaves nothing
\* behind: the sweep after its ERRORED row takes every row it had created.
\* (Under the scope Nothing callers ask for the opposite.)
FailedRunLeavesNothing ==
    faults = 0 /\ "Nothing" \notin Scopes =>
        \A r \in Run : pc[r] = "done" /\ status[r] = "ERRORED" =>
            \A k \in Key : ledger[k] # r

\* What survives of a killed run that did not complete is a row still at
\* STARTED, so that the next recovery finds what the run had written.
KilledRunsAreFound ==
    \A r \in Run :
        /\ pc[r] = "dead"
        /\ \E k \in Key : ledger[k] = r
        => status[r] \in {"STARTED", "COMPLETED"}

\* Recovery is safe with other processes at work: after it has deleted the rows
\* of the abandoned run, a run at work still has the rows of all it has extracted.
RecoverySparesLiveRuns ==
    \A p \in Proc, r \in Run :
        pc[p] = "clear" /\ pc[r] \in {"work", "complete", "teardown"} =>
            \A k \in frame[r].prod : ledger[k] # NoRun

-----------------------------------------------------------------------------
(* Liveness *)

\* A run that was killed or dropped while STARTED, and left a marker behind, is
\* eventually rolled back and closed, whatever fails in the recoveries that try.
AbandonedRunsAreClosed ==
    \A r \in Run :
        (pc[r] \in {"dead", "dropped"} /\ status[r] = "STARTED" /\ r \in dir) ~>
            (status[r] = "ERRORED" /\ \A k \in Key : ledger[k] # r)

\* A call that waits for its dataset's lock gets it and returns, or is cut off:
\* no early return, failed sweep or dropped future keeps the lock.
CallsReturn ==
    \A r \in Run : (pc[r] = "wait") ~> (pc[r] \in {"done", "dropped", "dead"})

=============================================================================
