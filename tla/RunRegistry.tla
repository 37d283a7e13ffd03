---------------------------- MODULE RunRegistry -----------------------------
(***************************************************************************)
(* The in-memory registry of pipeline runs (DefaultPipelineRunRegistry).   *)
(*                                                                         *)
(* A run id has a slot in a map and a place in the order of eviction; each *)
(* is behind a lock of its own, and one action is one critical section.    *)
(* A register call makes room, creates the slot and runs the work, in the  *)
(* caller or in a spawned task that a second task, the finisher, waits     *)
(* for.  Subscribers, aborts, the retention task and the shutdown come at  *)
(* any time.  The slot, the finisher, an abort and a subscriber hold the   *)
(* channel of the run; a slot that is made anew has a new channel.         *)
(***************************************************************************)
EXTENDS Naturals, Sequences, FiniteSets

CONSTANTS
    Run,          \* run ids; each is registered at most once
    Background,   \* the ones registered with register_background
    MaxRuns,      \* max_in_memory_runs
    MaxChannels,  \* bound on the channels made for one id
    Scenarios,    \* bounds on what happens around the runs
    NoRun         \* null value

ASSUME RegistryAssumption ==
    /\ Background \subseteq Run
    /\ MaxRuns \in Nat \ {0}
    /\ MaxChannels \in Nat \ {0}
    /\ NoRun \notin Run
    /\ Scenarios \subseteq [aborts : SUBSET Run, subscribes : SUBSET Run, expires : SUBSET Run,
                           shutdown : BOOLEAN, faults : Nat]

Aborter == {"user", "shutdown"}

VARIABLES
    env,       \* which runs are aborted and subscribed to, at most once each, and
               \* expire; whether there is a shutdown; how many rows cannot be written
    slot,      \* the map `runs`
    order,     \* eviction_order
    reg,       \* where the register call of a run is
    victim,    \* the run it evicts
    task,      \* where the work of a run is
    outcome,   \* what the work returned: Completed for Ok, Errored for Err
    meta,      \* whether the rows of a run are logged: slot_snapshot
    sink,      \* the channel of the ScopedRunWatcher, 0 if none
    fin,       \* the finisher's channel, 0 if it has none or is over
    row,       \* the latest row of each run
    faults,    \* the writes that failed so far
    chans,     \* the channels made for each run
    sub,       \* the channel of the run's subscriber, 0 if none
    told,      \* the last terminal event the subscriber was sent
    ab,        \* the abort calls under way
    down,      \* where the shutdown is
    todo,      \* the runs it still has to abort
    sweep,     \* run_retention: the expired runs, and where it is with them
    hit        \* who has called abort on each run

calls == <<reg, victim, task, outcome, meta, sink, fin>>
events == <<chans, sub, told>>
stops == <<env, ab, down, todo, sweep, hit>>
db == <<row, faults>>
vars == <<slot, order, calls, db, events, stops>>

-----------------------------------------------------------------------------
Phase == {"pending", "running", "completed", "errored"}
Over == {"completed", "errored"}

\* RunSlot.  ch is 0 where the map has no slot.
Slot == [ch : 0..MaxChannels + 1, phase : Phase, finished : BOOLEAN, handle : BOOLEAN]
None == [ch |-> 0, phase |-> "pending", finished |-> FALSE, handle |-> FALSE]

Abort == [pc : {"idle", "row", "send", "mark"}, run : Run \cup {NoRun}, ch : 0..MaxChannels + 1]
Idle == [pc |-> "idle", run |-> NoRun, ch |-> 0]

Has(r) == slot[r].ch # 0

\* The variables have their types, a slot has the newest channel of its run, an
\* absent one has nothing, and a call that runs is past the creation of its slot.
TypeOK ==
    /\ env \in Scenarios
    /\ slot \in [Run -> Slot]
    /\ order \in Seq(Run)
    /\ reg \in [Run -> {"new", "full", "evict", "create", "push", "ready", "store", "watch",
                        "returned", "refused"}]
    /\ victim \in [Run -> Run \cup {NoRun}]
    /\ task \in [Run -> {"none", "start", "work", "executing", "reported", "log", "end", "aborted",
                         "over"}]
    /\ outcome \in [Run -> {"none"} \cup Over]
    /\ meta \in [Run -> BOOLEAN]
    /\ fin \in [Run -> 0..MaxChannels + 1] /\ sink \in [Run -> 0..MaxChannels + 1]
    /\ hit \in [Run -> SUBSET Aborter]
    /\ row \in [Run -> {"none", "STARTED", "COMPLETED", "ERRORED"}] /\ faults \in 0..env.faults
    /\ chans \in [Run -> 0..MaxChannels + 1] /\ sub \in [Run -> 0..MaxChannels + 1]
    /\ told \in [Run -> {"none"} \cup Over]
    /\ ab \in [Aborter -> Abort]
    /\ down \in {"up", "aborting", "down"} /\ todo \subseteq Run
    /\ sweep \in [pc : {"idle", "remove", "prune"}, runs : SUBSET Run]
    /\ \A r \in Run : /\ IF Has(r) THEN slot[r].ch = chans[r] ELSE slot[r] = None
                      /\ task[r] # "none" => reg[r] \in {"ready", "store", "watch", "returned"}

Init ==
    /\ env \in Scenarios
    /\ slot = [r \in Run |-> None] /\ order = <<>>
    /\ reg = [r \in Run |-> "new"] /\ victim = [r \in Run |-> NoRun]
    /\ task = [r \in Run |-> "none"] /\ outcome = [r \in Run |-> "none"]
    /\ meta = [r \in Run |-> TRUE] /\ sink = [r \in Run |-> 0] /\ fin = [r \in Run |-> 0]
    /\ hit = [r \in Run |-> {}]
    /\ row = [r \in Run |-> "none"] /\ faults = 0
    /\ chans = [r \in Run |-> 0] /\ sub = [r \in Run |-> 0] /\ told = [r \in Run |-> "none"]
    /\ ab = [a \in Aborter |-> Idle]
    /\ down = "up" /\ todo = {} /\ sweep = [pc |-> "idle", runs |-> {}]

-----------------------------------------------------------------------------
\* log_pipeline_run_entry, of which a failure is logged and no more.
Log(r, status) ==
    \/ row' = [row EXCEPT ![r] = status] /\ UNCHANGED faults
    \/ faults < env.faults /\ faults' = faults + 1 /\ UNCHANGED row

\* phase_tx.send on channel c of run r: the slot shows it if it has that channel.
SendPhase(r, c, phase) ==
    slot' = IF slot[r].ch = c /\ c # 0 THEN [slot EXCEPT ![r].phase = phase] ELSE slot

\* event_tx.send of a terminal event on channel c.
SendEnd(r, c, phase) ==
    told' = IF sub[r] = c /\ c # 0 THEN [told EXCEPT ![r] = phase] ELSE told

Size == Cardinality({r \in Run : Has(r)})

\* VecDeque::retain: the entries of s that are not in gone, in their order.
Without(s, gone) ==
    LET kept == {n \in DOMAIN s : s[n] \notin gone}
        Nth(k) == CHOOSE n \in kept : Cardinality({m \in kept : m <= n}) = k
    IN  [k \in 1..Cardinality(kept) |-> s[Nth(k)]]

-----------------------------------------------------------------------------
(* register_inline and register_background *)

\* ensure_capacity reads the length of the map.
Check(r) ==
    /\ reg[r] = "new" /\ down = "up"
    /\ reg' = [reg EXCEPT ![r] = IF Size < MaxRuns THEN "create" ELSE "full"]
    /\ UNCHANGED <<slot, order, victim, task, outcome, meta, sink, fin, db, events, stops>>

\* Mutant: the oldest run is evicted, finished or not.
PickOldest(r) ==
    /\ reg[r] = "full"
    /\ \/ /\ order # <<>>
          /\ victim' = [victim EXCEPT ![r] = Head(order)] /\ order' = Tail(order)
          /\ reg' = [reg EXCEPT ![r] = "evict"]
       \/ reg' = [reg EXCEPT ![r] = "refused"] /\ UNCHANGED <<order, victim>>
    /\ UNCHANGED <<slot, task, outcome, meta, sink, fin, db, events, stops>>

\* The first finished run leaves the order.  Without one, or when try_read finds
\* the map locked, the call is refused.
Pick(r) ==
    LET ended == {q \in Run : slot[q].finished} IN
    /\ reg[r] = "full"
    /\ \/ \E n \in DOMAIN order :
              /\ order[n] \in ended /\ \A m \in 1..n - 1 : order[m] \notin ended
              /\ victim' = [victim EXCEPT ![r] = order[n]]
              /\ order' = SubSeq(order, 1, n - 1) \o SubSeq(order, n + 1, Len(order))
              /\ reg' = [reg EXCEPT ![r] = "evict"]
       \/ reg' = [reg EXCEPT ![r] = "refused"] /\ UNCHANGED <<order, victim>>
    /\ UNCHANGED <<slot, task, outcome, meta, sink, fin, db, events, stops>>

Evict(r) ==
    /\ reg[r] = "evict"
    /\ slot' = [slot EXCEPT ![victim[r]] = None]
    /\ victim' = [victim EXCEPT ![r] = NoRun]
    /\ reg' = [reg EXCEPT ![r] = "create"]
    /\ UNCHANGED <<order, task, outcome, meta, sink, fin, db, events, stops>>

\* Mutant: the placeholder of an early subscriber is replaced.
CreateAnew(r) ==
    /\ reg[r] = "create"
    /\ slot' = [slot EXCEPT ![r] = [None EXCEPT !.ch = chans[r] + 1]]
    /\ chans' = [chans EXCEPT ![r] = @ + 1]
    /\ reg' = [reg EXCEPT ![r] = "push"]
    /\ UNCHANGED <<order, victim, task, outcome, meta, sink, fin, db, sub, told, stops>>

\* create_slot: a placeholder is kept with its channel.
Create(r) ==
    /\ reg[r] = "create"
    /\ \/ /\ Has(r)
          /\ slot' = [slot EXCEPT ![r].phase = "pending"]
          /\ reg' = [reg EXCEPT ![r] = "ready"]
          /\ UNCHANGED chans
       \/ /\ ~Has(r)
          /\ slot' = [slot EXCEPT ![r] = [None EXCEPT !.ch = chans[r] + 1]]
          /\ chans' = [chans EXCEPT ![r] = @ + 1]
          /\ reg' = [reg EXCEPT ![r] = "push"]
    /\ UNCHANGED <<order, victim, task, outcome, meta, sink, fin, db, sub, told, stops>>

Push(r) ==
    /\ reg[r] = "push"
    /\ order' = Append(order, r)
    /\ reg' = [reg EXCEPT ![r] = "ready"]
    /\ UNCHANGED <<slot, victim, task, outcome, meta, sink, fin, db, events, stops>>

\* run_work_inline begins: the phase is Running, if there is a slot to show it.
BeginInline(r) ==
    /\ reg[r] = "ready" /\ r \notin Background /\ task[r] = "none"
    /\ SendPhase(r, slot[r].ch, "running")
    /\ task' = [task EXCEPT ![r] = "start"]
    /\ UNCHANGED <<order, reg, victim, outcome, meta, sink, fin, db, events, stops>>

\* register_background spawns the work.
Spawn(r) ==
    /\ reg[r] = "ready" /\ r \in Background
    /\ task' = [task EXCEPT ![r] = "start"]
    /\ reg' = [reg EXCEPT ![r] = "store"]
    /\ UNCHANGED <<slot, order, victim, outcome, meta, sink, fin, db, events, stops>>

\* Mutant: the handle is stored without a look for the slot.
StoreHandleBlind(r) ==
    /\ reg[r] = "store"
    /\ slot' = [slot EXCEPT ![r].handle = TRUE]
    /\ reg' = [reg EXCEPT ![r] = "watch"]
    /\ UNCHANGED <<order, victim, task, outcome, meta, sink, fin, db, events, stops>>

\* The abort handle is stored, if the slot is still there.
StoreHandle(r) ==
    /\ reg[r] = "store"
    /\ slot' = IF Has(r) THEN [slot EXCEPT ![r].handle = TRUE] ELSE slot
    /\ reg' = [reg EXCEPT ![r] = "watch"]
    /\ UNCHANGED <<order, victim, task, outcome, meta, sink, fin, db, events, stops>>

\* The finisher is spawned with the channel of the slot, if it is still there.
SpawnFinisher(r) ==
    /\ reg[r] = "watch"
    /\ fin' = [fin EXCEPT ![r] = slot[r].ch]
    /\ reg' = [reg EXCEPT ![r] = "returned"]
    /\ UNCHANGED <<slot, order, victim, task, outcome, meta, sink, db, events, stops>>

-----------------------------------------------------------------------------
(* The work, and the ScopedRunWatcher that the work may report to *)

\* The registry's own STARTED row; an inline run whose slot is gone logs none.
LogStarted(r) ==
    /\ task[r] = "start"
    /\ meta' = [meta EXCEPT ![r] = r \in Background \/ Has(r)]
    /\ IF meta'[r] THEN Log(r, "STARTED") ELSE UNCHANGED db
    /\ task' = [task EXCEPT ![r] = "work"]
    /\ UNCHANGED <<slot, order, reg, victim, outcome, sink, fin, events, stops>>

\* watcher_for, and on_pipeline_run_started.
WatchStarted(r) ==
    /\ task[r] = "work" /\ Has(r)
    /\ sink' = [sink EXCEPT ![r] = slot[r].ch]
    /\ Log(r, "STARTED")
    /\ SendPhase(r, slot[r].ch, "running")
    /\ task' = [task EXCEPT ![r] = "executing"]
    /\ UNCHANGED <<order, reg, victim, outcome, meta, fin, events, stops>>

\* on_pipeline_run_completed: nothing is published unless the row was written.
WatchCompleted(r) ==
    /\ task[r] = "executing"
    /\ row' = [row EXCEPT ![r] = "COMPLETED"] /\ UNCHANGED faults
    /\ SendPhase(r, sink[r], "completed")
    /\ SendEnd(r, sink[r], "completed")
    /\ task' = [task EXCEPT ![r] = "reported"]
    /\ UNCHANGED <<order, reg, victim, outcome, meta, sink, fin, chans, sub, stops>>

\* on_pipeline_run_errored, after a failure of the work or of the COMPLETED row.
WatchErrored(r) ==
    /\ task[r] = "executing"
    /\ Log(r, "ERRORED")
    /\ SendPhase(r, sink[r], "errored")
    /\ SendEnd(r, sink[r], "errored")
    /\ task' = [task EXCEPT ![r] = "reported"]
    /\ UNCHANGED <<order, reg, victim, outcome, meta, sink, fin, chans, sub, stops>>

\* The work returns, whatever its watcher has been told: it may not report to one,
\* and it may fail after it has reported that the run completed.
Work(r) ==
    /\ task[r] \in {"work", "executing", "reported"}
    /\ \E result \in Over : outcome' = [outcome EXCEPT ![r] = result]
    /\ task' = [task EXCEPT ![r] = "log"]
    /\ UNCHANGED <<slot, order, reg, victim, meta, sink, fin, db, events, stops>>

\* The registry's own terminal row.
LogTerminal(r) ==
    /\ task[r] = "log"
    /\ IF ~meta[r] THEN UNCHANGED db ELSE Log(r, IF outcome[r] = "completed" THEN "COMPLETED" ELSE "ERRORED")
    /\ task' = [task EXCEPT ![r] = "end"]
    /\ UNCHANGED <<slot, order, reg, victim, outcome, meta, sink, fin, events, stops>>

\* finish_slot, of an inline run.
FinishSlot(r) ==
    /\ task[r] = "end" /\ r \notin Background
    /\ slot' = IF Has(r) THEN [slot EXCEPT ![r].finished = TRUE, ![r].phase = outcome[r]] ELSE slot
    /\ SendEnd(r, slot[r].ch, outcome[r])
    /\ task' = [task EXCEPT ![r] = "over"]
    /\ reg' = [reg EXCEPT ![r] = "returned"]
    /\ UNCHANGED <<order, victim, outcome, meta, sink, fin, db, chans, sub, stops>>

\* Mutant: the finisher says nothing when the slot shows an end already.
FinisherDefers(r) ==
    LET result == IF task[r] = "aborted" THEN "errored" ELSE outcome[r] IN
    /\ reg[r] = "returned" /\ r \in Background /\ task[r] \in {"end", "aborted"}
    /\ IF slot[r].phase \in Over THEN UNCHANGED <<slot, told>>
       ELSE SendPhase(r, fin[r], result) /\ SendEnd(r, fin[r], result)
    /\ fin' = [fin EXCEPT ![r] = 0]
    /\ task' = [task EXCEPT ![r] = "over"]
    /\ UNCHANGED <<order, reg, victim, outcome, meta, sink, db, chans, sub, stops>>

\* The finisher of a background run: it publishes how the task ended and leaves
\* finished_at as it is.
Finisher(r) ==
    LET result == IF task[r] = "aborted" THEN "errored" ELSE outcome[r] IN
    /\ reg[r] = "returned" /\ r \in Background /\ task[r] \in {"end", "aborted"}
    /\ SendPhase(r, fin[r], result) /\ SendEnd(r, fin[r], result)
    /\ fin' = [fin EXCEPT ![r] = 0]
    /\ task' = [task EXCEPT ![r] = "over"]
    /\ UNCHANGED <<order, reg, victim, outcome, meta, sink, db, chans, sub, stops>>

-----------------------------------------------------------------------------
(* subscribe, abort, shutdown, retention *)

\* subscribe, when both try_read and try_write find the map free: the channel of
\* the slot, or a placeholder for the register call to come.
Subscribe(r) ==
    /\ r \in env.subscribes /\ sub[r] = 0 /\ chans[r] < MaxChannels
    /\ \/ /\ Has(r)
          /\ sub' = [sub EXCEPT ![r] = slot[r].ch]
          /\ UNCHANGED <<slot, order, chans>>
       \/ /\ ~Has(r)
          /\ slot' = [slot EXCEPT ![r] = [None EXCEPT !.ch = chans[r] + 1]]
          /\ chans' = [chans EXCEPT ![r] = @ + 1]
          /\ sub' = [sub EXCEPT ![r] = chans[r] + 1]
          /\ order' = Append(order, r)
    /\ UNCHANGED <<calls, db, told, stops>>

\* abort(r) by a: the channel and the handle are read, and the task is aborted
\* if there is a handle: it stops at its next await, unless it has ended.
StartAbort(a, r) ==
    /\ ab[a].pc = "idle" /\ Has(r)
    /\ IF a = "user" THEN r \in env.aborts /\ a \notin hit[r] ELSE down = "aborting" /\ r \in todo
    /\ ab' = [ab EXCEPT ![a] = [pc |-> "row", run |-> r, ch |-> slot[r].ch]]
    /\ todo' = IF a = "user" THEN todo ELSE todo \ {r}
    /\ hit' = [hit EXCEPT ![r] = @ \cup {a}]
    /\ task' = IF slot[r].handle /\ task[r] \in {"start", "work", "executing", "reported", "log"}
                 THEN [task EXCEPT ![r] = "aborted"] ELSE task
    /\ UNCHANGED <<slot, order, reg, victim, outcome, meta, sink, fin, db, events, down, sweep, env>>

\* The ERRORED row of an abort (abort_writes_errored_row, the default).
AbortRow(a) ==
    /\ ab[a].pc = "row"
    /\ Log(ab[a].run, "ERRORED")
    /\ ab' = [ab EXCEPT ![a].pc = "send"]
    /\ UNCHANGED <<slot, order, calls, events, down, todo, sweep, hit, env>>

AbortSend(a) ==
    /\ ab[a].pc = "send"
    /\ SendPhase(ab[a].run, ab[a].ch, "errored") /\ SendEnd(ab[a].run, ab[a].ch, "errored")
    /\ ab' = [ab EXCEPT ![a].pc = "mark"]
    /\ UNCHANGED <<order, calls, db, chans, sub, down, todo, sweep, hit, env>>

AbortMark(a) ==
    LET r == ab[a].run IN
    /\ ab[a].pc = "mark"
    /\ slot' = IF Has(r) THEN [slot EXCEPT ![r].finished = TRUE] ELSE slot
    /\ ab' = [ab EXCEPT ![a] = Idle]
    /\ UNCHANGED <<order, calls, db, events, down, todo, sweep, hit, env>>

\* shutdown collects the runs without finished_at.
Shutdown ==
    /\ env.shutdown /\ down = "up" /\ down' = "aborting"
    /\ todo' = {r \in Run : Has(r) /\ ~slot[r].finished}
    /\ UNCHANGED <<slot, order, calls, db, events, ab, sweep, hit, env>>

\* A run whose slot has gone since is unknown to abort: it is skipped.
ShutdownSkip(r) ==
    /\ down = "aborting" /\ ab["shutdown"].pc = "idle" /\ r \in todo /\ ~Has(r)
    /\ todo' = todo \ {r}
    /\ UNCHANGED <<slot, order, calls, db, events, ab, down, sweep, hit, env>>

\* All are aborted: the map is cleared.
ShutdownClear ==
    /\ down = "aborting" /\ todo = {} /\ ab["shutdown"].pc = "idle"
    /\ down' = "down"
    /\ slot' = [r \in Run |-> None]
    /\ UNCHANGED <<order, calls, db, events, ab, todo, sweep, hit, env>>

\* run_retention: some finished runs have expired.
Retain(gone) ==
    /\ sweep.pc = "idle" /\ gone # {} /\ gone \subseteq env.expires /\ \A r \in gone : slot[r].finished
    /\ sweep' = [pc |-> "remove", runs |-> gone]
    /\ UNCHANGED <<slot, order, calls, db, events, ab, down, todo, hit, env>>

\* They leave the map, whatever it holds under their ids by now.
RetainRemove ==
    /\ sweep.pc = "remove" /\ sweep' = [sweep EXCEPT !.pc = "prune"]
    /\ slot' = [r \in Run |-> IF r \in sweep.runs THEN None ELSE slot[r]]
    /\ UNCHANGED <<order, calls, db, events, ab, down, todo, hit, env>>

RetainOrder ==
    /\ sweep.pc = "prune" /\ sweep' = [pc |-> "idle", runs |-> {}]
    /\ order' = Without(order, sweep.runs)
    /\ UNCHANGED <<slot, calls, db, events, ab, down, todo, hit, env>>

-----------------------------------------------------------------------------
Register(r) ==
    \/ Pick(r) \/ Evict(r) \/ Create(r) \/ Push(r)
    \/ BeginInline(r) \/ Spawn(r) \/ StoreHandle(r) \/ SpawnFinisher(r)
    \/ LogStarted(r) \/ WatchStarted(r) \/ WatchCompleted(r) \/ WatchErrored(r)
    \/ Work(r) \/ LogTerminal(r) \/ FinishSlot(r) \/ Finisher(r)

AbortStep(a) == AbortRow(a) \/ AbortSend(a) \/ AbortMark(a)

Next ==
    \/ \E r \in Run : Check(r) \/ Register(r) \/ Subscribe(r) \/ ShutdownSkip(r)
    \/ \E a \in Aborter : AbortStep(a) \/ \E r \in Run : StartAbort(a, r)
    \/ Shutdown \/ ShutdownClear
    \/ \E gone \in SUBSET Run : Retain(gone)
    \/ RetainRemove \/ RetainOrder

Spec == Init /\ [][Next]_vars

\* A registered run goes on: the runtime polls its tasks, and its work returns.
FairSpec == Spec /\ \A r \in Run : WF_vars(Register(r))

-----------------------------------------------------------------------------
(* Properties *)

\* Making room and retention forget a run only once it is over: while its work
\* goes on, a run that nobody aborts keeps its slot, its phase and its handle.
EvictsOnlyEnded ==
    [][\A r \in Run : Has(r) /\ ~Has(r)' /\ down' # "down" =>
           task[r] = "over" \/ hit[r] # {}]_vars

\* The last word on a run that nobody aborts is how its work returned: whoever
\* heard of an end while it went on, from a watcher that may have spoken too soon,
\* has heard that one in the end, and snapshot_status says the same.  The watcher,
\* the registry and the finisher speak through channels they took at different
\* times, so this asks that the slot is the same all along; the shutdown that
\* clears the map at any time is excepted.
LastWord ==
    \A r \in Run :
        task[r] = "over" /\ hit[r] = {} /\ down # "down" /\ told[r] # "none" =>
            told[r] = outcome[r] /\ (slot[r].ch = sub[r] => slot[r].phase = outcome[r])

\* Who subscribes before a run or while it goes on is told of an end by the time
\* it is over, even when the run is aborted afterwards.
SubscriberHears ==
    \A r \in Run :
        (sub[r] # 0 /\ reg[r] # "new" /\ task[r] # "over" /\ hit[r] = {}) ~>
        ((task[r] = "over" /\ told[r] # "none") \/ reg[r] = "refused" \/ down # "up")

=============================================================================
