-------------------------- MODULE ImproveSessions ---------------------------
(***************************************************************************)
(* Session memory and the improve runs that bridge it into datasets.       *)
(*                                                                         *)
(* A remember call stores an entry in a session, asks the debounce whether *)
(* an improve is due, marks the debounce and launches the improve as a     *)
(* background task.  An improve may also be launched by itself, over any   *)
(* sessions.  It holds its dataset, then claims its sessions in order, and *)
(* runs its stages: persist the entries (fatal when it fails), extract     *)
(* agent lessons from the trace steps newer than a watermark.  A call is   *)
(* both the remember and the improve that it launches.                     *)
(*                                                                         *)
(* The file store keeps the entries of a session in one file, its trace    *)
(* steps in another and its state rows (the debounce mark, the watermark)  *)
(* in a third; it changes a file by loading it and saving it, and a file   *)
(* that is not written for long expires.  A database changes one row at a  *)
(* time, and looks up the last trace step's number to insert the next one. *)
(* Dataset locks are those of DatasetLocks, one holder per dataset.        *)
(***************************************************************************)
EXTENDS Naturals, FiniteSets, Sequences

CONSTANTS
    Call,
    Session,         \* session ids, ordered
    Dataset,
    Scenarios,       \* what the calls are, and which store there is
    Threshold,       \* debounce_entries
    Overlap,         \* TRACE_EXTRACTION_OVERLAP
    MaxWindow,       \* BATCH_TRACE_LIMIT
    PruneThreshold   \* PRUNE_THRESHOLD of the session claims, 1024 in the code

ASSUME ImproveAssumption ==
    /\ IsFiniteSet(Call) /\ Session \subseteq Nat
    /\ Threshold \in Nat /\ Threshold > 1
    /\ Overlap \in Nat /\ MaxWindow \in Nat \ {0}
    /\ PruneThreshold \in Nat
    /\ Scenarios \subseteq [kind : [Call -> {"remember", "improve", "none"}],
                           sessions : [Call -> (SUBSET Session) \ {{}}], dataset : [Call -> Dataset],
                           files : BOOLEAN, waits : BOOLEAN, deletes : SUBSET Session,
                           expires : SUBSET Session, steps : [Session -> Nat], fails : BOOLEAN]

VARIABLES
    env,      \* the scenario
    pc,       \* where each call is
    at,       \* the session it works on
    todo,     \* the sessions it still has to claim or to work on
    snap,     \* what it has read: entries, a state file, or counts
    qa,       \* [Session -> SUBSET Call]: the entries, named by who stored them
    trace,    \* the trace steps of each session, and the appends under way
    deleted,  \* the sessions deleted so far
    ctx,      \* the state rows of each session
    lock,     \* [Session -> Nat]: the mutex in the claims' registry, 0 if none
    arc,      \* [Call -> [Session -> Nat]]: the mutex a call has resolved
    taken,    \* [Call -> SUBSET Session]: the claims it holds
    bridged,  \* the entries persisted in a dataset, by session
    seen,     \* the trace steps an extraction has been shown, by session
    failed,   \* the calls whose improve failed, or was declined by the host
    running,  \* BackgroundTasks::running
    waiter    \* where a BackgroundTasks::wait is, and whether it was notified

store == <<qa, trace, ctx>>
claims == <<lock, arc, taken>>
ghosts == <<bridged, seen, failed>>
vars == <<env, deleted, pc, at, todo, snap, store, claims, ghosts, running, waiter>>

-----------------------------------------------------------------------------
Ctx == [marked : BOOLEAN, mark : Nat, wm : Nat]
Empty == [marked |-> FALSE, mark |-> 0, wm |-> 0]
Snap == [entries : SUBSET Call, file : Ctx, count : Nat, window : SUBSET Nat]
Nothing == [entries |-> {}, file |-> Empty, count |-> 0, window |-> {}]

\* The steps of a session in their order, named by the number of appends begun
\* before; the appends under way, each with the list it has read; whether some
\* appends overlapped or the file has expired, so that steps were lost or shifted.
Trace == [list : Seq(Nat), begun : Nat, open : SUBSET [step : Nat, list : Seq(Nat)], torn : BOOLEAN]
NoTrace == [list |-> <<>>, begun |-> 0, open |-> {}, torn |-> FALSE]

Before == {"new", "saveQa", "state", "count", "update", "updateSave", "create", "createSave", "spawn"}
Improving == {"acquire", "persist", "persisting", "extract", "extracting", "advance",
              "advanceSave"}
Spawned == {"lock", "end", "notify"} \cup Improving

\* The variables have their types, and the count of background tasks is that of
\* the calls whose task has not ended.
TypeOK ==
    /\ env \in Scenarios
    /\ pc \in [Call -> Before \cup Spawned \cup {"over"}]
    /\ at \in [Call -> Session] /\ todo \in [Call -> SUBSET Session]
    /\ snap \in [Call -> Snap]
    /\ qa \in [Session -> SUBSET Call] /\ trace \in [Session -> Trace]
    /\ ctx \in [Session -> Ctx] /\ deleted \subseteq Session
    /\ lock \in [Session -> Nat] /\ arc \in [Call -> [Session -> Nat]]
    /\ taken \in [Call -> SUBSET Session]
    /\ bridged \in [Session -> SUBSET Call] /\ seen \in [Session -> SUBSET Nat]
    /\ failed \subseteq Call
    /\ waiter \in [pc : {"idle", "read", "poll", "wait", "done"}, woken : BOOLEAN]
    /\ running = Cardinality({c \in Call : pc[c] \in Spawned \ {"notify"}})

Init ==
    /\ env \in Scenarios
    /\ pc = [c \in Call |-> IF env.kind[c] = "none" THEN "over" ELSE "new"]
    /\ at = [c \in Call |-> CHOOSE s \in Session : env.sessions[c] # {} => s \in env.sessions[c]]
    /\ todo = [c \in Call |-> {}] /\ snap = [c \in Call |-> Nothing]
    /\ qa = [s \in Session |-> {}] /\ trace = [s \in Session |-> NoTrace]
    /\ ctx = [s \in Session |-> Empty] /\ deleted = {}
    /\ lock = [s \in Session |-> 0] /\ arc = [c \in Call |-> [s \in Session |-> 0]]
    /\ taken = [c \in Call |-> {}]
    /\ bridged = [s \in Session |-> {}] /\ seen = [s \in Session |-> {}] /\ failed = {}
    /\ running = 0 /\ waiter = [pc |-> "idle", woken |-> FALSE]

-----------------------------------------------------------------------------
Goto(c, where) == pc' = [pc EXCEPT ![c] = where]
Min(S) == CHOOSE s \in S : \A t \in S : s <= t

task == <<todo, claims, bridged, seen, running, waiter>>

(* remember_session and launch_session_auto_improve *)

\* create_qa_entry.  With files, the entries are loaded here and saved with the
\* new one afterwards.  A store that fails ends the call.
Store(c) ==
    LET s == at[c] IN
    /\ pc[c] = "new" /\ env.kind[c] = "remember"
    /\ \/ /\ env.files
          /\ snap' = [snap EXCEPT ![c].entries = qa[s]]
          /\ Goto(c, "saveQa") /\ UNCHANGED qa
       \/ /\ ~env.files
          /\ qa' = [qa EXCEPT ![s] = @ \cup {c}]
          /\ Goto(c, "state") /\ UNCHANGED snap
    /\ UNCHANGED <<env, deleted, at, trace, ctx, failed, task>>

SaveQa(c) ==
    /\ pc[c] = "saveQa"
    /\ qa' = [qa EXCEPT ![at[c]] = snap[c].entries \cup {c}]
    /\ Goto(c, "state")
    /\ UNCHANGED <<env, deleted, at, snap, trace, ctx, failed, task>>

\* The host's admission check may decline the improve; otherwise should_auto_improve
\* reads the debounce mark.  A mark that cannot be read fires.
ReadState(c) ==
    /\ pc[c] = "state"
    /\ \/ /\ env.fails
          /\ failed' = failed \cup {c} /\ Goto(c, "over") /\ UNCHANGED snap
       \/ /\ snap' = [snap EXCEPT ![c] = [Nothing EXCEPT !.file = ctx[at[c]]]]
          /\ Goto(c, "count") /\ UNCHANGED failed
       \/ /\ env.fails
          /\ snap' = [snap EXCEPT ![c] = [Nothing EXCEPT !.count = Cardinality(qa[at[c]])]]
          /\ Goto(c, "update") /\ UNCHANGED failed
    /\ UNCHANGED <<env, deleted, at, store, task>>

\* The entries the debounce takes for new when the session has n.
NewEntries(n, last) == IF n < last THEN n ELSE n - last

\* Mutant: one more entry than the threshold is needed.
CountLate(c) ==
    LET f == snap[c].file
        n == Cardinality(qa[at[c]])
    IN  /\ pc[c] = "count"
        /\ snap' = [snap EXCEPT ![c] = [Nothing EXCEPT !.count = n]]
        /\ Goto(c, IF f.marked => NewEntries(n, f.mark) > Threshold THEN "update" ELSE "over")
        /\ UNCHANGED <<env, deleted, at, store, failed, task>>

\* The entries are counted, the new one included, and the decision falls.
Count(c) ==
    LET f == snap[c].file
        n == Cardinality(qa[at[c]])
    IN  /\ pc[c] = "count"
        /\ snap' = [snap EXCEPT ![c] = [Nothing EXCEPT !.count = n]]
        /\ Goto(c, IF f.marked => NewEntries(n, f.mark) >= Threshold THEN "update" ELSE "over")
        /\ UNCHANGED <<env, deleted, at, store, failed, task>>

\* mark_auto_improve_fired: write_value updates the row, or creates it.  A row
\* that has come up in between stays the one that is read, and a failure is
\* passed over.
Update(c) ==
    LET s == at[c] IN
    /\ pc[c] = "update"
    /\ \/ /\ env.files
          /\ snap' = [snap EXCEPT ![c].file = ctx[s]]
          /\ Goto(c, IF ctx[s].marked THEN "updateSave" ELSE "create")
          /\ UNCHANGED ctx
       \/ /\ ~env.files
          /\ ctx' = IF ctx[s].marked THEN [ctx EXCEPT ![s].mark = snap[c].count] ELSE ctx
          /\ Goto(c, IF ctx[s].marked THEN "spawn" ELSE "create")
          /\ UNCHANGED snap
       \/ env.fails /\ Goto(c, "spawn") /\ UNCHANGED <<snap, ctx>>
    /\ UNCHANGED <<env, deleted, at, qa, trace, failed, task>>

UpdateSave(c) ==
    /\ pc[c] = "updateSave"
    /\ ctx' = [ctx EXCEPT ![at[c]] = [snap[c].file EXCEPT !.mark = snap[c].count]]
    /\ Goto(c, "spawn")
    /\ UNCHANGED <<env, deleted, at, snap, qa, trace, failed, task>>

Created(f, n) == IF f.marked THEN f ELSE [f EXCEPT !.marked = TRUE, !.mark = n]

Create(c) ==
    LET s == at[c] IN
    /\ pc[c] = "create"
    /\ \/ /\ env.files
          /\ snap' = [snap EXCEPT ![c].file = ctx[s]]
          /\ Goto(c, "createSave") /\ UNCHANGED ctx
       \/ /\ ~env.files
          /\ ctx' = [ctx EXCEPT ![s] = Created(@, snap[c].count)]
          /\ Goto(c, "spawn") /\ UNCHANGED snap
    /\ UNCHANGED <<env, deleted, at, qa, trace, failed, task>>

CreateSave(c) ==
    /\ pc[c] = "createSave"
    /\ ctx' = [ctx EXCEPT ![at[c]] = Created(snap[c].file, snap[c].count)]
    /\ Goto(c, "spawn")
    /\ UNCHANGED <<env, deleted, at, snap, qa, trace, failed, task>>

\* spawn_background_task, for a remember or by improve_in_background.
Spawn(c) ==
    /\ \/ pc[c] = "spawn"
       \/ pc[c] = "new" /\ env.kind[c] = "improve"
    /\ running' = running + 1
    /\ snap' = [snap EXCEPT ![c] = Nothing]
    /\ Goto(c, "lock")
    /\ UNCHANGED <<env, deleted, at, todo, store, claims, ghosts, waiter>>

-----------------------------------------------------------------------------
(* run_improve: the locks *)

HoldsDataset(c, d) == pc[c] \in Improving /\ env.dataset[c] = d

DatasetFree(c) == ~ \E o \in Call : HoldsDataset(o, env.dataset[c])

\* A mutex lives in a claim, or in a call that waits for it.
InUse(s, m) == m # 0 /\ \E o \in Call : arc[o][s] = m
Fresh(s) == Min({m \in 1..Cardinality(Call) + 1 : ~InUse(s, m)})

\* Mutant: a full registry drops every entry.
ResolveDropsAll(c) ==
    LET ss == env.sessions[c]
        full == Cardinality({s \in Session : lock[s] # 0}) >= PruneThreshold
        kept == [s \in Session |-> IF full THEN 0 ELSE lock[s]]
        got == [s \in Session |-> IF s \in ss /\ kept[s] = 0 THEN Fresh(s) ELSE kept[s]]
    IN  /\ pc[c] = "lock" /\ DatasetFree(c)
        /\ lock' = got
        /\ arc' = [arc EXCEPT ![c] = [s \in Session |-> IF s \in ss THEN got[s] ELSE 0]]
        /\ todo' = [todo EXCEPT ![c] = ss]
        /\ Goto(c, "acquire")
        /\ UNCHANGED <<env, deleted, at, snap, store, taken, ghosts, running, waiter>>

\* The dataset is locked, then the sessions are claimed, without an await
\* between.  improve_locks: a registry that is full loses the entries that nobody uses;
\* then all the keys are resolved, under the registry's own lock.
Resolve(c) ==
    LET ss == env.sessions[c]
        full == Cardinality({s \in Session : lock[s] # 0}) >= PruneThreshold
        kept == [s \in Session |-> IF full /\ ~InUse(s, lock[s]) THEN 0 ELSE lock[s]]
        got == [s \in Session |-> IF s \in ss /\ kept[s] = 0 THEN Fresh(s) ELSE kept[s]]
    IN  /\ pc[c] = "lock" /\ DatasetFree(c)
        /\ lock' = got
        /\ arc' = [arc EXCEPT ![c] = [s \in Session |-> IF s \in ss THEN got[s] ELSE 0]]
        /\ todo' = [todo EXCEPT ![c] = ss]
        /\ Goto(c, "acquire")
        /\ UNCHANGED <<env, deleted, at, snap, store, taken, ghosts, running, waiter>>

Free(c, s) == ~ \E o \in Call : s \in taken[o] /\ arc[o][s] = arc[c][s]

\* A claim is taken; with the last of them the stages begin.
Take(c, s) ==
    /\ pc[c] = "acquire" /\ Free(c, s)
    /\ taken' = [taken EXCEPT ![c] = @ \cup {s}]
    /\ IF todo[c] = {s}
         THEN todo' = [todo EXCEPT ![c] = env.sessions[c]] /\ Goto(c, "persist")
         ELSE todo' = [todo EXCEPT ![c] = @ \ {s}] /\ UNCHANGED pc
    /\ UNCHANGED <<env, deleted, at, snap, store, lock, arc, ghosts, running, waiter>>

\* Mutant: the claims are taken in the order the caller named them.
AcquireUnsorted(c) == \E s \in todo[c] : Take(c, s)

\* acquire_improve_lock_many: in sorted order, one after the other.
Acquire(c) == \E s \in todo[c] : s = Min(todo[c]) /\ Take(c, s)

-----------------------------------------------------------------------------
(* run_improve: the stages *)

stage == <<env, deleted, claims, running, waiter>>

\* persist_session_qa reads the entries of a session; an empty one is skipped.
PersistRead(c) ==
    /\ pc[c] = "persist"
    /\ \E s \in todo[c] :
           /\ s = Min(todo[c])
           /\ todo' = [todo EXCEPT ![c] = @ \ {s}]
           /\ at' = [at EXCEPT ![c] = s]
           /\ snap' = [snap EXCEPT ![c].entries = qa[s]]
           /\ Goto(c, IF qa[s] = {} THEN "persist" ELSE "persisting")
    /\ UNCHANGED <<store, ghosts, stage>>

\* add and cognify of what was read: it ends well, or fails, and a spent budget
\* skips the sessions that are left.
Persisted(c) ==
    LET s == at[c] IN
    /\ pc[c] = "persisting" /\ Goto(c, "persist")
    /\ \/ /\ bridged' = [bridged EXCEPT ![s] = @ \cup snap[c].entries]
          /\ UNCHANGED <<todo, failed>>
       \/ /\ env.fails /\ failed' = failed \cup {c}
          /\ todo' \in {todo, [todo EXCEPT ![c] = {}]}
          /\ UNCHANGED bridged
    /\ UNCHANGED <<at, snap, store, seen, stage>>

\* execute_stages: the next stage follows, unless the fatal one has failed.
NextStage(c) ==
    /\ pc[c] = "persist" /\ todo[c] = {} /\ c \notin failed
    /\ Goto(c, "extract") /\ todo' = [todo EXCEPT ![c] = env.sessions[c]]
    /\ UNCHANGED <<at, snap, store, ghosts, stage>>

\* Where the window of the last `pending + overlap` steps begins.
WindowStart(total, pending) ==
    LET size == IF pending + Overlap > MaxWindow THEN MaxWindow ELSE pending + Overlap
    IN  IF size > total THEN 0 ELSE total - size

\* extract_pending_agent_context reads the steps and the watermark; nothing runs
\* when no step is newer, or when the watermark is of a list that was longer.
ExtractRead(c) ==
    /\ pc[c] = "extract"
    /\ \E s \in todo[c] :
           LET total == Len(trace[s].list)
               pending == IF ctx[s].wm > total THEN 0 ELSE total - ctx[s].wm
               start == WindowStart(total, pending)
           IN  /\ s = Min(todo[c])
               /\ todo' = [todo EXCEPT ![c] = @ \ {s}]
               /\ at' = [at EXCEPT ![c] = s]
               /\ snap' = [snap EXCEPT ![c] = [Nothing EXCEPT !.count = total,
                                            !.window = {trace[s].list[n] : n \in (start + 1)..total}]]
               /\ Goto(c, IF pending = 0 THEN "extract" ELSE "extracting")
    /\ UNCHANGED <<store, ghosts, stage>>

\* The lessons of the window are stored; a failure is passed over.
Extracted(c) ==
    LET s == at[c] IN
    /\ pc[c] = "extracting"
    /\ \/ /\ seen' = [seen EXCEPT ![s] = @ \cup snap[c].window]
          /\ Goto(c, "advance")
       \/ env.fails /\ Goto(c, "extract") /\ UNCHANGED seen
    /\ UNCHANGED <<at, todo, snap, store, bridged, failed, stage>>

\* Mutant: the watermark is set to the steps there are by now.
AdvanceToNow(c) ==
    LET s == at[c] IN
    /\ pc[c] = "advance"
    /\ ctx' = [ctx EXCEPT ![s].wm = Len(trace[s].list)]
    /\ Goto(c, "extract")
    /\ UNCHANGED <<at, todo, snap, qa, trace, ghosts, stage>>

\* The watermark advances to the steps that were read.
Advance(c) ==
    LET s == at[c] IN
    /\ pc[c] = "advance"
    /\ \/ /\ env.files
          /\ snap' = [snap EXCEPT ![c].file = ctx[s]]
          /\ Goto(c, "advanceSave") /\ UNCHANGED ctx
       \/ /\ ~env.files
          /\ ctx' = [ctx EXCEPT ![s].wm = snap[c].count]
          /\ Goto(c, "extract") /\ UNCHANGED snap
    /\ UNCHANGED <<at, todo, qa, trace, ghosts, stage>>

AdvanceSave(c) ==
    /\ pc[c] = "advanceSave"
    /\ ctx' = [ctx EXCEPT ![at[c]] = [snap[c].file EXCEPT !.wm = snap[c].count]]
    /\ Goto(c, "extract")
    /\ UNCHANGED <<at, todo, snap, qa, trace, ghosts, stage>>

-----------------------------------------------------------------------------
(* The end of a run, and BackgroundTasks *)

\* After the last stage, or the fatal one when it has failed, the claim is
\* dropped, and the dataset's lock.
Release(c) ==
    /\ todo[c] = {}
    /\ \/ pc[c] = "persist" /\ c \in failed
       \/ pc[c] = "extract"
    /\ taken' = [taken EXCEPT ![c] = {}]
    /\ arc' = [arc EXCEPT ![c] = [s \in Session |-> 0]]
    /\ Goto(c, "end")
    /\ UNCHANGED <<env, deleted, at, todo, snap, store, lock, ghosts, running, waiter>>

\* Mutant: a task that failed is not counted down.
EndCounted(c) ==
    /\ pc[c] = "end"
    /\ running' = IF c \in failed THEN running ELSE running - 1
    /\ Goto(c, "notify")
    /\ UNCHANGED <<env, deleted, at, todo, snap, store, claims, ghosts, waiter>>

\* Running::drop: the count goes down, then the waits are notified.
End(c) ==
    /\ pc[c] = "end"
    /\ running' = running - 1
    /\ Goto(c, "notify")
    /\ UNCHANGED <<env, deleted, at, todo, snap, store, claims, ghosts, waiter>>

\* Mutant: the wait registers only when it is polled, after the count.
NotifyPolled(c) ==
    /\ pc[c] = "notify"
    /\ waiter' = IF waiter.pc = "wait" THEN [waiter EXCEPT !.woken = TRUE] ELSE waiter
    /\ Goto(c, "over")
    /\ UNCHANGED <<env, deleted, at, todo, snap, store, claims, ghosts, running>>

Notify(c) ==
    /\ pc[c] = "notify"
    /\ waiter' = IF waiter.pc \in {"read", "poll", "wait"} THEN [waiter EXCEPT !.woken = TRUE] ELSE waiter
    /\ Goto(c, "over")
    /\ UNCHANGED <<env, deleted, at, todo, snap, store, claims, ghosts, running>>

waits == <<env, deleted, pc, at, todo, snap, store, claims, ghosts, running>>

\* wait registers for the notification before it reads the count.
WaitBegin ==
    /\ env.waits /\ waiter.pc = "idle"
    /\ waiter' = [pc |-> "read", woken |-> FALSE]
    /\ UNCHANGED waits

WaitRead ==
    /\ waiter.pc = "read"
    /\ waiter' = [waiter EXCEPT !.pc = IF running = 0 THEN "done" ELSE "poll"]
    /\ UNCHANGED waits

WaitPoll ==
    /\ waiter.pc = "poll" /\ waiter' = [waiter EXCEPT !.pc = "wait"]
    /\ UNCHANGED waits

\* A notification: the wait registers again.
WaitWoken ==
    /\ waiter.pc = "wait" /\ waiter.woken
    /\ waiter' = [pc |-> "read", woken |-> FALSE]
    /\ UNCHANGED waits

-----------------------------------------------------------------------------
(* The sessions' own life *)

\* save_trace_step, as remember calls it with no lock: the file is loaded, or the
\* database's last number is looked up.
TraceLoad(s) ==
    LET t == trace[s] IN
    /\ t.begun < env.steps[s]
    /\ trace' = [trace EXCEPT ![s] = [t EXCEPT !.begun = @ + 1,
                                              !.open = @ \cup {[step |-> t.begun, list |-> t.list]}]]
    /\ UNCHANGED <<env, deleted, pc, at, todo, snap, qa, ctx, claims, ghosts, running, waiter>>

Insert(list, k, step) == SubSeq(list, 1, k) \o <<step>> \o SubSeq(list, k + 1, Len(list))

\* The file is saved with the list that was loaded and the new step, whatever it
\* holds by now; a database inserts the step behind the ones it has seen, before
\* or among the ones that came meanwhile.
TraceSave(s) ==
    LET t == trace[s] IN
    /\ \E a \in t.open :
           LET torn == t.torn \/ a.list # t.list
           IN  \/ /\ env.files
                  /\ trace' = [trace EXCEPT ![s] = [t EXCEPT !.open = @ \ {a}, !.torn = torn,
                                                            !.list = Append(a.list, a.step)]]
               \/ /\ ~env.files
                  /\ \E k \in Len(a.list)..Len(t.list) :
                         trace' = [trace EXCEPT ![s] = [t EXCEPT !.open = @ \ {a}, !.torn = torn,
                                                                !.list = Insert(t.list, k, a.step)]]
    /\ UNCHANGED <<env, deleted, pc, at, todo, snap, qa, ctx, claims, ghosts, running, waiter>>

\* expire: a session's file has not been written for longer than the TTL, each
\* of the three by itself, and reads as empty from now on.
Expire(s) ==
    /\ env.files /\ s \in env.expires
    /\ \/ /\ trace[s].list # <<>>
          /\ trace' = [trace EXCEPT ![s].list = <<>>, ![s].torn = TRUE] /\ UNCHANGED <<qa, ctx>>
       \/ /\ qa[s] # {}
          /\ qa' = [qa EXCEPT ![s] = {}] /\ UNCHANGED <<trace, ctx>>
       \/ /\ ctx[s] # Empty
          /\ ctx' = [ctx EXCEPT ![s] = Empty] /\ UNCHANGED <<trace, qa>>
    /\ UNCHANGED <<env, deleted, pc, at, todo, snap, claims, ghosts, running, waiter>>

\* delete_session, once: the entries and the state rows go, the trace steps stay.
DeleteSession(s) ==
    /\ s \in env.deletes \ deleted /\ deleted' = deleted \cup {s}
    /\ qa' = [qa EXCEPT ![s] = {}] /\ ctx' = [ctx EXCEPT ![s] = Empty]
    /\ UNCHANGED <<env, pc, at, todo, snap, trace, claims, ghosts, running, waiter>>

-----------------------------------------------------------------------------
Remember(c) ==
    \/ Store(c) \/ SaveQa(c) \/ ReadState(c) \/ Count(c)
    \/ Update(c) \/ UpdateSave(c) \/ Create(c) \/ CreateSave(c)

Improve(c) ==
    \/ Resolve(c) \/ Acquire(c)
    \/ PersistRead(c) \/ Persisted(c) \/ NextStage(c)
    \/ ExtractRead(c) \/ Extracted(c) \/ Advance(c) \/ AdvanceSave(c)
    \/ Release(c) \/ End(c) \/ Notify(c)

Wait == WaitRead \/ WaitPoll \/ WaitWoken

Next ==
    \/ \E c \in Call : Remember(c) \/ Spawn(c) \/ Improve(c)
    \/ \E s \in Session : TraceLoad(s) \/ TraceSave(s) \/ Expire(s) \/ DeleteSession(s)
    \/ WaitBegin \/ Wait

Spec == Init /\ [][Next]_vars

\* The runtime polls the tasks, and the mutexes serve their waiters in turn.
FairSpec ==
    /\ Spec
    /\ \A c \in Call : SF_vars(Improve(c))
    /\ WF_vars(Wait)

-----------------------------------------------------------------------------
(* Properties *)

Stages == Improving \ {"acquire"}

\* No two improves are ever in their stages with a common session, even into
\* different datasets, whose locks do not keep them apart.
OneImprovePerSession ==
    \A c, o \in Call : c # o /\ pc[c] \in Stages /\ pc[o] \in Stages =>
        env.sessions[c] \cap env.sessions[o] = {}

\* The watermark passes a trace step only when an extraction has been shown that
\* step, whatever is appended or deleted meanwhile and whoever writes the state
\* file, and it never passes more than there is.  The exceptions: steps that more
\* than a whole window has left behind; a session to which two appends overlapped,
\* which loses a step or puts it behind the watermark; and one whose trace file
\* has expired before its watermark, which then hides as many new steps.
SeenBeforePassed ==
    \A s \in Session : ~trace[s].torn =>
        \A n \in 1..ctx[s].wm :
            /\ n <= Len(trace[s].list)
            /\ trace[s].list[n] \in seen[s] \/ n + MaxWindow <= ctx[s].wm

\* With a database, the debounce strands nothing: when no call on a session is
\* under way, fewer entries than the threshold wait to be bridged, unless an
\* improve failed or was declined, or the session was deleted.
NothingStranded ==
    ~env.files => \A s \in Session \ deleted :
        (\A c \in Call : s \in env.sessions[c] => pc[c] \in {"new", "over"} /\ c \notin failed)
        => Cardinality(qa[s] \ bridged[s]) < Threshold

\* An improve that was launched gets its locks and ends, whichever sessions and
\* datasets the others want.
ImprovesEnd == \A c \in Call : (pc[c] = "lock") ~> (pc[c] = "over")

\* A wait for the background tasks returns once they have ended: no task ends
\* unnoticed between the count and the wait.
WaitReturns == (waiter.pc = "wait") ~> (waiter.pc = "done")

=============================================================================
