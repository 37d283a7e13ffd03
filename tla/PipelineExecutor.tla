-------------------------- MODULE PipelineExecutor --------------------------
(***************************************************************************)
(* One execution of a pipeline by the executor of cognee-core.             *)
(*                                                                         *)
(* The items of a run are taken in chunks of `concurrency`; the items of a *)
(* chunk interleave at their awaits.  An item goes depth first through the *)
(* tasks: a task turns a value into one value, or into an iterator or a    *)
(* stream whose values are gathered into batches for the next task.  The   *)
(* recursion of the code is the stack of an item: the innermost call is    *)
(* the last frame.  A failure returns through every frame at once.         *)
(*                                                                         *)
(* What a value is does not matter here, only how many there are.          *)
(***************************************************************************)
EXTENDS Naturals, Sequences, FiniteSets

CONSTANTS
    Items,          \* number of inputs
    Pipelines,      \* the sequences of tasks to run
    Concurrencies,  \* values of `concurrency`
    BatchSize,      \* the pipeline's batch_size
    MaxAttempts,    \* RetryPolicy::max_attempts
    MaxYield,       \* bound on the values one iterator or stream produces
    Capacity        \* capacity of the token bucket

Item == 1..Items

\* TaskInfo.  size is the task's own batch_size, 0 if it has none.
TaskInfo == [kind : {"single", "iter", "stream"}, batch : BOOLEAN, size : Nat,
             limited : BOOLEAN, enriches : BOOLEAN, weight : Nat]

ASSUME ExecutorAssumption ==
    /\ Items \in Nat
    /\ Pipelines \subseteq Seq(TaskInfo) \ {<<>>}
    \* Task::call panics on a batch task: only an iterator or a stream feeds one.
    /\ \A p \in Pipelines : \A k \in DOMAIN p :
           p[k].batch => k > 1 /\ p[k - 1].kind # "single"
    /\ Concurrencies \subseteq Nat \ {0}
    /\ BatchSize \in Nat \ {0}
    /\ MaxAttempts \in Nat \ {0}
    /\ MaxYield \in Nat
    /\ Capacity \in Nat \ {0}

VARIABLES
    tasks, conc, dedup,  \* the pipeline; dedup: it has a data_id_fn
    pc,          \* where execute is
    base,        \* the items before the current chunk
    stack, res,  \* the frames and the result of each item
    status,      \* ExecStatusManager: what is recorded of each item
    rows,        \* the run rows written
    result,      \* what execute returns
    cancelled,   \* the cancellation token
    tokens,      \* permits in the bucket
    owed,        \* values of an item not yet taken by a task, dropped or returned
    late,        \* calls an item started after the cancellation
    lateBatch    \* whether a batch task was called after the cancellation

pipeline == <<tasks, conc, dedup>>
perItem  == <<stack, res, status, owed, late, lateBatch>>
vars == <<pipeline, pc, base, perItem, rows, result, cancelled, tokens>>

-----------------------------------------------------------------------------
Frame == [at : {"exec", "acquire", "call", "retry", "iter", "stream", "each", "admit", "batch"},
          k : Nat,  \* the task the frame feeds or calls
          n : Nat,  \* attempts made, or values held
          y : Nat]  \* values an iterator or stream has produced

\* The variables have their types, and an item that is not running has no frame.
TypeOK ==
    /\ tasks \in Pipelines /\ conc \in Concurrencies /\ dedup \in BOOLEAN
    /\ pc \in {"new", "started", "items", "record", "failed", "done", "aborted"}
    /\ base \in 0..Items
    /\ stack \in [Item -> Seq(Frame)]
    /\ res \in [Item -> {"wait", "run", "ok", "failed", "cancelled"}]
    /\ status \in [Item -> {"none", "completed", "failed"}]
    /\ rows \in Seq({"STARTED", "COMPLETED", "ERRORED"})
    /\ result \in {"none", "ok", "failed", "cancelled", "invalid", "unrecorded"}
    /\ cancelled \in BOOLEAN /\ lateBatch \in BOOLEAN
    /\ tokens \in 0..Capacity
    /\ owed \in [Item -> Nat] /\ late \in [Item -> Nat]
    /\ \A i \in Item : res[i] # "run" => stack[i] = <<>>

Init ==
    /\ tasks \in Pipelines /\ conc \in Concurrencies /\ dedup \in BOOLEAN
    /\ pc = "new" /\ base = 0
    /\ stack = [i \in Item |-> <<>>] /\ res = [i \in Item |-> "wait"]
    /\ status \in [Item -> {"none", "completed"}]
    /\ rows = <<>> /\ result = "none" /\ cancelled = FALSE
    /\ tokens = Capacity
    /\ owed = [i \in Item |-> 0] /\ late = [i \in Item |-> 0] /\ lateBatch = FALSE

-----------------------------------------------------------------------------
Top(i)  == stack[i][Len(stack[i])]
Rest(i) == SubSeq(stack[i], 1, Len(stack[i]) - 1)
At(i, where) == pc = "items" /\ res[i] = "run" /\ stack[i] # <<>> /\ Top(i).at = where

F(at, k, n) == [at |-> at, k |-> k, n |-> n, y |-> 0]

\* The innermost frame of item i becomes the frames s, with m values owed.
Becomes(i, s, m) ==
    /\ stack' = [stack EXCEPT ![i] = Rest(i) \o s]
    /\ owed' = [owed EXCEPT ![i] = m]
    /\ UNCHANGED <<res, status>>

\* Mutant: the frames of an item that fails are still polled.
EndsKeepsFrames(i, r) ==
    /\ res' = [res EXCEPT ![i] = r]
    /\ UNCHANGED <<stack, status, owed>>

\* execute_one_item, at its end: the result is recorded, best effort, unless
\* the item was cancelled.
Ends(i, r) ==
    /\ stack' = [stack EXCEPT ![i] = <<>>]
    /\ res' = [res EXCEPT ![i] = r]
    /\ \/ UNCHANGED status
       \/ /\ dedup /\ r # "cancelled"
          /\ status' = [status EXCEPT ![i] = IF r = "ok" THEN "completed" ELSE r]
    /\ UNCHANGED owed

Quiet == UNCHANGED <<late, lateBatch>>

\* A call of task k for item i starts now.
Starts(i, k) ==
    /\ late' = [late EXCEPT ![i] = IF cancelled THEN @ + 1 ELSE @]
    /\ lateBatch' = (lateBatch \/ (cancelled /\ tasks[k].batch))

\* The frame that calls task k with attempt n, behind its rate limiter if any.
CallFrame(k, n) == F(IF tasks[k].limited THEN "acquire" ELSE "call", k, n)

-----------------------------------------------------------------------------
(* execute_from *)

\* A value that has passed every task is an output.  Otherwise: the look at the
\* token; at the first task the check for an item that is already completed,
\* which may fail; and the first attempt.
Enter(i) ==
    LET k == Top(i).k
        first == k = 1 /\ dedup
    IN  /\ At(i, "exec")
        /\ \/ k > Len(tasks) /\ Becomes(i, <<>>, owed[i] - 1)
           \/ /\ k <= Len(tasks) /\ cancelled
              /\ Ends(i, "cancelled")
           \/ /\ k <= Len(tasks) /\ ~cancelled
              /\ \/ first /\ Ends(i, "failed")
                 \/ first /\ status[i] = "completed" /\ Becomes(i, <<>>, owed[i] - 1)
                 \/ /\ first => status[i] # "completed"
                    /\ Becomes(i, <<CallFrame(k, 1)>>, owed[i])
        /\ Quiet
        /\ UNCHANGED tokens

\* call_with_retry: every attempt first takes a permit of the limiter.
Acquire(i) ==
    /\ At(i, "acquire") /\ tokens > 0
    /\ tokens' = tokens - 1
    /\ Becomes(i, <<[Top(i) EXCEPT !.at = "call"]>>, owed[i])
    /\ Starts(i, Top(i).k)

\* A successful call of task k took n values: its value goes on to the next
\* task, or its iterator or stream is gathered for it.
Resolved(i, k, n) ==
    IF tasks[k].kind = "single"
      THEN Becomes(i, <<F("exec", k + 1, 0)>>, owed[i] - n + 1)
      ELSE Becomes(i, <<F(tasks[k].kind, k + 1, 0)>>, owed[i] - n)

\* The call returns.  A single value may be the drop sentinel, or the
\* passthrough sentinel, which forwards the input of an enriching task.
Return(i) ==
    LET f == Top(i) IN
    /\ At(i, "call")
    /\ \/ Resolved(i, f.k, 1)
       \/ tasks[f.k].kind = "single" /\ Becomes(i, <<>>, owed[i] - 1)
       \/ tasks[f.k].kind = "single" /\ ~tasks[f.k].enriches /\ Ends(i, "failed")
       \/ f.n < MaxAttempts /\ Becomes(i, <<[f EXCEPT !.at = "retry"]>>, owed[i])
       \/ f.n >= MaxAttempts /\ Ends(i, "failed")
    /\ Quiet
    /\ UNCHANGED tokens

\* The sleep before the next attempt is over.  Nothing looks at the token here.
Retry(i) ==
    LET f == Top(i) IN
    /\ At(i, "retry")
    /\ Becomes(i, <<CallFrame(f.k, f.n + 1)>>, owed[i])
    /\ IF tasks[f.k].limited THEN Quiet ELSE Starts(i, f.k)
    /\ UNCHANGED tokens

-----------------------------------------------------------------------------
(* process_iter, process_stream and dispatch_batch *)

\* dispatch_batch of n of the m values owed to task k; keep stays of the frame.
\* Only a batch task looks at the token: the others do when they are entered.
Dispatch(i, keep, k, n, m) ==
    /\ \/ k > Len(tasks) /\ Becomes(i, keep, m - n)
       \/ /\ k <= Len(tasks) /\ ~tasks[k].batch
          /\ Becomes(i, keep \o <<F("each", k, n)>>, m)
       \/ /\ k <= Len(tasks) /\ tasks[k].batch /\ cancelled
          /\ Ends(i, "cancelled")
       \/ /\ k <= Len(tasks) /\ tasks[k].batch /\ ~cancelled
          /\ Becomes(i, keep \o <<F(IF tasks[k].limited THEN "admit" ELSE "batch", k, n)>>, m)
    /\ Quiet

\* The consumer's batch_size, or the pipeline's.
Size(k) == IF k <= Len(tasks) /\ tasks[k].size > 0 THEN tasks[k].size ELSE BatchSize

\* A value was pulled: the drop sentinel is discarded, any other value joins the
\* batch, and a batch that is full is dispatched.
Gather(i) ==
    LET f == [Top(i) EXCEPT !.y = @ + 1] IN
    \/ Becomes(i, <<f>>, owed[i]) /\ Quiet
    \/ /\ f.n + 1 < Size(f.k)
       /\ Becomes(i, <<[f EXCEPT !.n = @ + 1]>>, owed[i] + 1)
       /\ Quiet
    \/ /\ f.n + 1 >= Size(f.k)
       /\ Dispatch(i, <<[f EXCEPT !.n = 0]>>, f.k, f.n + 1, owed[i] + 1)

\* Mutant: the values of an unfinished batch are forgotten.
ExhaustedNoFlush(i) == Becomes(i, <<>>, owed[i]) /\ Quiet

\* The producer is exhausted: what is left in the batch is dispatched.
Exhausted(i) ==
    IF Top(i).n = 0 THEN Becomes(i, <<>>, owed[i]) /\ Quiet
                    ELSE Dispatch(i, <<>>, Top(i).k, Top(i).n, owed[i])

\* process_iter looks at the token once per value, not at the end.
Iterate(i) ==
    /\ At(i, "iter")
    /\ \/ Top(i).y < MaxYield /\ cancelled /\ Ends(i, "cancelled") /\ Quiet
       \/ Top(i).y < MaxYield /\ ~cancelled /\ Gather(i)
       \/ Exhausted(i)
    /\ UNCHANGED tokens

\* process_stream: next() gives a value, an error or the end, in its own time.
Stream(i) ==
    /\ At(i, "stream") /\ ~cancelled
    /\ \/ Top(i).y < MaxYield /\ Gather(i)
       \/ Top(i).y < MaxYield /\ Ends(i, "failed") /\ Quiet
       \/ Exhausted(i)
    /\ UNCHANGED tokens

\* Mutant: the token is looked at only when the stream has produced something.
StreamCancelledLate(i) ==
    /\ At(i, "stream") /\ cancelled /\ Top(i).y > 0
    /\ Ends(i, "cancelled") /\ Quiet
    /\ UNCHANGED tokens

\* The biased select: a cancelled run does not wait for the stream.
StreamCancelled(i) ==
    /\ At(i, "stream") /\ cancelled
    /\ Ends(i, "cancelled") /\ Quiet
    /\ UNCHANGED tokens

\* Mutant: no second look at the token after the wait for the limiter.
AdmitUnchecked(i) ==
    /\ At(i, "admit") /\ tokens > 0
    /\ tokens' = tokens - 1
    /\ Becomes(i, <<[Top(i) EXCEPT !.at = "batch"]>>, owed[i])
    /\ Starts(i, Top(i).k)

\* The permit for a batch call; the token is looked at again after the wait.
Admit(i) ==
    /\ At(i, "admit") /\ tokens > 0
    /\ tokens' = tokens - 1
    /\ \/ cancelled /\ Ends(i, "cancelled") /\ Quiet
       \/ /\ ~cancelled
          /\ Becomes(i, <<[Top(i) EXCEPT !.at = "batch"]>>, owed[i])
          /\ Starts(i, Top(i).k)

\* A batch call returns.  It is not retried, and its value is not looked at for
\* the sentinels.
BatchReturn(i) ==
    /\ At(i, "batch")
    /\ \/ Resolved(i, Top(i).k, Top(i).n)
       \/ Ends(i, "failed")
    /\ Quiet
    /\ UNCHANGED tokens

\* The values of a batch for a task that takes one at a time.
EachNext(i) ==
    LET f == Top(i) IN
    /\ At(i, "each")
    /\ \/ f.n = 0 /\ Becomes(i, <<>>, owed[i])
       \/ f.n > 0 /\ Becomes(i, <<[f EXCEPT !.n = @ - 1], F("exec", f.k, 0)>>, owed[i])
    /\ Quiet
    /\ UNCHANGED tokens

\* The outermost execute_from has returned its outputs.
ItemDone(i) ==
    /\ pc = "items" /\ res[i] = "run" /\ stack[i] = <<>>
    /\ Ends(i, "ok") /\ Quiet
    /\ UNCHANGED tokens

-----------------------------------------------------------------------------
(* execute *)

\* The STARTED row.  A write that fails is logged and the run goes on.
Start ==
    /\ pc = "new" /\ pc' = "started"
    /\ \/ rows' = <<"STARTED">>
       \/ UNCHANGED rows
    /\ UNCHANGED <<pipeline, base, perItem, result, cancelled, tokens>>

\* progress.split refuses a task of weight zero, and execute returns as it is.
Split ==
    /\ pc = "started"
    /\ \/ /\ \E k \in DOMAIN tasks : tasks[k].weight = 0
          /\ pc' = "done" /\ result' = "invalid"
       \/ /\ \A k \in DOMAIN tasks : tasks[k].weight > 0
          /\ pc' = "items"
          /\ UNCHANGED result
    /\ UNCHANGED <<pipeline, base, perItem, rows, cancelled, tokens>>

Chunk == {i \in Item : base < i /\ i <= base + conc}

\* Mutant: the next items start while the chunk is still running.
StartItemEager(i) ==
    /\ pc = "items" /\ i \in Item /\ res[i] = "wait"
    /\ res' = [res EXCEPT ![i] = "run"]
    /\ stack' = [stack EXCEPT ![i] = <<F("exec", 1, 0)>>]
    /\ owed' = [owed EXCEPT ![i] = 1]
    /\ UNCHANGED <<status, late, lateBatch, tokens>>

\* execute_items_par (execute_items_seq is the case of one item per chunk):
\* an item of the chunk is polled for the first time.
StartItem(i) ==
    /\ pc = "items" /\ i \in Chunk /\ res[i] = "wait"
    /\ res' = [res EXCEPT ![i] = "run"]
    /\ stack' = [stack EXCEPT ![i] = <<F("exec", 1, 0)>>]
    /\ owed' = [owed EXCEPT ![i] = 1]
    /\ UNCHANGED <<status, late, lateBatch, tokens>>

Failures == {i \in Chunk : res[i] \in {"failed", "cancelled"}}

\* Mutant: only the last item's result is looked at.
NextChunkLast ==
    /\ pc = "items"
    /\ \A i \in Chunk : res[i] \notin {"wait", "run"}
    /\ \/ \E last \in Chunk :
              /\ \A j \in Chunk : j <= last
              /\ \/ res[last] # "ok" /\ pc' = "failed" /\ result' = res[last] /\ UNCHANGED base
                 \/ /\ res[last] = "ok"
                    /\ base' = IF base + conc > Items THEN Items ELSE base + conc
                    /\ UNCHANGED <<pc, result>>
       \/ Chunk = {} /\ pc' = "record" /\ UNCHANGED <<base, result>>
    /\ UNCHANGED <<pipeline, perItem, rows, cancelled, tokens>>

\* Every item of the chunk has ended: the first failure, in the order of the
\* inputs, ends the run; otherwise the next chunk follows, or the run is over.
NextChunk ==
    /\ pc = "items"
    /\ \A i \in Chunk : res[i] \notin {"wait", "run"}
    /\ \/ \E i \in Failures :
              /\ \A j \in Failures : i <= j
              /\ pc' = "failed" /\ result' = res[i]
              /\ UNCHANGED base
       \/ /\ Failures = {} /\ Chunk # {}
          /\ base' = IF base + conc > Items THEN Items ELSE base + conc
          /\ UNCHANGED <<pc, result>>
       \/ /\ Chunk = {}
          /\ pc' = "record"
          /\ UNCHANGED <<base, result>>
    /\ UNCHANGED <<pipeline, perItem, rows, cancelled, tokens>>

\* The COMPLETED row is part of the run: if it cannot be written, the run fails.
Record ==
    /\ pc = "record"
    /\ \/ pc' = "done" /\ result' = "ok" /\ rows' = Append(rows, "COMPLETED")
       \/ pc' = "failed" /\ result' = "unrecorded" /\ UNCHANGED rows
    /\ UNCHANGED <<pipeline, base, perItem, cancelled, tokens>>

\* The ERRORED row, best effort.
RecordError ==
    /\ pc = "failed" /\ pc' = "done"
    /\ \/ rows' = Append(rows, "ERRORED")
       \/ UNCHANGED rows
    /\ UNCHANGED <<pipeline, base, perItem, result, cancelled, tokens>>

-----------------------------------------------------------------------------
(* The outside *)

\* CancellationHandle::cancel, at any time.
Cancel ==
    /\ ~cancelled /\ cancelled' = TRUE
    /\ UNCHANGED <<pipeline, pc, base, perItem, rows, result, tokens>>

\* PipelineRunHandle::abort: the future is dropped at an await.
Abort ==
    /\ pc \notin {"done", "aborted"}
    /\ pc' = "aborted"
    /\ stack' = [i \in Item |-> <<>>]
    /\ res' = [i \in Item |-> IF res[i] = "run" THEN "wait" ELSE res[i]]
    /\ UNCHANGED <<pipeline, base, status, owed, late, lateBatch, rows, result, cancelled, tokens>>

\* The refiller of TokenBucketLimiter.
Refill ==
    /\ tokens < Capacity /\ pc = "items"
    /\ tokens' = tokens + 1
    /\ UNCHANGED <<pipeline, pc, base, perItem, rows, result, cancelled>>

Over == pc \in {"done", "aborted"} /\ UNCHANGED vars

-----------------------------------------------------------------------------
\* What an item does by itself; a stream produces in its own time.
ItemStep(i) ==
    \/ StartItem(i) \/ Enter(i) \/ Acquire(i) \/ Return(i) \/ Retry(i)
    \/ Iterate(i) \/ StreamCancelled(i) \/ Admit(i) \/ BatchReturn(i) \/ EachNext(i) \/ ItemDone(i)

RunStep == Start \/ Split \/ NextChunk \/ Record \/ RecordError

rest == <<pipeline, pc, base, rows, result, cancelled>>

Next ==
    \/ \E i \in Item : (ItemStep(i) \/ Stream(i)) /\ UNCHANGED rest
    \/ RunStep
    \/ Cancel \/ Abort \/ Refill \/ Over

Spec == Init /\ [][Next]_vars

\* The runtime polls what can go on, a call of a task returns, and the refiller
\* ticks.  Nothing is assumed of streams, which may stall.
FairSpec ==
    /\ Spec
    /\ \A i \in Item : WF_vars(ItemStep(i) /\ UNCHANGED rest)
    /\ WF_vars(RunStep) /\ WF_vars(Refill)

-----------------------------------------------------------------------------
(* Properties *)

\* A COMPLETED row stands for all the work: every item went through, no value a
\* task produced was lost in a batch, and there is no other terminal row.
CompletedIsComplete ==
    \A n \in DOMAIN rows : rows[n] = "COMPLETED" =>
        /\ \A i \in Item : res[i] = "ok" /\ owed[i] = 0
        /\ "ERRORED" \notin {rows[m] : m \in DOMAIN rows}

\* An item recorded as completed, which every later run will skip, has nothing
\* left to do, even when the run fails or is cancelled around it.
MarkedIsDone ==
    \A i \in Item : status[i] = "completed" /\ res[i] = "ok" => owed[i] = 0

\* A cancellation stops the work at the next boundary: after it an item enters no
\* further task, and makes no more calls than the attempts of the task it is in;
\* and no batch task, which is what writes to the stores, is invoked at all, not
\* even one that waits for its permit when the cancellation comes.
CancelStopsWork ==
    /\ \A i \in Item : late[i] <= MaxAttempts
    /\ ~lateBatch

\* No item starts after an item of an earlier chunk has failed.
FailureStopsRun ==
    \A i, j \in Item : res[i] \in {"failed", "cancelled"} /\ res[j] # "wait" =>
        (j - 1) \div conc <= (i - 1) \div conc

\* A cancelled run ends, even when a stream it reads has stalled.
CancelEnds == cancelled ~> pc \in {"done", "aborted"}

=============================================================================
