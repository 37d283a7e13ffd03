------------------------ MODULE CognifyRunsRollback ------------------------
(***************************************************************************)
(* What runs, sweeps and recovery do to the ownership ledger, the stores   *)
(* and the completion markers.  For any number of processes, runs,         *)
(* datasets, items and faults: recovery rolls an abandoned run back        *)
(* completely before it closes it, and a failed run leaves nothing behind. *)
(* For one process: recovery spares live runs.  If datasets do not share   *)
(* stores as well, completion markers can be trusted; and with one dataset *)
(* no artifact loses its owner.                                            *)
(***************************************************************************)
EXTENDS CognifyRunsSafety

(* The inductive invariant *)

\* A run works on items of its own dataset only.
ItemsInv ==
    \A r \in Run : \A d \in frame[r].items : pc[r] # "idle" /\ DatasetOf[d] = call[r].ds

\* A ledger row is of the dataset of the run it is tagged with.
TagInv ==
    \A k \in Key : ledger[k] # NoRun =>
        pc[ledger[k]] # "idle" /\ DatasetOf[k[1]] = call[ledger[k]].ds

\* Recovery sweeps the whole run, and past the deletion of the rows no row of
\* that run is left.
SweptInv ==
    /\ \A p \in Proc : pc[p] \in SweepPhase => sweep[p].data = Owner
    /\ \A p \in Proc : pc[p] \in {"clear", "close"} =>
           \A k \in Key : ledger[k] # sweep[p].run

RowInv == ItemsInv /\ TagInv /\ SweptInv

-----------------------------------------------------------------------------
(* What no step does *)

\* A run that was called keeps its process and its dataset.
LEMMA CallKept ==
    ASSUME TypeOK, [Next]_vars
    PROVE  \A r \in Run : pc[r] # "idle" => pc'[r] # "idle" /\ call'[r] = call[r]
<1> DEFINE Kept == \A r \in Run : pc[r] # "idle" => pc'[r] # "idle" /\ call'[r] = call[r]
<1> USE ConstantsAssumption DEF TypeOK, PhaseOK, CallOK, Goto, Actor
<1>1. ASSUME NEW r \in Run, NEW p \in Proc, NEW ds \in Dataset, Call(r, p, ds)
      PROVE  Kept
  <2>1. /\ pc[r] = "idle" /\ pc' = [pc EXCEPT ![r] = "wait"]
        /\ \E c : call' = [call EXCEPT ![r] = c]
    BY <1>1 DEF Call
  <2>2. ASSUME NEW q \in Run, pc[q] # "idle"
        PROVE  pc'[q] # "idle" /\ call'[q] = call[q]
    <3>1. q # r
      BY <2>1, <2>2
    <3>2. pc'[q] = pc[q]
      BY <2>1, <3>1
    <3>3. call'[q] = call[q]
      BY <2>1, <3>1
    <3> HIDE ConstantsAssumption DEF TypeOK, PhaseOK, CallOK, Goto, Actor
    <3> QED
      BY <2>2, <3>2, <3>3
  <2> QED
    BY <2>2
<1>2. ASSUME NEW r \in Run, RunStep(r) PROVE Kept
  <2>1. ASSUME NEW D, NEW s, NEW i, Acquire(r, D, s, i) PROVE Kept
    BY <2>1 DEF Acquire
  <2>2. CASE SkipComplete(r)
    BY <2>2 DEF SkipComplete
  <2>3. CASE AcquireOwnership(r)
    BY <2>3 DEF AcquireOwnership, callVars
  <2>4. CASE RunStays(r)
    BY <2>4 DEF RunStays
  <2> QED
    BY <1>2, <2>1, <2>2, <2>3, <2>4, RunStepKinds
<1>3. ASSUME NEW a \in Actor, SweepStep(a) PROVE Kept
  BY <1>3, SweepStays DEF RunStays, ProcStays
<1>4. ASSUME NEW a \in Actor, OwnershipStep(a) PROVE Kept
  BY <1>4 DEF OwnershipStep, DropOwnership, Unlink, callVars
<1>5. ASSUME NEW p \in Proc, RecoveryStep(p) PROVE Kept
  <2>1. CASE ProcStays(p)
    BY <2>1 DEF ProcStays
  <2>2. CASE \E r \in Run : RecoverClaim(p, r)
    BY <2>2 DEF RecoverClaim, callVars
  <2> QED
    BY <1>5, <2>1, <2>2, RecoveryStepKinds
<1>6. ASSUME NEW p \in Proc, Crash(p) \/ Start(p) PROVE Kept
  BY <1>6 DEF Crash, Start, callVars
<1>7. ASSUME NEW r \in Run, DropFuture(r) PROVE Kept
  BY <1>7 DEF DropFuture
<1>8. CASE UNCHANGED vars
  BY <1>8 DEF vars, callVars
<1> QED
  BY <1>1, <1>2, <1>3, <1>4, <1>5, <1>6, <1>7, <1>8 DEF Next, Quiet

\* The items of a run are chosen under the lock, and then only become fewer.
LEMMA ItemsKept ==
    ASSUME TypeOK, [Next]_vars, NEW r \in Run
    PROVE  \/ frame'[r].items \subseteq frame[r].items
           \/ pc[r] = "wait" /\ frame'[r].items \subseteq ItemsOf(call[r].ds)
<1> DEFINE Kept == \/ frame'[r].items \subseteq frame[r].items
                   \/ pc[r] = "wait" /\ frame'[r].items \subseteq ItemsOf(call[r].ds)
<1>0. frame \in [Run -> Frame] /\ frame[r] \in Frame
  BY DEF TypeOK, FrameOK
<1> USE DEF callVars
<1>1. ASSUME NEW q \in Run, NEW D \in SUBSET ItemsOf(call[q].ds), NEW s \in Scopes,
             NEW i \in Incremental, Acquire(q, D, s, i)
      PROVE  Kept
  <2> DEFINE f == [NoFrame EXCEPT !.items = D, !.scope = s, !.incr = i]
  <2>1. f.items = D
    BY DEF NoFrame
  <2>2. frame' = [frame EXCEPT ![q] = f] /\ pc[q] = "wait"
    BY <1>1 DEF Acquire
  <2> HIDE DEF f
  <2> QED
    BY <1>0, <2>1, <2>2
<1>2. ASSUME NEW q \in Run, SkipComplete(q) PROVE Kept
  <2> DEFINE D == IF frame[q].incr THEN frame[q].items \ marked ELSE frame[q].items
  <2>1. \/ frame' = [frame EXCEPT ![q].items = D]
        \/ frame' = [frame EXCEPT ![q] = NoFrame]
    BY <1>2 DEF SkipComplete
  <2>2. D \subseteq frame[q].items
    OBVIOUS
  <2> HIDE DEF D
  <2>3. CASE frame' = [frame EXCEPT ![q].items = D]
    <3>1. [frame[q] EXCEPT !.items = D].items = D
      BY <1>0 DEF Frame
    <3>2. frame'[r] = IF r = q THEN [frame[q] EXCEPT !.items = D] ELSE frame[r]
      BY <1>0, <2>3
    <3> QED
      BY <2>2, <3>1, <3>2
  <2>4. CASE frame' = [frame EXCEPT ![q] = NoFrame]
    BY <1>0, <2>4, NewFrame
  <2> QED
    BY <2>1, <2>3, <2>4
<1>3. ASSUME NEW q \in Run, NEW S, WriteLedger(q, S) PROVE Kept
  BY <1>0, <1>3 DEF WriteLedger, Frame
<1>4. ASSUME NEW q \in Run, NEW s \in Slug, WriteGraph(q, s) \/ IndexVector(q, s)
      PROVE  Kept
  BY <1>0, <1>4 DEF WriteGraph, IndexVector, Frame
<1>5. ASSUME NEW q \in Run, NEW F, FinishWork(q, F) PROVE Kept
  BY <1>0, <1>5 DEF FinishWork, Frame
<1>6. ASSUME NEW q \in Run, TeardownOk(q) PROVE Kept
  BY <1>0, <1>6 DEF TeardownOk, Frame
<1>7. ASSUME NEW q \in Run, NEW d \in Data, MarkItem(q, d) PROVE Kept
  BY <1>0, <1>7 DEF MarkItem, Frame
<1>8. ASSUME NEW q \in Run,
             \/ AcquireOwnership(q) \/ WriteStarted(q) \/ TaskFails(q)
             \/ WriteCompleted(q) \/ WriteErrored(q) \/ TeardownFails(q)
             \/ AppendErrored(q) \/ MarkEnd(q)
      PROVE  Kept
  BY <1>8
  DEF AcquireOwnership, WriteStarted, TaskFails, WriteCompleted, WriteErrored,
      TeardownFails, AppendErrored, MarkEnd
<1>9. ASSUME NEW q \in Run, RunStep(q) PROVE Kept
  BY <1>9, <1>1, <1>2, <1>3, <1>4, <1>5, <1>6, <1>7, <1>8 DEF RunStep
<1>10. ASSUME NEW a \in Actor, SweepStep(a) PROVE Kept
  BY <1>10
  DEF SweepStep, SweepItems, SweepNodes, SweepGraph, SweepVector, SweepRows,
      SweepClear, SweepEnd
<1>11. ASSUME NEW a \in Actor, OwnershipStep(a) PROVE Kept
  BY <1>0, <1>11, NewFrame, ZenonT(40) DEF OwnershipStep, DropOwnership, Unlink
<1>12. ASSUME NEW p \in Proc, RecoveryStep(p) PROVE Kept
  BY <1>12
  DEF RecoveryStep, Recover, RecoverSkip, RecoverClaim, Recheck, RecoverClose,
      RecoverEnd
<1>13. ASSUME NEW p \in Proc, Crash(p) PROVE Kept
  BY <1>0, <1>13, NewFrame DEF Crash, Forget
<1>14. ASSUME NEW q \in Run, DropFuture(q) PROVE Kept
  BY <1>0, <1>14, NewFrame DEF DropFuture, Forget
<1>15. CASE \/ UNCHANGED vars
            \/ \E p \in Proc : Start(p)
            \/ \E q \in Run, p \in Proc, ds \in Dataset : Call(q, p, ds)
  BY <1>15 DEF vars, Start, Call
<1> QED
  BY <1>9, <1>10, <1>11, <1>12, <1>13, <1>14, <1>15 DEF Next, Quiet

\* A row gets a run's tag from that run alone, while it is at work, and for an
\* item of its own or its dataset.
LEMMA LedgerKept ==
    ASSUME TypeOK, [Next]_vars, NEW k \in Key
    PROVE  \/ ledger'[k] \in {ledger[k], NoRun}
           \/ \E r \in Run : /\ ledger'[k] = r /\ RunStep(r)
                             /\ pc[r] \in {"work", "teardown"}
                             /\ k[1] \in Owners(r)
<1> DEFINE Kept == \/ ledger'[k] \in {ledger[k], NoRun}
                   \/ \E r \in Run : /\ ledger'[k] = r /\ RunStep(r)
                                     /\ pc[r] \in {"work", "teardown"}
                                     /\ k[1] \in Owners(r)
<1> USE DEF storeVars
<1>1. ASSUME NEW r \in Run, NEW S \in SUBSET (Owners(r) \X Slug),
             WriteLedger(r, S), RunStep(r)
      PROVE  Kept
  <2>1. CASE k \in S /\ ledger[k] = NoRun
    <3>1. k[1] \in Owners(r)
      BY <2>1
    <3>2. ledger'[k] = r /\ pc[r] \in {"work", "teardown"}
      BY <1>1, <2>1 DEF WriteLedger
    <3> QED
      BY <1>1, <3>1, <3>2
  <2>2. CASE ~(k \in S /\ ledger[k] = NoRun)
    BY <1>1, <2>2 DEF WriteLedger
  <2> QED
    BY <2>1, <2>2
<1>2. ASSUME NEW q \in Run,
             \/ \E D, s, i : Acquire(q, D, s, i)
             \/ SkipComplete(q) \/ AcquireOwnership(q) \/ WriteStarted(q)
             \/ \E s : WriteGraph(q, s) \/ IndexVector(q, s)
             \/ TaskFails(q) \/ \E F : FinishWork(q, F)
             \/ WriteCompleted(q) \/ WriteErrored(q)
             \/ TeardownOk(q) \/ TeardownFails(q) \/ AppendErrored(q)
             \/ \E d : MarkItem(q, d)
             \/ MarkEnd(q) \/ DropFuture(q)
      PROVE  Kept
  BY <1>2
  DEF Acquire, SkipComplete, AcquireOwnership, WriteStarted, WriteGraph,
      IndexVector, TaskFails, FinishWork, WriteCompleted, WriteErrored, TeardownOk,
      TeardownFails, AppendErrored, MarkItem, MarkEnd, DropFuture
<1>3. ASSUME NEW q \in Run, RunStep(q) PROVE Kept
  BY <1>1, <1>2, <1>3 DEF RunStep
<1>4. ASSUME NEW a \in Actor, SweepStep(a) PROVE Kept
  BY <1>4
  DEF SweepStep, SweepItems, SweepNodes, SweepGraph, SweepVector, SweepRows,
      SweepClear, SweepEnd
<1>5. ASSUME NEW a \in Actor, OwnershipStep(a) PROVE Kept
  BY <1>5 DEF OwnershipStep, DropOwnership, Unlink
<1>6. ASSUME NEW p \in Proc, RecoveryStep(p) \/ Crash(p) \/ Start(p) PROVE Kept
  BY <1>6
  DEF RecoveryStep, Recover, RecoverSkip, RecoverClaim, Recheck, RecoverClose,
      RecoverEnd, Crash, Start
<1>7. CASE \/ UNCHANGED vars
           \/ \E q \in Run, p \in Proc, ds \in Dataset : Call(q, p, ds)
  BY <1>7 DEF vars, Call
<1> QED
  BY <1>2, <1>3, <1>4, <1>5, <1>6, <1>7 DEF Next, Quiet

\* A recovery enters a sweep with the scope of the whole run, and reaches the
\* clearing of markers only through the deletion of the rows.
LEMMA RecoveryKept ==
    ASSUME TypeOK, [Next]_vars, NEW p \in Proc
    PROVE  /\ pc'[p] \in SweepPhase =>
                 \/ sweep'[p].data = Owner
                 \/ pc[p] \in SweepPhase /\ sweep'[p].data = sweep[p].data
           /\ pc'[p] \in {"clear", "close"} =>
                 /\ pc[p] \in Claimed
                 /\ sweep'[p].run = sweep[p].run
                 /\ pc[p] \in {"clear", "close"} \/ SweepRows(p)
<1> DEFINE Kept == /\ pc'[p] \in SweepPhase =>
                         \/ sweep'[p].data = Owner
                         \/ pc[p] \in SweepPhase /\ sweep'[p].data = sweep[p].data
                   /\ pc'[p] \in {"clear", "close"} =>
                         /\ pc[p] \in Claimed
                         /\ sweep'[p].run = sweep[p].run
                         /\ pc[p] \in {"clear", "close"} \/ SweepRows(p)
<1>0. CASE pc'[p] = pc[p] /\ sweep'[p] = sweep[p]
  BY <1>0 DEF Claimed, SweepPhase
<1>1. CASE pc'[p] \notin SweepPhase \cup {"close"}
  BY <1>1 DEF SweepPhase
<1>2. CASE ProcStays(p)
  BY <1>2 DEF ProcStays, Claimed, SweepPhase
<1> USE ConstantsAssumption DEF TypeOK, PhaseOK, SweepOK, Goto, Actor
<1>3. ASSUME NEW r \in Run, RunStep(r) PROVE Kept
  <2>1. CASE \/ \E D, s, i : Acquire(r, D, s, i)
             \/ SkipComplete(r)
             \/ AcquireOwnership(r)
    <3>1. UNCHANGED sweep /\ \E x : Goto(r, x)
      BY <2>1 DEF Acquire, SkipComplete, AcquireOwnership
    <3>2. pc'[p] = pc[p] /\ sweep'[p] = sweep[p]
      BY <3>1
    <3> QED
      BY <1>0, <3>2
  <2>2. CASE RunStays(r)
    BY <1>0, <2>2 DEF RunStays
  <2> QED
    BY <1>3, <2>1, <2>2, RunStepKinds
<1>4. ASSUME NEW q \in Proc \ {p}, ProcStays(q) PROVE Kept
  BY <1>0, <1>4 DEF ProcStays
<1>5. ASSUME NEW a \in Actor, SweepStep(a) PROVE Kept
  <2>1. CASE a \in Run
    BY <1>0, <1>5, <2>1, SweepStays DEF RunStays
  <2>2. CASE a \in Proc
    BY <1>2, <1>4, <1>5, <2>2, SweepStays
  <2> QED
    BY <2>1, <2>2
<1>6. ASSUME NEW a \in Actor, OwnershipStep(a) PROVE Kept
  <2>1. a = p => pc'[p] \in {"unlink", "scan"}
    BY <1>6 DEF OwnershipStep, DropOwnership, Unlink
  <2>2. a # p => pc'[p] = pc[p] /\ sweep'[p] = sweep[p]
    BY <1>6 DEF OwnershipStep, DropOwnership, Unlink
  <2> QED
    BY <1>0, <1>1, <2>1, <2>2 DEF SweepPhase
<1>7. ASSUME NEW q \in Proc, RecoveryStep(q) PROVE Kept
  <2>1. CASE \E r \in Run : RecoverClaim(q, r)
    <3>1. q = p => pc'[p] = "recheck"
      BY <2>1 DEF RecoverClaim
    <3>2. q # p => pc'[p] = pc[p] /\ sweep'[p] = sweep[p]
      BY <2>1 DEF RecoverClaim
    <3> QED
      BY <1>0, <1>1, <3>1, <3>2 DEF SweepPhase
  <2> QED
    BY <1>2, <1>4, <1>7, <2>1, RecoveryStepKinds
<1>8. ASSUME NEW q \in Proc, Crash(q) PROVE Kept
  <2>1. q = p => pc'[p] = "idle"
    BY <1>8 DEF Crash
  <2>2. q # p => pc'[p] = pc[p] /\ sweep'[p] = sweep[p]
    BY <1>8 DEF Crash, Forget
  <2> QED
    BY <1>0, <1>1, <2>1, <2>2 DEF SweepPhase
<1>9. ASSUME NEW r \in Run, DropFuture(r) PROVE Kept
  BY <1>0, <1>9 DEF DropFuture, Forget
<1>10. CASE \/ UNCHANGED vars
            \/ \E q \in Proc : Start(q)
            \/ \E r \in Run, q \in Proc, ds \in Dataset : Call(r, q, ds)
  BY <1>0, <1>10 DEF vars, Start, Call
<1> QED
  BY <1>3, <1>5, <1>6, <1>7, <1>8, <1>9, <1>10 DEF Next, Quiet

-----------------------------------------------------------------------------
(* The invariant holds *)

\* ItemsInv is inductive, given the types.
LEMMA ItemsNext ==
    ASSUME TypeOK, ItemsInv, [Next]_vars
    PROVE  ItemsInv'
<1> SUFFICES ASSUME NEW r \in Run, NEW d \in frame'[r].items
             PROVE  pc'[r] # "idle" /\ DatasetOf[d] = call'[r].ds
  BY DEF ItemsInv
<1>1. pc[r] # "idle" /\ DatasetOf[d] = call[r].ds
  BY ItemsKept DEF ItemsInv, ItemsOf
<1> QED
  BY <1>1, CallKept

\* A run writes rows of its own dataset only.
LEMMA OwnersInv ==
    ASSUME ItemsInv, NEW r \in Run, NEW d \in Owners(r)
    PROVE  DatasetOf[d] = call[r].ds
<1>1. d \in frame[r].items \/ (d = call[r].ds /\ d \in Dataset)
  BY ConstantsAssumption DEF Owners
<1> QED
  BY <1>1, ConstantsAssumption DEF ItemsInv

\* TagInv is inductive, given that a run's items are its own.
LEMMA TagNext ==
    ASSUME TypeOK, ItemsInv, TagInv, [Next]_vars
    PROVE  TagInv'
<1> SUFFICES ASSUME NEW k \in Key, ledger'[k] # NoRun
             PROVE  pc'[ledger'[k]] # "idle" /\ DatasetOf[k[1]] = call'[ledger'[k]].ds
  BY DEF TagInv
<1>1. /\ ledger'[k] \in Run
      /\ pc[ledger'[k]] # "idle"
      /\ DatasetOf[k[1]] = call[ledger'[k]].ds
  <2>1. CASE ledger'[k] = ledger[k]
    BY <2>1 DEF TagInv, TypeOK, StoreOK
  <2>2. ASSUME NEW r \in Run, ledger'[k] = r, pc[r] \in {"work", "teardown"},
               k[1] \in Owners(r)
        PROVE  pc[ledger'[k]] # "idle" /\ DatasetOf[k[1]] = call[ledger'[k]].ds
    BY <2>2, OwnersInv
  <2> QED
    BY <2>1, <2>2, LedgerKept
<1> QED
  BY <1>1, CallKept

\* delete_nodes_for_run, in the scope of a whole run, leaves no row of that run.
LEMMA WholeRunSwept ==
    ASSUME TypeOK, TagInv, NEW a \in Actor, sweep[a].run \in Run, sweep[a].data = Owner,
           SweepRows(a), pc'[a] \in {"clear", "close"}
    PROVE  \A k \in Key : ledger'[k] # sweep[a].run
<1>1. ~SweepFail(a)
  <2>1. a \in Run => sweep[a].next \notin {"clear", "close"}
    BY SweepFields DEF TypeOK, SweepOK, SweepRows, SweepPhase
  <2> QED
    BY <2>1 DEF SweepFail, LeaveSweep, Goto, TypeOK, PhaseOK
<1> SUFFICES ASSUME NEW k \in Key, ledger'[k] = sweep[a].run PROVE FALSE
  OBVIOUS
<1>2. ledger' = [l \in Key |-> IF l \in Selected(sweep[a]) THEN NoRun ELSE ledger[l]]
  BY <1>1 DEF SweepRows
<1>3. ledger[k] = sweep[a].run /\ k \notin Selected(sweep[a])
  BY <1>2, ConstantsAssumption
<1>4. DatasetOf[k[1]] = call[sweep[a].run].ds
  BY <1>3, ConstantsAssumption DEF TagInv
<1> QED
  BY <1>3, <1>4 DEF Selected, Key

\* SweptInv is inductive: nobody tags rows for a run that recovery claimed.
LEMMA SweptNext ==
    ASSUME TypeOK, MarkerInv, TagInv, SweptInv, [Next]_vars
    PROVE  SweptInv'
<1>1. ASSUME NEW p \in Proc, pc'[p] \in SweepPhase PROVE sweep'[p].data = Owner
  BY <1>1, RecoveryKept DEF SweptInv
<1>2. ASSUME NEW p \in Proc, pc'[p] \in {"clear", "close"}, NEW k \in Key,
             ledger'[k] = sweep'[p].run
      PROVE  FALSE
  <2>1. /\ pc[p] \in Claimed
        /\ ledger'[k] = sweep[p].run
        /\ pc[p] \in {"clear", "close"} \/ SweepRows(p)
    BY <1>2, RecoveryKept
  <2>2. sweep[p].run \in Run /\ pc[sweep[p].run] \in Over
    BY <2>1 DEF TypeOK, SweepOK, MarkerInv, RecoveryOnlyDead
  <2>3. ledger[k] = sweep[p].run
    BY <2>1, <2>2, LedgerKept, ConstantsAssumption DEF Over
  <2>4. SweepRows(p) /\ pc[p] = "rows"
    BY <2>1, <2>3 DEF SweptInv, SweepRows
  <2>5. sweep[p].data = Owner
    BY <2>4 DEF SweptInv, SweepPhase
  <2> QED
    BY <1>2, <2>1, <2>2, <2>4, <2>5, WholeRunSwept DEF Actor
<1> QED
  BY <1>1, <1>2 DEF SweptInv

\* Every ledger row with a run's tag is in reach of the sweep of that run, and a
\* recovery past delete_nodes_for_run has left none behind.
THEOREM RowInvariant == Spec => []RowInv
<1>1. Init => RowInv
  <2> SUFFICES ASSUME Init PROVE RowInv
    OBVIOUS
  <2>1. ItemsInv
    BY NewFrame DEF Init, ItemsInv
  <2>2. TagInv
    BY DEF Init, TagInv
  <2>3. SweptInv
    BY DEF Init, SweptInv, Actor, SweepPhase
  <2> QED
    BY <2>1, <2>2, <2>3 DEF RowInv
<1>2. TypeOK /\ MarkerInv /\ RowInv /\ [Next]_vars => RowInv'
  BY ItemsNext, TagNext, SweptNext DEF RowInv
<1> QED
  BY <1>1, <1>2, TypeCorrect, MarkerInvariant, PTL DEF Spec

-----------------------------------------------------------------------------
(* Only a recovery about to close a run turns a dead run's row ERRORED *)

\* A run's latest pipeline_runs row changes by the run itself, or by the
\* recovery that closes it.
LEMMA StatusKept ==
    ASSUME TypeOK, [Next]_vars, NEW r \in Run
    PROVE  \/ status'[r] = status[r]
           \/ RunStep(r)
           \/ \E p \in Proc : pc[p] = "close" /\ sweep[p].run = r
<1> DEFINE Kept == \/ status'[r] = status[r]
                   \/ RunStep(r)
                   \/ \E p \in Proc : pc[p] = "close" /\ sweep[p].run = r
<1>0. status \in [Run -> Status]
  BY DEF TypeOK, EnvOK
<1>1. ASSUME NEW q \in Run,
             \/ \E D, s, i : Acquire(q, D, s, i)
             \/ SkipComplete(q) \/ AcquireOwnership(q)
             \/ \E S : WriteLedger(q, S)
             \/ \E s : WriteGraph(q, s) \/ IndexVector(q, s)
             \/ TaskFails(q) \/ \E F : FinishWork(q, F)
             \/ TeardownOk(q) \/ TeardownFails(q)
             \/ \E d : MarkItem(q, d)
             \/ MarkEnd(q) \/ DropFuture(q)
      PROVE  UNCHANGED status
  BY <1>1
  DEF Acquire, SkipComplete, AcquireOwnership, WriteLedger, WriteGraph,
      IndexVector, TaskFails, FinishWork, TeardownOk, TeardownFails, MarkItem,
      MarkEnd, DropFuture
<1>2. ASSUME NEW q \in Run \ {r},
             WriteStarted(q) \/ WriteCompleted(q) \/ WriteErrored(q) \/ AppendErrored(q)
      PROVE  status'[r] = status[r]
  BY <1>0, <1>2
  DEF WriteStarted, WriteCompleted, WriteErrored, AppendErrored, LogRow
<1>3. ASSUME NEW q \in Run, RunStep(q) PROVE Kept
  BY <1>1, <1>2, <1>3 DEF RunStep
<1>4. ASSUME NEW a \in Actor, SweepStep(a) \/ OwnershipStep(a) PROVE UNCHANGED status
  BY <1>4
  DEF SweepStep, SweepItems, SweepNodes, SweepGraph, SweepVector, SweepRows,
      SweepClear, SweepEnd, OwnershipStep, DropOwnership, Unlink
<1>5. ASSUME NEW p \in Proc, RecoverClose(p) PROVE Kept
  BY <1>0, <1>5 DEF RecoverClose, LogRow
<1>6. ASSUME NEW p \in Proc, RecoveryStep(p) PROVE Kept
  BY <1>5, <1>6 DEF RecoveryStep, Recover, RecoverSkip, RecoverClaim, Recheck, RecoverEnd
<1>7. ASSUME NEW p \in Proc, Crash(p) \/ Start(p) PROVE UNCHANGED status
  BY <1>7 DEF Crash, Start
<1>8. CASE \/ UNCHANGED vars
           \/ \E q \in Run, p \in Proc, ds \in Dataset : Call(q, p, ds)
  BY <1>8 DEF vars, Call
<1> QED
  BY <1>1, <1>3, <1>4, <1>6, <1>7, <1>8 DEF Next, Quiet

\* A run that is over takes no step of cognify any more.
LEMMA OverIsOver ==
    ASSUME TypeOK, NEW r \in Run, RunStep(r) PROVE pc[r] \notin Over
BY RunStepKinds
DEF Acquire, SkipComplete, AcquireOwnership, RunStays, Over

\* A dead run's row changes in reset_orphan_run and nowhere else.
LEMMA ErroredKept ==
    ASSUME TypeOK, [Next]_vars, NEW r \in Run, pc[r] \in Over, status'[r] # status[r]
    PROVE  \E p \in Proc : pc[p] = "close" /\ sweep[p].run = r
BY StatusKept, OverIsOver

\* reset_orphan_run comes after a whole sweep: when recovery closes an abandoned
\* run, no ownership row of that run is left, even if crashes and failures cut
\* earlier recoveries of it short, and whatever runs in the other processes.
THEOREM RollbackBeforeClose == Spec => RolledBackBeforeClosed
<1> DEFINE A == \A r \in Run :
                   pc[r] \in Over /\ status[r] = "STARTED" /\ status'[r] = "ERRORED" =>
                       \A k \in Key : ledger[k] # r
<1>1. TypeOK /\ RowInv /\ [Next]_vars => [A]_vars
  BY ErroredKept DEF RowInv, SweptInv
<1>2. Spec => [][A]_vars
  BY <1>1, TypeCorrect, RowInvariant, PTL DEF Spec
<1> QED
  BY <1>2 DEF RolledBackBeforeClosed

-----------------------------------------------------------------------------
(* Whose step changes what *)

\* The local variables of an actor stay as they are.
SameLocal(a) ==
    /\ pc'[a] = pc[a]
    /\ sweep'[a] = sweep[a]
    /\ a \in Run => frame'[a] = frame[a]

\* A step of cognify in one run leaves the locals of the other actors alone.
LEMMA RunStepLocal ==
    ASSUME TypeOK, NEW q \in Run, RunStep(q), NEW a \in Actor \ {q}
    PROVE  SameLocal(a)
<1>0. /\ pc \in [Actor -> RunPhase \cup ProcPhase]
      /\ frame \in [Run -> Frame]
      /\ sweep \in [Actor -> Sweep]
      /\ q \in Actor
  BY DEF TypeOK, PhaseOK, FrameOK, SweepOK, Actor
<1> USE DEF SameLocal, Goto, StartSweep, callVars
<1>1. ASSUME NEW D, NEW s, NEW i, Acquire(q, D, s, i) PROVE SameLocal(a)
  BY <1>0, <1>1 DEF Acquire
<1>2. CASE SkipComplete(q) \/ AcquireOwnership(q) \/ WriteStarted(q)
  BY <1>0, <1>2 DEF SkipComplete, AcquireOwnership, WriteStarted
<1>3. ASSUME NEW S, WriteLedger(q, S) PROVE SameLocal(a)
  BY <1>0, <1>3 DEF WriteLedger
<1>4. ASSUME NEW s, WriteGraph(q, s) \/ IndexVector(q, s) PROVE SameLocal(a)
  BY <1>0, <1>4 DEF WriteGraph, IndexVector
<1>5. ASSUME NEW F, FinishWork(q, F) PROVE SameLocal(a)
  BY <1>0, <1>5 DEF FinishWork
<1>6. CASE TaskFails(q) \/ WriteCompleted(q) \/ WriteErrored(q)
  BY <1>0, <1>6 DEF TaskFails, WriteCompleted, WriteErrored
<1>7. CASE TeardownOk(q) \/ TeardownFails(q) \/ AppendErrored(q)
  BY <1>0, <1>7 DEF TeardownOk, TeardownFails, AppendErrored
<1>8. ASSUME NEW d, MarkItem(q, d) PROVE SameLocal(a)
  BY <1>0, <1>8 DEF MarkItem
<1>9. CASE MarkEnd(q)
  BY <1>0, <1>9 DEF MarkEnd
<1> QED
  BY <1>1, <1>2, <1>3, <1>4, <1>5, <1>6, <1>7, <1>8, <1>9 DEF RunStep

\* An actor's locals change in its own steps, or when its process is killed.
LEMMA LocalKept ==
    ASSUME TypeOK, [Next]_vars, NEW a \in Actor
    PROVE  \/ SameLocal(a)
           \/ a \in Run /\ (RunStep(a) \/ DropFuture(a))
           \/ SweepStep(a)
           \/ OwnershipStep(a)
           \/ a \in Proc /\ RecoveryStep(a)
           \/ a \in Run /\ pc[a] = "idle" /\ pc'[a] = "wait" /\ frame'[a] = frame[a]
           \/ /\ Fault
              /\ pc'[a] \in {"idle", "done", "dropped", "dead"}
              /\ a \in Run => frame'[a] = NoFrame
              /\ pc[a] = "clear" => sweep[a].affected \subseteq stranded'
<1>0. /\ pc \in [Actor -> RunPhase \cup ProcPhase]
      /\ frame \in [Run -> Frame]
      /\ sweep \in [Actor -> Sweep]
      /\ Run \subseteq Actor /\ Proc \subseteq Actor
      /\ \A r \in Run : r \notin Proc
  BY ConstantsAssumption DEF TypeOK, PhaseOK, FrameOK, SweepOK, Actor
<1> USE DEF SameLocal, Goto, callVars
<1>1. ASSUME NEW b \in Actor \ {a}, SweepStep(b) PROVE SameLocal(a)
  <2>1. pc'[a] = pc[a] /\ sweep'[a] = sweep[a]
    BY <1>1, SweepMovesSteps DEF SweepMoves
  <2>2. UNCHANGED frame
    BY <1>1
    DEF SweepStep, SweepItems, SweepNodes, SweepGraph, SweepVector, SweepRows,
        SweepClear, SweepEnd
  <2> QED
    BY <2>1, <2>2
<1>2. ASSUME NEW b \in Actor \ {a}, OwnershipStep(b) PROVE SameLocal(a)
  BY <1>0, <1>2 DEF OwnershipStep, DropOwnership, Unlink
<1>3. ASSUME NEW p \in Proc \ {a}, RecoveryStep(p) PROVE SameLocal(a)
  <2>1. CASE Recover(p) \/ RecoverClose(p) \/ RecoverEnd(p)
    BY <1>0, <2>1 DEF Recover, RecoverClose, RecoverEnd
  <2>2. ASSUME NEW r \in Run, RecoverSkip(p, r) \/ RecoverClaim(p, r) PROVE SameLocal(a)
    BY <1>0, <2>2 DEF RecoverSkip, RecoverClaim
  <2>3. CASE Recheck(p)
    BY <1>0, <2>3 DEF Recheck, StartSweep
  <2> QED
    BY <1>3, <2>1, <2>2, <2>3 DEF RecoveryStep
<1>4. ASSUME NEW p \in Proc, Crash(p)
      PROVE  \/ SameLocal(a)
             \/ /\ Fault
                /\ pc'[a] \in {"idle", "done", "dropped", "dead"}
                /\ a \in Run => frame'[a] = NoFrame
                /\ pc[a] = "clear" => sweep[a].affected \subseteq stranded'
  <2> DEFINE Dead == {p} \cup {r \in Run : call[r].proc = p}
  <2>1. ASSUME a \in Dead, pc[a] = "clear" PROVE sweep[a].affected \subseteq stranded'
    <3>1. stranded' = stranded \cup
              UNION {IF pc[b] = "clear" THEN sweep[b].affected ELSE {} : b \in Dead}
      BY <1>4 DEF Crash, Forget
    <3> QED
      BY <2>1, <3>1
  <2>2. CASE a \notin Dead
    BY <1>0, <1>4, <2>2 DEF Crash, Forget
  <2>3. CASE a \in Dead
    <3>1. /\ Fault
          /\ pc'[a] \in {"idle", "done", "dropped", "dead"}
          /\ a \in Run => frame'[a] = NoFrame
      BY <1>0, <1>4, <2>3 DEF Crash, Forget
    <3> QED
      BY <2>1, <2>3, <3>1
  <2> QED
    BY <2>2, <2>3
<1>5. ASSUME NEW r \in Run \ {a}, DropFuture(r) PROVE SameLocal(a)
  BY <1>0, <1>5 DEF DropFuture, Forget
<1>6. ASSUME NEW r \in Run, NEW p \in Proc, NEW ds \in Dataset, Call(r, p, ds)
      PROVE  \/ SameLocal(a)
             \/ a \in Run /\ pc[a] = "idle" /\ pc'[a] = "wait" /\ frame'[a] = frame[a]
  BY <1>0, <1>6 DEF Call
<1>7. CASE UNCHANGED vars \/ \E p \in Proc : Start(p)
  BY <1>7 DEF vars, Start
<1> QED
  BY <1>0, <1>1, <1>2, <1>3, <1>4, <1>5, <1>6, <1>7, RunStepLocal DEF Next, Quiet

\* A step of run_in_scope fails, is the last one, or leads on to another phase
\* of the same sweep.
LEMMA SweepFlow ==
    ASSUME TypeOK, NEW a \in Actor, SweepStep(a)
    PROVE  \/ SweepFail(a)
           \/ SweepEnd(a)
           \/ pc'[a] \in SweepPhase /\ sweep'[a].next = sweep[a].next
<1>0. /\ sweep[a] \in Sweep /\ sweep[a].affected \in SUBSET Data
      /\ pc \in [Actor -> RunPhase \cup ProcPhase] /\ sweep \in [Actor -> Sweep]
  BY SweepFields DEF TypeOK, PhaseOK, SweepOK
<1> DEFINE GoesOn == pc'[a] \in SweepPhase /\ sweep'[a].next = sweep[a].next
<1>1. ASSUME NEW w, SameSweep(w, sweep[a]), sweep' = [sweep EXCEPT ![a] = w]
      PROVE  sweep'[a].next = sweep[a].next
  BY <1>0, <1>1 DEF SameSweep
<1>2. CASE SweepItems(a) /\ ~SweepFail(a)
  <2> DEFINE w == [sweep[a] EXCEPT !.affected = Data \cap {k[1] : k \in Selected(sweep[a])}]
  <2>1. SameSweep(w, sweep[a])
    BY <1>0, AffectedType, SweepUpdates
  <2>2. sweep' = [sweep EXCEPT ![a] = w] /\ pc'[a] = "nodes"
    BY <1>0, <1>2 DEF SweepItems, Goto
  <2> HIDE DEF w
  <2> QED
    BY <1>1, <2>1, <2>2 DEF SweepPhase
<1>3. CASE SweepNodes(a) /\ ~SweepFail(a)
  <2> DEFINE w == [sweep[a] EXCEPT !.nodes = UniqueSlugs(sweep[a])]
  <2>1. SameSweep(w, sweep[a])
    BY <1>0, SweepUpdates DEF UniqueSlugs
  <2>2. sweep' = [sweep EXCEPT ![a] = w] /\ pc'[a] = "graph"
    BY <1>0, <1>3 DEF SweepNodes, Goto
  <2> HIDE DEF w
  <2> QED
    BY <1>1, <2>1, <2>2 DEF SweepPhase
<1>4. CASE (SweepGraph(a) \/ SweepRows(a)) /\ ~SweepFail(a)
  BY <1>0, <1>4 DEF SweepGraph, SweepRows, Goto, SweepPhase
<1>5. CASE SweepVector(a) /\ ~SweepFail(a)
  <2> DEFINE w == [sweep[a] EXCEPT !.warned = TRUE]
  <2>1. SameSweep(w, sweep[a])
    BY <1>0, SweepUpdates
  <2>2. UNCHANGED sweep \/ sweep' = [sweep EXCEPT ![a] = w]
    BY <1>5 DEF SweepVector
  <2>3. pc'[a] = "rows"
    BY <1>0, <1>5 DEF SweepVector, Goto
  <2> HIDE DEF w
  <2> QED
    BY <1>1, <2>1, <2>2, <2>3 DEF SweepPhase
<1>6. ASSUME NEW d \in Data, SweepClear(a, d) PROVE GoesOn
  <2> DEFINE v == [sweep[a] EXCEPT !.affected = @ \ {d}]
             w == [sweep[a] EXCEPT !.affected = @ \ {d}, !.warned = TRUE]
  <2>1. SameSweep(v, sweep[a]) /\ SameSweep(w, sweep[a])
    <3>1. sweep[a].affected \ {d} \in SUBSET Data
      BY <1>0
    <3> QED
      BY <1>0, <3>1, SweepUpdates
  <2>2. sweep' = [sweep EXCEPT ![a] = v] \/ sweep' = [sweep EXCEPT ![a] = w]
    BY <1>6 DEF SweepClear
  <2>3. pc'[a] = "clear"
    BY <1>6 DEF SweepClear
  <2> HIDE DEF v, w
  <2> QED
    BY <1>1, <2>1, <2>2, <2>3 DEF SweepPhase
<1> QED
  BY <1>2, <1>3, <1>4, <1>5, <1>6 DEF SweepStep

-----------------------------------------------------------------------------
(* A failed run leaves nothing behind *)

NoRows(r) == \A k \in Key : ledger[k] # r

\* The way of a run from its failure to its return.  A run that may still fail
\* has no ERRORED row yet; a failed one sweeps all its rows, and whatever comes
\* after that sweep finds none.
Clean(r) ==
    /\ pc[r] \in Early \cup {"start", "work", "complete", "error", "teardown", "mark"} =>
           status[r] # "ERRORED"
    /\ pc[r] \in {"skip", "own", "start", "work", "complete", "error", "teardown"} =>
           frame[r].scope \in Scopes
    /\ pc[r] \in {"work", "error", "teardown"} => frame[r].items # {}
    /\ pc[r] = "append" => NoRows(r)
    /\ pc[r] \in SweepPhase =>
           \/ sweep[r].next = "mark" /\ status[r] # "ERRORED"
           \/ /\ sweep[r].next # "mark"
              /\ sweep[r].data = Owner
              /\ pc[r] = "clear" => NoRows(r)
    /\ status[r] = "ERRORED" => pc[r] \in SweepPhase \/ NoRows(r)

\* What holds of every run as long as no fault has occurred.
FailInv == faults = 0 /\ "Nothing" \notin Scopes => \A r \in Run : Clean(r)

\* A run gets no new rows unless it is at work.
LEMMA NoRowsKept ==
    ASSUME TypeOK, [Next]_vars, NEW r \in Run, NoRows(r), pc[r] \notin {"work", "teardown"}
    PROVE  NoRows(r)'
BY LedgerKept, ConstantsAssumption DEF NoRows

\* The steps of others keep a run clean.
LEMMA CleanOther ==
    ASSUME TypeOK, MarkerInv, RowInv, [Next]_vars, NEW r \in Run, Clean(r), SameLocal(r),
           ~RunStep(r)
    PROVE  Clean(r)'
<1>1. NoRows(r) /\ pc[r] \notin {"work", "teardown"} => NoRows(r)'
  BY NoRowsKept
<1>2. CASE status'[r] = status[r]
  BY <1>1, <1>2 DEF Clean, SameLocal, SweepPhase
<1>3. CASE \E p \in Proc : pc[p] = "close" /\ sweep[p].run = r
  <2>1. pc[r] \in Over
    BY <1>3 DEF MarkerInv, RecoveryOnlyDead, Claimed
  <2>2. NoRows(r)
    BY <1>3 DEF RowInv, SweptInv, NoRows
  <2> QED
    BY <1>1, <2>1, <2>2 DEF Clean, SameLocal, Over, Early, SweepPhase
<1> QED
  BY <1>2, <1>3, StatusKept

\* The fields of a frame that on_run_failed decides by change only where the run
\* takes the lock and where it skips items.
LEMMA FrameDecides ==
    ASSUME TypeOK, NEW r \in Run, RunStep(r)
    PROVE  /\ pc[r] \notin {"wait", "skip"} => frame'[r].items = frame[r].items
           /\ pc[r] # "wait" /\ pc'[r] # "done" => frame'[r].scope = frame[r].scope
           /\ pc[r] = "wait" => frame'[r].scope \in Scopes
<1>0. frame \in [Run -> Frame] /\ frame[r] \in Frame /\ pc \in [Actor -> RunPhase \cup ProcPhase]
  BY DEF TypeOK, FrameOK, PhaseOK
<1> DEFINE P == /\ pc[r] \notin {"wait", "skip"} => frame'[r].items = frame[r].items
                /\ pc[r] # "wait" /\ pc'[r] # "done" => frame'[r].scope = frame[r].scope
                /\ pc[r] = "wait" => frame'[r].scope \in Scopes
<1>1. ASSUME NEW D, NEW s \in Scopes, NEW i, Acquire(r, D, s, i) PROVE P
  <2> DEFINE f == [NoFrame EXCEPT !.items = D, !.scope = s, !.incr = i]
  <2>1. f.scope = s
    BY DEF NoFrame
  <2>2. frame' = [frame EXCEPT ![r] = f] /\ pc[r] = "wait"
    BY <1>1 DEF Acquire
  <2> HIDE DEF f
  <2> QED
    BY <1>0, <2>1, <2>2
<1>2. CASE SkipComplete(r)
  <2>1. pc[r] = "skip"
    BY <1>2 DEF SkipComplete
  <2>2. CASE Goto(r, "done")
    BY <1>0, <2>1, <2>2 DEF Goto, Actor
  <2>3. CASE ~Goto(r, "done")
    BY <1>0, <1>2, <2>1, <2>3 DEF SkipComplete, Frame
  <2> QED
    BY <2>2, <2>3
<1>3. CASE \/ AcquireOwnership(r) \/ WriteStarted(r) \/ TaskFails(r) \/ WriteCompleted(r)
           \/ WriteErrored(r) \/ TeardownFails(r) \/ AppendErrored(r) \/ MarkEnd(r)
  BY <1>3
  DEF AcquireOwnership, WriteStarted, TaskFails, WriteCompleted, WriteErrored,
      TeardownFails, AppendErrored, MarkEnd, callVars
<1>4. ASSUME NEW S, WriteLedger(r, S) PROVE P
  BY <1>0, <1>4 DEF WriteLedger, Frame
<1>5. ASSUME NEW s, WriteGraph(r, s) \/ IndexVector(r, s) PROVE P
  BY <1>0, <1>5 DEF WriteGraph, IndexVector, Frame
<1>6. ASSUME NEW F, FinishWork(r, F) PROVE P
  BY <1>0, <1>6 DEF FinishWork, Frame
<1>7. CASE TeardownOk(r)
  BY <1>0, <1>7 DEF TeardownOk, Frame
<1>8. ASSUME NEW d, MarkItem(r, d) PROVE P
  BY <1>0, <1>8 DEF MarkItem, Frame
<1> QED
  BY <1>1, <1>2, <1>3, <1>4, <1>5, <1>6, <1>7, <1>8 DEF RunStep

\* What a step of cognify does, without a fault, to a run's phase, its row and
\* its sweep.
CleanMove(r) ==
    \/ /\ pc[r] \in {"wait", "skip", "own"} /\ pc'[r] \in {"skip", "own", "start"}
       /\ status'[r] = status[r]
    \/ /\ pc[r] = "start" /\ status'[r] = "STARTED"
       /\ pc'[r] = IF frame[r].items = {} THEN "complete" ELSE "work"
    \/ /\ pc[r] \in {"work", "teardown"} /\ pc'[r] = pc[r] /\ status'[r] = status[r]
    \/ /\ pc[r] = "work" /\ pc'[r] \in {"error", "complete"} /\ status'[r] = status[r]
    \/ /\ pc[r] = "complete" /\ status'[r] = "COMPLETED"
       /\ pc'[r] = IF frame[r].items = {} THEN "drop" ELSE "teardown"
    \/ /\ pc[r] = "error" /\ pc'[r] = "items"
       /\ sweep'[r].next = "drop" /\ sweep'[r].data = Owner
    \/ /\ pc[r] = "error" /\ (frame[r].items = {} \/ frame[r].scope = "Nothing")
    \/ /\ pc[r] = "teardown" /\ status'[r] = status[r]
       /\ \/ pc'[r] = "mark"
          \/ pc'[r] = "items" /\ sweep'[r].next = "mark"
          \/ pc'[r] = "items" /\ sweep'[r].next = "append" /\ sweep'[r].data = Owner
          \/ frame[r].scope = "Nothing"
    \/ /\ pc[r] = "append" /\ pc'[r] = "drop"
    \/ /\ pc[r] = "mark" /\ pc'[r] \in {"mark", "drop"} /\ status'[r] = status[r]

\* Every step of cognify is such a move, unless it is a fault.
LEMMA CleanMoves ==
    ASSUME TypeOK, NEW r \in Run, RunStep(r), ~Fault
    PROVE  CleanMove(r)
<1>0. /\ status \in [Run -> Status]
      /\ pc \in [Actor -> RunPhase \cup ProcPhase]
      /\ sweep \in [Actor -> Sweep]
      /\ r \in Actor
  BY DEF TypeOK, EnvOK, PhaseOK, SweepOK, Actor
<1>1. ASSUME NEW D, NEW n, StartSweep(r, r, D, n)
      PROVE  pc'[r] = "items" /\ sweep'[r].next = n /\ sweep'[r].data = D
  <2> DEFINE w == [NoSweep EXCEPT !.run = r, !.data = D, !.next = n]
  <2>1. w.next = n /\ w.data = D
    BY DEF NoSweep
  <2>2. sweep' = [sweep EXCEPT ![r] = w] /\ pc' = [pc EXCEPT ![r] = "items"]
    BY <1>1 DEF StartSweep, Goto
  <2> HIDE DEF w
  <2> QED
    BY <1>0, <2>1, <2>2
<1> USE DEF Goto, LogRow
<1>2. CASE \/ \E D, s, i : Acquire(r, D, s, i)
           \/ SkipComplete(r) \/ AcquireOwnership(r)
  BY <1>0, <1>2 DEF Acquire, SkipComplete, AcquireOwnership, CleanMove
<1>3. CASE WriteStarted(r)
  BY <1>0, <1>3 DEF WriteStarted, CleanMove
<1>4. CASE \/ \E S : WriteLedger(r, S)
           \/ \E s : WriteGraph(r, s) \/ IndexVector(r, s)
           \/ TaskFails(r)
           \/ \E F : FinishWork(r, F)
  BY <1>0, <1>4 DEF WriteLedger, WriteGraph, IndexVector, TaskFails, FinishWork, CleanMove
<1>5. CASE WriteCompleted(r)
  BY <1>0, <1>5 DEF WriteCompleted, CleanMove
<1>6. CASE WriteErrored(r)
  BY <1>0, <1>1, <1>6 DEF WriteErrored, CleanMove
<1>7. CASE TeardownOk(r)
  BY <1>0, <1>1, <1>7 DEF TeardownOk, CleanMove
<1>8. CASE TeardownFails(r)
  BY <1>0, <1>1, <1>8 DEF TeardownFails, CleanMove
<1>9. CASE AppendErrored(r) \/ MarkEnd(r) \/ \E d : MarkItem(r, d)
  BY <1>0, <1>9 DEF AppendErrored, MarkEnd, MarkItem, CleanMove
<1> QED
  BY <1>2, <1>3, <1>4, <1>5, <1>6, <1>7, <1>8, <1>9 DEF RunStep

\* A step of a clean run that is no fault keeps it clean.
LEMMA CleanOwn ==
    ASSUME TypeOK, [Next]_vars, NEW r \in Run, RunStep(r), Clean(r), ~Fault,
           "Nothing" \notin Scopes
    PROVE  Clean(r)'
<1>0. NoRows(r) /\ pc[r] \notin {"work", "teardown"} => NoRows(r)'
  BY NoRowsKept
<1>1. CleanMove(r)
  BY CleanMoves
<1>2. /\ pc[r] \notin {"wait", "skip"} => frame'[r].items = frame[r].items
      /\ pc[r] # "wait" /\ pc'[r] # "done" => frame'[r].scope = frame[r].scope
      /\ pc[r] = "wait" => frame'[r].scope \in Scopes
  BY FrameDecides
<1>3. CASE pc[r] \in {"wait", "skip", "own", "start", "complete", "mark"}
  BY <1>1, <1>2, <1>3 DEF CleanMove, Clean, Early, SweepPhase
<1>4. CASE pc[r] \in {"work", "error"}
  BY <1>1, <1>2, <1>4 DEF CleanMove, Clean, Early, SweepPhase
<1>5. CASE pc[r] = "teardown"
  BY <1>1, <1>2, <1>5 DEF CleanMove, Clean, Early, SweepPhase
<1>6. CASE pc[r] = "append"
  BY <1>0, <1>1, <1>6 DEF CleanMove, Clean, Early, SweepPhase
<1> QED
  BY <1>1, <1>3, <1>4, <1>5, <1>6 DEF CleanMove

\* The sweep of a failed run, if nothing fails, takes all its rows.
LEMMA CleanSweep ==
    ASSUME TypeOK, RowInv, [Next]_vars, NEW r \in Run, SweepStep(r), Clean(r), ~Fault
    PROVE  Clean(r)'
<1>1. SweepMoves(r) /\ r \in Actor
  BY SweepMovesSteps DEF Actor
<1>2. /\ pc[r] \in SweepPhase /\ pc[r] \notin {"work", "teardown"}
      /\ sweep[r].run = r /\ sweep[r].next # "close"
  BY <1>1 DEF SweepMoves, SweepPhase, TypeOK, SweepOK
<1>3. status'[r] = status[r]
  BY DEF SweepStep, SweepItems, SweepNodes, SweepGraph, SweepVector, SweepRows,
         SweepClear, SweepEnd
<1>4. NoRows(r) => NoRows(r)'
  BY <1>2, NoRowsKept
<1>5. CASE SweepEnd(r)
  <2>1. pc[r] = "clear" /\ pc'[r] = sweep[r].next
    BY <1>1, <1>5, ConstantsAssumption DEF SweepEnd, LeaveSweep, Goto, TypeOK, PhaseOK
  <2>2. pc'[r] \in {"drop", "append", "mark"}
    BY <1>1, <1>2, <2>1, SweepFields DEF TypeOK, SweepOK
  <2> QED
    BY <1>2, <1>3, <1>4, <2>1, <2>2 DEF Clean, Early, SweepPhase
<1>6. CASE pc'[r] \in SweepPhase /\ sweep'[r].next = sweep[r].next
  <2>1. sweep'[r].data = sweep[r].data
    BY <1>1, <1>6 DEF SweepMoves
  <2>2. sweep[r].data = Owner /\ pc'[r] = "clear" /\ pc[r] # "clear" => NoRows(r)'
    BY <1>1, <1>2, WholeRunSwept DEF SweepMoves, RowInv, NoRows
  <2> QED
    BY <1>2, <1>3, <1>4, <1>6, <2>1, <2>2 DEF Clean, Early, SweepPhase
<1> QED
  BY <1>1, <1>5, <1>6, SweepFlow DEF SweepFail

\* Faults are counted.
LEMMA FaultsCounted == ASSUME [Next]_vars PROVE faults' = faults \/ Fault
<1> USE DEF Ok
<1>1. ASSUME NEW r \in Run, RunStep(r) PROVE faults' = faults \/ Fault
  BY <1>1
  DEF RunStep, Acquire, SkipComplete, AcquireOwnership, WriteStarted, WriteLedger,
      WriteGraph, IndexVector, TaskFails, FinishWork, WriteCompleted, WriteErrored,
      TeardownOk, TeardownFails, AppendErrored, MarkItem, MarkEnd
<1>2. ASSUME NEW a \in Actor, SweepStep(a) \/ OwnershipStep(a)
      PROVE  faults' = faults \/ Fault
  BY <1>2
  DEF SweepStep, SweepItems, SweepNodes, SweepGraph, SweepVector, SweepRows,
      SweepClear, SweepEnd, SweepFail, OwnershipStep, DropOwnership, Unlink
<1>3. ASSUME NEW p \in Proc, RecoveryStep(p) \/ Crash(p) \/ Start(p)
      PROVE  faults' = faults \/ Fault
  BY <1>3
  DEF RecoveryStep, Recover, RecoverSkip, RecoverClaim, Recheck, RecoverClose,
      RecoverEnd, Crash, Start
<1>4. CASE \/ UNCHANGED vars
           \/ \E r \in Run : DropFuture(r)
           \/ \E r \in Run, p \in Proc, ds \in Dataset : Call(r, p, ds)
  BY <1>4 DEF vars, DropFuture, Call
<1> QED
  BY <1>1, <1>2, <1>3, <1>4 DEF Next, Quiet

\* FailInv is inductive, given that recovery closes only what it has swept.
LEMMA FailNext ==
    ASSUME TypeOK, MarkerInv, RowInv, FailInv, [Next]_vars
    PROVE  FailInv'
<1> SUFFICES ASSUME faults' = 0, "Nothing" \notin Scopes, NEW r \in Run
             PROVE  Clean(r)'
  BY DEF FailInv
<1>1. faults = 0 /\ ~Fault
  BY FaultsCounted DEF Fault, TypeOK, EnvOK
<1>2. Clean(r) /\ r \in Actor
  BY <1>1 DEF FailInv, Actor
<1>3. CASE RunStep(r)
  BY <1>1, <1>2, <1>3, CleanOwn
<1>4. CASE SweepStep(r)
  BY <1>1, <1>2, <1>4, CleanSweep
<1>5. CASE SameLocal(r) /\ ~RunStep(r)
  BY <1>2, <1>5, CleanOther
<1>6. CASE OwnershipStep(r) /\ ~RunStep(r)
  <2>1. /\ pc[r] \in {"drop", "unlink"}
        /\ pc'[r] \in {"unlink", "done"}
        /\ status'[r] = status[r]
    BY <1>2, <1>6 DEF OwnershipStep, DropOwnership, Unlink, Goto, TypeOK, PhaseOK
  <2> QED
    BY <1>2, <2>1, NoRowsKept DEF Clean, Early, SweepPhase
<1>7. CASE pc[r] = "idle" /\ pc'[r] = "wait" /\ ~RunStep(r)
  <2>1. status'[r] = status[r]
    BY <1>7, StatusKept DEF MarkerInv, RecoveryOnlyDead, Claimed, Over
  <2> QED
    BY <1>2, <1>7, <2>1 DEF Clean, Early, SweepPhase
<1>8. ~DropFuture(r)
  BY <1>1 DEF DropFuture
<1>9. ~(r \in Proc)
  BY ConstantsAssumption
<1> QED
  BY <1>1, <1>2, <1>3, <1>4, <1>5, <1>6, <1>7, <1>8, <1>9, LocalKept

\* on_run_failed: as long as nothing else goes wrong, a run that returns with an
\* ERRORED row has no ownership row left, however many runs share the items,
\* datasets and processes, and for both scopes that roll back.
THEOREM FailedRunClean == Spec => []FailedRunLeavesNothing
<1>1. Init => FailInv
  BY DEF Init, FailInv, Clean, NoRows, Actor, Early, SweepPhase
<1>2. TypeOK /\ MarkerInv /\ RowInv /\ FailInv /\ [Next]_vars => FailInv'
  BY FailNext
<1>3. FailInv => FailedRunLeavesNothing
  BY DEF FailInv, FailedRunLeavesNothing, Clean, NoRows, SweepPhase
<1> QED
  BY <1>1, <1>2, <1>3, TypeCorrect, MarkerInvariant, RowInvariant, PTL DEF Spec

-----------------------------------------------------------------------------
(* One process, and stores that datasets do not share *)

\* One process works on the database, so that its dataset locks are all there
\* are; and no two datasets share a physical store.
OneProcess == \A p, q \in Proc : p = q
OwnStores  == \A ds, es \in Dataset : StoreOf[ds] = StoreOf[es] => ds = es

\* An actor at work on a dataset, under its lock.
Busy(a) == IF a \in Run THEN pc[a] \in Holding ELSE pc[a] \in Claimed

\* With one process, whoever is at work on a dataset is alone there.
LEMMA Alone ==
    ASSUME TypeOK, LockInv, OneProcess, NEW a \in Actor, NEW b \in Actor,
           Busy(a), Busy(b), DatasetOfActor(a) = DatasetOfActor(b)
    PROVE  a = b
<1>1. ASSUME NEW c \in Actor, Busy(c)
      PROVE  \E p \in Proc : LockOf(c) = <<p, DatasetOfActor(c)>> /\ lock[LockOf(c)] = c
  <2>1. CASE c \in Run
    <3>1. pc[c] \in Holding /\ pc[c] # "idle"
      BY <1>1, <2>1 DEF Busy, Holding, Owning, SweepPhase
    <3>2. call[c].proc \in Proc
      BY <2>1, <3>1 DEF TypeOK, CallOK
    <3> QED
      BY <2>1, <3>1, <3>2 DEF LockInv, LockOf, DatasetOfActor
  <2>2. CASE c \in Proc
    BY <1>1, <2>2, ConstantsAssumption DEF Busy, LockInv, LockOf, DatasetOfActor
  <2> QED
    BY <2>1, <2>2 DEF Actor
<1> QED
  BY <1>1 DEF OneProcess

\* The actors that change the stores are at work on the dataset of the store.
LEMMA BusyPhases ==
    ASSUME TypeOK, MarkerInv, NEW a \in Actor
    PROVE  /\ Busy(a) => DatasetOfActor(a) \in Dataset
           /\ pc[a] \in SweepPhase =>
                 /\ Busy(a)
                 /\ sweep[a].run \in Run
                 /\ DatasetOfActor(a) = call[sweep[a].run].ds
           /\ a \in Run /\ pc[a] \in Owning => Busy(a) /\ DatasetOfActor(a) = call[a].ds
<1>1. \A r \in Run : pc[r] # "idle" => call[r].ds \in Dataset
  BY DEF TypeOK, CallOK
<1>2. CASE a \in Run
  BY <1>1, <1>2
  DEF TypeOK, SweepOK, Busy, DatasetOfActor, Holding, Owning, SweepPhase
<1>3. CASE a \in Proc
  <2>1. a \notin Run
    BY <1>3, ConstantsAssumption
  <2>2. pc[a] \in Claimed => sweep[a].run \in Run /\ pc[sweep[a].run] # "idle"
    BY <1>3 DEF TypeOK, SweepOK, MarkerInv, RecoveryOnlyDead, Over
  <2> QED
    BY <1>1, <2>1, <2>2 DEF Busy, DatasetOfActor, Claimed
<1> QED
  BY <1>2, <1>3 DEF Actor

\* Only a sweep that has a node on its list, and has reached the graph, removes
\* it; only a run that has recorded it adds it.
LEMMA GraphKept ==
    ASSUME TypeOK, [Next]_vars, NEW st \in Store, NEW s \in Slug
    PROVE  /\ <<st, s>> \in graph /\ <<st, s>> \notin graph' =>
                 \E a \in Actor : /\ SweepStep(a) /\ pc[a] = "graph"
                                  /\ s \in sweep[a].nodes
                                  /\ st = StoreFor(sweep[a].run)
           /\ <<st, s>> \in graph' /\ <<st, s>> \notin graph =>
                 \E r \in Run : /\ RunStep(r) /\ pc[r] \in {"work", "teardown"}
                                /\ s \in frame[r].graph
                                /\ st = StoreFor(r)
<1> DEFINE Lost == /\ <<st, s>> \in graph
                   /\ <<st, s>> \notin graph'
           Gained == <<st, s>> \in graph' /\ <<st, s>> \notin graph
           LostBy(a) == /\ SweepStep(a) /\ pc[a] = "graph"
                        /\ s \in sweep[a].nodes
                        /\ st = StoreFor(sweep[a].run)
           GainedBy(r) == /\ RunStep(r) /\ pc[r] \in {"work", "teardown"}
                          /\ s \in frame[r].graph
                          /\ st = StoreFor(r)
           Kept == /\ Lost => \E a \in Actor : LostBy(a)
                   /\ Gained => \E r \in Run : GainedBy(r)
<1> USE DEF storeVars
<1>1. ASSUME NEW r \in Run, NEW x \in Slug, WriteGraph(r, x), RunStep(r) PROVE Kept
  <2>1. graph' = graph \cup {<<StoreFor(r), x>>} /\ x \in frame[r].graph
        /\ pc[r] \in {"work", "teardown"}
    BY <1>1 DEF WriteGraph
  <2>2. ~Lost
    BY <2>1
  <2>3. Gained => st = StoreFor(r) /\ s = x
    BY <2>1
  <2> QED
    BY <1>1, <2>1, <2>2, <2>3
<1>2. ASSUME NEW q \in Run,
             \/ \E D, t, i : Acquire(q, D, t, i)
             \/ SkipComplete(q) \/ AcquireOwnership(q) \/ WriteStarted(q)
             \/ \E S : WriteLedger(q, S)
             \/ \E x : IndexVector(q, x)
             \/ TaskFails(q) \/ \E F : FinishWork(q, F)
             \/ WriteCompleted(q) \/ WriteErrored(q)
             \/ TeardownOk(q) \/ TeardownFails(q) \/ AppendErrored(q)
             \/ \E d : MarkItem(q, d)
             \/ MarkEnd(q) \/ DropFuture(q)
      PROVE  UNCHANGED graph
  BY <1>2
  DEF Acquire, SkipComplete, AcquireOwnership, WriteStarted, WriteLedger,
      IndexVector, TaskFails, FinishWork, WriteCompleted, WriteErrored, TeardownOk,
      TeardownFails, AppendErrored, MarkItem, MarkEnd, DropFuture
<1>3. ASSUME UNCHANGED graph PROVE Kept
  BY <1>3
<1>4. ASSUME NEW q \in Run, RunStep(q) PROVE Kept
  <2>1. \/ \E x \in Slug : WriteGraph(q, x)
        \/ UNCHANGED graph
    BY <1>2, <1>4 DEF RunStep
  <2> QED
    BY <1>1, <1>3, <1>4, <2>1
<1>5. ASSUME NEW a \in Actor, SweepGraph(a), SweepStep(a) PROVE Kept
  <2>1. PICK S \in SUBSET sweep[a].nodes :
            graph' = graph \ ({StoreFor(sweep[a].run)} \X S)
    BY <1>5 DEF SweepGraph
  <2>2. Lost => st = StoreFor(sweep[a].run) /\ s \in sweep[a].nodes
    BY <2>1
  <2>3. ~Gained
    BY <2>1
  <2> QED
    BY <1>5, <2>2, <2>3 DEF SweepGraph
<1>6. ASSUME NEW a \in Actor, SweepStep(a) PROVE Kept
  <2>1. SweepGraph(a) \/ UNCHANGED graph
    BY <1>6
    DEF SweepStep, SweepItems, SweepNodes, SweepVector, SweepRows, SweepClear, SweepEnd
  <2> QED
    BY <1>3, <1>5, <1>6, <2>1
<1>7. ASSUME NEW a \in Actor, OwnershipStep(a) PROVE UNCHANGED graph
  BY <1>7 DEF OwnershipStep, DropOwnership, Unlink
<1>8. ASSUME NEW p \in Proc, RecoveryStep(p) \/ Crash(p) \/ Start(p) PROVE UNCHANGED graph
  BY <1>8
  DEF RecoveryStep, Recover, RecoverSkip, RecoverClaim, Recheck, RecoverClose,
      RecoverEnd, Crash, Start
<1>9. CASE \/ UNCHANGED vars
           \/ \E q \in Run, p \in Proc, ds \in Dataset : Call(q, p, ds)
  BY <1>9 DEF vars, Call
<1> QED
  <2>1. Kept
    BY <1>2, <1>3, <1>4, <1>6, <1>7, <1>8, <1>9 DEF Next, Quiet
  <2> QED
    BY <2>1

\* The same for a vector point.
LEMMA VectorKept ==
    ASSUME TypeOK, [Next]_vars, NEW st \in Store, NEW s \in Slug
    PROVE  /\ <<st, s>> \in vector /\ <<st, s>> \notin vector' =>
                 \E a \in Actor : /\ SweepStep(a) /\ pc[a] = "vector"
                                  /\ s \in sweep[a].nodes
                                  /\ st = StoreFor(sweep[a].run)
           /\ <<st, s>> \in vector' /\ <<st, s>> \notin vector =>
                 \E r \in Run : /\ RunStep(r) /\ pc[r] \in {"work", "teardown"}
                                /\ s \in frame[r].vector
                                /\ st = StoreFor(r)
<1> DEFINE Lost == /\ <<st, s>> \in vector
                   /\ <<st, s>> \notin vector'
           Gained == <<st, s>> \in vector' /\ <<st, s>> \notin vector
           LostBy(a) == /\ SweepStep(a) /\ pc[a] = "vector"
                        /\ s \in sweep[a].nodes
                        /\ st = StoreFor(sweep[a].run)
           GainedBy(r) == /\ RunStep(r) /\ pc[r] \in {"work", "teardown"}
                          /\ s \in frame[r].vector
                          /\ st = StoreFor(r)
           Kept == /\ Lost => \E a \in Actor : LostBy(a)
                   /\ Gained => \E r \in Run : GainedBy(r)
<1> USE DEF storeVars
<1>1. ASSUME NEW r \in Run, NEW x \in Slug, IndexVector(r, x), RunStep(r) PROVE Kept
  <2>1. vector' = vector \cup {<<StoreFor(r), x>>} /\ x \in frame[r].vector
        /\ pc[r] \in {"work", "teardown"}
    BY <1>1 DEF IndexVector
  <2>2. ~Lost
    BY <2>1
  <2>3. Gained => st = StoreFor(r) /\ s = x
    BY <2>1
  <2> QED
    BY <1>1, <2>1, <2>2, <2>3
<1>2. ASSUME NEW q \in Run,
             \/ \E D, t, i : Acquire(q, D, t, i)
             \/ SkipComplete(q) \/ AcquireOwnership(q) \/ WriteStarted(q)
             \/ \E S : WriteLedger(q, S)
             \/ \E x : WriteGraph(q, x)
             \/ TaskFails(q) \/ \E F : FinishWork(q, F)
             \/ WriteCompleted(q) \/ WriteErrored(q)
             \/ TeardownOk(q) \/ TeardownFails(q) \/ AppendErrored(q)
             \/ \E d : MarkItem(q, d)
             \/ MarkEnd(q) \/ DropFuture(q)
      PROVE  UNCHANGED vector
  BY <1>2
  DEF Acquire, SkipComplete, AcquireOwnership, WriteStarted, WriteLedger,
      WriteGraph, TaskFails, FinishWork, WriteCompleted, WriteErrored, TeardownOk,
      TeardownFails, AppendErrored, MarkItem, MarkEnd, DropFuture
<1>3. ASSUME UNCHANGED vector PROVE Kept
  BY <1>3
<1>4. ASSUME NEW q \in Run, RunStep(q) PROVE Kept
  <2>1. \/ \E x \in Slug : IndexVector(q, x)
        \/ UNCHANGED vector
    BY <1>2, <1>4 DEF RunStep
  <2> QED
    BY <1>1, <1>3, <1>4, <2>1
<1>5. ASSUME NEW a \in Actor, SweepVector(a), SweepStep(a) PROVE Kept
  <2>1. PICK S \in SUBSET sweep[a].nodes :
            vector' = vector \ ({StoreFor(sweep[a].run)} \X S)
    BY <1>5 DEF SweepVector
  <2>2. Lost => st = StoreFor(sweep[a].run) /\ s \in sweep[a].nodes
    BY <2>1
  <2>3. ~Gained
    BY <2>1
  <2> QED
    BY <1>5, <2>2, <2>3 DEF SweepVector
<1>6. ASSUME NEW a \in Actor, SweepStep(a) PROVE Kept
  <2>1. SweepVector(a) \/ UNCHANGED vector
    BY <1>6
    DEF SweepStep, SweepItems, SweepNodes, SweepGraph, SweepRows, SweepClear, SweepEnd
  <2> QED
    BY <1>3, <1>5, <1>6, <2>1
<1>7. ASSUME NEW a \in Actor, OwnershipStep(a) PROVE UNCHANGED vector
  BY <1>7 DEF OwnershipStep, DropOwnership, Unlink
<1>8. ASSUME NEW p \in Proc, RecoveryStep(p) \/ Crash(p) \/ Start(p) PROVE UNCHANGED vector
  BY <1>8
  DEF RecoveryStep, Recover, RecoverSkip, RecoverClaim, Recheck, RecoverClose,
      RecoverEnd, Crash, Start
<1>9. CASE \/ UNCHANGED vars
           \/ \E q \in Run, p \in Proc, ds \in Dataset : Call(q, p, ds)
  BY <1>9 DEF vars, Call
<1> QED
  <2>1. Kept
    BY <1>2, <1>3, <1>4, <1>6, <1>7, <1>8, <1>9 DEF Next, Quiet
  <2> QED
    BY <2>1

\* A row goes only with the sweep that has selected it.
LEMMA RowLost ==
    ASSUME TypeOK, [Next]_vars, NEW k \in Key, ledger[k] # NoRun, ledger'[k] # ledger[k]
    PROVE  \E a \in Actor : /\ SweepStep(a) /\ SweepRows(a) /\ ~SweepFail(a)
                            /\ k \in Selected(sweep[a])
<1> DEFINE Lost == ledger[k] # NoRun /\ ledger'[k] # ledger[k]
           LostBy(a) == /\ SweepStep(a) /\ SweepRows(a) /\ ~SweepFail(a)
                        /\ k \in Selected(sweep[a])
           Kept == \E a \in Actor : LostBy(a)
<1> USE DEF storeVars
<1>1. ASSUME NEW r \in Run, NEW S, WriteLedger(r, S) PROVE FALSE
  BY <1>1 DEF WriteLedger
<1>2. ASSUME NEW q \in Run, RunStep(q) PROVE FALSE
  BY <1>1, <1>2
  DEF RunStep, Acquire, SkipComplete, AcquireOwnership, WriteStarted, WriteGraph,
      IndexVector, TaskFails, FinishWork, WriteCompleted, WriteErrored, TeardownOk,
      TeardownFails, AppendErrored, MarkItem, MarkEnd
<1>3. ASSUME NEW a \in Actor, SweepStep(a) PROVE Kept
  <2>1. SweepRows(a)
    BY <1>3
    DEF SweepStep, SweepItems, SweepNodes, SweepGraph, SweepVector, SweepClear, SweepEnd
  <2>2. ledger' = [l \in Key |-> IF l \in Selected(sweep[a]) THEN NoRun ELSE ledger[l]]
    BY <2>1 DEF SweepRows
  <2>3. k \in Selected(sweep[a])
    BY <2>2
  <2>4. ~SweepFail(a)
    BY <2>1, <2>2, <2>3, ConstantsAssumption
    DEF SweepRows, SweepFail, LeaveSweep, Goto, TypeOK, PhaseOK, SweepOK, Ok, Fault, EnvOK
  <2> QED
    BY <1>3, <2>1, <2>3, <2>4
<1>4. ASSUME NEW p \in Proc,
             RecoveryStep(p) \/ Crash(p) \/ Start(p)
      PROVE  FALSE
  BY <1>4
  DEF RecoveryStep, Recover, RecoverSkip, RecoverClaim, Recheck, RecoverClose,
      RecoverEnd, Crash, Start
<1>5. ASSUME \/ UNCHANGED vars
             \/ \E a \in Actor : OwnershipStep(a)
             \/ \E q \in Run : DropFuture(q)
             \/ \E q \in Run, p \in Proc, ds \in Dataset : Call(q, p, ds)
      PROVE  FALSE
  BY <1>5 DEF vars, OwnershipStep, DropOwnership, Unlink, DropFuture, Call
<1> QED
  BY <1>2, <1>3, <1>4, <1>5 DEF Next, Quiet

\* A step of cognify is not one of the run's sweep.
LEMMA RunNotSweeping ==
    ASSUME NEW r \in Run, RunStep(r) PROVE pc[r] \notin SweepPhase
BY DEF RunStep, Acquire, SkipComplete, AcquireOwnership, WriteStarted, WriteLedger,
       WriteGraph, IndexVector, TaskFails, FinishWork, WriteCompleted, WriteErrored,
       TeardownOk, TeardownFails, AppendErrored, MarkItem, MarkEnd, SweepPhase

\* Nobody else touches the rows of the dataset an actor is at work on: they go
\* only with its own sweep, and come only with its own extraction.
LEMMA RowsAlone ==
    ASSUME TypeOK, MarkerInv, LockInv, ItemsInv, OneProcess, [Next]_vars,
           NEW a \in Actor, Busy(a), NEW k \in Key,
           DatasetOf[k[1]] = DatasetOfActor(a), ledger'[k] # ledger[k]
    PROVE  \/ /\ ledger[k] # NoRun
              /\ SweepStep(a) /\ SweepRows(a) /\ ~SweepFail(a) /\ k \in Selected(sweep[a])
           \/ ledger[k] = NoRun /\ a \in Run /\ RunStep(a)
<1>1. CASE ledger[k] # NoRun
  <2>1. PICK b \in Actor : /\ SweepStep(b) /\ SweepRows(b) /\ ~SweepFail(b)
                           /\ k \in Selected(sweep[b])
    BY <1>1, RowLost
  <2>2. Busy(b) /\ DatasetOfActor(b) = call[sweep[b].run].ds
    BY <2>1, BusyPhases DEF SweepRows, SweepPhase
  <2>3. DatasetOf[k[1]] = call[sweep[b].run].ds
    BY <2>1 DEF Selected
  <2>4. a = b
    BY <2>2, <2>3, Alone
  <2> QED
    BY <1>1, <2>1, <2>4
<1>2. CASE ledger[k] = NoRun
  <2>1. PICK r \in Run : RunStep(r) /\ pc[r] \in {"work", "teardown"} /\ k[1] \in Owners(r)
    BY <1>2, LedgerKept
  <2>2. Busy(r) /\ DatasetOfActor(r) = call[r].ds /\ r \in Actor
    BY <2>1, BusyPhases DEF Owning, Actor
  <2>3. DatasetOf[k[1]] = call[r].ds
    BY <2>1, OwnersInv
  <2>4. a = r
    BY <2>2, <2>3, Alone
  <2> QED
    BY <1>2, <2>1, <2>4
<1> QED
  BY <1>1, <1>2

\* Nor the artifacts of its store, if the dataset has a store of its own.
LEMMA ArtifactsAlone ==
    ASSUME TypeOK, MarkerInv, LockInv, OneProcess, OwnStores, [Next]_vars,
           NEW a \in Actor, Busy(a), NEW s \in Slug, NEW x,
           x = <<StoreOf[DatasetOfActor(a)], s>>
    PROVE  /\ x \in graph /\ x \notin graph' =>
                 SweepStep(a) /\ pc[a] = "graph" /\ s \in sweep[a].nodes
           /\ x \in vector /\ x \notin vector' =>
                 SweepStep(a) /\ pc[a] = "vector" /\ s \in sweep[a].nodes
           /\ (x \in graph' /\ x \notin graph) \/ (x \in vector' /\ x \notin vector) =>
                 a \in Run /\ RunStep(a)
<1> DEFINE st == StoreOf[DatasetOfActor(a)]
<1>0. DatasetOfActor(a) \in Dataset /\ st \in Store
  BY BusyPhases, ConstantsAssumption
<1>1. ASSUME NEW b \in Actor, pc[b] \in SweepPhase, st = StoreFor(sweep[b].run)
      PROVE  a = b
  <2>1. Busy(b) /\ sweep[b].run \in Run /\ DatasetOfActor(b) = call[sweep[b].run].ds
    BY <1>1, BusyPhases
  <2>2. DatasetOfActor(b) \in Dataset
    BY <2>1, BusyPhases
  <2> QED
    BY <1>0, <1>1, <2>1, <2>2, Alone DEF StoreFor, OwnStores
<1>2. ASSUME NEW r \in Run, pc[r] \in {"work", "teardown"}, st = StoreFor(r)
      PROVE  a = r
  <2>1. r \in Actor /\ Busy(r) /\ DatasetOfActor(r) = call[r].ds
    BY <1>2, BusyPhases DEF Owning, Actor
  <2>2. call[r].ds \in Dataset
    BY <1>2 DEF TypeOK, CallOK
  <2> QED
    BY <1>0, <1>2, <2>1, <2>2, Alone DEF StoreFor, OwnStores
<1>x. x = <<st, s>>
  OBVIOUS
<1> HIDE DEF st
<1>3. ASSUME x \in graph, x \notin graph'
      PROVE  SweepStep(a) /\ pc[a] = "graph" /\ s \in sweep[a].nodes
  <2>1. PICK b \in Actor : /\ SweepStep(b) /\ pc[b] = "graph"
                           /\ s \in sweep[b].nodes /\ st = StoreFor(sweep[b].run)
    BY <1>0, <1>x, <1>3, GraphKept
  <2>2. a = b
    BY <1>1, <2>1 DEF SweepPhase
  <2> QED
    BY <2>1, <2>2
<1>4. ASSUME x \in vector, x \notin vector'
      PROVE  SweepStep(a) /\ pc[a] = "vector" /\ s \in sweep[a].nodes
  <2>1. PICK b \in Actor : /\ SweepStep(b) /\ pc[b] = "vector"
                           /\ s \in sweep[b].nodes /\ st = StoreFor(sweep[b].run)
    BY <1>0, <1>x, <1>4, VectorKept
  <2>2. a = b
    BY <1>1, <2>1 DEF SweepPhase
  <2> QED
    BY <2>1, <2>2
<1>5. ASSUME x \in graph', x \notin graph PROVE a \in Run /\ RunStep(a)
  <2>1. PICK r \in Run : RunStep(r) /\ pc[r] \in {"work", "teardown"} /\ st = StoreFor(r)
    BY <1>0, <1>x, <1>5, GraphKept
  <2>2. a = r
    BY <1>2, <2>1
  <2> QED
    BY <2>1, <2>2
<1>6. ASSUME x \in vector', x \notin vector PROVE a \in Run /\ RunStep(a)
  <2>1. PICK r \in Run : RunStep(r) /\ pc[r] \in {"work", "teardown"} /\ st = StoreFor(r)
    BY <1>0, <1>x, <1>6, VectorKept
  <2>2. a = r
    BY <1>2, <2>1
  <2> QED
    BY <2>1, <2>2
<1> QED
  BY <1>3, <1>4, <1>5, <1>6

-----------------------------------------------------------------------------
(* What a run at work has recorded and stored *)

\* A run that has written nothing yet, and one that is past its sweeps.
Unstarted == Early \cup {"start"}
Past      == {"mark", "drop"} \cup Over

\* No run gets back to where it had written nothing, or where it may yet sweep.
LEMMA StageKept ==
    ASSUME TypeOK, [Next]_vars, NEW r \in Run
    PROVE  /\ pc[r] \notin Unstarted => pc'[r] \notin Unstarted
           /\ pc[r] \in Past => pc'[r] \in Past
           /\ pc[r] \in Over => pc'[r] \in Over
<1> DEFINE P == /\ pc[r] \notin Unstarted => pc'[r] \notin Unstarted
                /\ pc[r] \in Past => pc'[r] \in Past
                /\ pc[r] \in Over => pc'[r] \in Over
<1>0. pc \in [Actor -> RunPhase \cup ProcPhase] /\ r \in Actor /\ r \notin Proc
  BY ConstantsAssumption DEF TypeOK, PhaseOK, Actor
<1> USE DEF Unstarted, Past, Early, Over
<1>1. CASE RunStep(r)
  <2> USE DEF Goto, StartSweep
  <2>1. CASE \E D, s, i : Acquire(r, D, s, i)
    BY <1>0, <2>1 DEF Acquire
  <2>2. CASE SkipComplete(r) \/ AcquireOwnership(r) \/ WriteStarted(r)
    BY <1>0, <2>2 DEF SkipComplete, AcquireOwnership, WriteStarted
  <2>3. CASE \/ \E S : WriteLedger(r, S)
             \/ \E s : WriteGraph(r, s) \/ IndexVector(r, s)
             \/ TaskFails(r)
             \/ \E F : FinishWork(r, F)
    BY <1>0, <2>3 DEF WriteLedger, WriteGraph, IndexVector, TaskFails, FinishWork
  <2>4. CASE WriteCompleted(r) \/ WriteErrored(r)
    BY <1>0, <2>4 DEF WriteCompleted, WriteErrored
  <2>5. CASE TeardownOk(r) \/ TeardownFails(r) \/ AppendErrored(r)
    BY <1>0, <2>5 DEF TeardownOk, TeardownFails, AppendErrored
  <2>6. CASE MarkEnd(r) \/ \E d : MarkItem(r, d)
    BY <1>0, <2>6 DEF MarkEnd, MarkItem
  <2> QED
    BY <1>1, <2>1, <2>2, <2>3, <2>4, <2>5, <2>6 DEF RunStep
<1>2. CASE SweepStep(r)
  BY <1>0, <1>2, SweepMovesSteps DEF SweepMoves, SweepPhase
<1>3. CASE OwnershipStep(r)
  BY <1>0, <1>3 DEF OwnershipStep, DropOwnership, Unlink, Goto
<1>4. CASE DropFuture(r)
  BY <1>0, <1>4 DEF DropFuture, Goto
<1>5. CASE SameLocal(r) \/ (pc[r] = "idle" /\ pc'[r] = "wait")
  BY <1>5 DEF SameLocal
<1>6. CASE pc'[r] \in {"idle", "done", "dropped", "dead"}
  BY <1>6, CallKept
<1> QED
  BY <1>0, <1>1, <1>2, <1>3, <1>4, <1>5, <1>6, LocalKept

\* The frame of a run that is in memory changes only in the run's own steps.
LEMMA FrameKept ==
    ASSUME TypeOK, [Next]_vars, NEW r \in Run
    PROVE  frame'[r] = frame[r] \/ RunStep(r) \/ frame'[r] = NoFrame
<1>0. frame \in [Run -> Frame] /\ r \in Actor /\ r \notin Proc
  BY ConstantsAssumption DEF TypeOK, FrameOK, Actor
<1>1. CASE SweepStep(r)
  BY <1>1
  DEF SweepStep, SweepItems, SweepNodes, SweepGraph, SweepVector, SweepRows,
      SweepClear, SweepEnd, callVars
<1>2. CASE OwnershipStep(r)
  BY <1>0, <1>2 DEF OwnershipStep, DropOwnership, Unlink, callVars
<1>3. CASE DropFuture(r)
  BY <1>0, <1>3 DEF DropFuture, Forget
<1> QED
  BY <1>0, <1>1, <1>2, <1>3, LocalKept DEF SameLocal

\* What a step of cognify does to the record of what was extracted: nothing, a
\* fresh start, or the addition of what it has just written to the ledger.
LEMMA ProdStep ==
    ASSUME TypeOK, NEW r \in Run, RunStep(r)
    PROVE  \/ /\ frame'[r].prod = frame[r].prod
              /\ frame'[r].graph \subseteq frame[r].graph
              /\ frame'[r].vector \subseteq frame[r].vector
           \/ frame'[r].prod = {} /\ frame'[r].graph = {} /\ frame'[r].vector = {}
           \/ \E S \in SUBSET (Owners(r) \X Slug) : WriteLedger(r, S)
<1>0. frame \in [Run -> Frame] /\ frame[r] \in Frame
  BY DEF TypeOK, FrameOK
<1> DEFINE P == \/ /\ frame'[r].prod = frame[r].prod
                   /\ frame'[r].graph \subseteq frame[r].graph
                   /\ frame'[r].vector \subseteq frame[r].vector
                \/ frame'[r].prod = {} /\ frame'[r].graph = {} /\ frame'[r].vector = {}
<1>1. ASSUME NEW D, NEW s, NEW i, Acquire(r, D, s, i) PROVE P
  <2> DEFINE f == [NoFrame EXCEPT !.items = D, !.scope = s, !.incr = i]
  <2>1. f.prod = {} /\ f.graph = {} /\ f.vector = {}
    BY DEF NoFrame
  <2>2. frame' = [frame EXCEPT ![r] = f]
    BY <1>1 DEF Acquire
  <2> HIDE DEF f
  <2> QED
    BY <1>0, <2>1, <2>2
<1>2. CASE SkipComplete(r)
  <2>1. NoFrame.prod = {} /\ NoFrame.graph = {} /\ NoFrame.vector = {}
    BY DEF NoFrame
  <2>2. \/ frame'[r] = NoFrame
        \/ \E D : frame'[r] = [frame[r] EXCEPT !.items = D]
    BY <1>0, <1>2 DEF SkipComplete
  <2> QED
    BY <1>0, <2>1, <2>2 DEF Frame
<1>3. CASE \/ AcquireOwnership(r) \/ WriteStarted(r) \/ TaskFails(r) \/ WriteCompleted(r)
           \/ WriteErrored(r) \/ TeardownFails(r) \/ AppendErrored(r) \/ MarkEnd(r)
  BY <1>3
  DEF AcquireOwnership, WriteStarted, TaskFails, WriteCompleted, WriteErrored,
      TeardownFails, AppendErrored, MarkEnd, callVars
<1>4. ASSUME NEW s, WriteGraph(r, s) \/ IndexVector(r, s) PROVE P
  BY <1>0, <1>4 DEF WriteGraph, IndexVector, Frame
<1>5. ASSUME NEW F, FinishWork(r, F) PROVE P
  BY <1>0, <1>5 DEF FinishWork, Frame
<1>6. CASE TeardownOk(r)
  BY <1>0, <1>6 DEF TeardownOk, Frame
<1>7. ASSUME NEW d, MarkItem(r, d) PROVE P
  BY <1>0, <1>7 DEF MarkItem, Frame
<1> QED
  BY <1>1, <1>2, <1>3, <1>4, <1>5, <1>6, <1>7 DEF RunStep

\* upsert_provenance_graph in the frame: what was recorded is still to be stored.
LEMMA LedgerWritten ==
    ASSUME TypeOK, NEW r \in Run, NEW S \in SUBSET (Owners(r) \X Slug),
           WriteLedger(r, S)
    PROVE  /\ S \subseteq Key
           /\ frame'[r].prod = frame[r].prod \cup S
           /\ frame[r].graph = {}
           /\ frame'[r].graph = {k[2] : k \in S}
           /\ frame'[r].vector = frame[r].vector \cup {k[2] : k \in S}
           /\ frame'[r].mark = frame[r].mark
<1>0. frame \in [Run -> Frame] /\ frame[r] \in Frame
  BY DEF TypeOK, FrameOK
<1>1. S \subseteq Key
  BY OwnersType DEF Key
<1> DEFINE T == {k[2] : k \in S}
           f == [frame[r] EXCEPT !.prod = @ \cup S, !.graph = T, !.vector = @ \cup T]
<1>2. frame' = [frame EXCEPT ![r] = f] /\ frame[r].graph = {}
  BY DEF WriteLedger
<1> HIDE DEF T
<1>3. /\ f.prod = frame[r].prod \cup S /\ f.graph = T /\ f.vector = frame[r].vector \cup T
      /\ f.mark = frame[r].mark
  BY <1>0 DEF Frame
<1> HIDE DEF f
<1>4. frame'[r] = f
  BY <1>0, <1>2
<1> QED
  BY <1>1, <1>2, <1>3, <1>4 DEF T

\* A tag is that of a run which got to work; a run records what it extracts of
\* its own dataset; and what it has still to store, it has recorded.
WorkInv ==
    /\ \A k \in Key : ledger[k] # NoRun => pc[ledger[k]] \notin Unstarted
    /\ \A r \in Run : \A k \in frame[r].prod :
           pc[r] \notin Unstarted /\ DatasetOf[k[1]] = call[r].ds
    /\ \A r \in Run : \A s \in frame[r].graph \cup frame[r].vector :
           \E k \in frame[r].prod : k[2] = s

\* WorkInv is inductive, given that a run's items are its own.
LEMMA WorkNext ==
    ASSUME TypeOK, ItemsInv, WorkInv, [Next]_vars
    PROVE  WorkInv'
<1>1. ASSUME NEW k \in Key, ledger'[k] # NoRun PROVE pc'[ledger'[k]] \notin Unstarted
  <2>1. PICK t : t = ledger'[k]
    OBVIOUS
  <2>2. t \in Run /\ pc[t] \notin Unstarted
    BY <1>1, <2>1, LedgerKept DEF WorkInv, TypeOK, StoreOK, Unstarted, Early
  <2> QED
    BY <2>1, <2>2, StageKept
<1>2. NoFrame.prod = {} /\ NoFrame.graph = {} /\ NoFrame.vector = {}
  BY DEF NoFrame
<1>3. ASSUME NEW r \in Run, NEW k \in frame'[r].prod
      PROVE  pc'[r] \notin Unstarted /\ DatasetOf[k[1]] = call'[r].ds
  <2>1. pc[r] \notin Unstarted /\ DatasetOf[k[1]] = call[r].ds
    <3>1. CASE k \in frame[r].prod
      BY <3>1 DEF WorkInv
    <3>2. CASE k \notin frame[r].prod
      <4>1. PICK S \in SUBSET (Owners(r) \X Slug) : WriteLedger(r, S)
        BY <1>2, <1>3, <3>2, FrameKept, ProdStep
      <4>2. k \in S
        BY <1>3, <3>2, <4>1, LedgerWritten
      <4>3. k[1] \in Owners(r)
        BY <4>2
      <4> QED
        BY <4>1, <4>3, OwnersInv DEF WriteLedger, Unstarted, Early
    <3> QED
      BY <3>1, <3>2
  <2> QED
    BY <2>1, StageKept, CallKept DEF Unstarted, Early
<1>4. ASSUME NEW r \in Run, NEW s \in frame'[r].graph \cup frame'[r].vector
      PROVE  \E k \in frame'[r].prod : k[2] = s
  <2>1. CASE frame'[r] = frame[r] \/ frame'[r] = NoFrame
    BY <1>2, <1>4, <2>1 DEF WorkInv
  <2>2. CASE \/ /\ frame'[r].prod = frame[r].prod
                /\ frame'[r].graph \subseteq frame[r].graph
                /\ frame'[r].vector \subseteq frame[r].vector
             \/ frame'[r].prod = {} /\ frame'[r].graph = {} /\ frame'[r].vector = {}
    BY <1>4, <2>2 DEF WorkInv
  <2>3. ASSUME NEW S \in SUBSET (Owners(r) \X Slug), WriteLedger(r, S)
        PROVE  \E k \in frame'[r].prod : k[2] = s
    BY <1>4, <2>3, LedgerWritten DEF WorkInv
  <2> QED
    BY <2>1, <2>2, <2>3, FrameKept, ProdStep
<1> QED
  BY <1>1, <1>3, <1>4 DEF WorkInv

\* WorkInv holds of every state.
LEMMA WorkInvariant == Spec => []WorkInv
<1>1. Init => WorkInv
  BY DEF Init, WorkInv, NoFrame
<1>2. TypeOK /\ RowInv /\ WorkInv /\ [Next]_vars => WorkInv'
  BY WorkNext DEF RowInv
<1> QED
  BY <1>1, <1>2, TypeCorrect, RowInvariant, PTL DEF Spec

-----------------------------------------------------------------------------
(* What a sweep under way knows *)

\* A sweep starts at its first phase, and goes on by its own steps.
LEMMA SweepEntered ==
    ASSUME TypeOK, [Next]_vars, NEW a \in Actor, pc'[a] \in SweepPhase, pc'[a] # "items"
    PROVE  SameLocal(a) \/ SweepStep(a)
<1>0. pc \in [Actor -> RunPhase \cup ProcPhase]
  BY DEF TypeOK, PhaseOK
<1> USE DEF SweepPhase, Goto, StartSweep
<1>1. CASE a \in Run /\ RunStep(a)
  <2>1. CASE \/ \E D, s, i : Acquire(a, D, s, i)
             \/ SkipComplete(a) \/ AcquireOwnership(a) \/ WriteStarted(a)
    BY <1>0, <2>1 DEF Acquire, SkipComplete, AcquireOwnership, WriteStarted
  <2>2. CASE \/ \E S : WriteLedger(a, S)
             \/ \E s : WriteGraph(a, s) \/ IndexVector(a, s)
             \/ TaskFails(a)
             \/ \E F : FinishWork(a, F)
    BY <1>0, <2>2 DEF WriteLedger, WriteGraph, IndexVector, TaskFails, FinishWork
  <2>3. CASE WriteCompleted(a) \/ WriteErrored(a)
    BY <1>0, <2>3 DEF WriteCompleted, WriteErrored
  <2>4. CASE TeardownOk(a) \/ TeardownFails(a) \/ AppendErrored(a)
    BY <1>0, <2>4 DEF TeardownOk, TeardownFails, AppendErrored
  <2>5. CASE MarkEnd(a) \/ \E d : MarkItem(a, d)
    BY <1>0, <2>5 DEF MarkEnd, MarkItem
  <2> QED
    BY <1>1, <2>1, <2>2, <2>3, <2>4, <2>5 DEF RunStep
<1>2. CASE OwnershipStep(a)
  BY <1>0, <1>2 DEF OwnershipStep, DropOwnership, Unlink
<1>3. CASE DropFuture(a)
  BY <1>0, <1>3 DEF DropFuture
<1>4. CASE a \in Proc /\ RecoveryStep(a)
  BY <1>0, <1>4
  DEF RecoveryStep, Recover, RecoverSkip, RecoverClaim, Recheck, RecoverClose, RecoverEnd
<1> QED
  BY <1>1, <1>2, <1>3, <1>4, LocalKept

\* From one phase of a sweep to the next.
LEMMA SweepProgress ==
    ASSUME TypeOK, NEW a \in Actor, SweepStep(a),
           pc'[a] \in {"nodes", "graph", "vector", "rows"}
    PROVE  /\ UNCHANGED <<ledger, call, status>>
           /\ pc[a] \in {"items", "nodes", "graph", "vector"}
           /\ pc'[a] = "nodes" => pc[a] = "items"
           /\ sweep'[a].run = sweep[a].run /\ sweep'[a].data = sweep[a].data
           /\ pc[a] = "items" =>
                 /\ pc'[a] = "nodes"
                 /\ sweep'[a].affected = Data \cap {k[1] : k \in Selected(sweep[a])}
           /\ pc[a] # "items" => sweep'[a].affected = sweep[a].affected
           /\ pc[a] = "nodes" =>
                 pc'[a] = "graph" /\ sweep'[a].nodes = UniqueSlugs(sweep[a])
           /\ pc[a] # "nodes" => sweep'[a].nodes = sweep[a].nodes
           /\ pc'[a] = "vector" => SweepGraph(a) /\ ~SweepFail(a)
           /\ pc'[a] = "rows" => SweepVector(a) /\ ~SweepFail(a)
<1>0. /\ sweep[a] \in Sweep /\ sweep \in [Actor -> Sweep]
      /\ pc \in [Actor -> RunPhase \cup ProcPhase]
  BY DEF TypeOK, PhaseOK, SweepOK
<1>1. ~SweepFail(a)
  <2>1. sweep[a].next \in {"drop", "append", "mark", "close"}
    BY <1>0, SweepFields
  <2> QED
    BY <1>0, <2>1 DEF SweepFail, LeaveSweep, Goto
<1>2. ~SweepEnd(a)
  <2>1. sweep[a].next \in {"drop", "append", "mark", "close"}
    BY <1>0, SweepFields
  <2> QED
    BY <1>0, <2>1 DEF SweepEnd, LeaveSweep, Goto
<1> USE DEF storeVars, callVars, Goto
<1>3. ~SweepRows(a) /\ \A d \in Data : ~SweepClear(a, d)
  BY <1>0, <1>1 DEF SweepRows, SweepClear
<1>4. CASE SweepItems(a)
  <2> DEFINE A == Data \cap {k[1] : k \in Selected(sweep[a])}
             w == [sweep[a] EXCEPT !.affected = A]
  <2>1. sweep' = [sweep EXCEPT ![a] = w] /\ pc[a] = "items" /\ pc'[a] = "nodes"
        /\ UNCHANGED <<ledger, call, status>>
    BY <1>0, <1>1, <1>4 DEF SweepItems
  <2> HIDE DEF A
  <2>2. w.run = sweep[a].run /\ w.data = sweep[a].data /\ w.affected = A
        /\ w.nodes = sweep[a].nodes
    BY <1>0 DEF Sweep
  <2> HIDE DEF w
  <2>3. sweep'[a] = w
    BY <1>0, <2>1
  <2> QED
    BY <2>1, <2>2, <2>3 DEF A
<1>5. CASE SweepNodes(a)
  <2> DEFINE N == UniqueSlugs(sweep[a])
             w == [sweep[a] EXCEPT !.nodes = N]
  <2>1. sweep' = [sweep EXCEPT ![a] = w] /\ pc[a] = "nodes" /\ pc'[a] = "graph"
        /\ UNCHANGED <<ledger, call, status>>
    BY <1>0, <1>1, <1>5 DEF SweepNodes
  <2> HIDE DEF N
  <2>2. w.run = sweep[a].run /\ w.data = sweep[a].data /\ w.nodes = N
        /\ w.affected = sweep[a].affected
    BY <1>0 DEF Sweep
  <2> HIDE DEF w
  <2>3. sweep'[a] = w
    BY <1>0, <2>1
  <2> QED
    BY <2>1, <2>2, <2>3 DEF N
<1>6. CASE SweepGraph(a)
  BY <1>0, <1>1, <1>6 DEF SweepGraph
<1>7. CASE SweepVector(a)
  <2> DEFINE w == [sweep[a] EXCEPT !.warned = TRUE]
  <2>1. w.run = sweep[a].run /\ w.data = sweep[a].data /\ w.nodes = sweep[a].nodes
        /\ w.affected = sweep[a].affected
    BY <1>0 DEF Sweep
  <2>2. (UNCHANGED sweep \/ sweep' = [sweep EXCEPT ![a] = w]) /\ pc[a] = "vector"
        /\ pc'[a] = "rows" /\ UNCHANGED <<ledger, call, status>>
    BY <1>0, <1>1, <1>7 DEF SweepVector
  <2> HIDE DEF w
  <2>3. sweep'[a] \in {w, sweep[a]}
    BY <1>0, <2>2
  <2> QED
    BY <1>1, <1>7, <2>1, <2>2, <2>3
<1> QED
  BY <1>1, <1>2, <1>3, <1>4, <1>5, <1>6, <1>7 DEF SweepStep

\* A sweep past its reads has every item it takes rows from on the list to clear,
\* and deletes no artifact that a row it will keep, of its dataset, still names.
SweepInv ==
    \A a \in Actor :
        /\ pc[a] \in {"nodes", "graph", "vector", "rows"} =>
              \A k \in Selected(sweep[a]) : k[1] \in Data => k[1] \in sweep[a].affected
        /\ pc[a] \in {"graph", "vector", "rows"} =>
              \A k \in Key : /\ DatasetOf[k[1]] = call[sweep[a].run].ds
                             /\ k[2] \in sweep[a].nodes
                             /\ ledger[k] # NoRun
                             => k \in Selected(sweep[a])

\* While its dataset's rows stay, a sweep's selection stays.
LEMMA SelectedKept ==
    ASSUME TypeOK, MarkerInv, [Next]_vars, NEW a \in Actor, pc[a] \in SweepPhase,
           sweep'[a].run = sweep[a].run, sweep'[a].data = sweep[a].data,
           \A k \in Key : DatasetOf[k[1]] = call[sweep[a].run].ds => ledger'[k] = ledger[k]
    PROVE  /\ call'[sweep[a].run] = call[sweep[a].run]
           /\ Selected(sweep[a])' = Selected(sweep[a])
<1>1. sweep[a].run \in Run /\ pc[sweep[a].run] # "idle"
  BY BusyPhases, ConstantsAssumption
  DEF TypeOK, SweepOK, MarkerInv, RecoveryOnlyDead, Over, Claimed, SweepPhase, Actor
<1>2. call'[sweep[a].run] = call[sweep[a].run]
  BY <1>1, CallKept
<1>3. \A k \in Key : k \in Selected(sweep[a])' <=> k \in Selected(sweep[a])
  BY <1>2 DEF Selected
<1>4. Selected(sweep[a])' \subseteq Key /\ Selected(sweep[a]) \subseteq Key
  BY DEF Selected
<1> QED
  BY <1>2, <1>3, <1>4

\* SweepInv is inductive when the dataset locks exclude everybody else.
LEMMA SweepNext ==
    ASSUME TypeOK, MarkerInv, LockInv, ItemsInv, OneProcess, SweepInv, [Next]_vars
    PROVE  SweepInv'
<1> SUFFICES ASSUME NEW a \in Actor, pc'[a] \in {"nodes", "graph", "vector", "rows"}
             PROVE  /\ \A k \in Selected(sweep[a])' :
                          k[1] \in Data => k[1] \in sweep'[a].affected
                    /\ pc'[a] \in {"graph", "vector", "rows"} =>
                          \A k \in Key : /\ DatasetOf[k[1]] = call'[sweep'[a].run].ds
                                         /\ k[2] \in sweep'[a].nodes
                                         /\ ledger'[k] # NoRun
                                         => k \in Selected(sweep[a])'
  BY DEF SweepInv
<1>1. CASE SweepStep(a)
  <2>1. pc[a] \in SweepPhase
    BY <1>1, SweepMovesSteps DEF SweepMoves
  <2>2. /\ UNCHANGED <<ledger, call>>
        /\ sweep'[a].run = sweep[a].run /\ sweep'[a].data = sweep[a].data
    BY <1>1, SweepProgress
  <2>3. Selected(sweep[a])' = Selected(sweep[a])
    BY <2>1, <2>2, SelectedKept
  <2>4. /\ pc[a] \in {"items", "nodes", "graph", "vector"}
        /\ pc'[a] \in {"graph", "vector", "rows"} => pc[a] # "items"
    BY <1>1, SweepProgress
  <2>5. \A k \in Selected(sweep[a])' : k[1] \in Data => k[1] \in sweep'[a].affected
    <3>1. CASE pc[a] = "items"
      BY <1>1, <2>3, <3>1, SweepProgress
    <3>2. CASE pc[a] # "items"
      BY <1>1, <2>3, <2>4, <3>2, SweepProgress DEF SweepInv
    <3> QED
      BY <3>1, <3>2
  <2>6. ASSUME pc'[a] \in {"graph", "vector", "rows"}, NEW k \in Key,
               DatasetOf[k[1]] = call'[sweep'[a].run].ds, k[2] \in sweep'[a].nodes,
               ledger'[k] # NoRun
        PROVE  k \in Selected(sweep[a])'
    <3>1. CASE pc[a] = "nodes"
      <4>1. k[2] \in UniqueSlugs(sweep[a]) /\ ledger[k] # NoRun
        BY <1>1, <2>2, <2>6, <3>1, SweepProgress
      <4> QED
        BY <2>3, <4>1 DEF UniqueSlugs
    <3>2. CASE pc[a] # "nodes"
      <4>1. pc[a] \in {"graph", "vector"} /\ sweep'[a].nodes = sweep[a].nodes
        BY <1>1, <2>4, <2>6, <3>2, SweepProgress
      <4> QED
        BY <2>2, <2>3, <2>6, <4>1 DEF SweepInv
    <3> QED
      BY <3>1, <3>2
  <2> QED
    BY <2>5, <2>6
<1>2. CASE SameLocal(a) /\ ~SweepStep(a)
  <2>1. pc[a] = pc'[a] /\ sweep'[a] = sweep[a] /\ pc[a] \in SweepPhase
    BY <1>2 DEF SameLocal, SweepPhase
  <2>2. Busy(a) /\ DatasetOfActor(a) = call[sweep[a].run].ds
    BY <2>1, BusyPhases
  <2>3. \A k \in Key : DatasetOf[k[1]] = call[sweep[a].run].ds => ledger'[k] = ledger[k]
    BY <1>2, <2>1, <2>2, RowsAlone, RunNotSweeping
  <2>4. /\ call'[sweep[a].run] = call[sweep[a].run]
        /\ Selected(sweep[a])' = Selected(sweep[a])
    BY <2>1, <2>3, SelectedKept
  <2> QED
    BY <2>1, <2>3, <2>4 DEF SweepInv
<1> QED
  BY <1>1, <1>2, SweepEntered DEF SweepPhase

\* Recovery rolls back only runs that are still STARTED.
RecoverInv == \A p \in Proc : pc[p] \in SweepPhase => status[sweep[p].run] = "STARTED"

\* RecoverInv is inductive, because one recovery at a time works on a run.
LEMMA RecoverNext ==
    ASSUME TypeOK, MarkerInv, RecoverInv, [Next]_vars
    PROVE  RecoverInv'
<1> SUFFICES ASSUME NEW p \in Proc, pc'[p] \in SweepPhase
             PROVE  status'[sweep'[p].run] = "STARTED"
  BY DEF RecoverInv
<1>0. p \in Actor /\ p \notin Run /\ pc \in [Actor -> RunPhase \cup ProcPhase]
      /\ sweep \in [Actor -> Sweep]
  BY ConstantsAssumption DEF TypeOK, PhaseOK, SweepOK, Actor
<1>1. ASSUME SweepStep(p) PROVE status'[sweep'[p].run] = "STARTED"
  <2>1. pc[p] \in SweepPhase /\ sweep'[p].run = sweep[p].run
    BY <1>0, <1>1, SweepMovesSteps DEF SweepMoves
  <2>2. UNCHANGED status
    BY <1>1
    DEF SweepStep, SweepItems, SweepNodes, SweepGraph, SweepVector, SweepRows,
        SweepClear, SweepEnd
  <2> QED
    BY <2>1, <2>2 DEF RecoverInv
<1>2. ASSUME Recheck(p) PROVE status'[sweep'[p].run] = "STARTED"
  <2> DEFINE w == [NoSweep EXCEPT !.run = sweep[p].run, !.data = Owner, !.next = "close"]
  <2>1. w.run = sweep[p].run
    BY DEF NoSweep
  <2>2. pc'[p] # "drop"
    BY DEF SweepPhase
  <2>3. sweep' = [sweep EXCEPT ![p] = w] /\ status[sweep[p].run] = "STARTED"
        /\ UNCHANGED status
    BY <1>0, <1>2, <2>2 DEF Recheck, StartSweep, Goto
  <2> HIDE DEF w
  <2> QED
    BY <1>0, <2>1, <2>3
<1>3. ASSUME SameLocal(p) PROVE status'[sweep'[p].run] = "STARTED"
  <2>1. pc[p] \in SweepPhase /\ sweep'[p] = sweep[p] /\ pc[p] \in Claimed \ {"unlink"}
    BY <1>3 DEF SameLocal, Claimed, SweepPhase
  <2>2. sweep[p].run \in Run /\ pc[sweep[p].run] \in Over /\ flock[sweep[p].run] = p
    BY <2>1 DEF TypeOK, SweepOK, MarkerInv, RecoveryOnlyDead
  <2>3. ASSUME NEW q \in Proc, pc[q] = "close", sweep[q].run = sweep[p].run PROVE FALSE
    <3>1. flock[sweep[q].run] = q
      BY <2>3 DEF MarkerInv, Claimed
    <3> QED
      BY <2>1, <2>2, <2>3, <3>1 DEF SweepPhase
  <2>4. status'[sweep[p].run] = status[sweep[p].run]
    BY <2>2, <2>3, ErroredKept
  <2> QED
    BY <2>1, <2>4 DEF RecoverInv
<1>4. ~OwnershipStep(p)
  BY <1>0 DEF OwnershipStep, DropOwnership, Unlink, Goto, SweepPhase
<1>5. RecoveryStep(p) => Recheck(p)
  BY <1>0
  DEF RecoveryStep, Recover, RecoverSkip, RecoverClaim, RecoverClose, RecoverEnd,
      Goto, SweepPhase
<1> QED
  BY <1>0, <1>1, <1>2, <1>3, <1>4, <1>5, LocalKept DEF SweepPhase

-----------------------------------------------------------------------------
(* What a run marks complete is stored *)

Home(d) == StoreOf[DatasetOf[d]]

Live       == {"work", "complete", "error", "teardown"}
Marking(r) == pc[r] = "mark" \/ (pc[r] \in SweepPhase /\ sweep[r].next = "mark")

\* What the run still answers for: all it has extracted, and, once its pipeline
\* has succeeded, the rows of its dataset and of the items it will mark.
Due(r) ==
    {k \in frame[r].prod :
        \/ pc[r] \in Live
        \/ Marking(r) /\ k[1] \in frame[r].mark \cup {call[r].ds}}

Stored(r, k) ==
    /\ ledger[k] # NoRun
    /\ k[2] \in frame[r].graph \/ <<Home(k[1]), k[2]>> \in graph
    /\ k[2] \in frame[r].vector \/ <<Home(k[1]), k[2]>> \in vector

\* All of that is recorded, and stored or about to be; and the sweep before the
\* marking is of other items.
StoredInv ==
    \A r \in Run :
        /\ \A k \in Due(r) : Stored(r, k)
        /\ Marking(r) => AllWritten(r)
        /\ Marking(r) /\ pc[r] # "mark" =>
              \A d \in frame[r].mark \cup {call[r].ds} : d \notin sweep[r].data

\* Nothing a run answers for is taken away, not even by its own sweep.
LEMMA DueKept ==
    ASSUME TypeOK, MarkerInv, LockInv, ItemsInv, OneProcess, OwnStores, WorkInv,
           SweepInv, StoredInv, [Next]_vars, NEW r \in Run, NEW k \in Due(r), NEW x,
           x = <<Home(k[1]), k[2]>>
    PROVE  /\ k \in Key /\ Home(k[1]) = StoreFor(r)
           /\ ledger'[k] # NoRun
           /\ x \in graph => x \in graph'
           /\ x \in vector => x \in vector'
<1>1. k \in Key /\ k \in frame[r].prod
  BY FrameFields DEF Due, TypeOK, FrameOK
<1>2. pc[r] \in Owning /\ r \in Actor
  BY DEF Due, Live, Marking, Owning, Actor
<1>3. Busy(r) /\ DatasetOfActor(r) = call[r].ds
  BY <1>2, BusyPhases
<1>4. DatasetOf[k[1]] = DatasetOfActor(r) /\ ledger[k] # NoRun /\ k[2] \in Slug
  BY <1>1, <1>3 DEF WorkInv, StoredInv, Stored, Key
<1>5. ASSUME SweepStep(r) PROVE k \notin Selected(sweep[r]) /\ pc[r] \in SweepPhase
  <2>1. pc[r] \in SweepPhase
    BY <1>2, <1>5, SweepMovesSteps DEF SweepMoves
  <2>2. Marking(r) /\ pc[r] # "mark" /\ k[1] \in frame[r].mark \cup {call[r].ds}
    BY <2>1 DEF Due, Marking, Live, SweepPhase
  <2> QED
    BY <2>1, <2>2 DEF StoredInv, Selected
<1>6. ASSUME pc[r] \in {"graph", "vector"}, k[2] \in sweep[r].nodes, SweepStep(r) PROVE FALSE
  <2>1. sweep[r].run = r
    BY <1>6 DEF TypeOK, SweepOK, SweepPhase
  <2> QED
    BY <1>1, <1>2, <1>3, <1>4, <1>5, <1>6, <2>1 DEF SweepInv
<1>7. ledger'[k] # NoRun
  BY <1>1, <1>2, <1>3, <1>4, <1>5, RowsAlone
<1>8. x = <<StoreOf[DatasetOfActor(r)], k[2]>>
  BY <1>4 DEF Home
<1>9. (x \in graph => x \in graph') /\ (x \in vector => x \in vector')
  BY <1>2, <1>3, <1>4, <1>6, <1>8, ArtifactsAlone
<1> QED
  BY <1>1, <1>3, <1>4, <1>7, <1>9 DEF Home, StoreFor

\* A run stays true to StoredInv if it answers for no more than before, and what
\* leaves its frame is in the stores.
LEMMA StoredStays ==
    ASSUME TypeOK, MarkerInv, LockInv, ItemsInv, OneProcess, OwnStores, WorkInv,
           SweepInv, StoredInv, [Next]_vars, NEW r \in Run,
           Due(r)' \subseteq Due(r),
           \A k \in Due(r) :
               /\ k[2] \in frame[r].graph =>
                      k[2] \in frame'[r].graph \/ <<Home(k[1]), k[2]>> \in graph'
               /\ k[2] \in frame[r].vector =>
                      k[2] \in frame'[r].vector \/ <<Home(k[1]), k[2]>> \in vector'
    PROVE  \A k \in Due(r)' : Stored(r, k)'
<1> SUFFICES ASSUME NEW k \in Due(r)' PROVE Stored(r, k)'
  OBVIOUS
<1>1. k \in Due(r) /\ Stored(r, k)
  BY DEF StoredInv
<1>2. /\ ledger'[k] # NoRun
      /\ <<Home(k[1]), k[2]>> \in graph => <<Home(k[1]), k[2]>> \in graph'
      /\ <<Home(k[1]), k[2]>> \in vector => <<Home(k[1]), k[2]>> \in vector'
  BY <1>1, DueKept
<1> QED
  BY <1>1, <1>2 DEF Stored, Home

\* A step of cognify is one of a run that was called.
LEMMA RunAtWork ==
    ASSUME NEW r \in Run, RunStep(r) PROVE pc[r] # "idle"
BY DEF RunStep, Acquire, SkipComplete, AcquireOwnership, WriteStarted, WriteLedger,
       WriteGraph, IndexVector, TaskFails, FinishWork, WriteCompleted, WriteErrored,
       TeardownOk, TeardownFails, AppendErrored, MarkItem, MarkEnd

\* The steps of cognify keep StoredInv for the run that takes them.
LEMMA StoredOwn ==
    ASSUME TypeOK, MarkerInv, LockInv, ItemsInv, OneProcess, OwnStores, WorkInv,
           SweepInv, StoredInv, [Next]_vars, NEW r \in Run, RunStep(r)
    PROVE  /\ \A k \in Due(r)' : Stored(r, k)'
           /\ Marking(r)' => AllWritten(r)'
           /\ Marking(r)' /\ pc'[r] # "mark" =>
                 \A d \in frame'[r].mark \cup {call'[r].ds} : d \notin sweep'[r].data
<1> DEFINE Goal == /\ \A k \in Due(r)' : Stored(r, k)'
                   /\ Marking(r)' => AllWritten(r)'
                   /\ Marking(r)' /\ pc'[r] # "mark" =>
                         \A d \in frame'[r].mark \cup {call'[r].ds} : d \notin sweep'[r].data
<1>0. /\ pc \in [Actor -> RunPhase \cup ProcPhase] /\ r \in Actor
      /\ frame \in [Run -> Frame] /\ frame[r] \in Frame
      /\ sweep \in [Actor -> Sweep]
  BY DEF TypeOK, PhaseOK, FrameOK, SweepOK, Actor
<1>c. call'[r] = call[r]
  BY RunAtWork, CallKept
<1>q. ASSUME pc'[r] \notin Live \cup SweepPhase \cup {"mark"} PROVE Goal
  BY <1>q DEF Due, Marking
<1>i. ASSUME NEW D, NEW n, StartSweep(r, r, D, n)
      PROVE  pc'[r] = "items" /\ sweep'[r].next = n /\ sweep'[r].data = D
  <2> DEFINE w == [NoSweep EXCEPT !.run = r, !.data = D, !.next = n]
  <2>1. w.next = n /\ w.data = D
    BY DEF NoSweep
  <2>2. sweep' = [sweep EXCEPT ![r] = w] /\ pc' = [pc EXCEPT ![r] = "items"]
    BY <1>i DEF StartSweep, Goto
  <2> HIDE DEF w
  <2> QED
    BY <1>0, <2>1, <2>2
<1>n. ASSUME pc'[r] = "items", sweep'[r].next # "mark" PROVE Goal
  BY <1>n DEF Due, Marking, Live, SweepPhase
<1>l. ASSUME pc'[r] \in Live PROVE ~Marking(r)'
  BY <1>l DEF Marking, Live, SweepPhase
<1> USE DEF Goto
<1>1. CASE \/ \E D, s, i : Acquire(r, D, s, i)
           \/ SkipComplete(r) \/ AcquireOwnership(r) \/ AppendErrored(r) \/ MarkEnd(r)
  BY <1>0, <1>1, <1>q
  DEF Acquire, SkipComplete, AcquireOwnership, AppendErrored, MarkEnd, Live, SweepPhase
<1>2. CASE WriteStarted(r)
  <2>1. frame[r].prod = {}
    BY <1>2 DEF WorkInv, WriteStarted, Unstarted
  <2>2. frame'[r].prod = {} /\ pc'[r] \in Live
    BY <1>0, <1>2, <2>1 DEF WriteStarted, callVars, Live
  <2> QED
    BY <1>l, <2>2 DEF Due
<1>3. ASSUME pc[r] \in Live, pc'[r] \in Live, frame'[r].prod = frame[r].prod,
             frame'[r].graph = frame[r].graph, frame'[r].vector = frame[r].vector
      PROVE  Goal
  <2>1. Due(r)' \subseteq Due(r)
    BY <1>3 DEF Due
  <2>2. \A k \in Due(r)' : Stored(r, k)'
    BY <1>3, <2>1, StoredStays
  <2> QED
    BY <1>3, <1>l, <2>2
<1>4. CASE TaskFails(r)
  BY <1>0, <1>3, <1>4 DEF TaskFails, callVars, Live
<1>5. ASSUME NEW F, FinishWork(r, F) PROVE Goal
  <2>1. /\ frame'[r].prod = frame[r].prod /\ frame'[r].graph = frame[r].graph
        /\ frame'[r].vector = frame[r].vector
    BY <1>0, <1>5 DEF FinishWork, Frame
  <2> QED
    BY <1>0, <1>3, <1>5, <2>1 DEF FinishWork, Live
<1>6. CASE WriteCompleted(r)
  <2>1. pc[r] \in Live /\ frame'[r] = frame[r]
    BY <1>6 DEF WriteCompleted, callVars, Live
  <2>2. pc'[r] \in Live \/ pc'[r] = "drop"
    BY <1>0, <1>6 DEF WriteCompleted, Live
  <2> QED
    BY <1>3, <1>q, <2>1, <2>2 DEF Live, SweepPhase
<1>7. CASE WriteErrored(r) \/ TeardownFails(r)
  <2>1. \/ pc'[r] \in {"drop", "append"}
        \/ StartSweep(r, r, Owner, "drop") \/ StartSweep(r, r, Owner, "append")
    BY <1>0, <1>7 DEF WriteErrored, TeardownFails
  <2> QED
    BY <1>q, <1>i, <1>n, <2>1 DEF Live, SweepPhase
<1>8. ASSUME NEW s \in Slug, WriteGraph(r, s) PROVE Goal
  <2>1. /\ frame'[r].prod = frame[r].prod /\ frame'[r].graph = frame[r].graph \ {s}
        /\ frame'[r].vector = frame[r].vector
    BY <1>0, <1>8 DEF WriteGraph, Frame
  <2>2. pc[r] \in Live /\ pc'[r] \in Live
    BY <1>8 DEF WriteGraph, Live
  <2>3. Due(r)' \subseteq Due(r)
    BY <2>1, <2>2 DEF Due
  <2>4. \A k \in Due(r) : k[2] \in frame[r].graph =>
            k[2] \in frame'[r].graph \/ <<Home(k[1]), k[2]>> \in graph'
    <3>1. <<StoreFor(r), s>> \in graph'
      BY <1>8 DEF WriteGraph
    <3>2. \A k \in Due(r) : Home(k[1]) = StoreFor(r)
      BY DueKept
    <3> QED
      BY <2>1, <3>1, <3>2
  <2>5. \A k \in Due(r)' : Stored(r, k)'
    BY <2>1, <2>3, <2>4, StoredStays
  <2> QED
    BY <1>l, <2>2, <2>5
<1>9. ASSUME NEW s \in Slug, IndexVector(r, s) PROVE Goal
  <2>1. /\ frame'[r].prod = frame[r].prod /\ frame'[r].graph = frame[r].graph
        /\ frame'[r].vector = frame[r].vector \ {s}
    BY <1>0, <1>9 DEF IndexVector, Frame
  <2>2. pc[r] \in Live /\ pc'[r] \in Live
    BY <1>9 DEF IndexVector, Live
  <2>3. Due(r)' \subseteq Due(r)
    BY <2>1, <2>2 DEF Due
  <2>4. \A k \in Due(r) : k[2] \in frame[r].vector =>
            k[2] \in frame'[r].vector \/ <<Home(k[1]), k[2]>> \in vector'
    <3>1. <<StoreFor(r), s>> \in vector'
      BY <1>9 DEF IndexVector
    <3>2. \A k \in Due(r) : Home(k[1]) = StoreFor(r)
      BY DueKept
    <3> QED
      BY <2>1, <3>1, <3>2
  <2>5. \A k \in Due(r)' : Stored(r, k)'
    BY <2>1, <2>3, <2>4, StoredStays
  <2> QED
    BY <1>l, <2>2, <2>5
<1>10. ASSUME NEW S \in SUBSET (Owners(r) \X Slug), WriteLedger(r, S) PROVE Goal
  <2>1. /\ S \subseteq Key
        /\ frame'[r].prod = frame[r].prod \cup S
        /\ frame[r].graph = {}
        /\ frame'[r].graph = {k[2] : k \in S}
        /\ frame'[r].vector = frame[r].vector \cup {k[2] : k \in S}
    BY <1>10, LedgerWritten
  <2>2. pc[r] \in Live /\ pc'[r] \in Live
    BY <1>10 DEF WriteLedger, Live
  <2>3. ASSUME NEW k \in Due(r)' PROVE Stored(r, k)'
    <3>1. CASE k \in S
      <4>1. ledger'[k] # NoRun
        BY <1>10, <2>1, <3>1, ConstantsAssumption DEF WriteLedger
      <4> QED
        BY <2>1, <3>1, <4>1 DEF Stored
    <3>2. CASE k \notin S
      <4>1. k \in Due(r)
        BY <2>1, <2>2, <2>3, <3>2 DEF Due
      <4>2. Stored(r, k)
        BY <4>1 DEF StoredInv
      <4>3. /\ ledger'[k] # NoRun
            /\ <<Home(k[1]), k[2]>> \in graph => <<Home(k[1]), k[2]>> \in graph'
            /\ <<Home(k[1]), k[2]>> \in vector => <<Home(k[1]), k[2]>> \in vector'
        BY <4>1, DueKept
      <4> QED
        BY <2>1, <4>2, <4>3 DEF Stored, Home
    <3> QED
      BY <3>1, <3>2
  <2> QED
    BY <1>l, <2>2, <2>3
<1>11. CASE TeardownOk(r)
  <2> DEFINE M == IF frame[r].incr THEN frame[r].items \ frame[r].failed ELSE {}
  <2>1. frame' = [frame EXCEPT ![r].mark = M] /\ AllWritten(r) /\ pc[r] = "teardown"
    BY <1>11 DEF TeardownOk
  <2>2. \A d \in M \cup {call[r].ds} : d \notin frame[r].failed
    <3>1. call[r].ds \in Dataset
      BY <2>1, ConstantsAssumption DEF TypeOK, CallOK, NoCall
    <3> QED
      BY <1>0, <3>1, FrameFields, ConstantsAssumption
  <2>3. \/ pc'[r] = "mark"
        \/ StartSweep(r, r, frame[r].failed, "mark")
    BY <1>0, <1>11 DEF TeardownOk
  <2> HIDE DEF M
  <2>4. /\ frame'[r].prod = frame[r].prod /\ frame'[r].graph = frame[r].graph
        /\ frame'[r].vector = frame[r].vector /\ frame'[r].mark = M
    BY <1>0, <2>1 DEF Frame
  <2>5. pc'[r] = "mark" \/ (pc'[r] = "items" /\ sweep'[r].data = frame[r].failed)
    BY <1>i, <2>3
  <2>6. Due(r)' \subseteq Due(r)
    BY <2>1, <2>4 DEF Due, Live
  <2>7. \A k \in Due(r)' : Stored(r, k)'
    BY <2>4, <2>6, StoredStays
  <2>8. AllWritten(r)'
    BY <2>1, <2>4 DEF AllWritten
  <2> QED
    BY <1>c, <2>2, <2>4, <2>5, <2>7, <2>8
<1>12. ASSUME NEW d, MarkItem(r, d) PROVE Goal
  <2>1. /\ frame'[r].prod = frame[r].prod /\ frame'[r].graph = frame[r].graph
        /\ frame'[r].vector = frame[r].vector /\ frame'[r].mark = frame[r].mark \ {d}
    BY <1>0, <1>12 DEF MarkItem, Frame
  <2>2. pc[r] = "mark" /\ pc'[r] = "mark"
    BY <1>12 DEF MarkItem
  <2>3. Due(r)' \subseteq Due(r)
    BY <1>c, <2>1, <2>2 DEF Due, Marking, Live
  <2>4. \A k \in Due(r)' : Stored(r, k)'
    BY <2>1, <2>3, StoredStays
  <2>5. AllWritten(r)'
    BY <2>1, <2>2 DEF AllWritten, StoredInv, Marking
  <2> QED
    BY <2>2, <2>4, <2>5
<1> QED
  BY <1>1, <1>2, <1>4, <1>5, <1>6, <1>7, <1>8, <1>9, <1>10, <1>11, <1>12 DEF RunStep

\* StoredInv is inductive when nobody else is at work on the dataset.
LEMMA StoredNext ==
    ASSUME TypeOK, MarkerInv, LockInv, ItemsInv, OneProcess, OwnStores, WorkInv,
           SweepInv, StoredInv, [Next]_vars
    PROVE  StoredInv'
<1> SUFFICES ASSUME NEW r \in Run
             PROVE  /\ \A k \in Due(r)' : Stored(r, k)'
                    /\ Marking(r)' => AllWritten(r)'
                    /\ Marking(r)' /\ pc'[r] # "mark" =>
                          \A d \in frame'[r].mark \cup {call'[r].ds} : d \notin sweep'[r].data
  BY DEF StoredInv
<1> DEFINE Goal == /\ \A k \in Due(r)' : Stored(r, k)'
                   /\ Marking(r)' => AllWritten(r)'
                   /\ Marking(r)' /\ pc'[r] # "mark" =>
                         \A d \in frame'[r].mark \cup {call'[r].ds} : d \notin sweep'[r].data
<1>0. /\ pc \in [Actor -> RunPhase \cup ProcPhase] /\ r \in Actor /\ r \notin Proc
      /\ sweep \in [Actor -> Sweep]
  BY ConstantsAssumption DEF TypeOK, PhaseOK, SweepOK, Actor
<1>c. Marking(r) => call'[r] = call[r]
  BY CallKept DEF Marking, SweepPhase
<1>1. CASE RunStep(r)
  BY <1>1, StoredOwn
<1>2. ASSUME frame'[r] = frame[r], Due(r)' \subseteq Due(r), Marking(r)' => Marking(r),
             Marking(r)' /\ pc'[r] # "mark" =>
                 pc[r] # "mark" /\ sweep'[r].data = sweep[r].data
      PROVE  Goal
  <2>1. \A k \in Due(r)' : Stored(r, k)'
    BY <1>2, StoredStays
  <2>2. Marking(r)' => AllWritten(r)'
    BY <1>2 DEF StoredInv, AllWritten
  <2>3. Marking(r)' /\ pc'[r] # "mark" =>
            \A d \in frame'[r].mark \cup {call'[r].ds} : d \notin sweep'[r].data
    BY <1>c, <1>2 DEF StoredInv
  <2> QED
    BY <2>1, <2>2, <2>3
<1>3. CASE SameLocal(r)
  <2>1. /\ frame'[r] = frame[r] /\ Due(r)' \subseteq Due(r)
        /\ Marking(r)' => Marking(r)
        /\ pc'[r] = pc[r] /\ sweep'[r].data = sweep[r].data
    BY <1>c, <1>3 DEF SameLocal, Due, Marking
  <2> QED
    BY <1>2, <2>1
<1>4. CASE SweepStep(r)
  <2>1. pc[r] \in SweepPhase /\ sweep[r].next \in {"drop", "append", "mark", "close"}
    BY <1>0, <1>4, SweepMovesSteps, SweepFields DEF SweepMoves
  <2>2. frame'[r] = frame[r]
    BY <1>4
    DEF SweepStep, SweepItems, SweepNodes, SweepGraph, SweepVector, SweepRows,
        SweepClear, SweepEnd, callVars
  <2>3. \/ pc'[r] = sweep[r].next
        \/ /\ pc'[r] \in SweepPhase /\ sweep'[r].next = sweep[r].next
           /\ sweep'[r].data = sweep[r].data
    <3>1. CASE SweepFail(r) \/ SweepEnd(r)
      BY <1>0, <3>1 DEF SweepFail, SweepEnd, LeaveSweep, Goto
    <3>2. pc'[r] \in SweepPhase => sweep'[r].data = sweep[r].data
      BY <1>0, <1>4, SweepMovesSteps DEF SweepMoves
    <3> QED
      BY <1>0, <1>4, <3>1, <3>2, SweepFlow
  <2>4. pc[r] # "mark" /\ (Marking(r)' => Marking(r)) /\ pc'[r] \notin Live
    BY <2>1, <2>3 DEF Marking, SweepPhase, Live
  <2>5. Due(r)' \subseteq Due(r)
    BY <1>c, <2>2, <2>4 DEF Due
  <2>6. Marking(r)' /\ pc'[r] # "mark" => sweep'[r].data = sweep[r].data
    BY <2>1, <2>3 DEF Marking, SweepPhase
  <2> QED
    BY <1>2, <2>2, <2>4, <2>5, <2>6
<1>5. ASSUME pc'[r] \notin Live \cup SweepPhase \cup {"mark"} PROVE Goal
  BY <1>5 DEF Due, Marking
<1>6. CASE OwnershipStep(r) \/ DropFuture(r)
  <2>1. pc'[r] \in {"unlink", "done", "dropped"}
    BY <1>0, <1>6 DEF OwnershipStep, DropOwnership, Unlink, DropFuture, Goto
  <2> QED
    BY <1>5, <2>1 DEF Live, SweepPhase
<1>7. CASE pc'[r] \in {"wait", "idle", "done", "dropped", "dead"}
  BY <1>5, <1>7 DEF Live, SweepPhase
<1> QED
  BY <1>0, <1>1, <1>3, <1>4, <1>6, <1>7, LocalKept

-----------------------------------------------------------------------------
(* A marked item has what its marker vouches for *)

\* All that d's marker vouches for is of d or of its dataset, stored, and recorded
\* by runs that will sweep no more; a row of the dataset by one that no recovery
\* will come back for.
BackedOver(d) ==
    \A k \in vouched[d] :
        /\ k[1] \in {d} \cup Dataset /\ Home(k[1]) = Home(d)
        /\ ledger[k] # NoRun /\ pc[ledger[k]] \in Past
        /\ k[1] \in Dataset => status[ledger[k]] # "STARTED"
        /\ <<Home(d), k[2]>> \in graph /\ <<Home(d), k[2]>> \in vector

\* Somebody will still clear d's marker: a sweep that has come to the markers, or
\* the recovery of a dead run with rows for d.
Excused(d) ==
    \/ \E a \in Actor : pc[a] = "clear" /\ d \in sweep[a].affected
    \/ \E s \in Slug : /\ ledger[<<d, s>>] # NoRun
                       /\ pc[ledger[<<d, s>>]] \in Over
                       /\ status[ledger[<<d, s>>]] = "STARTED"

MarkInv == \A d \in marked \ stranded : BackedOver(d) \/ Excused(d)

\* mark_complete is where markers come from; what one vouches for then stays.
LEMMA MarkedKept ==
    ASSUME TypeOK, [Next]_vars, NEW d \in marked' \ stranded'
    PROVE  \/ d \in marked \ stranded /\ vouched'[d] = vouched[d]
           \/ \E r \in Run : /\ MarkItem(r, d)
                             /\ vouched'[d] = VouchedFor(r, d)
<1> DEFINE Kept == d \in marked \ stranded /\ vouched'[d] = vouched[d]
           Made == \E r \in Run : /\ MarkItem(r, d)
                                  /\ vouched'[d] = VouchedFor(r, d)
<1>0. vouched \in [Data -> SUBSET Key] /\ marked \subseteq Data
  BY DEF TypeOK, StoreOK
<1> USE DEF storeVars
<1>1. ASSUME NEW r \in Run, NEW e \in Data, MarkItem(r, e) PROVE Kept \/ Made
  <2>1. CASE UNCHANGED <<marked, vouched, stranded>>
    BY <2>1
  <2>2. CASE ~UNCHANGED <<marked, vouched, stranded>>
    <3>1. /\ marked' = marked \cup {e} /\ stranded' = stranded \ {e}
          /\ vouched' = [vouched EXCEPT ![e] = VouchedFor(r, e)]
      BY <1>1, <2>2 DEF MarkItem
    <3>2. CASE e = d
      BY <1>0, <1>1, <3>1, <3>2
    <3>3. CASE e # d
      BY <1>0, <3>1, <3>3
    <3> QED
      BY <3>2, <3>3
  <2> QED
    BY <2>1, <2>2
<1>2. ASSUME NEW a \in Actor, NEW e \in Data, SweepClear(a, e) PROVE Kept
  BY <1>0, <1>2 DEF SweepClear
<1>3. ASSUME NEW r \in Run, RunStep(r) PROVE Kept \/ Made
  BY <1>1, <1>3
  DEF RunStep, Acquire, SkipComplete, AcquireOwnership, WriteStarted, WriteLedger,
      WriteGraph, IndexVector, TaskFails, FinishWork, WriteCompleted, WriteErrored,
      TeardownOk, TeardownFails, AppendErrored, MarkEnd
<1>4. ASSUME NEW a \in Actor, SweepStep(a) PROVE Kept
  BY <1>2, <1>4
  DEF SweepStep, SweepItems, SweepNodes, SweepGraph, SweepVector, SweepRows, SweepEnd
<1>5. ASSUME NEW p \in Proc, RecoveryStep(p) \/ Start(p) PROVE Kept
  BY <1>5
  DEF RecoveryStep, Recover, RecoverSkip, RecoverClaim, Recheck, RecoverClose,
      RecoverEnd, Start
<1>6. ASSUME \/ \E p \in Proc : Crash(p)
             \/ \E r \in Run : DropFuture(r)
      PROVE  Kept
  <2>1. UNCHANGED <<marked, vouched>>
    BY <1>6 DEF Crash, DropFuture
  <2>2. \E Dead : Forget(Dead)
    BY <1>6 DEF Crash, DropFuture
  <2>3. stranded \subseteq stranded'
    BY <2>2 DEF Forget
  <2> QED
    BY <2>1, <2>3
<1>7. ASSUME \/ UNCHANGED vars
             \/ \E a \in Actor : OwnershipStep(a)
             \/ \E r \in Run, p \in Proc, ds \in Dataset : Call(r, p, ds)
      PROVE  Kept
  BY <1>7 DEF vars, OwnershipStep, DropOwnership, Unlink, Call
<1> QED
  BY <1>3, <1>4, <1>5, <1>6, <1>7 DEF Next, Quiet

\* An item on the list of markers to clear stays there until its marker is
\* cleared, or the clearing fails or is cut off.
LEMMA ClearKept ==
    ASSUME TypeOK, [Next]_vars, NEW d \in marked' \ stranded', NEW a \in Actor,
           pc[a] = "clear", d \in sweep[a].affected
    PROVE  pc'[a] = "clear" /\ d \in sweep'[a].affected
<1>0. /\ pc \in [Actor -> RunPhase \cup ProcPhase] /\ sweep \in [Actor -> Sweep]
      /\ sweep[a] \in Sweep
  BY DEF TypeOK, PhaseOK, SweepOK
<1>1. CASE SameLocal(a)
  BY <1>1 DEF SameLocal
<1>2. CASE SweepStep(a)
  <2>1. PICK e \in Data : SweepClear(a, e)
    BY <1>2
    DEF SweepStep, SweepItems, SweepNodes, SweepGraph, SweepVector, SweepRows, SweepEnd
  <2>2. e # d
    BY <2>1 DEF SweepClear
  <2> DEFINE v == [sweep[a] EXCEPT !.affected = @ \ {e}]
             w == [sweep[a] EXCEPT !.affected = @ \ {e}, !.warned = TRUE]
  <2>3. d \in v.affected /\ d \in w.affected
    BY <1>0, <2>2 DEF Sweep
  <2>4. /\ sweep' = [sweep EXCEPT ![a] = v] \/ sweep' = [sweep EXCEPT ![a] = w]
        /\ UNCHANGED pc
    BY <2>1 DEF SweepClear
  <2> HIDE DEF v, w
  <2> QED
    BY <1>0, <2>3, <2>4
<1>3. ~(a \in Run /\ RunStep(a))
  BY RunNotSweeping DEF SweepPhase
<1>4. ~DropFuture(a)
  <2> SUFFICES ASSUME DropFuture(a) PROVE FALSE
    OBVIOUS
  <2>1. stranded' = stranded \cup
            UNION {IF pc[b] = "clear" THEN sweep[b].affected ELSE {} : b \in {a}}
    BY DEF DropFuture, Forget
  <2> QED
    BY <2>1
<1>5. ~OwnershipStep(a) /\ ~RecoveryStep(a)
  BY DEF OwnershipStep, DropOwnership, Unlink, RecoveryStep, Recover, RecoverSkip,
         RecoverClaim, Recheck, RecoverClose, RecoverEnd
<1> QED
  BY <1>1, <1>2, <1>3, <1>4, <1>5, LocalKept

\* What excuses a marked item goes on to do so: the recovery of the dead run puts
\* the item on its list before it deletes the row.
LEMMA ExcusedKept ==
    ASSUME TypeOK, SweptInv, SweepInv, [Next]_vars, NEW d \in marked' \ stranded',
           d \in Data, Excused(d)
    PROVE  Excused(d)'
<1>1. CASE \E a \in Actor : pc[a] = "clear" /\ d \in sweep[a].affected
  BY <1>1, ClearKept DEF Excused
<1>2. ASSUME NEW s \in Slug, ledger[<<d, s>>] # NoRun,
             pc[ledger[<<d, s>>]] \in Over, status[ledger[<<d, s>>]] = "STARTED"
      PROVE  Excused(d)'
  <2>1. PICK k : k = <<d, s>>
    OBVIOUS
  <2>2. k \in Key /\ k[1] = d
    BY <2>1 DEF Key, Owner
  <2>3. PICK t \in Run : t = ledger[k]
    BY <1>2, <2>1, <2>2 DEF TypeOK, StoreOK
  <2>4. pc'[t] \in Over
    BY <1>2, <2>1, <2>3, StageKept
  <2>5. CASE ledger'[k] = ledger[k]
    <3>1. status'[t] = "STARTED"
      <4>1. ASSUME NEW p \in Proc, pc[p] = "close", sweep[p].run = t PROVE FALSE
        BY <2>2, <2>3, <4>1 DEF SweptInv
      <4> QED
        BY <1>2, <2>1, <2>3, <4>1, ErroredKept
    <3> QED
      BY <1>2, <2>1, <2>3, <2>4, <2>5, <3>1 DEF Excused
  <2>6. CASE ledger'[k] # ledger[k]
    <3>1. PICK a \in Actor : /\ SweepStep(a) /\ SweepRows(a) /\ ~SweepFail(a)
                             /\ k \in Selected(sweep[a])
      BY <1>2, <2>1, <2>2, <2>6, RowLost
    <3>2. d \in sweep[a].affected
      BY <2>2, <3>1 DEF SweepInv, SweepRows
    <3>3. pc'[a] = "clear" /\ UNCHANGED sweep
      BY <3>1 DEF SweepRows, Goto, TypeOK, PhaseOK
    <3> QED
      BY <3>2, <3>3 DEF Excused
  <2> QED
    BY <2>5, <2>6
<1> QED
  BY <1>1, <1>2 DEF Excused

\* A run past its sweeps, and not left at STARTED, never becomes STARTED again.
LEMMA NotReopened ==
    ASSUME TypeOK, [Next]_vars, NEW t \in Run, pc[t] \in Past, status[t] # "STARTED"
    PROVE  status'[t] # "STARTED"
<1>0. status \in [Run -> Status]
  BY DEF TypeOK, EnvOK
<1>1. CASE RunStep(t)
  <2>1. MarkEnd(t) \/ \E d \in Data : MarkItem(t, d)
    BY <1>1
    DEF RunStep, Acquire, SkipComplete, AcquireOwnership, WriteStarted, WriteLedger,
        WriteGraph, IndexVector, TaskFails, FinishWork, WriteCompleted, WriteErrored,
        TeardownOk, TeardownFails, AppendErrored, Past, Over
  <2> QED
    BY <2>1 DEF MarkEnd, MarkItem
<1>2. ASSUME NEW q \in Run \ {t}, RunStep(q) PROVE status'[t] = status[t]
  <2>1. CASE WriteStarted(q) \/ WriteCompleted(q) \/ WriteErrored(q) \/ AppendErrored(q)
    BY <1>0, <2>1 DEF WriteStarted, WriteCompleted, WriteErrored, AppendErrored, LogRow
  <2>2. CASE ~(WriteStarted(q) \/ WriteCompleted(q) \/ WriteErrored(q) \/ AppendErrored(q))
    BY <1>2, <2>2
    DEF RunStep, Acquire, SkipComplete, AcquireOwnership, WriteLedger, WriteGraph,
        IndexVector, TaskFails, FinishWork, TeardownOk, TeardownFails, MarkItem, MarkEnd
  <2> QED
    BY <2>1, <2>2
<1>3. ASSUME NEW p \in Proc, RecoverClose(p) PROVE status'[t] # "STARTED"
  <2>1. \/ UNCHANGED status
        \/ status' = [status EXCEPT ![sweep[p].run] =
               IF status[sweep[p].run] = "STARTED" THEN "ERRORED" ELSE status[sweep[p].run]]
    BY <1>3 DEF RecoverClose, LogRow
  <2> QED
    BY <1>0, <2>1
<1>4. ASSUME NEW p \in Proc, RecoveryStep(p), ~RecoverClose(p) PROVE UNCHANGED status
  BY <1>4 DEF RecoveryStep, Recover, RecoverSkip, RecoverClaim, Recheck, RecoverEnd
<1>5. ASSUME NEW a \in Actor, SweepStep(a) \/ OwnershipStep(a) PROVE UNCHANGED status
  BY <1>5
  DEF SweepStep, SweepItems, SweepNodes, SweepGraph, SweepVector, SweepRows,
      SweepClear, SweepEnd, OwnershipStep, DropOwnership, Unlink
<1>6. CASE \/ UNCHANGED vars
           \/ \E p \in Proc : Crash(p) \/ Start(p)
           \/ \E q \in Run : DropFuture(q)
           \/ \E q \in Run, p \in Proc, ds \in Dataset : Call(q, p, ds)
  BY <1>6 DEF vars, Crash, Start, DropFuture, Call
<1> QED
  BY <1>1, <1>2, <1>3, <1>4, <1>5, <1>6 DEF Next, Quiet

\* Whoever could take what a marker vouches for is the recovery of a dead run, and
\* then the marker is excused already.
LEMMA NotSelected ==
    ASSUME TypeOK, MarkerInv, RecoverInv, NEW d \in Data, BackedOver(d), ~Excused(d),
           NEW k \in vouched[d], NEW a \in Actor, pc[a] \in SweepPhase
    PROVE  k \notin Selected(sweep[a])
<1> SUFFICES ASSUME k \in Selected(sweep[a]) PROVE FALSE
  OBVIOUS
<1>1. /\ k \in Key /\ ledger[k] = sweep[a].run /\ ledger[k] # NoRun
      /\ pc[sweep[a].run] \in Past
      /\ k[1] = d \/ status[sweep[a].run] # "STARTED"
  BY DEF TypeOK, StoreOK, Selected, BackedOver
<1>2. CASE a \in Run
  <2>1. sweep[a].run = a
    BY <1>2 DEF TypeOK, SweepOK
  <2> QED
    BY <1>1, <2>1 DEF Past, Over, SweepPhase
<1>3. CASE a \in Proc
  <2>1. pc[sweep[a].run] \in Over /\ status[sweep[a].run] = "STARTED"
    BY <1>3 DEF MarkerInv, RecoveryOnlyDead, RecoverInv, Claimed
  <2>2. k = <<d, k[2]>> /\ k[2] \in Slug
    BY <1>1, <2>1 DEF Key
  <2> QED
    BY <1>1, <2>1, <2>2 DEF Excused
<1> QED
  BY <1>2, <1>3 DEF Actor

\* mark_complete vouches only for what is there.
LEMMA MarkedBacks ==
    ASSUME TypeOK, LockInv, TagInv, OneProcess, WorkInv, StoredInv,
           NEW r \in Run, NEW d \in Data, MarkItem(r, d), vouched'[d] = VouchedFor(r, d)
    PROVE  BackedOver(d)'
<1>1. /\ pc[r] = "mark" /\ d \in frame[r].mark
      /\ UNCHANGED <<pc, ledger, graph, vector, status>>
  BY DEF MarkItem
<1>2. r \in Actor /\ Busy(r) /\ DatasetOfActor(r) = call[r].ds /\ call[r].ds \in Dataset
  BY <1>1, ConstantsAssumption
  DEF Busy, Holding, Owning, Actor, DatasetOfActor, TypeOK, CallOK, NoCall
<1>3. ASSUME NEW k \in VouchedFor(r, d)
      PROVE  /\ k[1] \in {d} \cup Dataset /\ Home(k[1]) = Home(d)
             /\ ledger[k] # NoRun /\ pc[ledger[k]] \in Past
             /\ k[1] \in Dataset => status[ledger[k]] # "STARTED"
             /\ <<Home(d), k[2]>> \in graph /\ <<Home(d), k[2]>> \in vector
  <2>1. /\ k \in frame[r].prod /\ k[1] \in {d, DatasetOf[d]} /\ ~Doomed(k)
        /\ k \in Key /\ DatasetOf[k[1]] = call[r].ds
    BY FrameFields DEF VouchedFor, WorkInv, TypeOK, FrameOK
  <2>2. k \in Due(r) /\ Marking(r)
    <3>1. DatasetOf[d] \in Dataset /\ DatasetOf[DatasetOf[d]] = DatasetOf[d]
      BY ConstantsAssumption
    <3> QED
      BY <1>1, <2>1, <3>1 DEF Due, Marking
  <2>3. /\ ledger[k] # NoRun
        /\ <<Home(k[1]), k[2]>> \in graph /\ <<Home(k[1]), k[2]>> \in vector
    BY <2>2 DEF StoredInv, Stored, AllWritten
  <2>4. Home(k[1]) = Home(d)
    BY <2>1, ConstantsAssumption DEF Home
  <2>5. PICK t \in Run : t = ledger[k]
    BY <2>1, <2>3 DEF TypeOK, StoreOK
  <2>6. call[t].ds = call[r].ds
    BY <2>1, <2>3, <2>5 DEF TagInv
  <2>7. pc[t] \notin Unstarted /\ pc[t] \in RunPhase
    BY <2>1, <2>3, <2>5 DEF WorkInv, TypeOK, PhaseOK
  <2>8. pc[t] \in Past
    <3>1. CASE pc[t] \in Holding
      <4>1. Busy(t) /\ t \in Actor
        BY <3>1 DEF Busy, Actor
      <4>2. t = r
        BY <1>2, <2>6, <4>1, Alone DEF DatasetOfActor
      <4> QED
        BY <1>1, <4>2 DEF Past
    <3>2. CASE pc[t] \notin Holding
      BY <2>7, <3>2 DEF RunPhase, Holding, Unstarted, Past
    <3> QED
      BY <3>1, <3>2
  <2>9. k[1] \in Dataset => status[t] # "STARTED"
    BY <2>1, <2>5 DEF Doomed
  <2>10. k[1] \in {d} \cup Dataset
    BY <2>1, ConstantsAssumption
  <2> QED
    BY <2>3, <2>4, <2>5, <2>8, <2>9, <2>10
<1> QED
  BY <1>1, <1>3 DEF BackedOver, Home

\* MarkInv is inductive.
LEMMA MarkNext ==
    ASSUME TypeOK, MarkerInv, LockInv, RowInv, OneProcess, OwnStores, WorkInv,
           SweepInv, RecoverInv, StoredInv, MarkInv, TypeOK', [Next]_vars
    PROVE  MarkInv'
<1> SUFFICES ASSUME NEW d \in marked' \ stranded' PROVE BackedOver(d)' \/ Excused(d)'
  BY DEF MarkInv
<1>0. d \in Data
  BY DEF TypeOK, StoreOK
<1>1. CASE \E r \in Run : MarkItem(r, d) /\ vouched'[d] = VouchedFor(r, d)
  BY <1>0, <1>1, MarkedBacks DEF RowInv
<1>2. CASE Excused(d)
  BY <1>0, <1>2, ExcusedKept DEF RowInv
<1>3. ASSUME vouched'[d] = vouched[d], BackedOver(d), ~Excused(d)
      PROVE  BackedOver(d)'
  <2> SUFFICES ASSUME NEW k \in vouched[d]
               PROVE  /\ k[1] \in {d} \cup Dataset /\ Home(k[1]) = Home(d)
                      /\ ledger'[k] # NoRun /\ pc'[ledger'[k]] \in Past
                      /\ k[1] \in Dataset => status'[ledger'[k]] # "STARTED"
                      /\ <<Home(d), k[2]>> \in graph' /\ <<Home(d), k[2]>> \in vector'
    BY <1>3 DEF BackedOver, Home
  <2>1. PICK s : s = k[2]
    OBVIOUS
  <2>2. k \in Key /\ s \in Slug /\ k[1] \in {d} \cup Dataset /\ Home(k[1]) = Home(d)
    BY <1>0, <1>3, <2>1 DEF Key, TypeOK, StoreOK, BackedOver
  <2>3. /\ ledger[k] # NoRun /\ pc[ledger[k]] \in Past /\ ledger[k] \in Run
        /\ k[1] \in Dataset => status[ledger[k]] # "STARTED"
        /\ <<Home(d), s>> \in graph /\ <<Home(d), s>> \in vector
    BY <1>3, <2>1, <2>2 DEF BackedOver, TypeOK, StoreOK
  <2>4. ASSUME NEW a \in Actor, pc[a] \in SweepPhase PROVE k \notin Selected(sweep[a])
    BY <1>0, <1>3, <2>4, NotSelected
  <2>5. ledger'[k] = ledger[k]
    <3>1. ASSUME ledger'[k] # ledger[k] PROVE FALSE
      <4>1. PICK a \in Actor : SweepRows(a) /\ k \in Selected(sweep[a])
        BY <2>2, <2>3, <3>1, RowLost
      <4> QED
        BY <2>4, <4>1 DEF SweepRows, SweepPhase
    <3> QED
      BY <3>1
  <2>6. /\ Home(d) \in Store /\ Home(d) = StoreOf[DatasetOf[k[1]]]
        /\ DatasetOf[k[1]] \in Dataset
    BY <1>0, <2>2, ConstantsAssumption DEF Home, Key, Owner
  <2>7. ASSUME NEW a \in Actor, pc[a] \in {"graph", "vector"}, s \in sweep[a].nodes,
               Home(d) = StoreFor(sweep[a].run)
        PROVE  FALSE
    <3>1. pc[a] \in SweepPhase
      BY <2>7 DEF SweepPhase
    <3>2. call[sweep[a].run].ds \in Dataset
      BY <3>1, BusyPhases
    <3>3. DatasetOf[k[1]] = call[sweep[a].run].ds
      BY <2>6, <2>7, <3>2 DEF OwnStores, StoreFor
    <3>4. k \in Selected(sweep[a])
      BY <2>1, <2>2, <2>3, <2>7, <3>3 DEF SweepInv
    <3> QED
      BY <2>4, <3>1, <3>4
  <2>8. <<Home(d), s>> \in graph'
    BY <2>2, <2>3, <2>6, <2>7, GraphKept
  <2>9. <<Home(d), s>> \in vector'
    BY <2>2, <2>3, <2>6, <2>7, VectorKept
  <2>10. pc'[ledger[k]] \in Past
    BY <2>3, StageKept
  <2>11. k[1] \in Dataset => status'[ledger[k]] # "STARTED"
    BY <2>3, NotReopened
  <2> QED
    BY <2>1, <2>2, <2>3, <2>5, <2>8, <2>9, <2>10, <2>11
<1> QED
  BY <1>1, <1>2, <1>3, MarkedKept DEF MarkInv

\* What holds together of one process whose datasets have stores of their own.
StoreInv == SweepInv /\ RecoverInv /\ StoredInv /\ MarkInv

\* A completion marker can be trusted: with one process, and a store for every
\* dataset, whatever crashes, dropped futures and failed reads and writes there
\* are, an item that later runs will skip has every row, node and vector point
\* its run extracted, unless somebody is still due to clear the marker or the
\* clearing itself failed.
THEOREM MarkedStaysBacked ==
    ASSUME OneProcess, OwnStores PROVE Spec => []MarkedBacked
<1>1. Init => StoreInv
  BY DEF Init, StoreInv, SweepInv, RecoverInv, StoredInv, MarkInv, Due, Marking, Live,
         SweepPhase, Actor
<1>2. /\ TypeOK /\ TypeOK' /\ MarkerInv /\ LockInv /\ RowInv /\ WorkInv /\ StoreInv
      /\ [Next]_vars
      => StoreInv'
  BY SweepNext, RecoverNext, StoredNext, MarkNext DEF StoreInv, RowInv
<1>3. TypeOK /\ StoreInv => MarkedBacked
  BY DEF StoreInv, MarkInv, MarkedBacked, Backed, BackedOver, Excused, Home, SweepPhase
<1> QED
  BY <1>1, <1>2, <1>3, TypeCorrect, MarkerInvariant, LockInvariant, RowInvariant,
     WorkInvariant, PTL DEF Spec

-----------------------------------------------------------------------------
(* No artifact without an owner *)

OneDataset == \A ds, es \in Dataset : ds = es

\* A sweep past its reads has listed every artifact that its rows alone name, and
\* has removed it by the time it deletes the rows.
CoverInv ==
    \A a \in Actor :
        /\ pc[a] \in {"graph", "vector", "rows"} =>
              UniqueSlugs(sweep[a]) \subseteq sweep[a].nodes
        /\ pc[a] \in {"vector", "rows"} =>
              \A s \in sweep[a].nodes : <<StoreFor(sweep[a].run), s>> \notin graph
        /\ pc[a] = "rows" =>
              \A s \in sweep[a].nodes : <<StoreFor(sweep[a].run), s>> \notin vector

\* With one dataset, every row is of the dataset an actor is at work on.
LEMMA OnlyDataset ==
    ASSUME OneDataset, TypeOK, MarkerInv, NEW a \in Actor, pc[a] \in SweepPhase
    PROVE  /\ \A k \in Key : DatasetOf[k[1]] = call[sweep[a].run].ds
           /\ \A k \in Key : Home(k[1]) = StoreFor(sweep[a].run)
<1>1. call[sweep[a].run].ds \in Dataset
  BY BusyPhases
<1>2. \A k \in Key : DatasetOf[k[1]] \in Dataset
  BY ConstantsAssumption DEF Key, Owner
<1> QED
  BY <1>1, <1>2 DEF OneDataset, Home, StoreFor

\* While the rows stay, so do the artifacts that a sweep's rows alone name.
LEMMA UniqueKept ==
    ASSUME TypeOK, MarkerInv, [Next]_vars, NEW a \in Actor, pc[a] \in SweepPhase,
           sweep'[a].run = sweep[a].run, sweep'[a].data = sweep[a].data,
           \A k \in Key : ledger'[k] = ledger[k]
    PROVE  UniqueSlugs(sweep[a])' = UniqueSlugs(sweep[a])
<1>1. Selected(sweep[a])' = Selected(sweep[a]) /\ Selected(sweep[a]) \subseteq Key
  BY SelectedKept DEF Selected
<1> QED
  BY <1>1 DEF UniqueSlugs

\* CoverInv is inductive when the sweep is alone in the store.
LEMMA CoverNext ==
    ASSUME TypeOK, MarkerInv, LockInv, ItemsInv, OneProcess, OneDataset, CoverInv,
           [Next]_vars
    PROVE  CoverInv'
<1> SUFFICES ASSUME NEW a \in Actor, pc'[a] \in {"graph", "vector", "rows"}
             PROVE  /\ UniqueSlugs(sweep[a])' \subseteq sweep'[a].nodes
                    /\ pc'[a] \in {"vector", "rows"} =>
                          \A s \in sweep'[a].nodes : <<StoreFor(sweep[a].run), s>>' \notin graph'
                    /\ pc'[a] = "rows" =>
                          \A s \in sweep'[a].nodes : <<StoreFor(sweep[a].run), s>>' \notin vector'
  BY DEF CoverInv, StoreFor
<1>1. CASE SweepStep(a)
  <2>1. pc[a] \in SweepPhase
    BY <1>1, SweepMovesSteps DEF SweepMoves
  <2>2. /\ UNCHANGED <<ledger, call>>
        /\ sweep'[a].run = sweep[a].run /\ sweep'[a].data = sweep[a].data
    BY <1>1, SweepProgress
  <2>3. UniqueSlugs(sweep[a])' = UniqueSlugs(sweep[a])
    BY <2>1, <2>2, UniqueKept
  <2>4. pc[a] = "nodes" => pc'[a] = "graph" /\ sweep'[a].nodes = UniqueSlugs(sweep[a])
    BY <1>1, SweepProgress
  <2>5. pc[a] # "nodes" => pc[a] \in {"graph", "vector"} /\ sweep'[a].nodes = sweep[a].nodes
    BY <1>1, SweepProgress
  <2>6. UniqueSlugs(sweep[a])' \subseteq sweep'[a].nodes
    BY <2>3, <2>4, <2>5 DEF CoverInv
  <2>7. PICK st : st = StoreFor(sweep[a].run)
    OBVIOUS
  <2>8. StoreFor(sweep[a].run)' = st
    BY <2>2, <2>7 DEF StoreFor
  <2>9. ASSUME pc'[a] = "vector" PROVE \A s \in sweep'[a].nodes : <<st, s>> \notin graph'
    <3>1. SweepGraph(a) /\ ~SweepFail(a)
      BY <1>1, <2>9, SweepProgress
    <3>2. graph' = graph \ ({st} \X sweep[a].nodes) /\ pc[a] = "graph"
      BY <2>7, <3>1 DEF SweepGraph
    <3> QED
      BY <2>5, <3>2
  <2>10. ASSUME pc'[a] = "rows"
         PROVE  \A s \in sweep'[a].nodes : <<st, s>> \notin graph' /\ <<st, s>> \notin vector'
    <3>1. SweepVector(a) /\ ~SweepFail(a)
      BY <1>1, <2>10, SweepProgress
    <3>2. vector' = vector \ ({st} \X sweep[a].nodes) /\ pc[a] = "vector" /\ UNCHANGED graph
      BY <2>7, <3>1 DEF SweepVector
    <3>3. \A s \in sweep[a].nodes : <<st, s>> \notin graph
      BY <2>7, <3>2 DEF CoverInv
    <3> QED
      BY <2>5, <3>2, <3>3
  <2> QED
    BY <2>6, <2>8, <2>9, <2>10
<1>2. CASE SameLocal(a) /\ ~SweepStep(a)
  <2>1. pc[a] = pc'[a] /\ sweep'[a] = sweep[a] /\ pc[a] \in SweepPhase
    BY <1>2 DEF SameLocal, SweepPhase
  <2>2. Busy(a) /\ DatasetOfActor(a) = call[sweep[a].run].ds
    BY <2>1, BusyPhases
  <2>3. \A k \in Key : ledger'[k] = ledger[k]
    BY <1>2, <2>1, <2>2, RowsAlone, RunNotSweeping, OnlyDataset
  <2>4. UniqueSlugs(sweep[a])' = UniqueSlugs(sweep[a])
    BY <2>1, <2>3, UniqueKept
  <2>5. call'[sweep[a].run] = call[sweep[a].run]
    BY <2>1, <2>3, SelectedKept
  <2>6. PICK st : st = StoreFor(sweep[a].run)
    OBVIOUS
  <2>7. StoreFor(sweep[a].run)' = st /\ st = StoreOf[DatasetOfActor(a)]
    BY <2>1, <2>2, <2>5, <2>6 DEF StoreFor
  <2>8. OwnStores
    BY DEF OwnStores, OneDataset
  <2>9. ASSUME NEW s \in Slug
        PROVE  /\ <<st, s>> \notin graph => <<st, s>> \notin graph'
               /\ <<st, s>> \notin vector => <<st, s>> \notin vector'
    BY <2>1, <2>2, <2>7, <2>8, ArtifactsAlone, RunNotSweeping
  <2>10. sweep[a].nodes \subseteq Slug
    BY SweepFields DEF TypeOK, SweepOK
  <2> QED
    BY <2>1, <2>4, <2>6, <2>7, <2>9, <2>10 DEF CoverInv
<1> QED
  BY <1>1, <1>2, SweepEntered DEF SweepPhase

\* What is written was recorded first, and the rows that record it go last.
LEMMA OwnedNext ==
    ASSUME TypeOK, MarkerInv, LockInv, ItemsInv, OneProcess, OneDataset, WorkInv,
           SweepInv, StoredInv, CoverInv, NoOwnerlessArtifact, [Next]_vars
    PROVE  NoOwnerlessArtifact'
<1> SUFFICES ASSUME NEW st \in Store, NEW s \in Slug, <<st, s>> \in graph' \cup vector'
             PROVE  \E k \in Key : k[2] = s /\ ledger'[k] # NoRun /\ Home(k[1]) = st
  BY DEF NoOwnerlessArtifact, Home
<1>0. OwnStores
  BY DEF OwnStores, OneDataset
<1>1. CASE <<st, s>> \notin graph \cup vector
  <2>1. PICK r \in Run : /\ pc[r] \in {"work", "teardown"} /\ st = StoreFor(r)
                         /\ s \in frame[r].graph \cup frame[r].vector
    <3>1. CASE <<st, s>> \in graph'
      BY <1>1, <3>1, GraphKept
    <3>2. CASE <<st, s>> \in vector'
      BY <1>1, <3>2, VectorKept
    <3> QED
      BY <3>1, <3>2
  <2>2. PICK k \in frame[r].prod : k[2] = s
    BY <2>1 DEF WorkInv
  <2>3. k \in Due(r)
    BY <2>1, <2>2 DEF Due, Live
  <2>4. k \in Key /\ Home(k[1]) = StoreFor(r) /\ ledger'[k] # NoRun
    BY <1>0, <2>3, DueKept
  <2> QED
    BY <2>1, <2>2, <2>4
<1>2. CASE <<st, s>> \in graph \cup vector
  <2>1. PICK k \in Key : k[2] = s /\ ledger[k] # NoRun /\ Home(k[1]) = st
    BY <1>2 DEF NoOwnerlessArtifact, Home
  <2>2. ASSUME ledger'[k] = NoRun
        PROVE  \E l \in Key : l[2] = s /\ ledger'[l] # NoRun /\ Home(l[1]) = st
    <3>1. PICK a \in Actor : SweepRows(a) /\ ~SweepFail(a) /\ k \in Selected(sweep[a])
      BY <2>1, <2>2, RowLost
    <3>2. /\ ledger' = [l \in Key |-> IF l \in Selected(sweep[a]) THEN NoRun ELSE ledger[l]]
          /\ UNCHANGED <<graph, vector>>
          /\ pc[a] = "rows" /\ pc[a] \in SweepPhase
      BY <3>1 DEF SweepRows, SweepPhase
    <3>3. \A l \in Key : Home(l[1]) = StoreFor(sweep[a].run)
      BY <3>2, OnlyDataset
    <3>4. <<StoreFor(sweep[a].run), s>> \in graph \cup vector
      BY <1>2, <2>1, <3>3
    <3>5. s \notin UniqueSlugs(sweep[a])
      BY <3>2, <3>4 DEF CoverInv
    <3>6. PICK l \in Key \ Selected(sweep[a]) : l[2] = s /\ ledger[l] # NoRun
      BY <2>1, <3>1, <3>5 DEF UniqueSlugs
    <3>7. ledger'[l] # NoRun
      BY <3>2, <3>6
    <3>8. Home(l[1]) = st
      BY <2>1, <3>3, <3>6
    <3> QED
      BY <3>6, <3>7, <3>8
  <2> QED
    BY <2>1, <2>2
<1> QED
  BY <1>1, <1>2

OwnedInv == SweepInv /\ StoredInv /\ CoverInv /\ NoOwnerlessArtifact

\* Nothing is lost track of: with one process and one dataset, whatever crashes,
\* dropped futures and failed reads, writes and partial deletes there are, every
\* graph node and every vector point has an ownership row that names it, so some
\* sweep or delete can still find it.
THEOREM NothingOwnerless ==
    ASSUME OneProcess, OneDataset PROVE Spec => []NoOwnerlessArtifact
<1>0. OwnStores
  BY DEF OwnStores, OneDataset
<1>1. Init => OwnedInv
  BY DEF Init, OwnedInv, SweepInv, StoredInv, CoverInv, NoOwnerlessArtifact, Due,
         Marking, Live, SweepPhase, Actor
<1>2. TypeOK /\ MarkerInv /\ LockInv /\ RowInv /\ WorkInv /\ OwnedInv /\ [Next]_vars
      => OwnedInv'
  BY <1>0, SweepNext, StoredNext, CoverNext, OwnedNext DEF OwnedInv, RowInv
<1>3. OwnedInv => NoOwnerlessArtifact
  BY DEF OwnedInv
<1> QED
  BY <1>1, <1>2, <1>3, TypeCorrect, MarkerInvariant, LockInvariant, RowInvariant,
     WorkInvariant, PTL DEF Spec

-----------------------------------------------------------------------------
(* With one process, recovery spares the live runs *)

\* A run at work has a row for everything it has extracted.
HeldInv ==
    \A r \in Run : pc[r] \in Live => \A k \in frame[r].prod : ledger[k] # NoRun

\* A run that extracts, and has extracted something, was at work before.
LEMMA LiveBefore ==
    ASSUME TypeOK, NEW r \in Run, RunStep(r), pc'[r] \in Live, pc[r] \notin Unstarted
    PROVE  pc[r] \in Live
<1>0. pc \in [Actor -> RunPhase \cup ProcPhase] /\ r \in Actor
  BY DEF TypeOK, PhaseOK, Actor
<1> USE DEF Live, Unstarted, Early, Goto, StartSweep
<1>1. CASE \E D, s, i : Acquire(r, D, s, i)
  BY <1>0, <1>1 DEF Acquire
<1>2. CASE SkipComplete(r) \/ AcquireOwnership(r) \/ WriteStarted(r)
  BY <1>0, <1>2 DEF SkipComplete, AcquireOwnership, WriteStarted
<1>3. CASE AppendErrored(r) \/ MarkEnd(r) \/ \E d : MarkItem(r, d)
  BY <1>0, <1>3 DEF AppendErrored, MarkEnd, MarkItem
<1>4. CASE \/ \E S : WriteLedger(r, S)
           \/ \E s : WriteGraph(r, s) \/ IndexVector(r, s)
           \/ TaskFails(r)
           \/ \E F : FinishWork(r, F)
           \/ WriteCompleted(r) \/ WriteErrored(r) \/ TeardownOk(r) \/ TeardownFails(r)
  BY <1>4
  DEF WriteLedger, WriteGraph, IndexVector, TaskFails, FinishWork, WriteCompleted,
      WriteErrored, TeardownOk, TeardownFails
<1> QED
  BY <1>1, <1>2, <1>3, <1>4 DEF RunStep

\* HeldInv is inductive when recovery cannot get at the dataset of a live run.
LEMMA HeldNext ==
    ASSUME TypeOK, MarkerInv, LockInv, ItemsInv, OneProcess, WorkInv, HeldInv, [Next]_vars
    PROVE  HeldInv'
<1> SUFFICES ASSUME NEW r \in Run, pc'[r] \in Live, NEW k \in frame'[r].prod
             PROVE  ledger'[k] # NoRun
  BY DEF HeldInv
<1>0. pc \in [Actor -> RunPhase \cup ProcPhase] /\ r \in Actor /\ r \notin Proc
      /\ frame[r].prod \subseteq Key
  BY FrameFields, ConstantsAssumption DEF TypeOK, PhaseOK, FrameOK, Actor
<1>1. ASSUME pc[r] \in Live, k \in frame[r].prod PROVE ledger'[k] # NoRun
  <2>1. Busy(r) /\ DatasetOfActor(r) = call[r].ds
    BY <1>0, <1>1, BusyPhases DEF Live, Owning
  <2>2. DatasetOf[k[1]] = DatasetOfActor(r) /\ ledger[k] # NoRun
    BY <1>1, <2>1 DEF WorkInv, HeldInv
  <2>3. ~SweepRows(r)
    BY <1>1 DEF SweepRows, Live
  <2> QED
    BY <1>0, <1>1, <2>1, <2>2, <2>3, RowsAlone
<1>2. CASE RunStep(r)
  <2>1. CASE frame'[r].prod = frame[r].prod
    <3>1. pc[r] \in Live
      BY <1>2, <2>1, LiveBefore DEF WorkInv
    <3> QED
      BY <1>1, <2>1, <3>1
  <2>2. ASSUME NEW S \in SUBSET (Owners(r) \X Slug), WriteLedger(r, S)
        PROVE  ledger'[k] # NoRun
    <3>1. S \subseteq Key /\ frame'[r].prod = frame[r].prod \cup S
      BY <2>2, LedgerWritten
    <3>2. k \in S => ledger'[k] # NoRun
      BY <2>2, <3>1, ConstantsAssumption DEF WriteLedger
    <3>3. pc[r] \in Live
      BY <2>2 DEF WriteLedger, Live
    <3> QED
      BY <1>1, <3>1, <3>2, <3>3
  <2> QED
    BY <1>2, <2>1, <2>2, ProdStep
<1>3. CASE SameLocal(r)
  BY <1>1, <1>3 DEF SameLocal
<1>4. ~SweepStep(r)
  BY <1>0, SweepMovesSteps DEF SweepMoves, Live, SweepPhase
<1>5. ~OwnershipStep(r) /\ ~DropFuture(r)
  BY <1>0 DEF OwnershipStep, DropOwnership, Unlink, DropFuture, Goto, Live
<1> QED
  BY <1>0, <1>2, <1>3, <1>4, <1>5, LocalKept DEF Live

\* What services.rs says of recovery, that it is safe with live runs about, holds
\* of the runs in its own process: with one process, whatever datasets and stores
\* they share and whatever fails, a run at work never loses an ownership row of
\* what it has extracted.  (With two processes it may: peer_recovery.)
THEOREM LiveRunsSpared ==
    ASSUME OneProcess PROVE Spec => []RecoverySparesLiveRuns
<1>1. Init => HeldInv
  BY DEF Init, HeldInv, Live, Actor
<1>2. /\ TypeOK /\ MarkerInv /\ LockInv /\ RowInv /\ WorkInv /\ HeldInv /\ [Next]_vars
      => HeldInv'
  BY HeldNext DEF RowInv
<1>3. HeldInv => RecoverySparesLiveRuns
  BY DEF HeldInv, RecoverySparesLiveRuns, Live
<1> QED
  BY <1>1, <1>2, <1>3, TypeCorrect, MarkerInvariant, LockInvariant, RowInvariant,
     WorkInvariant, PTL DEF Spec

=============================================================================
