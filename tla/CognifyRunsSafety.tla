------------------------- MODULE CognifyRunsSafety -------------------------
(***************************************************************************)
(* Safety of recovery and of the dataset locks in CognifyRuns, for any     *)
(* number of processes, runs, datasets, items and faults.                  *)
(***************************************************************************)
EXTENDS CognifyRunsProofs

(* The inductive invariants *)

\* Who holds a marker: a run that has not reached its acquire has no marker, a
\* live owner of a marker holds its OS lock, and a recovery that has claimed a
\* run holds the lock instead, of a run that is over.
MarkerInv ==
    /\ \A r \in Run : pc[r] \in Early => r \notin dir
    /\ \A r \in Run : pc[r] \in Owning /\ r \in dir => flock[r] = r
    /\ RecoveryOnlyDead
    /\ \A p \in Proc : pc[p] \in Claimed \ {"unlink"} => flock[sweep[p].run] = p

\* Every run or recovery at work on a dataset is the holder of its lock.
LockInv ==
    /\ \A r \in Run : pc[r] \in Holding => lock[LockOf(r)] = r
    /\ \A p \in Proc : pc[p] \in Claimed => lock[LockOf(p)] = p

-----------------------------------------------------------------------------
(* Most steps move one actor and touch no lock and no marker *)

\* A step of a live run that neither takes nor gives up anything.
RunStays(r) ==
    /\ \A b \in Actor \ {r} : pc'[b] = pc[b]
    /\ pc[r] \notin Over
    /\ pc'[r] # "idle"
    /\ pc'[r] \in Early => pc[r] \in Early
    /\ pc'[r] \in Owning => pc[r] \in Owning
    /\ pc'[r] \in Holding => pc[r] \in Holding
    /\ \A q \in Proc : sweep'[q] = sweep[q]
    /\ UNCHANGED <<call, lock, dir, flock>>

\* The same for the recovery of a process, which keeps to its candidate.
ProcStays(p) ==
    /\ \A b \in Actor \ {p} : pc'[b] = pc[b]
    /\ pc'[p] \in Claimed => pc[p] \in Claimed /\ sweep'[p].run = sweep[p].run
    /\ pc'[p] = "unlink" \/ pc[p] # "unlink"
    /\ pc'[p] \in SweepPhase =>
           \/ sweep'[p].data = Owner
           \/ pc[p] \in SweepPhase /\ sweep'[p].data = sweep[p].data
    /\ pc'[p] \in {"clear", "close"} => pc[p] = "clear" \/ SweepRows(p)
    /\ \A q \in Proc \ {p} : sweep'[q] = sweep[q]
    /\ UNCHANGED <<call, lock, dir, flock>>

\* The steps of a run that touch neither lock, marker nor process.
LEMMA RunStaysSteps ==
    ASSUME TypeOK, NEW r \in Run,
           \/ WriteStarted(r)
           \/ \E S \in SUBSET Key : WriteLedger(r, S)
           \/ \E s \in Slug : WriteGraph(r, s) \/ IndexVector(r, s)
           \/ TaskFails(r)
           \/ \E F \in SUBSET Data : FinishWork(r, F)
           \/ WriteCompleted(r)
           \/ WriteErrored(r)
           \/ TeardownOk(r)
           \/ TeardownFails(r)
           \/ AppendErrored(r)
           \/ \E d \in Data : MarkItem(r, d)
           \/ MarkEnd(r)
    PROVE  RunStays(r)
<1> USE ConstantsAssumption
    DEF TypeOK, PhaseOK, SweepOK, RunStays, Goto, Actor, callVars, markerVars,
        storeVars, scanVars, Early, Owning, Over, Holding, SweepPhase
<1>1. CASE WriteStarted(r)
  BY <1>1 DEF WriteStarted
<1>2. CASE \E S \in SUBSET Key : WriteLedger(r, S)
  BY <1>2 DEF WriteLedger
<1>3. CASE \E s \in Slug : WriteGraph(r, s) \/ IndexVector(r, s)
  BY <1>3 DEF WriteGraph, IndexVector
<1>4. CASE TaskFails(r)
  BY <1>4 DEF TaskFails
<1>5. CASE \E F \in SUBSET Data : FinishWork(r, F)
  BY <1>5 DEF FinishWork
<1>6. CASE WriteCompleted(r)
  BY <1>6 DEF WriteCompleted
<1>7. CASE WriteErrored(r)
  BY <1>7 DEF WriteErrored, StartSweep
<1>8. CASE TeardownOk(r)
  BY <1>8 DEF TeardownOk, StartSweep
<1>9. CASE TeardownFails(r)
  BY <1>9 DEF TeardownFails, StartSweep
<1>10. CASE AppendErrored(r)
  BY <1>10 DEF AppendErrored
<1>11. CASE \E d \in Data : MarkItem(r, d)
  BY <1>11 DEF MarkItem
<1>12. CASE MarkEnd(r)
  BY <1>12 DEF MarkEnd
<1> QED
  BY <1>1, <1>2, <1>3, <1>4, <1>5, <1>6, <1>7, <1>8, <1>9, <1>10, <1>11, <1>12

\* What a step of a sweep does for the actor it belongs to.
SweepMoves(a) ==
    /\ \A b \in Actor \ {a} : pc'[b] = pc[b] /\ sweep'[b] = sweep[b]
    /\ pc[a] \in SweepPhase
    /\ a \in Run => pc'[a] \in SweepPhase \cup {"drop", "append", "mark"}
    /\ a \in Proc => pc'[a] \in SweepPhase \cup {"drop", "close"}
    /\ sweep'[a].run = sweep[a].run
    /\ pc'[a] \in SweepPhase => sweep'[a].data = sweep[a].data
    /\ pc'[a] \in {"clear", "close"} => pc[a] = "clear" \/ SweepRows(a)
    /\ UNCHANGED <<call, lock, dir, flock>>

\* The return of a sweep moves its actor alone.
LEMMA LeaveSweepMoves ==
    ASSUME TypeOK, NEW a \in Actor, pc[a] \in SweepPhase, NEW x,
           LeaveSweep(a, x), UNCHANGED <<call, lock, dir, flock>>,
           x = sweep[a].next \/ (x = "drop" /\ a \in Proc),
           x = "close" => pc[a] = "clear"
    PROVE  SweepMoves(a)
<1>1. sweep[a] \in Sweep /\ sweep[a].run \in Run \cup {NoRun}
  BY SweepFields DEF TypeOK, SweepOK
<1>2. sweep'[a].run = sweep[a].run
  BY <1>1, SweepRecords DEF LeaveSweep, TypeOK, SweepOK
<1>3. /\ a \in Run => x \in {"drop", "append", "mark"}
      /\ a \in Proc => x \in {"drop", "close"}
  BY <1>1, SweepFields, ConstantsAssumption DEF TypeOK, SweepOK
<1>4. x \notin SweepPhase
  BY <1>3, ConstantsAssumption DEF Actor, SweepPhase
<1>5. pc'[a] = x /\ x # "clear"
  BY <1>4 DEF LeaveSweep, Goto, TypeOK, PhaseOK, SweepPhase
<1> QED
  BY <1>2, <1>3, <1>4, <1>5
  DEF LeaveSweep, Goto, SweepMoves, TypeOK, PhaseOK, SweepOK

\* A sweep that goes on moves its actor alone.
LEMMA SweepGoesOnMoves ==
    ASSUME TypeOK, NEW a \in Actor, pc[a] \in SweepPhase, NEW x \in SweepPhase,
           Goto(a, x), NEW w, SameSweep(w, sweep[a]),
           sweep' = [sweep EXCEPT ![a] = w], UNCHANGED <<call, lock, dir, flock>>,
           x = "clear" => pc[a] = "clear"
    PROVE  SweepMoves(a)
BY DEF Goto, SweepMoves, SameSweep, TypeOK, PhaseOK, SweepOK, SweepPhase

\* A failing sweep moves its actor alone.
LEMMA SweepFailMoves ==
    ASSUME TypeOK, NEW a \in Actor, pc[a] \in SweepPhase,
           SweepFail(a), UNCHANGED <<call, lock, dir, flock>>
    PROVE  SweepMoves(a)
BY LeaveSweepMoves, ConstantsAssumption DEF SweepFail, Actor, TypeOK, SweepOK

\* Every step of run_in_scope moves its actor alone.
LEMMA SweepMovesSteps ==
    ASSUME TypeOK, NEW a \in Actor, SweepStep(a)
    PROVE  SweepMoves(a)
<1>1. sweep[a] \in Sweep
  BY DEF TypeOK, SweepOK
<1> USE ConstantsAssumption
    DEF TypeOK, PhaseOK, SweepOK, Goto, Actor, callVars, markerVars, storeVars,
        scanVars, SweepPhase
<1>2. CASE SweepItems(a)
  <2>1. CASE SweepFail(a)
    BY <1>2, <2>1, SweepFailMoves DEF SweepItems
  <2>2. CASE ~SweepFail(a)
    <3> DEFINE w == [sweep[a] EXCEPT !.affected = Data \cap {k[1] : k \in Selected(sweep[a])}]
    <3>1. SameSweep(w, sweep[a])
      BY <1>1, AffectedType, SweepUpdates
    <3>2. sweep' = [sweep EXCEPT ![a] = w]
      BY <1>2, <2>2 DEF SweepItems
    <3> HIDE DEF w
    <3> QED
      BY <1>2, <2>2, <3>1, <3>2, SweepGoesOnMoves DEF SweepItems
  <2> QED
    BY <2>1, <2>2
<1>3. CASE SweepNodes(a)
  <2>1. CASE SweepFail(a)
    BY <1>3, <2>1, SweepFailMoves DEF SweepNodes
  <2>2. CASE ~SweepFail(a)
    <3>1. UniqueSlugs(sweep[a]) \in SUBSET Slug
      BY DEF UniqueSlugs
    <3> DEFINE w == [sweep[a] EXCEPT !.nodes = UniqueSlugs(sweep[a])]
    <3>2. SameSweep(w, sweep[a])
      BY <1>1, <3>1, SweepUpdates
    <3>3. sweep' = [sweep EXCEPT ![a] = w]
      BY <1>3, <2>2 DEF SweepNodes
    <3> HIDE DEF w
    <3> QED
      BY <1>3, <2>2, <3>2, <3>3, SweepGoesOnMoves DEF SweepNodes
  <2> QED
    BY <2>1, <2>2
<1>4. CASE SweepGraph(a)
  <2>1. CASE SweepFail(a)
    BY <1>4, <2>1, SweepFailMoves DEF SweepGraph
  <2>2. CASE ~SweepFail(a)
    BY <1>4, <2>2 DEF SweepGraph, SweepMoves
  <2> QED
    BY <2>1, <2>2
<1>5. CASE SweepVector(a)
  <2>1. CASE SweepFail(a)
    BY <1>5, <2>1, SweepFailMoves DEF SweepVector
  <2>2. CASE ~SweepFail(a)
    BY <1>1, <1>5, <2>2, SweepUpdates, ZenonT(40) DEF SweepVector, SweepMoves, SameSweep
  <2> QED
    BY <2>1, <2>2
<1>6. CASE SweepRows(a)
  <2>1. CASE SweepFail(a)
    BY <1>6, <2>1, SweepFailMoves DEF SweepRows
  <2>2. CASE ~SweepFail(a)
    BY <1>6, <2>2 DEF SweepRows, SweepMoves
  <2> QED
    BY <2>1, <2>2
<1>7. CASE \E d \in Data : SweepClear(a, d)
  <2>1. PICK d \in Data : SweepClear(a, d)
    BY <1>7
  <2>2. sweep[a].affected \ {d} \in SUBSET Data
    BY <1>1, SweepFields
  <2> DEFINE v == [sweep[a] EXCEPT !.affected = @ \ {d}]
             w == [sweep[a] EXCEPT !.affected = @ \ {d}, !.warned = TRUE]
  <2>3. SameSweep(v, sweep[a]) /\ SameSweep(w, sweep[a])
    BY <1>1, <2>2, SweepUpdates
  <2>4. sweep' = [sweep EXCEPT ![a] = v] \/ sweep' = [sweep EXCEPT ![a] = w]
    BY <2>1 DEF SweepClear
  <2> HIDE DEF v, w
  <2>5. Goto(a, "clear") /\ pc[a] = "clear" /\ UNCHANGED <<call, lock, dir, flock>>
    BY <2>1 DEF SweepClear
  <2> QED
    BY <2>3, <2>4, <2>5, SweepGoesOnMoves
<1>8. CASE SweepEnd(a)
  BY <1>8, LeaveSweepMoves DEF SweepEnd
<1> QED
  BY <1>2, <1>3, <1>4, <1>5, <1>6, <1>7, <1>8 DEF SweepStep

\* A sweep's step keeps the run, or the recovery, in the stage it is in.
LEMMA SweepStays ==
    ASSUME TypeOK, NEW a \in Actor, SweepStep(a)
    PROVE  (a \in Run => RunStays(a)) /\ (a \in Proc => ProcStays(a))
<1>1. SweepMoves(a)
  BY SweepMovesSteps
<1> QED
  BY <1>1, ConstantsAssumption
  DEF SweepMoves, RunStays, ProcStays, Actor, Early, Owning, Over, Holding,
      Claimed, SweepPhase

\* The steps of a recovery pass that leave its claim and its lock alone.
LEMMA ProcStaysSteps ==
    ASSUME TypeOK, NEW p \in Proc,
           \/ Recover(p)
           \/ \E r \in Run : RecoverSkip(p, r)
           \/ Recheck(p)
           \/ RecoverClose(p)
           \/ RecoverEnd(p)
    PROVE  ProcStays(p)
<1> USE ConstantsAssumption
    DEF TypeOK, PhaseOK, SweepOK, ProcStays, Goto, Actor, callVars, markerVars,
        storeVars, scanVars, Claimed, SweepPhase
<1>1. CASE Recover(p)
  BY <1>1 DEF Recover
<1>2. CASE \E r \in Run : RecoverSkip(p, r)
  BY <1>2 DEF RecoverSkip
<1>3. CASE Recheck(p)
  <2> DEFINE w == [NoSweep EXCEPT !.run = sweep[p].run, !.data = Owner, !.next = "close"]
  <2>1. w.run = sweep[p].run /\ w.data = Owner
    BY DEF NoSweep
  <2>2. \/ Goto(p, "items") /\ sweep' = [sweep EXCEPT ![p] = w]
        \/ Goto(p, "drop") /\ UNCHANGED sweep
    BY <1>3 DEF Recheck, StartSweep
  <2> HIDE DEF w
  <2>3. pc[p] = "recheck" /\ UNCHANGED <<call, lock, dir, flock>>
    BY <1>3 DEF Recheck
  <2> QED
    BY <2>1, <2>2, <2>3
<1>4. CASE RecoverClose(p)
  BY <1>4 DEF RecoverClose
<1>5. CASE RecoverEnd(p)
  BY <1>5 DEF RecoverEnd
<1> QED
  BY <1>1, <1>2, <1>3, <1>4, <1>5

\* A step of cognify is one of the quiet ones or changes a lock or a marker.
LEMMA RunStepKinds ==
    ASSUME TypeOK, NEW r \in Run, RunStep(r)
    PROVE  \/ \E D, s, i : Acquire(r, D, s, i)
           \/ SkipComplete(r)
           \/ AcquireOwnership(r)
           \/ RunStays(r)
<1>1. frame[r].items \subseteq Data /\ Owners(r) \X Slug \subseteq Key
  BY FrameFields, OwnersType DEF TypeOK, FrameOK, Key
<1> QED
  BY <1>1, RunStaysSteps DEF RunStep

\* A step of recovery is one of the quiet ones or changes a claim.
LEMMA RecoveryStepKinds ==
    ASSUME TypeOK, NEW p \in Proc, RecoveryStep(p)
    PROVE  ProcStays(p) \/ \E r \in Run : RecoverClaim(p, r)
BY ProcStaysSteps DEF RecoveryStep

-----------------------------------------------------------------------------
(* Recovery works on dead runs, one recovery on each *)

\* A quiet step of a run keeps MarkerInv.
LEMMA MarkerRunStays ==
    ASSUME TypeOK, TypeOK', MarkerInv, NEW r \in Run, RunStays(r)
    PROVE  MarkerInv'
BY ConstantsAssumption
DEF RunStays, MarkerInv, RecoveryOnlyDead, TypeOK, PhaseOK, SweepOK, Actor

\* A quiet step of a recovery keeps MarkerInv.
LEMMA MarkerProcStays ==
    ASSUME TypeOK, TypeOK', MarkerInv, NEW p \in Proc, ProcStays(p)
    PROVE  MarkerInv'
BY ConstantsAssumption
DEF ProcStays, MarkerInv, RecoveryOnlyDead, TypeOK, PhaseOK, SweepOK, Actor

\* MarkerInv is inductive, given the types.
LEMMA MarkerNext ==
    ASSUME TypeOK, TypeOK', MarkerInv, [Next]_vars
    PROVE  MarkerInv'
<1> USE ConstantsAssumption
    DEF MarkerInv, RecoveryOnlyDead, TypeOK, PhaseOK, SweepOK, MarkerOK, Actor
<1>Call. ASSUME NEW r \in Run, NEW p \in Proc, NEW ds \in Dataset, Call(r, p, ds)
         PROVE  MarkerInv'
  BY <1>Call DEF Call, Goto, markerVars, Early, Owning, Over, SweepPhase
<1>Acquire. ASSUME NEW r \in Run, NEW D, NEW s, NEW i, Acquire(r, D, s, i)
            PROVE  MarkerInv'
  BY <1>Acquire DEF Acquire, Goto, markerVars, Early, Owning, Over, SweepPhase
<1>SkipComplete. ASSUME NEW r \in Run, SkipComplete(r) PROVE MarkerInv'
  BY <1>SkipComplete DEF SkipComplete, Goto, markerVars, Early, Owning, Over, SweepPhase
<1>AcquireOwnership. ASSUME NEW r \in Run, AcquireOwnership(r) PROVE MarkerInv'
  BY <1>AcquireOwnership DEF AcquireOwnership, Goto, Early, Owning, Over, SweepPhase
<1>DropOwnership. ASSUME NEW a \in Actor, DropOwnership(a) PROVE MarkerInv'
  <2>1. CASE a \in Run
    BY <1>DropOwnership, <2>1
    DEF DropOwnership, Target, Goto, Early, Owning, Over, SweepPhase
  <2>2. CASE a \in Proc
    BY <1>DropOwnership, <2>2
    DEF DropOwnership, Target, Goto, Early, Owning, Over, Claimed, SweepPhase
  <2> QED
    BY <2>1, <2>2
<1>Unlink. ASSUME NEW a \in Actor, Unlink(a) PROVE MarkerInv'
  <2>1. CASE a \in Run
    BY <1>Unlink, <2>1 DEF Unlink, Target, Goto, Early, Owning, Over, SweepPhase
  <2>2. CASE a \in Proc
    BY <1>Unlink, <2>2 DEF Unlink, Target, Goto, Early, Owning, Claimed, SweepPhase
  <2> QED
    BY <2>1, <2>2
<1>RecoverClaim. ASSUME NEW p \in Proc, NEW r \in Run, RecoverClaim(p, r)
                 PROVE  MarkerInv'
  <2>1. sweep'[p].run = r /\ \A q \in Proc \ {p} : sweep'[q] = sweep[q]
    BY <1>RecoverClaim, SweepRecords DEF RecoverClaim
  <2>2. pc[r] \in Over
    BY <1>RecoverClaim DEF RecoverClaim, Claimable, RunPhase
  <2> QED
    BY <1>RecoverClaim, <2>1, <2>2
    DEF RecoverClaim, Claimable, Goto, Early, Owning, Over, SweepPhase
<1>Crash. ASSUME NEW p \in Proc, Crash(p) PROVE MarkerInv'
  <2> DEFINE Killed(r) == r \in Run /\ call[r].proc = p
  <2>1. /\ pc'[p] = "idle"
        /\ \A q \in Proc \ {p} : pc'[q] = pc[q] /\ sweep'[q] = sweep[q]
        /\ \A r \in Run : IF Killed(r) THEN pc'[r] \in Over ELSE pc'[r] = pc[r]
    BY <1>Crash DEF Crash, Forget, Over
  <2>2. /\ dir' = dir
        /\ \A r \in Run : flock[r] # p /\ ~Killed(flock[r]) => flock'[r] = flock[r]
    BY <1>Crash DEF Crash, Forget
  <2>3. \A r \in Run : pc'[r] \in Over \/ (pc'[r] = pc[r] /\ ~Killed(r))
    BY <2>1
  <2>4. \A r \in Run : pc[r] \in Over => pc'[r] \in Over
    BY <2>1
  <2> HIDE DEF Killed
  <2>5. \A s \in Over : s \notin Early /\ s \notin Owning
    BY DEF Early, Owning, Over, SweepPhase
  <2>6. "idle" \notin Claimed
    BY DEF Claimed, SweepPhase
  <2>7. \A r \in Run : /\ pc'[r] \in Early => r \notin dir'
                       /\ pc'[r] \in Owning /\ r \in dir' => flock'[r] = r
    BY <2>2, <2>3, <2>5
  <2>8. ASSUME NEW q \in Proc, pc'[q] \in Claimed
        PROVE  pc'[sweep'[q].run] \in Over
    BY <2>1, <2>4, <2>6, <2>8
  <2>9. ASSUME NEW q \in Proc, pc'[q] \in Claimed \ {"unlink"}
        PROVE  flock'[sweep'[q].run] = q
    BY <2>1, <2>2, <2>6, <2>9 DEF Killed
  <2> QED
    BY <2>7, <2>8, <2>9
<1>DropFuture. ASSUME NEW r \in Run, DropFuture(r) PROVE MarkerInv'
  BY <1>DropFuture
  DEF DropFuture, Forget, Goto, Early, Owning, Over, Holding, SweepPhase
<1>Rest. ASSUME \/ UNCHANGED vars
                \/ \E p \in Proc : Start(p)
         PROVE  MarkerInv'
  BY <1>Rest DEF Start, vars, markerVars
<1> QED
  <2> HIDE DEF MarkerInv, TypeOK
  <2>1. ASSUME NEW r \in Run, RunStep(r) PROVE MarkerInv'
    BY <2>1, RunStepKinds, <1>Acquire, <1>SkipComplete, <1>AcquireOwnership, MarkerRunStays
  <2>2. ASSUME NEW a \in Actor, SweepStep(a) PROVE MarkerInv'
    BY <2>2, SweepStays, MarkerRunStays, MarkerProcStays DEF Actor
  <2>3. ASSUME NEW p \in Proc, RecoveryStep(p) PROVE MarkerInv'
    BY <2>3, RecoveryStepKinds, <1>RecoverClaim, MarkerProcStays
  <2> QED
    BY <1>Call, <1>DropOwnership, <1>Unlink, <1>Crash, <1>DropFuture, <1>Rest,
       <2>1, <2>2, <2>3
    DEF Next, OwnershipStep, Quiet

\* A marker file's OS lock is held by its live run or by the recovery that
\* claimed it, through every acquire, claim, drop and kill (run_ownership.rs).
THEOREM MarkerInvariant == Spec => []MarkerInv
<1>1. Init => MarkerInv
  BY DEF Init, MarkerInv, RecoveryOnlyDead, Actor, Owning, Claimed, SweepPhase
<1>2. TypeOK /\ TypeOK' /\ MarkerInv /\ [Next]_vars => MarkerInv'
  BY MarkerNext
<1> QED
  BY <1>1, <1>2, TypeCorrect, PTL DEF Spec

\* recover_stale_pipeline_runs never works on a live run, whichever process it
\* belongs to and whatever crashes, failed writes and dropped futures came first.
THEOREM RecoverySafe == Spec => []RecoveryOnlyDead
<1>1. MarkerInv => RecoveryOnlyDead
  BY DEF MarkerInv
<1> QED
  BY <1>1, MarkerInvariant, PTL

\* The OS lock that RunOwnership::claim keeps makes recovery exclusive: no two
\* processes roll the same run back at once.
THEOREM RecoveryExclusive == Spec => []OneRecoverer
<1>1. MarkerInv => OneRecoverer
  BY DEF MarkerInv, OneRecoverer
<1> QED
  BY <1>1, MarkerInvariant, PTL

-----------------------------------------------------------------------------
(* The dataset locks *)

\* A quiet step of a run keeps LockInv.
LEMMA LockRunStays ==
    ASSUME TypeOK, TypeOK', MarkerInv, LockInv, NEW r \in Run, RunStays(r)
    PROVE  LockInv'
BY ConstantsAssumption DEF RunStays, LockInv, LockOf, Actor

\* A quiet step of a recovery keeps LockInv.
LEMMA LockProcStays ==
    ASSUME TypeOK, TypeOK', MarkerInv, LockInv, NEW p \in Proc, ProcStays(p)
    PROVE  LockInv'
BY ConstantsAssumption DEF ProcStays, LockInv, LockOf, Actor

\* The lock of an actor at work is the lock of its process and its dataset.
LEMMA LockType ==
    ASSUME TypeOK
    PROVE  /\ \A r \in Run : pc[r] # "idle" => /\ LockOf(r) \in Proc \X Dataset
                                               /\ LockOf(r)[1] = call[r].proc
           /\ \A p \in Proc : pc[p] \in Claimed /\ pc[sweep[p].run] # "idle" =>
                  LockOf(p) \in Proc \X Dataset /\ LockOf(p)[1] = p
BY ConstantsAssumption DEF TypeOK, CallOK, SweepOK, LockOf, NoCall

\* LockInv is inductive, given the types.
LEMMA LockNext ==
    ASSUME TypeOK, TypeOK', MarkerInv, LockInv, [Next]_vars
    PROVE  LockInv'
<1>0. /\ \A r \in Run : pc[r] \in Holding \cup {"wait"} => LockOf(r) \in Proc \X Dataset
      /\ \A p \in Proc : pc[p] \in Claimed => LockOf(p) \in Proc \X Dataset
      /\ \A p \in Proc : pc[p] \in Claimed => pc[sweep[p].run] \in Over
  BY LockType DEF MarkerInv, RecoveryOnlyDead, Holding, Owning, Over, SweepPhase
<1> USE ConstantsAssumption
    DEF LockInv, LockOf, TypeOK, PhaseOK, EnvOK, SweepOK, CallOK, Actor
<1>Call. ASSUME NEW r \in Run, NEW p \in Proc, NEW ds \in Dataset, Call(r, p, ds)
         PROVE  LockInv'
  BY <1>0, <1>Call DEF Call, Goto, Holding, Owning, Over, SweepPhase
<1>Acquire. ASSUME NEW r \in Run, NEW D, NEW s, NEW i, Acquire(r, D, s, i)
            PROVE  LockInv'
  <2>1. /\ pc[r] = "wait" /\ pc' = [pc EXCEPT ![r] = "skip"]
        /\ lock[LockOf(r)] = Free /\ lock' = [lock EXCEPT ![LockOf(r)] = r]
        /\ UNCHANGED <<call, sweep>>
    BY <1>Acquire DEF Acquire, Goto
  <2>2. ASSUME NEW q \in Run, pc'[q] \in Holding PROVE lock'[LockOf(q)'] = q
    <3>1. LockOf(q)' = LockOf(q)
      BY <2>1
    <3>2. CASE q = r
      BY <1>0, <2>1, <3>1, <3>2
    <3>3. CASE q # r
      <4>1. pc[q] \in Holding /\ lock[LockOf(q)] = q
        BY <2>1, <2>2, <3>3
      <4>2. LockOf(q) # LockOf(r)
        BY <2>1, <4>1
      <4> QED
        BY <1>0, <2>1, <3>1, <4>1, <4>2
    <3> QED
      BY <3>2, <3>3
  <2>3. ASSUME NEW p \in Proc, pc'[p] \in Claimed PROVE lock'[LockOf(p)'] = p
    <3>1. LockOf(p)' = LockOf(p)
      BY <2>1
    <3>2. p # r
      BY ConstantsAssumption
    <3>3. pc[p] \in Claimed /\ lock[LockOf(p)] = p
      BY <2>1, <2>3, <3>2
    <3>4. LockOf(p) # LockOf(r)
      BY <2>1, <3>3, ConstantsAssumption
    <3>5. LockOf(p) \in Proc \X Dataset
      BY <1>0, <3>3
    <3>6. lock'[LockOf(p)] = lock[LockOf(p)]
      BY <2>1, <3>4, <3>5 DEF EnvOK
    <3> HIDE ConstantsAssumption
        DEF LockInv, LockOf, TypeOK, PhaseOK, EnvOK, SweepOK, CallOK, Actor
    <3> QED
      BY <3>1, <3>3, <3>6
  <2> QED
    BY <2>2, <2>3
<1>SkipComplete. ASSUME NEW r \in Run, SkipComplete(r) PROVE LockInv'
  <2>1. CASE Goto(r, "own") /\ UNCHANGED lock
    <3>1. pc[r] = "skip" /\ UNCHANGED <<call, sweep>>
      BY <1>SkipComplete DEF SkipComplete
    <3> QED
      BY <1>0, <2>1, <3>1 DEF Goto, Holding, Owning, SweepPhase
  <2>2. CASE /\ Goto(r, "done")
             /\ lock' = [lock EXCEPT ![LockOf(r)] = Free]
    BY <1>0, <1>SkipComplete, <2>2 DEF SkipComplete, Goto, Holding, Owning, SweepPhase
  <2> QED
    BY <1>SkipComplete, <2>1, <2>2 DEF SkipComplete
<1>AcquireOwnership. ASSUME NEW r \in Run, AcquireOwnership(r) PROVE LockInv'
  BY <1>0, <1>AcquireOwnership
  DEF AcquireOwnership, Goto, callVars, Holding, Owning, SweepPhase
<1>DropOwnership. ASSUME NEW a \in Actor, DropOwnership(a) PROVE LockInv'
  BY <1>0, <1>DropOwnership
  DEF DropOwnership, Goto, callVars, Holding, Owning, Claimed, SweepPhase
<1>Unlink. ASSUME NEW a \in Actor, Unlink(a) PROVE LockInv'
  <2>1. CASE a \in Run
    BY <1>0, <1>Unlink, <2>1 DEF Unlink, Goto, Holding, Owning, Claimed, SweepPhase
  <2>2. CASE a \in Proc
    BY <1>0, <1>Unlink, <2>2 DEF Unlink, Goto, Holding, Owning, Claimed, SweepPhase
  <2> QED
    BY <2>1, <2>2
<1>RecoverClaim. ASSUME NEW p \in Proc, NEW r \in Run, RecoverClaim(p, r)
                 PROVE  LockInv'
  <2>1. sweep'[p].run = r /\ \A q \in Proc \ {p} : sweep'[q] = sweep[q]
    BY <1>RecoverClaim, SweepRecords DEF RecoverClaim
  <2> QED
    BY <1>0, <1>RecoverClaim, <2>1 DEF RecoverClaim, Claimable, Goto, callVars
<1>Crash. ASSUME NEW p \in Proc, Crash(p) PROVE LockInv'
  BY <1>0, <1>Crash DEF Crash, Forget, Holding, Owning, Claimed, SweepPhase
<1>DropFuture. ASSUME NEW r \in Run, DropFuture(r) PROVE LockInv'
  BY <1>0, <1>DropFuture DEF DropFuture, Forget, Goto, Holding, Owning, SweepPhase
<1>Rest. ASSUME \/ UNCHANGED vars
                \/ \E p \in Proc : Start(p)
         PROVE  LockInv'
  BY <1>Rest DEF Start, vars, callVars
<1> QED
  <2> HIDE DEF LockInv, TypeOK
  <2>1. ASSUME NEW r \in Run, RunStep(r) PROVE LockInv'
    BY <2>1, RunStepKinds, <1>Acquire, <1>SkipComplete, <1>AcquireOwnership, LockRunStays
  <2>2. ASSUME NEW a \in Actor, SweepStep(a) PROVE LockInv'
    BY <2>2, SweepStays, LockRunStays, LockProcStays DEF Actor
  <2>3. ASSUME NEW p \in Proc, RecoveryStep(p) PROVE LockInv'
    BY <2>3, RecoveryStepKinds, <1>RecoverClaim, LockProcStays
  <2> QED
    BY <1>Call, <1>DropOwnership, <1>Unlink, <1>Crash, <1>DropFuture, <1>Rest,
       <2>1, <2>2, <2>3
    DEF Next, OwnershipStep, Quiet

\* Whoever works on a dataset is the holder its process has recorded for that
\* dataset (DatasetLocks::hold around cognify, try_lock around recovery).
THEOREM LockInvariant == Spec => []LockInv
<1>1. Init => LockInv
  BY DEF Init, LockInv, Actor, Holding, Owning, Claimed, SweepPhase
<1>2. TypeOK /\ TypeOK' /\ MarkerInv /\ LockInv /\ [Next]_vars => LockInv'
  BY LockNext
<1> QED
  BY <1>1, <1>2, TypeCorrect, MarkerInvariant, PTL DEF Spec

\* DatasetLocks around cognify and recovery: in one process no two runs, and no
\* run and recovery, ever work on one dataset together.
THEOREM DatasetExclusive == Spec => []OnePerDataset
<1>1. LockInv => OnePerDataset
  <2> SUFFICES ASSUME LockInv, NEW p \in Proc, NEW a \in Working(p),
                      NEW b \in Working(p), DatasetOfActor(a) = DatasetOfActor(b)
               PROVE  a = b
    BY DEF OnePerDataset
  <2>1. LockOf(a) = <<p, DatasetOfActor(a)>> /\ LockOf(b) = <<p, DatasetOfActor(b)>>
    BY ConstantsAssumption DEF LockOf, DatasetOfActor, Working
  <2>2. lock[LockOf(a)] = a /\ lock[LockOf(b)] = b
    BY DEF LockInv, Working
  <2> QED
    BY <2>1, <2>2
<1> QED
  BY <1>1, LockInvariant, PTL

=============================================================================
