------------------------- MODULE CognifyRunsProofs -------------------------
(***************************************************************************)
(* Theorems about CognifyRuns, for any number of processes, runs,          *)
(* datasets, items and faults.                                             *)
(***************************************************************************)
EXTENDS CognifyRuns, TLAPS

(* Records *)

\* What a frame's fields hold, and which updates keep it a frame.
LEMMA FrameFields ==
    ASSUME NEW f \in Frame
    PROVE  /\ f.items \in SUBSET Data
           /\ f.scope \in Scope
           /\ f.incr \in BOOLEAN
           /\ f.prod \in SUBSET Key
           /\ f.graph \in SUBSET Slug
           /\ f.vector \in SUBSET Slug
           /\ f.failed \in SUBSET Data
           /\ f.mark \in SUBSET Data
BY DEF Frame

\* The updates that the steps of a run make to its frame keep it a frame.
LEMMA FrameUpdates ==
    ASSUME NEW f \in Frame, NEW D \in SUBSET Data, NEW S \in SUBSET Slug
    PROVE  /\ [f EXCEPT !.items = D] \in Frame
           /\ [f EXCEPT !.failed = D] \in Frame
           /\ [f EXCEPT !.mark = D] \in Frame
           /\ [f EXCEPT !.graph = S] \in Frame
           /\ [f EXCEPT !.vector = S] \in Frame
BY DEF Frame

\* What upsert_provenance adds to a frame keeps it a frame.
LEMMA FrameOutput ==
    ASSUME NEW f \in Frame, NEW S \in SUBSET Key, NEW T \in SUBSET Slug
    PROVE  [f EXCEPT !.prod = @ \cup S, !.graph = T, !.vector = @ \cup T] \in Frame
BY DEF Frame

\* The frame a call of cognify starts with is a frame.
LEMMA NewFrame ==
    /\ NoFrame \in Frame
    /\ NoFrame.items = {}
    /\ \A D \in SUBSET Data, scope \in Scope, incr \in BOOLEAN :
          LET f == [NoFrame EXCEPT !.items = D, !.scope = scope, !.incr = incr]
          IN  f \in Frame /\ f.items = D
BY DEF Frame, NoFrame, Scope

\* The sweeps the actions start, and the updates of one under way.
LEMMA SweepRecords ==
    /\ NoSweep \in Sweep
    /\ \A r \in Run \cup {NoRun} : /\ [NoSweep EXCEPT !.run = r] \in Sweep
                                   /\ [NoSweep EXCEPT !.run = r].run = r
BY DEF Sweep, NoSweep

\* What a sweep's fields hold.
LEMMA SweepFields ==
    ASSUME NEW w \in Sweep
    PROVE  /\ w.run \in Run \cup {NoRun}
           /\ w.data \in SUBSET Owner
           /\ w.affected \in SUBSET Data
           /\ w.nodes \in SUBSET Slug
           /\ w.warned \in BOOLEAN
           /\ w.next \in {"drop", "append", "mark", "close"}
BY DEF Sweep

\* v keeps what identifies the sweep w.
SameSweep(v, w) ==
    v \in Sweep /\ v.run = w.run /\ v.next = w.next /\ v.data = w.data

\* The updates of a sweep under way keep its run, its exit and its items.
LEMMA SweepUpdates ==
    ASSUME NEW w \in Sweep, NEW D \in SUBSET Data, NEW S \in SUBSET Slug
    PROVE  /\ SameSweep(w, w)
           /\ SameSweep([w EXCEPT !.affected = D], w)
           /\ SameSweep([w EXCEPT !.nodes = S], w)
           /\ SameSweep([w EXCEPT !.warned = TRUE], w)
           /\ SameSweep([w EXCEPT !.affected = D, !.warned = TRUE], w)
BY DEF Sweep, SameSweep

\* A run writes rows of its items and of its dataset.
LEMMA OwnersType ==
    ASSUME TypeOK, NEW r \in Run PROVE Owners(r) \in SUBSET Owner
<1>1. frame[r].items \subseteq Data
  BY FrameFields DEF TypeOK, FrameOK
<1> QED
  BY <1>1, ConstantsAssumption DEF Owners, Owner

\* The items a sweep will clear are data items.
LEMMA AffectedType ==
    ASSUME NEW w PROVE Data \cap {k[1] : k \in Selected(w)} \in SUBSET Data
OBVIOUS

-----------------------------------------------------------------------------
(* One actor moves to another phase *)

\* A step that succeeds or fails leaves the count of faults in range.
LEMMA FaultStep == TypeOK /\ (Ok \/ Fault) => faults' \in 0..MaxFaults
BY ConstantsAssumption DEF TypeOK, EnvOK, Ok, Fault

\* A move of one actor to a phase of its own keeps every actor in its phases.
LEMMA PhaseStep ==
    ASSUME TypeOK, NEW a \in Actor, NEW x, Goto(a, x),
           a \in Run => x \in RunPhase,
           a \in Proc => x \in ProcPhase
    PROVE  PhaseOK'
BY ConstantsAssumption DEF TypeOK, PhaseOK, Goto, Actor

\* A move of one actor keeps a called run's process and dataset.
LEMMA CallStep ==
    ASSUME TypeOK, NEW a \in Actor, NEW x, Goto(a, x), UNCHANGED call,
           a \in Run => pc[a] # "idle"
    PROVE  CallOK'
BY ConstantsAssumption DEF TypeOK, PhaseOK, CallOK, Goto, Actor

\* A move that leaves the sweeps alone keeps them well formed.
LEMMA SweepKept ==
    ASSUME TypeOK, NEW a \in Actor, NEW x, Goto(a, x), UNCHANGED sweep,
           x \in SweepPhase => pc[a] \in SweepPhase,
           a \in Proc /\ x \in Claimed => pc[a] \in Claimed
    PROVE  SweepOK'
BY ConstantsAssumption DEF TypeOK, PhaseOK, SweepOK, Goto, Actor

\* A move that sets the mover's sweep keeps the sweeps well formed.
LEMMA SweepSet ==
    ASSUME TypeOK, NEW a \in Actor, NEW x, Goto(a, x), NEW w \in Sweep,
           sweep' = [sweep EXCEPT ![a] = w],
           a \in Run /\ x \in SweepPhase => w.run = a /\ w.next # "close",
           a \in Proc /\ x \in Claimed => w.run \in Run,
           a \in Proc /\ x \in SweepPhase => w.next = "close"
    PROVE  SweepOK'
BY ConstantsAssumption DEF TypeOK, PhaseOK, SweepOK, Goto, Actor

\* A sweep starts, goes on, or is left, in every place where one does.
LEMMA StartSweepStep ==
    ASSUME TypeOK, NEW a \in Actor, NEW r \in Run, NEW D \in SUBSET Owner,
           NEW n \in {"drop", "append", "mark", "close"},
           StartSweep(a, r, D, n), UNCHANGED call,
           a \in Run => pc[a] # "idle" /\ r = a /\ n # "close",
           a \in Proc => n = "close"
    PROVE  PhaseOK' /\ CallOK' /\ SweepOK'
<1> DEFINE w == [NoSweep EXCEPT !.run = r, !.data = D, !.next = n]
<1>1. Goto(a, "items") /\ sweep' = [sweep EXCEPT ![a] = w]
  BY DEF StartSweep
<1>2. w \in Sweep /\ w.run = r /\ w.next = n
  BY DEF Sweep, NoSweep
<1>3. PhaseOK'
  BY <1>1, PhaseStep DEF RunPhase, ProcPhase, Claimed, Owning, SweepPhase
<1>4. CallOK'
  BY <1>1, CallStep
<1>5. SweepOK'
  <2> HIDE DEF w
  <2> QED
    BY <1>1, <1>2, SweepSet
<1> QED
  BY <1>3, <1>4, <1>5

\* A step of run_in_scope from one phase to the next keeps the types.
LEMMA SweepGoesOn ==
    ASSUME TypeOK, NEW a \in Actor, NEW x \in SweepPhase, pc[a] \in SweepPhase,
           Goto(a, x), UNCHANGED call, NEW w, SameSweep(w, sweep[a]),
           sweep' = [sweep EXCEPT ![a] = w]
    PROVE  PhaseOK' /\ CallOK' /\ SweepOK'
<1>1. PhaseOK'
  BY PhaseStep DEF RunPhase, ProcPhase, Claimed, Owning
<1>2. CallOK'
  BY CallStep DEF SweepPhase
<1>3. SweepOK'
  <2>1. /\ w \in Sweep
        /\ a \in Run => w.run = a /\ w.next # "close"
        /\ a \in Proc => w.run \in Run /\ w.next = "close"
    BY DEF TypeOK, SweepOK, SameSweep, Claimed
  <2> QED
    BY <2>1, SweepSet
<1> QED
  BY <1>1, <1>2, <1>3

\* The return of RunSweeper::sweep to its caller keeps the types.
LEMMA LeaveSweepStep ==
    ASSUME TypeOK, NEW a \in Actor, NEW x, pc[a] \in SweepPhase,
           LeaveSweep(a, x), UNCHANGED call,
           x \notin SweepPhase,
           a \in Run => x \in RunPhase,
           a \in Proc => x \in Claimed
    PROVE  PhaseOK' /\ CallOK' /\ SweepOK'
<1> DEFINE w == [NoSweep EXCEPT !.run = sweep[a].run]
<1>1. Goto(a, x) /\ sweep' = [sweep EXCEPT ![a] = w]
  BY DEF LeaveSweep
<1>2. w \in Sweep /\ w.run = sweep[a].run
  BY SweepRecords, SweepFields DEF TypeOK, SweepOK
<1>3. PhaseOK'
  BY <1>1, PhaseStep DEF ProcPhase
<1>4. CallOK'
  BY <1>1, CallStep DEF SweepPhase
<1>5. SweepOK'
  <2> HIDE DEF w
  <2> QED
    BY <1>1, <1>2, SweepSet DEF TypeOK, SweepOK, Claimed
<1> QED
  BY <1>3, <1>4, <1>5

\* A failing phase of run_in_scope keeps the types.
LEMMA SweepFailStep ==
    ASSUME TypeOK, NEW a \in Actor, pc[a] \in SweepPhase, SweepFail(a),
           UNCHANGED call
    PROVE  PhaseOK' /\ CallOK' /\ SweepOK'
<1> DEFINE x == IF a \in Run THEN sweep[a].next ELSE "drop"
<1>1. LeaveSweep(a, x)
  BY DEF SweepFail
<1>2. /\ x \notin SweepPhase
      /\ a \in Run => x \in RunPhase
      /\ a \in Proc => x \in Claimed
  BY SweepFields, ConstantsAssumption
  DEF TypeOK, SweepOK, SweepPhase, RunPhase, Owning, Claimed
<1> HIDE DEF x
<1> QED
  BY <1>1, <1>2, LeaveSweepStep

-----------------------------------------------------------------------------
(* Type correctness *)

\* The types hold at the start.
LEMMA TypeInit == Init => TypeOK
<1> SUFFICES ASSUME Init PROVE TypeOK
  OBVIOUS
<1>1. PhaseOK
  BY DEF Init, PhaseOK, Actor, RunPhase, Early, ProcPhase
<1>2. CallOK /\ FrameOK
  BY NewFrame DEF Init, CallOK, FrameOK, Actor
<1>3. EnvOK /\ MarkerOK
  BY ConstantsAssumption DEF Init, EnvOK, MarkerOK, Status
<1>4. StoreOK
  BY DEF Init, StoreOK
<1>5. SweepOK
  BY SweepRecords DEF Init, SweepOK, Actor, Claimed, SweepPhase
<1> QED
  BY <1>1, <1>2, <1>3, <1>4, <1>5 DEF TypeOK

\* The types are inductive: one step below for each action.
LEMMA TypeNext == TypeOK /\ [Next]_vars => TypeOK'
<1> SUFFICES ASSUME TypeOK, [Next]_vars PROVE TypeOK'
  OBVIOUS
<1>Call. ASSUME NEW r \in Run, NEW p \in Proc, NEW ds \in Dataset, Call(r, p, ds)
         PROVE  TypeOK'
  <2>1. PhaseOK'
    BY <1>Call, PhaseStep, ConstantsAssumption DEF Call, RunPhase, Early, Actor
  <2>2. CallOK'
    BY <1>Call, ConstantsAssumption
    DEF Call, Goto, TypeOK, CallOK, PhaseOK, NoCall, Actor
  <2>3. SweepOK'
    BY <1>Call, SweepKept, ConstantsAssumption DEF Call, Actor, SweepPhase
  <2>4. FrameOK' /\ EnvOK' /\ MarkerOK' /\ StoreOK'
    BY <1>Call
    DEF Call, TypeOK, FrameOK, EnvOK, MarkerOK, StoreOK, markerVars, storeVars,
        scanVars
  <2> QED
    BY <2>1, <2>2, <2>3, <2>4 DEF TypeOK
<1>Acquire. ASSUME NEW r \in Run, NEW D \in SUBSET ItemsOf(call[r].ds), NEW
         scope \in Scopes, NEW incr \in Incremental, Acquire(r, D, scope,
         incr)
  PROVE  TypeOK'
  <2>1. PhaseOK'
    BY <1>Acquire, PhaseStep, ConstantsAssumption
    DEF Acquire, RunPhase, Early, Owning, Over, SweepPhase, Actor
  <2>2. CallOK'
    BY <1>Acquire, CallStep, ConstantsAssumption
    DEF Acquire, callVars, Actor
  <2>3. FrameOK'
    <3> DEFINE f == [NoFrame EXCEPT !.items = D, !.scope = scope, !.incr = incr]
    <3>1. f \in Frame
      BY NewFrame, ConstantsAssumption DEF ItemsOf, Scope
    <3> HIDE DEF f
    <3> QED
      BY <1>Acquire, <3>1 DEF Acquire, TypeOK, FrameOK, f
  <2>4. EnvOK'
    BY <1>Acquire, FaultStep, ConstantsAssumption
    DEF Acquire, Ok, LogRow, Status, TypeOK, EnvOK, scanVars, Actor
  <2>5. SweepOK'
    BY <1>Acquire, SweepKept, ConstantsAssumption
    DEF Acquire, RunPhase, Early, Owning, Over, SweepPhase, Actor
  <2>6. MarkerOK' /\ StoreOK'
    BY <1>Acquire
    DEF Acquire, TypeOK, MarkerOK, StoreOK, callVars, markerVars, storeVars,
        scanVars
  <2> QED
    BY <2>1, <2>2, <2>3, <2>4, <2>5, <2>6 DEF TypeOK
<1>SkipComplete. ASSUME NEW r \in Run, SkipComplete(r)
  PROVE  TypeOK'
  <2>1. PhaseOK'
    BY <1>SkipComplete, PhaseStep, ConstantsAssumption
    DEF SkipComplete, RunPhase, Early, Owning, Over, SweepPhase, Actor
  <2>2. CallOK'
    BY <1>SkipComplete, CallStep, ConstantsAssumption
    DEF SkipComplete, callVars, Actor
  <2>3. FrameOK'
    <3>1. [frame[r] EXCEPT !.items = IF frame[r].incr THEN @ \ marked ELSE @] \in Frame
      BY FrameFields, FrameUpdates DEF TypeOK, FrameOK
    <3> QED
      BY <1>SkipComplete, <3>1, NewFrame DEF SkipComplete, TypeOK, FrameOK
  <2>4. EnvOK'
    BY <1>SkipComplete, FaultStep, ConstantsAssumption
    DEF SkipComplete, Ok, LogRow, Status, TypeOK, EnvOK, scanVars, Actor
  <2>5. SweepOK'
    BY <1>SkipComplete, SweepKept, ConstantsAssumption
    DEF SkipComplete, RunPhase, Early, Owning, Over, SweepPhase, Actor
  <2>6. MarkerOK' /\ StoreOK'
    BY <1>SkipComplete
    DEF SkipComplete, TypeOK, MarkerOK, StoreOK, callVars, markerVars,
        storeVars, scanVars
  <2> QED
    BY <2>1, <2>2, <2>3, <2>4, <2>5, <2>6 DEF TypeOK
<1>AcquireOwnership. ASSUME NEW r \in Run, AcquireOwnership(r)
  PROVE  TypeOK'
  <2>1. PhaseOK'
    BY <1>AcquireOwnership, PhaseStep, ConstantsAssumption
    DEF AcquireOwnership, RunPhase, Early, Owning, Over, SweepPhase, Actor
  <2>2. CallOK'
    BY <1>AcquireOwnership, CallStep, ConstantsAssumption
    DEF AcquireOwnership, callVars, Actor
  <2>3. EnvOK'
    BY <1>AcquireOwnership, FaultStep, ConstantsAssumption
    DEF AcquireOwnership, Ok, LogRow, Status, TypeOK, EnvOK, scanVars, Actor
  <2>4. MarkerOK'
    BY <1>AcquireOwnership, ConstantsAssumption
    DEF AcquireOwnership, Target, TypeOK, MarkerOK, SweepOK, Actor
  <2>5. SweepOK'
    BY <1>AcquireOwnership, SweepKept, ConstantsAssumption
    DEF AcquireOwnership, RunPhase, Early, Owning, Over, SweepPhase, Actor
  <2>6. FrameOK' /\ StoreOK'
    BY <1>AcquireOwnership
    DEF AcquireOwnership, TypeOK, FrameOK, StoreOK, callVars, markerVars,
        storeVars, scanVars
  <2> QED
    BY <2>1, <2>2, <2>3, <2>4, <2>5, <2>6 DEF TypeOK
<1>WriteStarted. ASSUME NEW r \in Run, WriteStarted(r)
  PROVE  TypeOK'
  <2>1. PhaseOK'
    BY <1>WriteStarted, PhaseStep, ConstantsAssumption
    DEF WriteStarted, RunPhase, Early, Owning, Over, SweepPhase, Actor
  <2>2. CallOK'
    BY <1>WriteStarted, CallStep, ConstantsAssumption
    DEF WriteStarted, callVars, Actor
  <2>3. EnvOK'
    BY <1>WriteStarted, FaultStep, ConstantsAssumption
    DEF WriteStarted, Ok, LogRow, Status, TypeOK, EnvOK, scanVars, Actor
  <2>4. SweepOK'
    BY <1>WriteStarted, SweepKept, ConstantsAssumption
    DEF WriteStarted, RunPhase, Early, Owning, Over, SweepPhase, Actor
  <2>5. FrameOK' /\ MarkerOK' /\ StoreOK'
    BY <1>WriteStarted
    DEF WriteStarted, TypeOK, FrameOK, MarkerOK, StoreOK, callVars,
        markerVars, storeVars, scanVars
  <2> QED
    BY <2>1, <2>2, <2>3, <2>4, <2>5 DEF TypeOK
<1>WriteLedger. ASSUME NEW r \in Run, NEW S \in SUBSET (Owners(r) \X Slug),
                       WriteLedger(r, S)
  PROVE  TypeOK'
  <2>1. FrameOK'
    <3>1. S \in SUBSET Key /\ {k[2] : k \in S} \in SUBSET Slug
      BY OwnersType DEF Key
    <3> DEFINE T == {k[2] : k \in S}
               f == [frame[r] EXCEPT !.prod = @ \cup S, !.graph = T,
                                     !.vector = @ \cup T]
    <3>2. frame[r] \in Frame
      BY DEF TypeOK, FrameOK
    <3>3. f \in Frame
      BY <3>1, <3>2, FrameOutput
    <3>4. frame' = [frame EXCEPT ![r] = f]
      BY <1>WriteLedger DEF WriteLedger
    <3> HIDE DEF f
    <3> QED
      BY <3>3, <3>4 DEF TypeOK, FrameOK
  <2>2. StoreOK'
    BY <1>WriteLedger, ConstantsAssumption, FrameFields, SweepFields
    DEF WriteLedger, TypeOK, StoreOK, FrameOK, SweepOK, CallOK, StoreFor, Key,
        Actor, NoCall
  <2>3. PhaseOK' /\ CallOK' /\ EnvOK' /\ MarkerOK' /\ SweepOK'
    BY <1>WriteLedger
    DEF WriteLedger, TypeOK, PhaseOK, CallOK, EnvOK, MarkerOK, SweepOK,
        callVars, markerVars, storeVars, scanVars
  <2> QED
    BY <2>1, <2>2, <2>3 DEF TypeOK
<1>WriteGraph. ASSUME NEW r \in Run, NEW s \in Slug, WriteGraph(r, s)
  PROVE  TypeOK'
  <2>1. FrameOK'
    BY <1>WriteGraph, FrameFields, FrameUpdates
    DEF WriteGraph, TypeOK, FrameOK
  <2>2. StoreOK'
    BY <1>WriteGraph, ConstantsAssumption, FrameFields, SweepFields
    DEF WriteGraph, TypeOK, StoreOK, FrameOK, SweepOK, CallOK, StoreFor, Key,
        Actor, NoCall
  <2>3. PhaseOK' /\ CallOK' /\ EnvOK' /\ MarkerOK' /\ SweepOK'
    BY <1>WriteGraph
    DEF WriteGraph, TypeOK, PhaseOK, CallOK, EnvOK, MarkerOK, SweepOK,
        callVars, markerVars, storeVars, scanVars
  <2> QED
    BY <2>1, <2>2, <2>3 DEF TypeOK
<1>IndexVector. ASSUME NEW r \in Run, NEW s \in Slug, IndexVector(r, s)
  PROVE  TypeOK'
  <2>1. FrameOK'
    BY <1>IndexVector, FrameFields, FrameUpdates
    DEF IndexVector, TypeOK, FrameOK
  <2>2. StoreOK'
    BY <1>IndexVector, ConstantsAssumption, FrameFields, SweepFields
    DEF IndexVector, TypeOK, StoreOK, FrameOK, SweepOK, CallOK, StoreFor, Key,
        Actor, NoCall
  <2>3. PhaseOK' /\ CallOK' /\ EnvOK' /\ MarkerOK' /\ SweepOK'
    BY <1>IndexVector
    DEF IndexVector, TypeOK, PhaseOK, CallOK, EnvOK, MarkerOK, SweepOK,
        callVars, markerVars, storeVars, scanVars
  <2> QED
    BY <2>1, <2>2, <2>3 DEF TypeOK
<1>TaskFails. ASSUME NEW r \in Run, TaskFails(r)
  PROVE  TypeOK'
  <2>1. PhaseOK'
    BY <1>TaskFails, PhaseStep, ConstantsAssumption
    DEF TaskFails, RunPhase, Early, Owning, Over, SweepPhase, Actor
  <2>2. CallOK'
    BY <1>TaskFails, CallStep, ConstantsAssumption
    DEF TaskFails, callVars, Actor
  <2>3. SweepOK'
    BY <1>TaskFails, SweepKept, ConstantsAssumption
    DEF TaskFails, RunPhase, Early, Owning, Over, SweepPhase, Actor
  <2>4. FrameOK' /\ EnvOK' /\ MarkerOK' /\ StoreOK'
    BY <1>TaskFails
    DEF TaskFails, TypeOK, FrameOK, EnvOK, MarkerOK, StoreOK, callVars,
        markerVars, storeVars, scanVars
  <2> QED
    BY <2>1, <2>2, <2>3, <2>4 DEF TypeOK
<1>FinishWork. ASSUME NEW r \in Run, NEW F \in SUBSET frame[r].items,
         FinishWork(r, F)
  PROVE  TypeOK'
  <2>1. PhaseOK'
    BY <1>FinishWork, PhaseStep, ConstantsAssumption
    DEF FinishWork, RunPhase, Early, Owning, Over, SweepPhase, Actor
  <2>2. CallOK'
    BY <1>FinishWork, CallStep, ConstantsAssumption
    DEF FinishWork, callVars, Actor
  <2>3. FrameOK'
    BY <1>FinishWork, FrameFields, FrameUpdates
    DEF FinishWork, TypeOK, FrameOK
  <2>4. SweepOK'
    BY <1>FinishWork, SweepKept, ConstantsAssumption
    DEF FinishWork, RunPhase, Early, Owning, Over, SweepPhase, Actor
  <2>5. EnvOK' /\ MarkerOK' /\ StoreOK'
    BY <1>FinishWork
    DEF FinishWork, TypeOK, EnvOK, MarkerOK, StoreOK, callVars, markerVars,
        storeVars, scanVars
  <2> QED
    BY <2>1, <2>2, <2>3, <2>4, <2>5 DEF TypeOK
<1>WriteCompleted. ASSUME NEW r \in Run, WriteCompleted(r)
  PROVE  TypeOK'
  <2>1. PhaseOK'
    BY <1>WriteCompleted, PhaseStep, ConstantsAssumption
    DEF WriteCompleted, RunPhase, Early, Owning, Over, SweepPhase, Actor
  <2>2. CallOK'
    BY <1>WriteCompleted, CallStep, ConstantsAssumption
    DEF WriteCompleted, callVars, Actor
  <2>3. EnvOK'
    BY <1>WriteCompleted, FaultStep, ConstantsAssumption
    DEF WriteCompleted, Ok, LogRow, Status, TypeOK, EnvOK, scanVars, Actor
  <2>4. MarkerOK'
    BY <1>WriteCompleted, ConstantsAssumption
    DEF WriteCompleted, Target, TypeOK, MarkerOK, SweepOK, Actor
  <2>5. SweepOK'
    BY <1>WriteCompleted, SweepKept, ConstantsAssumption
    DEF WriteCompleted, RunPhase, Early, Owning, Over, SweepPhase, Actor
  <2>6. FrameOK' /\ StoreOK'
    BY <1>WriteCompleted
    DEF WriteCompleted, TypeOK, FrameOK, StoreOK, callVars, markerVars,
        storeVars, scanVars
  <2> QED
    BY <2>1, <2>2, <2>3, <2>4, <2>5, <2>6 DEF TypeOK
<1>WriteErrored. ASSUME NEW r \in Run, WriteErrored(r)
  PROVE  TypeOK'
  <2>1. PhaseOK' /\ CallOK' /\ SweepOK'
    <3>1. CASE Goto(r, "drop") /\ UNCHANGED sweep
      BY <1>WriteErrored, <3>1, PhaseStep, CallStep, SweepKept, ConstantsAssumption
      DEF WriteErrored, callVars, Actor, RunPhase, Owning, SweepPhase
    <3>2. CASE StartSweep(r, r, Owner, "drop")
      BY <1>WriteErrored, <3>2, StartSweepStep, ConstantsAssumption
      DEF WriteErrored, callVars, Actor
    <3> QED
      BY <1>WriteErrored, <3>1, <3>2 DEF WriteErrored
  <2>2. EnvOK'
    BY <1>WriteErrored, FaultStep, ConstantsAssumption
    DEF WriteErrored, Ok, LogRow, Status, TypeOK, EnvOK, scanVars, Actor
  <2>3. MarkerOK'
    BY <1>WriteErrored, ConstantsAssumption
    DEF WriteErrored, StartSweep, Target, TypeOK, MarkerOK, SweepOK, Actor
  <2>4. FrameOK' /\ StoreOK'
    BY <1>WriteErrored
    DEF WriteErrored, StartSweep, TypeOK, FrameOK, StoreOK, callVars,
        markerVars, storeVars, scanVars
  <2> QED
    BY <2>1, <2>2, <2>3, <2>4 DEF TypeOK
<1>TeardownOk. ASSUME NEW r \in Run, TeardownOk(r)
  PROVE  TypeOK'
  <2>1. PhaseOK' /\ CallOK' /\ SweepOK'
    <3>1. CASE Goto(r, "mark") /\ UNCHANGED sweep
      BY <1>TeardownOk, <3>1, PhaseStep, CallStep, SweepKept, ConstantsAssumption
      DEF TeardownOk, Actor, RunPhase, Owning, SweepPhase
    <3>2. CASE StartSweep(r, r, frame[r].failed, "mark")
      <4>1. frame[r].failed \in SUBSET Owner
        BY FrameFields DEF TypeOK, FrameOK, Owner
      <4> QED
        BY <1>TeardownOk, <3>2, <4>1, StartSweepStep, ConstantsAssumption
        DEF TeardownOk, Actor
    <3> QED
      BY <1>TeardownOk, <3>1, <3>2 DEF TeardownOk
  <2>2. FrameOK'
    BY <1>TeardownOk, FrameFields, FrameUpdates
    DEF TeardownOk, StartSweep, TypeOK, FrameOK
  <2>3. EnvOK' /\ MarkerOK' /\ StoreOK'
    BY <1>TeardownOk
    DEF TeardownOk, StartSweep, TypeOK, EnvOK, MarkerOK, StoreOK, callVars,
        markerVars, storeVars, scanVars
  <2> QED
    BY <2>1, <2>2, <2>3 DEF TypeOK
<1>TeardownFails. ASSUME NEW r \in Run, TeardownFails(r)
  PROVE  TypeOK'
  <2>1. PhaseOK' /\ CallOK' /\ SweepOK'
    <3>1. CASE Goto(r, "append") /\ UNCHANGED sweep
      BY <1>TeardownFails, <3>1, PhaseStep, CallStep, SweepKept, ConstantsAssumption
      DEF TeardownFails, callVars, Actor, RunPhase, Owning, SweepPhase
    <3>2. CASE StartSweep(r, r, Owner, "append")
      BY <1>TeardownFails, <3>2, StartSweepStep, ConstantsAssumption
      DEF TeardownFails, callVars, Actor
    <3> QED
      BY <1>TeardownFails, <3>1, <3>2 DEF TeardownFails
  <2>2. FrameOK' /\ EnvOK' /\ MarkerOK' /\ StoreOK'
    BY <1>TeardownFails
    DEF TeardownFails, StartSweep, TypeOK, FrameOK, EnvOK, MarkerOK, StoreOK,
        callVars, markerVars, storeVars, scanVars
  <2> QED
    BY <2>1, <2>2 DEF TypeOK
<1>AppendErrored. ASSUME NEW r \in Run, AppendErrored(r)
  PROVE  TypeOK'
  <2>1. PhaseOK'
    BY <1>AppendErrored, PhaseStep, ConstantsAssumption
    DEF AppendErrored, RunPhase, Early, Owning, Over, SweepPhase, Actor
  <2>2. CallOK'
    BY <1>AppendErrored, CallStep, ConstantsAssumption
    DEF AppendErrored, callVars, Actor
  <2>3. EnvOK'
    BY <1>AppendErrored, FaultStep, ConstantsAssumption
    DEF AppendErrored, Ok, LogRow, Status, TypeOK, EnvOK, scanVars, Actor
  <2>4. SweepOK'
    BY <1>AppendErrored, SweepKept, ConstantsAssumption
    DEF AppendErrored, RunPhase, Early, Owning, Over, SweepPhase, Actor
  <2>5. FrameOK' /\ MarkerOK' /\ StoreOK'
    BY <1>AppendErrored
    DEF AppendErrored, TypeOK, FrameOK, MarkerOK, StoreOK, callVars,
        markerVars, storeVars, scanVars
  <2> QED
    BY <2>1, <2>2, <2>3, <2>4, <2>5 DEF TypeOK
<1>MarkItem. ASSUME NEW r \in Run, NEW d \in Data, MarkItem(r, d)
  PROVE  TypeOK'
  <2>1. FrameOK'
    BY <1>MarkItem, FrameFields, FrameUpdates
    DEF MarkItem, TypeOK, FrameOK
  <2>2. EnvOK'
    BY <1>MarkItem, FaultStep, ConstantsAssumption
    DEF MarkItem, Ok, LogRow, Status, TypeOK, EnvOK, scanVars, Actor
  <2>3. StoreOK'
    <3>1. VouchedFor(r, d) \in SUBSET Key
      BY FrameFields DEF VouchedFor, TypeOK, FrameOK
    <3> QED
      BY <1>MarkItem, <3>1 DEF MarkItem, TypeOK, StoreOK
  <2>4. PhaseOK' /\ CallOK' /\ MarkerOK' /\ SweepOK'
    BY <1>MarkItem
    DEF MarkItem, TypeOK, PhaseOK, CallOK, MarkerOK, SweepOK, callVars,
        markerVars, storeVars, scanVars
  <2> QED
    BY <2>1, <2>2, <2>3, <2>4 DEF TypeOK
<1>MarkEnd. ASSUME NEW r \in Run, MarkEnd(r)
  PROVE  TypeOK'
  <2>1. PhaseOK'
    BY <1>MarkEnd, PhaseStep, ConstantsAssumption
    DEF MarkEnd, RunPhase, Early, Owning, Over, SweepPhase, Actor
  <2>2. CallOK'
    BY <1>MarkEnd, CallStep, ConstantsAssumption
    DEF MarkEnd, callVars, Actor
  <2>3. SweepOK'
    BY <1>MarkEnd, SweepKept, ConstantsAssumption
    DEF MarkEnd, RunPhase, Early, Owning, Over, SweepPhase, Actor
  <2>4. FrameOK' /\ EnvOK' /\ MarkerOK' /\ StoreOK'
    BY <1>MarkEnd
    DEF MarkEnd, TypeOK, FrameOK, EnvOK, MarkerOK, StoreOK, callVars,
        markerVars, storeVars, scanVars
  <2> QED
    BY <2>1, <2>2, <2>3, <2>4 DEF TypeOK
<1>SweepItems. ASSUME NEW a \in Actor, SweepItems(a)
  PROVE  TypeOK'
  <2>1. PhaseOK' /\ CallOK' /\ SweepOK'
    <3> DEFINE w == [sweep[a] EXCEPT !.affected = Data \cap {k[1] : k \in Selected(sweep[a])}]
    <3>1. SameSweep(w, sweep[a])
      BY AffectedType, SweepUpdates DEF TypeOK, SweepOK
    <3>2. CASE Goto(a, "nodes") /\ sweep' = [sweep EXCEPT ![a] = w]
      <4> HIDE DEF w
      <4> QED
        BY <1>SweepItems, <3>1, <3>2, SweepGoesOn DEF SweepItems, callVars, SweepPhase
    <3>3. CASE SweepFail(a)
      BY <1>SweepItems, <3>3, SweepFailStep DEF SweepItems, callVars, SweepPhase
    <3> QED
      BY <1>SweepItems, <3>2, <3>3 DEF SweepItems
  <2>2. EnvOK'
    BY <1>SweepItems, FaultStep, ConstantsAssumption
    DEF SweepItems, Ok, LogRow, Status, TypeOK, EnvOK, scanVars, Actor,
        SweepFail
  <2>3. FrameOK' /\ MarkerOK' /\ StoreOK'
    BY <1>SweepItems
    DEF SweepItems, SweepFail, LeaveSweep, TypeOK, FrameOK, MarkerOK, StoreOK,
        callVars, markerVars, storeVars, scanVars
  <2> QED
    BY <2>1, <2>2, <2>3 DEF TypeOK
<1>SweepNodes. ASSUME NEW a \in Actor, SweepNodes(a)
  PROVE  TypeOK'
  <2>1. PhaseOK' /\ CallOK' /\ SweepOK'
    <3> DEFINE w == [sweep[a] EXCEPT !.nodes = UniqueSlugs(sweep[a])]
    <3>1. SameSweep(w, sweep[a])
      BY SweepUpdates DEF TypeOK, SweepOK, UniqueSlugs
    <3>2. CASE Goto(a, "graph") /\ sweep' = [sweep EXCEPT ![a] = w]
      <4> HIDE DEF w
      <4> QED
        BY <1>SweepNodes, <3>1, <3>2, SweepGoesOn DEF SweepNodes, callVars, SweepPhase
    <3>3. CASE SweepFail(a)
      BY <1>SweepNodes, <3>3, SweepFailStep DEF SweepNodes, callVars, SweepPhase
    <3> QED
      BY <1>SweepNodes, <3>2, <3>3 DEF SweepNodes
  <2>2. EnvOK'
    BY <1>SweepNodes, FaultStep, ConstantsAssumption
    DEF SweepNodes, Ok, LogRow, Status, TypeOK, EnvOK, scanVars, Actor,
        SweepFail
  <2>3. FrameOK' /\ MarkerOK' /\ StoreOK'
    BY <1>SweepNodes
    DEF SweepNodes, SweepFail, LeaveSweep, TypeOK, FrameOK, MarkerOK, StoreOK,
        callVars, markerVars, storeVars, scanVars
  <2> QED
    BY <2>1, <2>2, <2>3 DEF TypeOK
<1>SweepGraph. ASSUME NEW a \in Actor, SweepGraph(a)
  PROVE  TypeOK'
  <2>1. PhaseOK' /\ CallOK' /\ SweepOK'
    <3>1. CASE Goto(a, "vector") /\ UNCHANGED sweep
      BY <1>SweepGraph, <3>1, PhaseStep, CallStep, SweepKept
      DEF SweepGraph, callVars, SweepPhase, RunPhase, Owning, ProcPhase, Claimed
    <3>2. CASE SweepFail(a)
      BY <1>SweepGraph, <3>2, SweepFailStep DEF SweepGraph, callVars, SweepPhase
    <3> QED
      BY <1>SweepGraph, <3>1, <3>2 DEF SweepGraph
  <2>2. EnvOK'
    BY <1>SweepGraph, FaultStep, ConstantsAssumption
    DEF SweepGraph, Ok, LogRow, Status, TypeOK, EnvOK, scanVars, Actor,
        SweepFail
  <2>3. StoreOK'
    BY <1>SweepGraph, ConstantsAssumption, FrameFields, SweepFields
    DEF SweepGraph, SweepFail, LeaveSweep, TypeOK, StoreOK, FrameOK, SweepOK,
        CallOK, StoreFor, Key, Actor, NoCall
  <2>4. FrameOK' /\ MarkerOK'
    BY <1>SweepGraph
    DEF SweepGraph, SweepFail, LeaveSweep, TypeOK, FrameOK, MarkerOK,
        callVars, markerVars, storeVars, scanVars
  <2> QED
    BY <2>1, <2>2, <2>3, <2>4 DEF TypeOK
<1>SweepVector. ASSUME NEW a \in Actor, SweepVector(a)
  PROVE  TypeOK'
  <2>1. PhaseOK' /\ CallOK' /\ SweepOK'
    <3> DEFINE w == [sweep[a] EXCEPT !.warned = TRUE]
    <3>1. CASE Goto(a, "rows") /\ UNCHANGED sweep
      BY <1>SweepVector, <3>1, PhaseStep, CallStep, SweepKept
      DEF SweepVector, callVars, SweepPhase, RunPhase, Owning, ProcPhase, Claimed
    <3>2. CASE Goto(a, "rows") /\ sweep' = [sweep EXCEPT ![a] = w]
      <4>1. SameSweep(w, sweep[a])
        BY SweepUpdates DEF TypeOK, SweepOK
      <4> HIDE DEF w
      <4> QED
        BY <1>SweepVector, <3>2, <4>1, SweepGoesOn DEF SweepVector, callVars, SweepPhase
    <3>3. CASE SweepFail(a)
      BY <1>SweepVector, <3>3, SweepFailStep DEF SweepVector, callVars, SweepPhase
    <3> QED
      BY <1>SweepVector, <3>1, <3>2, <3>3 DEF SweepVector
  <2>2. EnvOK'
    BY <1>SweepVector, FaultStep, ConstantsAssumption
    DEF SweepVector, Ok, LogRow, Status, TypeOK, EnvOK, scanVars, Actor,
        SweepFail
  <2>3. StoreOK'
    BY <1>SweepVector, ConstantsAssumption, FrameFields, SweepFields
    DEF SweepVector, SweepFail, LeaveSweep, TypeOK, StoreOK, FrameOK, SweepOK,
        CallOK, StoreFor, Key, Actor, NoCall
  <2>4. FrameOK' /\ MarkerOK'
    BY <1>SweepVector
    DEF SweepVector, SweepFail, LeaveSweep, TypeOK, FrameOK, MarkerOK,
        callVars, markerVars, storeVars, scanVars
  <2> QED
    BY <2>1, <2>2, <2>3, <2>4 DEF TypeOK
<1>SweepRows. ASSUME NEW a \in Actor, SweepRows(a)
  PROVE  TypeOK'
  <2>1. PhaseOK' /\ CallOK' /\ SweepOK'
    <3>1. CASE Goto(a, "clear") /\ UNCHANGED sweep
      BY <1>SweepRows, <3>1, PhaseStep, CallStep, SweepKept
      DEF SweepRows, callVars, SweepPhase, RunPhase, Owning, ProcPhase, Claimed
    <3>2. CASE SweepFail(a)
      BY <1>SweepRows, <3>2, SweepFailStep DEF SweepRows, callVars, SweepPhase
    <3> QED
      BY <1>SweepRows, <3>1, <3>2 DEF SweepRows
  <2>2. EnvOK'
    BY <1>SweepRows, FaultStep, ConstantsAssumption
    DEF SweepRows, Ok, LogRow, Status, TypeOK, EnvOK, scanVars, Actor,
        SweepFail
  <2>3. StoreOK'
    BY <1>SweepRows, ConstantsAssumption, FrameFields, SweepFields
    DEF SweepRows, SweepFail, LeaveSweep, TypeOK, StoreOK, FrameOK, SweepOK,
        CallOK, StoreFor, Key, Actor, NoCall
  <2>4. FrameOK' /\ MarkerOK'
    BY <1>SweepRows
    DEF SweepRows, SweepFail, LeaveSweep, TypeOK, FrameOK, MarkerOK, callVars,
        markerVars, storeVars, scanVars
  <2> QED
    BY <2>1, <2>2, <2>3, <2>4 DEF TypeOK
<1>SweepClear. ASSUME NEW a \in Actor, NEW d \in Data, SweepClear(a, d)
  PROVE  TypeOK'
  <2>1. EnvOK'
    BY <1>SweepClear, FaultStep, ConstantsAssumption
    DEF SweepClear, Ok, LogRow, Status, TypeOK, EnvOK, scanVars, Actor
  <2>2. StoreOK'
    BY <1>SweepClear, ConstantsAssumption, FrameFields, SweepFields
    DEF SweepClear, TypeOK, StoreOK, FrameOK, SweepOK, CallOK, StoreFor, Key,
        Actor, NoCall
  <2>3. SweepOK'
    <3>1. /\ \/ sweep' = [sweep EXCEPT ![a].affected = @ \ {d}]
             \/ sweep' = [sweep EXCEPT ![a].affected = @ \ {d}, ![a].warned = TRUE]
          /\ UNCHANGED pc
      BY <1>SweepClear DEF SweepClear
    <3>2. sweep' \in [Actor -> Sweep]
      BY <3>1, SweepFields DEF TypeOK, SweepOK, Sweep
    <3>3. \A b \in Actor : sweep'[b].run = sweep[b].run /\ sweep'[b].next = sweep[b].next
      BY <3>1 DEF TypeOK, SweepOK, Sweep
    <3> QED
      BY <3>1, <3>2, <3>3 DEF TypeOK, SweepOK, Actor
  <2>4. PhaseOK' /\ CallOK' /\ FrameOK' /\ MarkerOK'
    BY <1>SweepClear
    DEF SweepClear, TypeOK, PhaseOK, CallOK, FrameOK, MarkerOK, callVars,
        markerVars, storeVars, scanVars
  <2> QED
    BY <2>1, <2>2, <2>3, <2>4 DEF TypeOK
<1>SweepEnd. ASSUME NEW a \in Actor, SweepEnd(a)
  PROVE  TypeOK'
  <2>1. PhaseOK' /\ CallOK' /\ SweepOK'
    <3> DEFINE x == IF a \in Proc /\ sweep[a].warned THEN "drop" ELSE sweep[a].next
    <3>1. LeaveSweep(a, x) /\ pc[a] \in SweepPhase /\ UNCHANGED call
      BY <1>SweepEnd DEF SweepEnd, SweepPhase, callVars
    <3>2. /\ x \notin SweepPhase
          /\ a \in Run => x \in RunPhase
          /\ a \in Proc => x \in Claimed
      BY <3>1, SweepFields, ConstantsAssumption
      DEF TypeOK, SweepOK, SweepPhase, RunPhase, Owning, Claimed
    <3> HIDE DEF x
    <3> QED
      BY <3>1, <3>2, LeaveSweepStep
  <2>2. FrameOK' /\ EnvOK' /\ MarkerOK' /\ StoreOK'
    BY <1>SweepEnd
    DEF SweepEnd, LeaveSweep, TypeOK, FrameOK, EnvOK, MarkerOK, StoreOK,
        callVars, markerVars, storeVars, scanVars
  <2> QED
    BY <2>1, <2>2 DEF TypeOK
<1>DropOwnership. ASSUME NEW a \in Actor, DropOwnership(a)
  PROVE  TypeOK'
  <2>1. PhaseOK'
    BY <1>DropOwnership, PhaseStep, ConstantsAssumption
    DEF DropOwnership, RunPhase, Early, Owning, Over, ProcPhase, Claimed,
        SweepPhase, Actor
  <2>2. CallOK'
    BY <1>DropOwnership, CallStep, ConstantsAssumption
    DEF DropOwnership, callVars, Actor
  <2>3. MarkerOK'
    BY <1>DropOwnership, ConstantsAssumption
    DEF DropOwnership, Target, TypeOK, MarkerOK, SweepOK, Actor
  <2>4. SweepOK'
    BY <1>DropOwnership, SweepKept, ConstantsAssumption
    DEF DropOwnership, RunPhase, Early, Owning, Over, ProcPhase, Claimed,
        SweepPhase, Actor
  <2>5. FrameOK' /\ EnvOK' /\ StoreOK'
    BY <1>DropOwnership
    DEF DropOwnership, TypeOK, FrameOK, EnvOK, StoreOK, callVars, markerVars,
        storeVars, scanVars
  <2> QED
    BY <2>1, <2>2, <2>3, <2>4, <2>5 DEF TypeOK
<1>Unlink. ASSUME NEW a \in Actor, Unlink(a)
  PROVE  TypeOK'
  <2>1. PhaseOK' /\ CallOK' /\ SweepOK'
    <3> DEFINE x == IF a \in Run THEN "done" ELSE "scan"
    <3>1. Goto(a, x) /\ sweep' = [sweep EXCEPT ![a] = NoSweep] /\ UNCHANGED call
      BY <1>Unlink DEF Unlink
    <3>2. /\ a \in Run => x \in RunPhase
          /\ a \in Proc => x \in ProcPhase
          /\ x \notin SweepPhase
          /\ a \in Proc => x \notin Claimed
      BY ConstantsAssumption
      DEF RunPhase, Over, ProcPhase, Claimed, SweepPhase
    <3>3. pc[a] # "idle"
      BY <1>Unlink DEF Unlink
    <3> HIDE DEF x
    <3> QED
      BY <3>1, <3>2, <3>3, PhaseStep, CallStep, SweepSet, SweepRecords
  <2>2. FrameOK'
    BY <1>Unlink, NewFrame
    DEF Unlink, TypeOK, FrameOK
  <2>3. EnvOK'
    BY <1>Unlink, FaultStep, ConstantsAssumption
    DEF Unlink, Ok, LogRow, Status, TypeOK, EnvOK, scanVars, Actor
  <2>4. MarkerOK'
    BY <1>Unlink, ConstantsAssumption
    DEF Unlink, Target, TypeOK, MarkerOK, SweepOK, Actor
  <2>5. StoreOK'
    BY <1>Unlink
    DEF Unlink, TypeOK, StoreOK, callVars, markerVars, storeVars, scanVars
  <2> QED
    BY <2>1, <2>2, <2>3, <2>4, <2>5 DEF TypeOK
<1>Recover. ASSUME NEW p \in Proc, Recover(p)
  PROVE  TypeOK'
  <2>1. PhaseOK'
    BY <1>Recover, PhaseStep, ConstantsAssumption
    DEF Recover, ProcPhase, Claimed, SweepPhase, Actor
  <2>2. CallOK'
    BY <1>Recover, CallStep, ConstantsAssumption
    DEF Recover, callVars, Actor
  <2>3. EnvOK'
    BY <1>Recover, FaultStep, ConstantsAssumption
    DEF Recover, Ok, LogRow, Status, TypeOK, EnvOK, scanVars, Actor
  <2>4. SweepOK'
    BY <1>Recover, SweepKept, ConstantsAssumption
    DEF Recover, ProcPhase, Claimed, SweepPhase, Actor
  <2>5. FrameOK' /\ MarkerOK' /\ StoreOK'
    BY <1>Recover
    DEF Recover, TypeOK, FrameOK, MarkerOK, StoreOK, callVars, markerVars,
        storeVars, scanVars
  <2> QED
    BY <2>1, <2>2, <2>3, <2>4, <2>5 DEF TypeOK
<1>RecoverSkip. ASSUME NEW p \in Proc, NEW r \in Run, RecoverSkip(p, r)
  PROVE  TypeOK'
  <2>1. EnvOK'
    BY <1>RecoverSkip, FaultStep, ConstantsAssumption
    DEF RecoverSkip, Ok, LogRow, Status, TypeOK, EnvOK, scanVars, Actor
  <2>2. PhaseOK' /\ CallOK' /\ FrameOK' /\ MarkerOK' /\ StoreOK' /\ SweepOK'
    BY <1>RecoverSkip
    DEF RecoverSkip, TypeOK, PhaseOK, CallOK, FrameOK, MarkerOK, StoreOK,
        SweepOK, callVars, markerVars, storeVars, scanVars
  <2> QED
    BY <2>1, <2>2 DEF TypeOK
<1>RecoverClaim. ASSUME NEW p \in Proc, NEW r \in Run, RecoverClaim(p, r)
  PROVE  TypeOK'
  <2>1. PhaseOK' /\ CallOK' /\ SweepOK'
    <3> DEFINE w == [NoSweep EXCEPT !.run = r]
    <3>1. w \in Sweep /\ w.run = r
      BY SweepRecords
    <3>2. Goto(p, "recheck") /\ sweep' = [sweep EXCEPT ![p] = w] /\ UNCHANGED call
      BY <1>RecoverClaim DEF RecoverClaim, callVars
    <3> HIDE DEF w
    <3>3. p \in Actor /\ p \notin Run
      BY ConstantsAssumption DEF Actor
    <3>4. PhaseOK'
      BY <3>2, <3>3, PhaseStep DEF ProcPhase, Claimed
    <3>5. CallOK'
      BY <3>2, <3>3, CallStep
    <3>6. SweepOK'
      <4>1. "recheck" \notin SweepPhase
        BY DEF SweepPhase
      <4>2. w.run \in Run
        BY <3>1
      <4> QED
        BY <3>1, <3>2, <3>3, <4>1, <4>2, SweepSet
    <3> QED
      BY <3>4, <3>5, <3>6
  <2>2. EnvOK'
    BY <1>RecoverClaim, FaultStep, ConstantsAssumption
    DEF RecoverClaim, Ok, LogRow, Status, TypeOK, EnvOK, scanVars, Actor
  <2>3. MarkerOK'
    BY <1>RecoverClaim, ConstantsAssumption
    DEF RecoverClaim, Target, TypeOK, MarkerOK, SweepOK, Actor
  <2>4. FrameOK' /\ StoreOK'
    BY <1>RecoverClaim
    DEF RecoverClaim, TypeOK, FrameOK, StoreOK, callVars, markerVars,
        storeVars, scanVars
  <2> QED
    BY <2>1, <2>2, <2>3, <2>4 DEF TypeOK
<1>Recheck. ASSUME NEW p \in Proc, Recheck(p)
  PROVE  TypeOK'
  <2>1. PhaseOK' /\ CallOK' /\ SweepOK'
    <3>1. CASE Goto(p, "drop") /\ UNCHANGED sweep
      BY <1>Recheck, <3>1, PhaseStep, CallStep, SweepKept, ConstantsAssumption
      DEF Recheck, callVars, Actor, ProcPhase, Claimed, SweepPhase
    <3>2. CASE StartSweep(p, sweep[p].run, Owner, "close")
      BY <1>Recheck, <3>2, StartSweepStep, ConstantsAssumption
      DEF Recheck, callVars, Actor, TypeOK, SweepOK, Claimed
    <3> QED
      BY <1>Recheck, <3>1, <3>2 DEF Recheck
  <2>2. EnvOK'
    BY <1>Recheck, FaultStep, ConstantsAssumption
    DEF Recheck, Ok, LogRow, Status, TypeOK, EnvOK, scanVars, Actor
  <2>3. MarkerOK'
    BY <1>Recheck, ConstantsAssumption
    DEF Recheck, StartSweep, Target, TypeOK, MarkerOK, SweepOK, Actor
  <2>4. FrameOK' /\ StoreOK'
    BY <1>Recheck
    DEF Recheck, StartSweep, TypeOK, FrameOK, StoreOK, callVars, markerVars,
        storeVars, scanVars
  <2> QED
    BY <2>1, <2>2, <2>3, <2>4 DEF TypeOK
<1>RecoverClose. ASSUME NEW p \in Proc, RecoverClose(p)
  PROVE  TypeOK'
  <2>1. PhaseOK'
    BY <1>RecoverClose, PhaseStep, ConstantsAssumption
    DEF RecoverClose, ProcPhase, Claimed, SweepPhase, Actor
  <2>2. CallOK'
    BY <1>RecoverClose, CallStep, ConstantsAssumption
    DEF RecoverClose, callVars, Actor
  <2>3. EnvOK'
    BY <1>RecoverClose, FaultStep, ConstantsAssumption
    DEF RecoverClose, Ok, LogRow, Status, TypeOK, EnvOK, scanVars, Actor
  <2>4. MarkerOK'
    BY <1>RecoverClose, ConstantsAssumption
    DEF RecoverClose, Target, TypeOK, MarkerOK, SweepOK, Actor
  <2>5. SweepOK'
    BY <1>RecoverClose, SweepKept, ConstantsAssumption
    DEF RecoverClose, ProcPhase, Claimed, SweepPhase, Actor
  <2>6. FrameOK' /\ StoreOK'
    BY <1>RecoverClose
    DEF RecoverClose, TypeOK, FrameOK, StoreOK, callVars, markerVars,
        storeVars, scanVars
  <2> QED
    BY <2>1, <2>2, <2>3, <2>4, <2>5, <2>6 DEF TypeOK
<1>RecoverEnd. ASSUME NEW p \in Proc, RecoverEnd(p)
  PROVE  TypeOK'
  <2>1. PhaseOK'
    BY <1>RecoverEnd, PhaseStep, ConstantsAssumption
    DEF RecoverEnd, ProcPhase, Claimed, SweepPhase, Actor
  <2>2. CallOK'
    BY <1>RecoverEnd, CallStep, ConstantsAssumption
    DEF RecoverEnd, callVars, Actor
  <2>3. SweepOK'
    BY <1>RecoverEnd, SweepKept, ConstantsAssumption
    DEF RecoverEnd, ProcPhase, Claimed, SweepPhase, Actor
  <2>4. FrameOK' /\ EnvOK' /\ MarkerOK' /\ StoreOK'
    BY <1>RecoverEnd
    DEF RecoverEnd, TypeOK, FrameOK, EnvOK, MarkerOK, StoreOK, callVars,
        markerVars, storeVars, scanVars
  <2> QED
    BY <2>1, <2>2, <2>3, <2>4 DEF TypeOK
<1>Start. ASSUME NEW p \in Proc, Start(p)
  PROVE  TypeOK'
  <2>1. EnvOK'
    BY <1>Start, FaultStep, ConstantsAssumption
    DEF Start, Ok, LogRow, Status, TypeOK, EnvOK, scanVars, Actor
  <2>2. PhaseOK' /\ CallOK' /\ FrameOK' /\ MarkerOK' /\ StoreOK' /\ SweepOK'
    BY <1>Start
    DEF Start, TypeOK, PhaseOK, CallOK, FrameOK, MarkerOK, StoreOK, SweepOK,
        callVars, markerVars, storeVars, scanVars
  <2> QED
    BY <2>1, <2>2 DEF TypeOK
<1>Crash. ASSUME NEW p \in Proc, Crash(p) PROVE TypeOK'
  <2>1. PhaseOK'
    BY <1>Crash, ConstantsAssumption
    DEF Crash, TypeOK, PhaseOK, Actor, RunPhase, ProcPhase, Over
  <2>2. CallOK'
    BY <1>Crash, ConstantsAssumption DEF Crash, TypeOK, PhaseOK, CallOK, NoCall, Actor
  <2>3. FrameOK'
    BY <1>Crash, NewFrame DEF Crash, Forget, TypeOK, FrameOK
  <2>4. EnvOK'
    BY <1>Crash, FaultStep DEF Crash, TypeOK, EnvOK, Actor
  <2>5. MarkerOK'
    BY <1>Crash DEF Crash, Forget, TypeOK, MarkerOK
  <2>6. StoreOK'
    BY <1>Crash, SweepFields DEF Crash, Forget, TypeOK, StoreOK, SweepOK, Actor
  <2>7. SweepOK'
    <3>1. sweep' \in [Actor -> Sweep]
      BY <1>Crash, SweepRecords DEF Crash, Forget, TypeOK, SweepOK
    <3>2. \A r \in Run : pc'[r] \in SweepPhase => sweep'[r] = sweep[r] /\ pc'[r] = pc[r]
      BY <1>Crash, ConstantsAssumption DEF Crash, Forget, Actor, SweepPhase
    <3>3. \A q \in Proc : pc'[q] \in Claimed => sweep'[q] = sweep[q] /\ pc'[q] = pc[q]
      BY <1>Crash, ConstantsAssumption DEF Crash, Forget, Actor, Claimed, SweepPhase
    <3>4. SweepPhase \subseteq Claimed
      BY DEF Claimed
    <3> QED
      BY <3>1, <3>2, <3>3, <3>4 DEF TypeOK, SweepOK
  <2> QED
    BY <2>1, <2>2, <2>3, <2>4, <2>5, <2>6, <2>7 DEF TypeOK
<1>DropFuture. ASSUME NEW r \in Run, DropFuture(r) PROVE TypeOK'
  <2>1. PhaseOK'
    BY <1>DropFuture, PhaseStep, ConstantsAssumption DEF DropFuture, Actor, RunPhase, Over
  <2>2. CallOK'
    BY <1>DropFuture, CallStep
    DEF DropFuture, Actor, Holding, Owning, SweepPhase
  <2>3. FrameOK'
    BY <1>DropFuture, NewFrame DEF DropFuture, Forget, TypeOK, FrameOK
  <2>4. EnvOK'
    BY <1>DropFuture, FaultStep DEF DropFuture, TypeOK, EnvOK, scanVars
  <2>5. MarkerOK'
    BY <1>DropFuture DEF DropFuture, Forget, TypeOK, MarkerOK
  <2>6. StoreOK'
    BY <1>DropFuture, SweepFields DEF DropFuture, Forget, TypeOK, StoreOK, SweepOK, Actor
  <2>7. SweepOK'
    BY <1>DropFuture, ConstantsAssumption
    DEF DropFuture, Goto, Forget, TypeOK, PhaseOK, SweepOK, Actor, SweepPhase, Sweep, NoSweep
  <2> QED
    BY <2>1, <2>2, <2>3, <2>4, <2>5, <2>6, <2>7 DEF TypeOK
<1>Unchanged. ASSUME UNCHANGED vars PROVE TypeOK'
  BY <1>Unchanged
  DEF TypeOK, PhaseOK, CallOK, FrameOK, EnvOK, MarkerOK, StoreOK, SweepOK, vars,
      callVars, markerVars, storeVars, scanVars
<1> QED
  BY <1>Call, <1>Acquire, <1>SkipComplete, <1>AcquireOwnership, <1>WriteStarted,
     <1>WriteLedger, <1>WriteGraph, <1>IndexVector, <1>TaskFails, <1>FinishWork,
     <1>WriteCompleted, <1>WriteErrored, <1>TeardownOk, <1>TeardownFails,
     <1>AppendErrored, <1>MarkItem, <1>MarkEnd, <1>SweepItems, <1>SweepNodes,
     <1>SweepGraph, <1>SweepVector, <1>SweepRows, <1>SweepClear, <1>SweepEnd,
     <1>DropOwnership, <1>Unlink, <1>Recover, <1>RecoverSkip, <1>RecoverClaim,
     <1>Recheck, <1>RecoverClose, <1>RecoverEnd, <1>Start, <1>Crash,
     <1>DropFuture, <1>Unchanged
  DEF Next, RunStep, SweepStep, OwnershipStep, RecoveryStep, Quiet

\* Every variable keeps its type, for every instance of the constants.
THEOREM TypeCorrect == Spec => []TypeOK
<1>1. Init => TypeOK
  BY TypeInit
<1>2. TypeOK /\ [Next]_vars => TypeOK'
  BY TypeNext
<1> QED
  BY <1>1, <1>2, PTL DEF Spec

=============================================================================
