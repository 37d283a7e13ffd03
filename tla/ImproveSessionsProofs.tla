------------------------ MODULE ImproveSessionsProofs -------------------------
(***************************************************************************)
(* Proofs about ImproveSessions, for any calls, sessions and scenarios: the *)
(* variables keep their types and the count of background tasks is right,  *)
(* no two improves work on a session at a time, the watermark passes no    *)
(* trace step unseen unless appends overlapped or the trace expired, and   *)
(* with a database the debounce strands no entry.                          *)
(***************************************************************************)
EXTENDS ImproveSessions, FiniteSetTheorems, SequenceTheorems, TLAPS

(* Helpers: finite sets of calls, and the least element *)

\* A set of calls is finite, and its size a number.
LEMMA CallSets ==
    \A S \in SUBSET Call : IsFiniteSet(S) /\ Cardinality(S) \in Nat
<1> TAKE S \in SUBSET Call
<1>1. IsFiniteSet(S)
  BY FS_Subset, ImproveAssumption
<1> QED
  BY <1>1, FS_CardinalityType

\* A smaller set of calls is no larger.
LEMMA CallSubsets ==
    \A S \in SUBSET Call : \A T \in SUBSET S : Cardinality(T) <= Cardinality(S)
<1> TAKE S \in SUBSET Call
<1> TAKE T \in SUBSET S
<1> QED
  BY CallSets, FS_Subset

\* A set of calls grows by one with a new call, and shrinks by one without one.
LEMMA CallAdded ==
    \A S \in SUBSET Call : \A c \in Call :
        Cardinality(S \cup {c}) = (IF c \in S THEN Cardinality(S) ELSE Cardinality(S) + 1)
<1> TAKE S \in SUBSET Call
<1> TAKE c \in Call
<1>1. c \in S => S \cup {c} = S
  OBVIOUS
<1> QED
  BY <1>1, CallSets, FS_AddElement

LEMMA CallRemoved ==
    \A S \in SUBSET Call : \A c \in Call :
        Cardinality(S \ {c}) = (IF c \in S THEN Cardinality(S) - 1 ELSE Cardinality(S))
<1> TAKE S \in SUBSET Call
<1> TAKE c \in Call
<1>1. c \notin S => S \ {c} = S
  OBVIOUS
<1> QED
  BY <1>1, CallSets, FS_RemoveElement

-----------------------------------------------------------------------------
(* Types and claims *)

\* TypeOK, but for the count of the tasks.
Types ==
    /\ env \in Scenarios
    /\ pc \in [Call -> Before \cup Spawned \cup {"over"}]
    /\ at \in [Call -> Session] /\ todo \in [Call -> SUBSET Session]
    /\ snap \in [Call -> Snap]
    /\ qa \in [Session -> SUBSET Call] /\ trace \in [Session -> Trace]
    /\ ctx \in [Session -> Ctx] /\ deleted \subseteq Session
    /\ lock \in [Session -> Nat] /\ arc \in [Call -> [Session -> Nat]]
    /\ taken \in [Call -> SUBSET Session]
    /\ bridged \in [Session -> SUBSET Call] /\ seen \in [Session -> SUBSET Nat]
    /\ failed \subseteq Call
    /\ waiter \in [pc : {"idle", "read", "poll", "wait", "done"}, woken : BOOLEAN]

Tasks == {c \in Call : pc[c] \in Spawned \ {"notify"}}

\* An improve has resolved the mutexes of its sessions from its dataset's lock to
\* its end, and each of them is the one in the registry; it claims them one by one.
Claim(c) ==
    /\ \A s \in Session : arc[c][s] # 0 <=> pc[c] \in Improving /\ s \in env.sessions[c]
    /\ \A s \in Session : arc[c][s] # 0 => arc[c][s] = lock[s]
    /\ pc[c] \notin Improving => taken[c] = {}
    /\ pc[c] = "acquire" => env.sessions[c] = taken[c] \cup todo[c]
    /\ pc[c] \in Stages => taken[c] = env.sessions[c]

ClaimsInv ==
    /\ \A c \in Call : Claim(c)
    /\ \A c, o \in Call : c # o => taken[c] \cap taken[o] = {}

\* A mutex of a session that nobody has resolved is a new one.
LEMMA FreshIsOne ==
    ASSUME NEW s, \A o \in Call : arc[o][s] = 0
    PROVE  Fresh(s) = 1
<1> DEFINE S == {m \in 1..Cardinality(Call) + 1 : ~InUse(s, m)}
<1>1. Cardinality(Call) \in Nat
  BY CallSets
<1>2. 1 \in S /\ \A t \in S : 1 <= t
  BY <1>1 DEF InUse
<1> HIDE DEF S
<1>3. \E m \in S : \A t \in S : m <= t
  BY <1>2
<1>4. Min(S) \in S /\ \A t \in S : Min(S) <= t
  BY <1>3 DEF Min
<1>5. S \subseteq Int
  BY <1>1 DEF S
<1>6. \A m \in Int : m <= 1 /\ 1 <= m => m = 1
  OBVIOUS
<1>7. Min(S) \in Int /\ Min(S) <= 1 /\ 1 <= Min(S)
  BY <1>2, <1>4, <1>5
<1> QED
  BY <1>6, <1>7 DEF Fresh, S

LEMMA NoTraceTypes == NoTrace \in Trace
  BY EmptySeq DEF NoTrace, Trace

\* A trace with one more append under way, with that append saved, and when its
\* file has expired.
Begun(t, n, o) == [t EXCEPT !.begun = n, !.open = o]
Saved(t, o, b, l) == [t EXCEPT !.open = o, !.torn = b, !.list = l]
Expired(t) == [t EXCEPT !.list = <<>>, !.torn = TRUE]

\* A trace keeps its type, and the fields that do not change, whichever do.
LEMMA TraceBegins ==
    ASSUME NEW t \in Trace, NEW n \in Nat, NEW o \in SUBSET [step : Nat, list : Seq(Nat)]
    PROVE  /\ Begun(t, n, o) \in Trace
           /\ Begun(t, n, o).list = t.list
           /\ Begun(t, n, o).torn = t.torn
<1> DEFINE L == Seq(Nat)
           A == [step : Nat, list : Seq(Nat)]
<1>1. t \in [list : L, begun : Nat, open : SUBSET A, torn : BOOLEAN] /\ o \in SUBSET A
  BY DEF Trace
<1> HIDE DEF L, A
<1>2. Begun(t, n, o) \in [list : L, begun : Nat, open : SUBSET A, torn : BOOLEAN]
  BY <1>1 DEF Begun
<1>3. /\ Begun(t, n, o).list = t.list
      /\ Begun(t, n, o).torn = t.torn
  BY <1>1 DEF Begun
<1> QED
  BY <1>2, <1>3 DEF L, A, Trace

LEMMA TraceSaved ==
    ASSUME NEW t \in Trace, NEW l \in Seq(Nat), NEW b \in BOOLEAN,
           NEW o \in SUBSET [step : Nat, list : Seq(Nat)]
    PROVE  /\ Saved(t, o, b, l) \in Trace
           /\ Saved(t, o, b, l).list = l
           /\ Saved(t, o, b, l).torn = b
<1> DEFINE L == Seq(Nat)
           A == [step : Nat, list : Seq(Nat)]
<1>1. t \in [list : L, begun : Nat, open : SUBSET A, torn : BOOLEAN] /\ o \in SUBSET A /\ l \in L
  BY DEF Trace
<1> HIDE DEF L, A
<1>2. Saved(t, o, b, l) \in
         [list : L, begun : Nat, open : SUBSET A, torn : BOOLEAN]
  BY <1>1 DEF Saved
<1>3. /\ Saved(t, o, b, l).list = l
      /\ Saved(t, o, b, l).torn = b
  BY <1>1 DEF Saved
<1> QED
  BY <1>2, <1>3 DEF L, A, Trace

LEMMA TraceExpires ==
    ASSUME NEW t \in Trace
    PROVE  /\ Expired(t) \in Trace
           /\ Expired(t).torn
<1> DEFINE L == Seq(Nat)
           A == [step : Nat, list : Seq(Nat)]
<1>1. t \in [list : L, begun : Nat, open : SUBSET A, torn : BOOLEAN] /\ <<>> \in L
  BY EmptySeq DEF Trace
<1> HIDE DEF L, A
<1>2. /\ Expired(t) \in
            [list : L, begun : Nat, open : SUBSET A, torn : BOOLEAN]
      /\ Expired(t).torn
  BY <1>1 DEF Expired
<1> QED
  BY <1>2 DEF L, A, Trace

LEMMA InitTypes == Init => Types /\ ClaimsInv
<1> SUFFICES ASSUME Init PROVE Types /\ ClaimsInv
  OBVIOUS
<1>1. env \in Scenarios /\ \A c \in Call : env.sessions[c] \subseteq Session /\ env.sessions[c] # {}
  BY ImproveAssumption DEF Init
<1>2. at \in [Call -> Session]
  BY <1>1 DEF Init
<1>3. Types
  BY <1>1, <1>2, ImproveAssumption, NoTraceTypes
  DEF Init, Types, Before, Spawned, Snap, Ctx, Nothing, Empty
<1>4. \A c \in Call : Claim(c)
  BY <1>1 DEF Init, Claim, Improving, Stages
<1> QED
  BY <1>3, <1>4 DEF Init, ClaimsInv

\* What Resolve does to the registry and to the mutexes of its call: a session that
\* an improve uses keeps its mutex, and the call's sessions have one.
LEMMA ResolveGot ==
    ASSUME Types, ClaimsInv, NEW c \in Call, Resolve(c)
    PROVE  /\ lock' \in [Session -> Nat]
           /\ arc' \in [Call -> [Session -> Nat]]
           /\ \A o \in Call \ {c} : arc'[o] = arc[o]
           /\ \A s \in Session : s \in env.sessions[c] => arc'[c][s] = lock'[s] /\ lock'[s] # 0
           /\ \A s \in Session : s \notin env.sessions[c] => arc'[c][s] = 0
           /\ \A o \in Call : \A s \in Session : arc[o][s] # 0 => lock'[s] = lock[s]
<1> DEFINE full == Cardinality({s \in Session : lock[s] # 0}) >= PruneThreshold
           kept == [s \in Session |-> IF full /\ ~InUse(s, lock[s]) THEN 0 ELSE lock[s]]
           got == [s \in Session |-> IF s \in env.sessions[c] /\ kept[s] = 0 THEN Fresh(s) ELSE kept[s]]
<1>1. lock' = got
      /\ arc' = [arc EXCEPT ![c] = [s \in Session |-> IF s \in env.sessions[c] THEN got[s] ELSE 0]]
  BY DEF Resolve
<1>2. \A o \in Call : \A s \in Session : arc[o][s] # 0 => kept[s] = lock[s] /\ lock[s] # 0
  BY DEF ClaimsInv, Claim, InUse, Types
<1>3. kept \in [Session -> Nat]
  BY DEF Types
<1> HIDE DEF full, kept
<1>4. \A s \in Session : kept[s] = 0 => Fresh(s) = 1
  <2> SUFFICES ASSUME NEW s \in Session, kept[s] = 0 PROVE Fresh(s) = 1
    OBVIOUS
  <2>1. \A o \in Call : arc[o][s] = 0
    BY <1>2
  <2> QED
    BY <2>1, FreshIsOne
<1>5. /\ got \in [Session -> Nat]
      /\ \A s \in Session : s \in env.sessions[c] => got[s] # 0
      /\ \A s \in Session : kept[s] # 0 => got[s] = kept[s]
  BY <1>3, <1>4
<1> HIDE DEF got
<1> QED
  BY <1>1, <1>2, <1>5 DEF Types

\* What is read and what is stored keep their types, whichever field changes.
LEMMA SnapTypes ==
    /\ \A f \in Snap : \A e \in SUBSET Call : [f EXCEPT !.entries = e] \in Snap
    /\ \A f \in Snap : \A x \in Ctx : [f EXCEPT !.file = x] \in Snap
    /\ \A x \in Ctx : [Nothing EXCEPT !.file = x] \in Snap
    /\ \A n \in Nat : [Nothing EXCEPT !.count = n] \in Snap
    /\ \A n \in Nat : \A w \in SUBSET Nat : [Nothing EXCEPT !.count = n, !.window = w] \in Snap
    /\ Nothing \in Snap
    /\ \A f \in Snap : f.entries \subseteq Call /\ f.file \in Ctx /\ f.count \in Nat /\ f.window \subseteq Nat
  BY DEF Snap, Ctx, Nothing, Empty

LEMMA CtxTypes ==
    /\ \A f \in Ctx : \A n \in Nat :
          [f EXCEPT !.mark = n] \in Ctx /\ [f EXCEPT !.wm = n] \in Ctx /\ Created(f, n) \in Ctx
    /\ \A f \in Ctx : f.mark \in Nat /\ f.wm \in Nat
    /\ Empty \in Ctx
  BY DEF Ctx, Created, Empty

\* The step of a call keeps the types.
LEMMA RememberTypes ==
    ASSUME Types, NEW c \in Call, Remember(c) \/ Spawn(c)
    PROVE  Types'
<1>at. at \in [Call -> Session] /\ at[c] \in Session
  BY DEF Types
<1>pc. pc \in [Call -> Before \cup Spawned \cup {"over"}]
  BY DEF Types
<1>todo. todo \in [Call -> SUBSET Session] /\ env.sessions[c] \in SUBSET Session
  BY ImproveAssumption DEF Types
<1>snap. snap \in [Call -> Snap] /\ snap[c] \in Snap
  BY DEF Types
<1>qa. qa \in [Session -> SUBSET Call] /\ qa[at[c]] \in SUBSET Call
  BY <1>at DEF Types
<1>ctx. ctx \in [Session -> Ctx] /\ ctx[at[c]] \in Ctx
  BY <1>at DEF Types
<1>read. /\ snap[c].count \in Nat /\ snap[c].window \subseteq Nat
         /\ snap[c].file \in Ctx /\ snap[c].entries \in SUBSET Call
  BY <1>snap, SnapTypes
<1>size. Cardinality(qa[at[c]]) \in Nat
  BY <1>qa, CallSets
<1>taken. taken \in [Call -> SUBSET Session]
  BY DEF Types
<1>arc. arc \in [Call -> [Session -> Nat]]
  BY DEF Types
<1>bridged. bridged \in [Session -> SUBSET Call]
  BY DEF Types
<1>seen. seen \in [Session -> SUBSET Nat]
  BY DEF Types
<1>failed. failed \subseteq Call
  BY DEF Types
<1>1. CASE Store(c)
  <2>1. snap' \in [Call -> Snap]
    BY <1>snap, SnapTypes, <1>1, <1>qa, ZenonT(40) DEF Store
  <2>2. qa' \in [Session -> SUBSET Call]
    BY <1>qa, <1>at, <1>read, <1>1 DEF Store
  <2>3. pc' \in [Call -> Before \cup Spawned \cup {"over"}]
    BY <1>pc, <1>1, <1>todo DEF Store, Goto, Before, Spawned, Improving
  <2> QED
    BY <1>1, <2>1, <2>2, <2>3 DEF Types, Store, task, claims
<1>2. CASE SaveQa(c)
  <2>1. qa' \in [Session -> SUBSET Call]
    BY <1>qa, <1>at, <1>read, <1>2 DEF SaveQa
  <2>2. pc' \in [Call -> Before \cup Spawned \cup {"over"}]
    BY <1>pc, <1>2, <1>todo DEF SaveQa, Goto, Before, Spawned, Improving
  <2> QED
    BY <1>2, <2>1, <2>2 DEF Types, SaveQa, task, claims
<1>3. CASE ReadState(c)
  <2>1. snap' \in [Call -> Snap]
    BY <1>snap, SnapTypes, <1>3, <1>ctx, <1>size DEF ReadState
  <2>2. pc' \in [Call -> Before \cup Spawned \cup {"over"}]
    BY <1>pc, <1>3, <1>todo DEF ReadState, Goto, Before, Spawned, Improving
  <2>3. failed' \subseteq Call
    BY <1>failed, <1>3 DEF ReadState
  <2> QED
    BY <1>3, <2>1, <2>2, <2>3 DEF Types, ReadState, task, store, claims
<1>4. CASE Count(c)
  <2>1. snap' \in [Call -> Snap]
    BY <1>snap, SnapTypes, <1>4, <1>size DEF Count
  <2>2. pc' \in [Call -> Before \cup Spawned \cup {"over"}]
    BY <1>pc, <1>4, <1>todo DEF Count, Goto, Before, Spawned, Improving
  <2> QED
    BY <1>4, <2>1, <2>2 DEF Types, Count, task, store, claims
<1>5. CASE Update(c)
  <2>1. snap' \in [Call -> Snap]
    BY <1>snap, SnapTypes, <1>5, <1>ctx, ZenonT(40) DEF Update
  <2>2. ctx' \in [Session -> Ctx]
    <3>1. ctx' = ctx \/ ctx' = [ctx EXCEPT ![at[c]] = [ctx[at[c]] EXCEPT !.mark = snap[c].count]]
      BY <1>5 DEF Update
    <3>2. [ctx[at[c]] EXCEPT !.mark = snap[c].count] \in Ctx
      BY <1>ctx, <1>read, CtxTypes
    <3> QED
      BY <1>ctx, <3>1, <3>2
  <2>3. pc' \in [Call -> Before \cup Spawned \cup {"over"}]
    BY <1>pc, <1>5, <1>todo DEF Update, Goto, Before, Spawned, Improving
  <2> QED
    BY <1>5, <2>1, <2>2, <2>3 DEF Types, Update, task, claims
<1>6. CASE UpdateSave(c)
  <2>1. ctx' \in [Session -> Ctx]
    BY <1>ctx, <1>at, <1>read, CtxTypes, <1>6 DEF UpdateSave
  <2>2. pc' \in [Call -> Before \cup Spawned \cup {"over"}]
    BY <1>pc, <1>6, <1>todo DEF UpdateSave, Goto, Before, Spawned, Improving
  <2> QED
    BY <1>6, <2>1, <2>2 DEF Types, UpdateSave, task, claims
<1>7. CASE Create(c)
  <2>1. snap' \in [Call -> Snap]
    BY <1>snap, SnapTypes, <1>7, <1>ctx DEF Create
  <2>2. ctx' \in [Session -> Ctx]
    BY <1>ctx, <1>at, <1>read, CtxTypes, <1>7, ZenonT(40) DEF Create
  <2>3. pc' \in [Call -> Before \cup Spawned \cup {"over"}]
    BY <1>pc, <1>7, <1>todo DEF Create, Goto, Before, Spawned, Improving
  <2> QED
    BY <1>7, <2>1, <2>2, <2>3 DEF Types, Create, task, claims
<1>8. CASE CreateSave(c)
  <2>1. ctx' \in [Session -> Ctx]
    BY <1>ctx, <1>at, <1>read, CtxTypes, <1>8 DEF CreateSave
  <2>2. pc' \in [Call -> Before \cup Spawned \cup {"over"}]
    BY <1>pc, <1>8, <1>todo DEF CreateSave, Goto, Before, Spawned, Improving
  <2> QED
    BY <1>8, <2>1, <2>2 DEF Types, CreateSave, task, claims
<1>9. CASE Spawn(c)
  <2>1. snap' \in [Call -> Snap]
    BY <1>snap, SnapTypes, <1>9 DEF Spawn
  <2>2. pc' \in [Call -> Before \cup Spawned \cup {"over"}]
    BY <1>pc, <1>9, <1>todo DEF Spawn, Goto, Before, Spawned, Improving
  <2> QED
    BY <1>9, <2>1, <2>2 DEF Types, Spawn, store, claims, ghosts
<1> QED
  BY <1>1, <1>2, <1>3, <1>4, <1>5, <1>6, <1>7, <1>8, <1>9 DEF Remember

\* A trace holds a list of steps, and so does each append under way.
LEMMA TraceTypes ==
    ASSUME Types, NEW s \in Session
    PROVE  /\ trace[s].list \in Seq(Nat) /\ Len(trace[s].list) \in Nat
           /\ \A n \in 1..Len(trace[s].list) : trace[s].list[n] \in Nat
           /\ \A a \in trace[s].open : a.step \in Nat /\ a.list \in Seq(Nat) /\ Len(a.list) \in Nat
           /\ trace[s].begun \in Nat /\ trace[s].torn \in BOOLEAN
<1>1. trace[s] \in Trace
  BY DEF Types
<1>2. trace[s].list \in Seq(Nat) /\ trace[s].begun \in Nat /\ trace[s].torn \in BOOLEAN
      /\ trace[s].open \subseteq [step : Nat, list : Seq(Nat)]
  BY <1>1 DEF Trace
<1>3. \A l \in Seq(Nat) : Len(l) \in Nat /\ \A n \in 1..Len(l) : l[n] \in Nat
  BY LenProperties, ElementOfSeq
<1> QED
  BY <1>2, <1>3

\* What an extraction reads: the number of the steps, and those from where its
\* window begins; it goes on when the watermark is below that number.
LEMMA ExtractReads ==
    ASSUME Types, NEW c \in Call, ExtractRead(c)
    PROVE  \E s \in todo[c] : \E w \in SUBSET Nat :
             /\ at' = [at EXCEPT ![c] = s]
             /\ snap' = [snap EXCEPT ![c] = [Nothing EXCEPT !.count = Len(trace[s].list), !.window = w]]
             /\ \/ pc' = [pc EXCEPT ![c] = "extract"]
                \/ /\ pc' = [pc EXCEPT ![c] = "extracting"]
                   /\ ctx[s].wm < Len(trace[s].list)
                   /\ \A n \in 1..Len(trace[s].list) :
                        \/ trace[s].list[n] \in w
                        \/ n <= WindowStart(Len(trace[s].list), Len(trace[s].list) - ctx[s].wm)
<1>1. PICK s \in todo[c] :
        LET total == Len(trace[s].list)
            pending == IF ctx[s].wm > total THEN 0 ELSE total - ctx[s].wm
            start == WindowStart(total, pending)
        IN  /\ at' = [at EXCEPT ![c] = s]
            /\ snap' = [snap EXCEPT ![c] = [Nothing EXCEPT !.count = total,
                                         !.window = {trace[s].list[n] : n \in (start + 1)..total}]]
            /\ pc' = [pc EXCEPT ![c] = IF pending = 0 THEN "extract" ELSE "extracting"]
  BY DEF ExtractRead, Goto
<1> DEFINE total == Len(trace[s].list)
           pending == IF ctx[s].wm > total THEN 0 ELSE total - ctx[s].wm
           start == WindowStart(total, pending)
           w == {trace[s].list[n] : n \in (start + 1)..total}
<1>2. s \in Session
  BY DEF Types
<1>3. total \in Nat /\ \A n \in 1..total : trace[s].list[n] \in Nat
  BY <1>2, TraceTypes
<1>4. ctx[s].wm \in Nat
  BY <1>2, CtxTypes DEF Types
<1>5. pending \in Nat /\ (pending # 0 => ctx[s].wm < total /\ pending = total - ctx[s].wm)
  BY <1>3, <1>4
<1> HIDE DEF total, pending
<1>6. start \in Nat
  BY <1>3, <1>5, ImproveAssumption DEF WindowStart
<1> HIDE DEF start
<1>7. \A n \in 1..total : n \in (start + 1)..total \/ n <= start
  BY <1>3, <1>6
<1>8. \A n \in (start + 1)..total : n \in 1..total
  BY <1>3, <1>6
<1>9. w \subseteq Nat /\ \A n \in 1..total : trace[s].list[n] \in w \/ n <= start
  BY <1>3, <1>7, <1>8
<1> HIDE DEF w
<1>10. /\ at' = [at EXCEPT ![c] = s]
       /\ snap' = [snap EXCEPT ![c] = [Nothing EXCEPT !.count = total, !.window = w]]
       /\ pc' = [pc EXCEPT ![c] = IF pending = 0 THEN "extract" ELSE "extracting"]
  BY <1>1 DEF total, pending, start, w
<1>11. pending # 0 => start = WindowStart(total, total - ctx[s].wm)
  BY <1>5 DEF start
<1> QED
  BY <1>5, <1>9, <1>10, <1>11 DEF total

\* A step inserted behind the first k leaves those where they are.
LEMMA Inserted ==
    ASSUME NEW l \in Seq(Nat), NEW k \in 0..Len(l), NEW x \in Nat
    PROVE  /\ Insert(l, k, x) \in Seq(Nat) /\ Len(Insert(l, k, x)) = Len(l) + 1
           /\ \A n \in 1..k : Insert(l, k, x)[n] = l[n]
<1> DEFINE front == SubSeq(l, 1, k)
           back == SubSeq(l, k + 1, Len(l))
<1>0. Len(l) \in Nat /\ k \in Nat /\ k <= Len(l) /\ \A n \in 1..Len(l) : l[n] \in Nat
  BY LenProperties, ElementOfSeq
<1>1. front \in Seq(Nat) /\ Len(front) = k /\ \A n \in 1..k : front[n] = l[n]
  <2>1. \A n \in 1..k : l[n] \in Nat
    BY <1>0
  <2>2. /\ SubSeq(l, 1, k) \in Seq(Nat) /\ Len(SubSeq(l, 1, k)) = IF 1 <= k THEN k - 1 + 1 ELSE 0
        /\ \A n \in 1..k - 1 + 1 : SubSeq(l, 1, k)[n] = l[1 + n - 1]
    BY <1>0, <2>1, SubSeqProperties
  <2> QED
    BY <1>0, <2>2
<1>2. back \in Seq(Nat) /\ Len(back) = Len(l) - k
  <2>1. \A n \in k + 1..Len(l) : l[n] \in Nat
    BY <1>0
  <2>2. /\ SubSeq(l, k + 1, Len(l)) \in Seq(Nat)
        /\ Len(SubSeq(l, k + 1, Len(l))) = IF k + 1 <= Len(l) THEN Len(l) - (k + 1) + 1 ELSE 0
    BY <1>0, <2>1, SubSeqProperties
  <2> QED
    BY <1>0, <2>2
<1> HIDE DEF front, back
<1>3. <<x>> \in Seq(Nat) /\ Len(<<x>>) = 1
  OBVIOUS
<1>4. /\ front \o <<x>> \in Seq(Nat) /\ Len(front \o <<x>>) = k + 1
      /\ \A n \in 1..k + 1 : (front \o <<x>>)[n] = IF n <= k THEN front[n] ELSE <<x>>[n - k]
  BY <1>1, <1>3, ConcatProperties
<1>5. /\ (front \o <<x>>) \o back \in Seq(Nat) /\ Len((front \o <<x>>) \o back) = k + 1 + (Len(l) - k)
      /\ \A n \in 1..k + 1 : ((front \o <<x>>) \o back)[n] = (front \o <<x>>)[n]
  <2>1. /\ (front \o <<x>>) \o back \in Seq(Nat)
        /\ Len((front \o <<x>>) \o back) = k + 1 + (Len(l) - k)
        /\ \A n \in 1..(k + 1) + (Len(l) - k) : ((front \o <<x>>) \o back)[n] =
               IF n <= k + 1 THEN (front \o <<x>>)[n] ELSE back[n - (k + 1)]
    <3> DEFINE F == front \o <<x>>
    <3>1. F \in Seq(Nat) /\ Len(F) = k + 1
      BY <1>4
    <3> HIDE DEF F
    <3>2. /\ F \o back \in Seq(Nat) /\ Len(F \o back) = Len(F) + Len(back)
          /\ \A n \in 1..Len(F) + Len(back) : (F \o back)[n] =
                 IF n <= Len(F) THEN F[n] ELSE back[n - Len(F)]
      BY <1>2, <3>1, ConcatProperties
    <3> QED
      BY <1>2, <3>1, <3>2 DEF F
  <2>2. \A n \in 1..k + 1 : n \in 1..(k + 1) + (Len(l) - k) /\ n <= k + 1
    BY <1>0
  <2> QED
    BY <2>1, <2>2
<1>6. Insert(l, k, x) = (front \o <<x>>) \o back
  BY DEF Insert, front, back
<1>7. \A n \in 1..k : n \in 1..k + 1 /\ n <= k
  BY <1>0
<1>8. k + 1 + (Len(l) - k) = Len(l) + 1
  BY <1>0
<1> QED
  BY <1>1, <1>4, <1>5, <1>6, <1>7, <1>8

\* The trace of the session only grows behind what it holds, or is torn.
Longer(s) ==
    \/ trace'[s].torn
    \/ /\ ~trace[s].torn /\ Len(trace[s].list) <= Len(trace'[s].list)
       /\ \A n \in 1..Len(trace[s].list) : trace'[s].list[n] = trace[s].list[n]

LEMMA ImproveTypes ==
    ASSUME Types, ClaimsInv, NEW c \in Call, Improve(c)
    PROVE  Types'
<1>at. at \in [Call -> Session] /\ at[c] \in Session
  BY DEF Types
<1>pc. pc \in [Call -> Before \cup Spawned \cup {"over"}]
  BY DEF Types
<1>todo. todo \in [Call -> SUBSET Session] /\ env.sessions[c] \in SUBSET Session
  BY ImproveAssumption DEF Types
<1>snap. snap \in [Call -> Snap] /\ snap[c] \in Snap
  BY DEF Types
<1>qa. qa \in [Session -> SUBSET Call] /\ qa[at[c]] \in SUBSET Call
  BY <1>at DEF Types
<1>ctx. ctx \in [Session -> Ctx] /\ ctx[at[c]] \in Ctx
  BY <1>at DEF Types
<1>read. /\ snap[c].count \in Nat /\ snap[c].window \subseteq Nat
         /\ snap[c].file \in Ctx /\ snap[c].entries \in SUBSET Call
  BY <1>snap, SnapTypes
<1>size. Cardinality(qa[at[c]]) \in Nat
  BY <1>qa, CallSets
<1>taken. taken \in [Call -> SUBSET Session]
  BY DEF Types
<1>arc. arc \in [Call -> [Session -> Nat]]
  BY DEF Types
<1>bridged. bridged \in [Session -> SUBSET Call]
  BY DEF Types
<1>seen. seen \in [Session -> SUBSET Nat]
  BY DEF Types
<1>failed. failed \subseteq Call
  BY DEF Types
<1>1. CASE Resolve(c)
  <2>1. lock' \in [Session -> Nat] /\ arc' \in [Call -> [Session -> Nat]]
    BY <1>1, ResolveGot
  <2>2. todo' \in [Call -> SUBSET Session]
    BY <1>todo, <1>1 DEF Resolve
  <2>3. pc' \in [Call -> Before \cup Spawned \cup {"over"}]
    BY <1>pc, <1>1, <1>todo DEF Resolve, Goto, Before, Spawned, Improving
  <2> QED
    BY <1>1, <2>2, <2>3, <2>1 DEF Types, Resolve, store, ghosts
<1>2. CASE Acquire(c)
  <2>1. taken' \in [Call -> SUBSET Session]
    BY <1>taken, <1>todo, <1>2 DEF Acquire, Take
  <2>2. todo' \in [Call -> SUBSET Session]
    BY <1>todo, <1>2 DEF Acquire, Take
  <2>3. pc' \in [Call -> Before \cup Spawned \cup {"over"}]
    BY <1>pc, <1>2, <1>todo DEF Acquire, Take, Goto, Before, Spawned, Improving
  <2> QED
    BY <1>2, <2>1, <2>2, <2>3 DEF Types, Acquire, Take, store, ghosts
<1>3. CASE PersistRead(c)
  <2>1. snap' \in [Call -> Snap]
    <3>1. PICK s \in todo[c] : snap' = [snap EXCEPT ![c] = [snap[c] EXCEPT !.entries = qa[s]]]
      BY <1>3 DEF PersistRead
    <3>2. [snap[c] EXCEPT !.entries = qa[s]] \in Snap
      <4>1. qa[s] \in SUBSET Call
        BY <1>todo, <1>qa
      <4> QED
        BY <1>snap, <4>1, SnapTypes
    <3> QED
      BY <1>snap, <3>1, <3>2
  <2>2. todo' \in [Call -> SUBSET Session]
    BY <1>todo, <1>3 DEF PersistRead
  <2>3. at' \in [Call -> Session]
    BY <1>at, <1>3, <1>todo DEF PersistRead
  <2>4. pc' \in [Call -> Before \cup Spawned \cup {"over"}]
    BY <1>pc, <1>3, <1>todo DEF PersistRead, Goto, Before, Spawned, Improving
  <2> QED
    BY <1>3, <2>1, <2>2, <2>3, <2>4 DEF Types, PersistRead, store, ghosts, stage, claims
<1>4. CASE Persisted(c)
  <2>1. bridged' \in [Session -> SUBSET Call]
    BY <1>bridged, <1>at, <1>read, <1>4 DEF Persisted
  <2>2. failed' \subseteq Call
    BY <1>failed, <1>4 DEF Persisted
  <2>3. todo' \in [Call -> SUBSET Session]
    BY <1>todo, <1>4 DEF Persisted
  <2>4. pc' \in [Call -> Before \cup Spawned \cup {"over"}]
    BY <1>pc, <1>4, <1>todo DEF Persisted, Goto, Before, Spawned, Improving
  <2> QED
    BY <1>4, <2>1, <2>2, <2>3, <2>4 DEF Types, Persisted, store, stage, claims
<1>5. CASE NextStage(c)
  <2>1. todo' \in [Call -> SUBSET Session]
    BY <1>todo, <1>5 DEF NextStage
  <2>2. pc' \in [Call -> Before \cup Spawned \cup {"over"}]
    BY <1>pc, <1>5, <1>todo DEF NextStage, Goto, Before, Spawned, Improving
  <2> QED
    BY <1>5, <2>1, <2>2 DEF Types, NextStage, store, ghosts, stage, claims
<1>6. CASE ExtractRead(c)
  <2>1. PICK s \in todo[c] : \E w \in SUBSET Nat :
             snap' = [snap EXCEPT ![c] = [Nothing EXCEPT !.count = Len(trace[s].list), !.window = w]]
    <3>1. PICK r \in todo[c] : \E w \in SUBSET Nat :
             /\ snap' = [snap EXCEPT ![c] = [Nothing EXCEPT !.count = Len(trace[r].list), !.window = w]]
             /\ TRUE
      BY <1>6, ExtractReads
    <3> QED
      BY <3>1
  <2>2. Len(trace[s].list) \in Nat
    BY <1>todo, TraceTypes
  <2>3. snap' \in [Call -> Snap]
    <3>1. PICK w \in SUBSET Nat :
             snap' = [snap EXCEPT ![c] = [Nothing EXCEPT !.count = Len(trace[s].list), !.window = w]]
      BY <2>1
    <3>2. [Nothing EXCEPT !.count = Len(trace[s].list), !.window = w] \in Snap
      BY <2>2, SnapTypes
    <3> QED
      BY <1>snap, <3>1, <3>2
  <2>4. todo' \in [Call -> SUBSET Session]
    BY <1>todo, <1>6 DEF ExtractRead
  <2>5. at' \in [Call -> Session]
    BY <1>at, <1>6, <1>todo DEF ExtractRead
  <2>6. pc' \in [Call -> Before \cup Spawned \cup {"over"}]
    BY <1>pc, <1>6, <1>todo DEF ExtractRead, Goto, Before, Spawned, Improving
  <2> QED
    BY <1>6, <2>3, <2>4, <2>5, <2>6 DEF Types, ExtractRead, store, ghosts, stage, claims
<1>7. CASE Extracted(c)
  <2>1. seen' \in [Session -> SUBSET Nat]
    BY <1>seen, <1>at, <1>7, <1>read DEF Extracted
  <2>2. pc' \in [Call -> Before \cup Spawned \cup {"over"}]
    BY <1>pc, <1>7, <1>todo DEF Extracted, Goto, Before, Spawned, Improving
  <2> QED
    BY <1>7, <2>1, <2>2 DEF Types, Extracted, store, stage, claims
<1>8. CASE Advance(c)
  <2>1. snap' \in [Call -> Snap]
    BY <1>snap, SnapTypes, <1>8, <1>ctx DEF Advance
  <2>2. ctx' \in [Session -> Ctx]
    <3>1. ctx' = ctx \/ ctx' = [ctx EXCEPT ![at[c]] = [ctx[at[c]] EXCEPT !.wm = snap[c].count]]
      BY <1>8 DEF Advance
    <3>2. [ctx[at[c]] EXCEPT !.wm = snap[c].count] \in Ctx
      BY <1>ctx, <1>read, CtxTypes
    <3> QED
      BY <1>ctx, <3>1, <3>2
  <2>3. pc' \in [Call -> Before \cup Spawned \cup {"over"}]
    BY <1>pc, <1>8, <1>todo DEF Advance, Goto, Before, Spawned, Improving
  <2> QED
    BY <1>8, <2>1, <2>2, <2>3 DEF Types, Advance, ghosts, stage, claims
<1>9. CASE AdvanceSave(c)
  <2>1. ctx' \in [Session -> Ctx]
    BY <1>ctx, <1>at, <1>read, CtxTypes, <1>9 DEF AdvanceSave
  <2>2. pc' \in [Call -> Before \cup Spawned \cup {"over"}]
    BY <1>pc, <1>9, <1>todo DEF AdvanceSave, Goto, Before, Spawned, Improving
  <2> QED
    BY <1>9, <2>1, <2>2 DEF Types, AdvanceSave, ghosts, stage, claims
<1>10. CASE Release(c)
  <2>1. taken' \in [Call -> SUBSET Session]
    BY <1>taken, <1>todo, <1>10 DEF Release
  <2>2. arc' \in [Call -> [Session -> Nat]]
    BY <1>arc, <1>10 DEF Release
  <2>3. pc' \in [Call -> Before \cup Spawned \cup {"over"}]
    BY <1>pc, <1>10, <1>todo DEF Release, Goto, Before, Spawned, Improving
  <2> QED
    BY <1>10, <2>1, <2>2, <2>3 DEF Types, Release, store, ghosts
<1>11. CASE End(c)
  <2>1. pc' \in [Call -> Before \cup Spawned \cup {"over"}]
    BY <1>pc, <1>11, <1>todo DEF End, Goto, Before, Spawned, Improving
  <2> QED
    BY <1>11, <2>1 DEF Types, End, store, ghosts, claims
<1>12. CASE Notify(c)
  <2>1. pc' \in [Call -> Before \cup Spawned \cup {"over"}]
    BY <1>pc, <1>12, <1>todo DEF Notify, Goto, Before, Spawned, Improving
  <2>2. waiter' \in [pc : {"idle", "read", "poll", "wait", "done"}, woken : BOOLEAN]
    <3>1. waiter \in [pc : {"idle", "read", "poll", "wait", "done"}, woken : BOOLEAN]
      BY DEF Types
    <3> QED
      BY <1>12, <3>1 DEF Notify
  <2> QED
    BY <1>12, <2>1, <2>2 DEF Types, Notify, store, ghosts, claims
<1> QED
  BY <1>1, <1>2, <1>3, <1>4, <1>5, <1>6, <1>7, <1>8, <1>9, <1>10, <1>11, <1>12 DEF Improve

\* A step of a session's own leaves every list longer, or torn.
LEMMA TraceGrows ==
    ASSUME Types, NEW s \in Session, TraceLoad(s) \/ TraceSave(s) \/ Expire(s)
    PROVE  trace' \in [Session -> Trace] /\ \A r \in Session : Longer(r)
<1>1. trace \in [Session -> Trace] /\ trace[s] \in Trace
  BY DEF Types
<1>2. /\ trace[s].list \in Seq(Nat) /\ Len(trace[s].list) \in Nat
      /\ \A a \in trace[s].open : a.step \in Nat /\ a.list \in Seq(Nat) /\ Len(a.list) \in Nat
      /\ trace[s].begun \in Nat /\ trace[s].torn \in BOOLEAN
  BY TraceTypes
<1>one. ASSUME NEW t \in Trace, trace' = [trace EXCEPT ![s] = t],
               \/ t.torn
               \/ /\ ~trace[s].torn /\ Len(trace[s].list) <= Len(t.list)
                  /\ \A n \in 1..Len(trace[s].list) : t.list[n] = trace[s].list[n]
        PROVE  trace' \in [Session -> Trace] /\ \A r \in Session : Longer(r)
  <2>1. trace' \in [Session -> Trace] /\ trace'[s] = t
    BY <1>1, <1>one
  <2>2. \A r \in Session \ {s} : trace'[r] = trace[r]
    BY <1>1, <1>one
  <2>3. \A r \in Session \ {s} : Longer(r)
    <3> SUFFICES ASSUME NEW r \in Session \ {s} PROVE Longer(r)
      OBVIOUS
    <3>1. Len(trace[r].list) \in Nat
      BY TraceTypes
    <3> QED
      BY <2>2, <3>1 DEF Longer
  <2>4. Longer(s)
    BY <1>one, <2>1 DEF Longer
  <2> QED
    BY <2>1, <2>3, <2>4
<1>3. CASE TraceLoad(s)
  <2> DEFINE n == trace[s].begun + 1
             o == trace[s].open \cup {[step |-> trace[s].begun, list |-> trace[s].list]}
             t == Begun(trace[s], n, o)
  <2>1. n \in Nat /\ o \in SUBSET [step : Nat, list : Seq(Nat)]
    <3>1. /\ trace[s].open \in SUBSET [step : Nat, list : Seq(Nat)]
          /\ [step |-> trace[s].begun, list |-> trace[s].list] \in [step : Nat, list : Seq(Nat)]
      BY <1>1, <1>2 DEF Trace
    <3>2. o \in SUBSET [step : Nat, list : Seq(Nat)]
      BY <3>1
    <3> QED
      BY <1>2, <3>2
  <2>2. trace' = [trace EXCEPT ![s] = t]
    BY <1>3 DEF TraceLoad, Begun
  <2> HIDE DEF n, o
  <2>3. t \in Trace /\ t.list = trace[s].list /\ t.torn = trace[s].torn
    BY <1>1, <2>1, TraceBegins
  <2> HIDE DEF t
  <2>4. t.torn \/ (~trace[s].torn /\ Len(trace[s].list) <= Len(t.list)
                   /\ \A i \in 1..Len(trace[s].list) : t.list[i] = trace[s].list[i])
    BY <1>2, <2>3
  <2> QED
    BY <1>one, <2>2, <2>3, <2>4
<1>4. CASE TraceSave(s)
  <2>1. PICK a \in trace[s].open :
          \E l : /\ trace' = [trace EXCEPT ![s] = [trace[s] EXCEPT !.open = trace[s].open \ {a},
                                !.torn = trace[s].torn \/ a.list # trace[s].list, !.list = l]]
                /\ \/ l = Append(a.list, a.step)
                   \/ \E k \in Len(a.list)..Len(trace[s].list) : l = Insert(trace[s].list, k, a.step)
    <3>1. PICK a \in trace[s].open :
            LET torn == trace[s].torn \/ a.list # trace[s].list
            IN  \/ trace' = [trace EXCEPT ![s] = [trace[s] EXCEPT !.open = trace[s].open \ {a},
                                !.torn = torn, !.list = Append(a.list, a.step)]]
                \/ \E k \in Len(a.list)..Len(trace[s].list) :
                       trace' = [trace EXCEPT ![s] = [trace[s] EXCEPT !.open = trace[s].open \ {a},
                                !.torn = torn, !.list = Insert(trace[s].list, k, a.step)]]
      BY <1>4 DEF TraceSave
    <3> QED
      BY <3>1
  <2>2. PICK l : /\ trace' = [trace EXCEPT ![s] = [trace[s] EXCEPT !.open = trace[s].open \ {a},
                                !.torn = trace[s].torn \/ a.list # trace[s].list, !.list = l]]
                 /\ \/ l = Append(a.list, a.step)
                    \/ \E k \in Len(a.list)..Len(trace[s].list) : l = Insert(trace[s].list, k, a.step)
    BY <2>1
  <2>3. a.step \in Nat /\ a.list \in Seq(Nat) /\ Len(a.list) \in Nat
    BY <1>2
  <2>4. /\ l \in Seq(Nat)
        /\ a.list = trace[s].list =>
              /\ Len(trace[s].list) <= Len(l)
              /\ \A n \in 1..Len(trace[s].list) : l[n] = trace[s].list[n]
    <3>1. CASE l = Append(a.list, a.step)
      BY <2>3, <3>1
    <3>2. CASE \E k \in Len(a.list)..Len(trace[s].list) : l = Insert(trace[s].list, k, a.step)
      <4>1. PICK k \in Len(a.list)..Len(trace[s].list) : l = Insert(trace[s].list, k, a.step)
        BY <3>2
      <4>2. k \in 0..Len(trace[s].list)
        BY <1>2, <2>3
      <4>3. /\ l \in Seq(Nat) /\ Len(l) = Len(trace[s].list) + 1
            /\ \A n \in 1..k : l[n] = trace[s].list[n]
        BY <1>2, <2>3, <4>1, <4>2, Inserted
      <4>4. a.list = trace[s].list => k = Len(trace[s].list)
        BY <1>2, <4>2
      <4> QED
        BY <1>2, <4>3, <4>4
    <3> QED
      BY <2>2, <3>1, <3>2
  <2> DEFINE b == trace[s].torn \/ a.list # trace[s].list
             o == trace[s].open \ {a}
             t == Saved(trace[s], o, b, l)
  <2>5. b \in BOOLEAN /\ o \in SUBSET [step : Nat, list : Seq(Nat)]
    <3>1. b \in BOOLEAN
      BY <1>2
    <3>2. o \in SUBSET [step : Nat, list : Seq(Nat)]
      BY <1>1 DEF Trace
    <3> QED
      BY <3>1, <3>2
  <2>6. trace' = [trace EXCEPT ![s] = t]
    BY <2>2 DEF Saved
  <2>7. b <=> trace[s].torn \/ a.list # trace[s].list
    OBVIOUS
  <2> HIDE DEF b, o
  <2>8. t \in Trace /\ t.list = l /\ t.torn = b
    BY <1>1, <2>4, <2>5, TraceSaved
  <2> HIDE DEF t
  <2> QED
    BY <1>one, <2>4, <2>6, <2>7, <2>8
<1>5. CASE Expire(s)
  <2>1. CASE trace' = trace
    <3>1. \A r \in Session : Len(trace[r].list) \in Nat
      BY TraceTypes
    <3> QED
      BY <1>1, <2>1, <3>1 DEF Longer
  <2>2. CASE trace' = [trace EXCEPT ![s].list = <<>>, ![s].torn = TRUE]
    <3> DEFINE t == Expired(trace[s])
    <3>1. t \in Trace /\ t.torn
      BY <1>1, TraceExpires
    <3>2. trace' = [trace EXCEPT ![s] = t]
      BY <1>1, <2>2 DEF Expired
    <3> HIDE DEF t
    <3> QED
      BY <1>one, <3>1, <3>2
  <2> QED
    BY <1>5, <2>1, <2>2 DEF Expire
<1> QED
  BY <1>3, <1>4, <1>5

LEMMA OtherTypes ==
    ASSUME Types,
           \/ \E s \in Session : TraceLoad(s) \/ TraceSave(s) \/ Expire(s) \/ DeleteSession(s)
           \/ WaitBegin \/ Wait
    PROVE  Types'
<1>1. ASSUME NEW s \in Session, TraceLoad(s) \/ TraceSave(s) PROVE Types'
  <2>1. trace' \in [Session -> Trace]
    BY <1>1, TraceGrows
  <2> QED
    BY <1>1, <2>1 DEF Types, TraceLoad, TraceSave, claims, ghosts
<1>4. ASSUME NEW s \in Session, Expire(s) PROVE Types'
  <2>1. trace' \in [Session -> Trace]
    BY <1>4, TraceGrows
  <2>2. qa' \in [Session -> SUBSET Call] /\ ctx' \in [Session -> Ctx]
    <3>1. qa \in [Session -> SUBSET Call] /\ ctx \in [Session -> Ctx]
      BY DEF Types
    <3>2. qa' = qa \/ qa' = [qa EXCEPT ![s] = {}]
      BY <1>4 DEF Expire
    <3>3. ctx' = ctx \/ ctx' = [ctx EXCEPT ![s] = Empty]
      BY <1>4 DEF Expire
    <3> QED
      BY <3>1, <3>2, <3>3, CtxTypes
  <2> QED
    BY <1>4, <2>1, <2>2 DEF Types, Expire, claims, ghosts
<1>2. ASSUME NEW s \in Session, DeleteSession(s) PROVE Types'
  BY <1>2, CtxTypes DEF Types, DeleteSession, claims, ghosts
<1>3. CASE WaitBegin \/ Wait
  <2>1. waiter \in [pc : {"idle", "read", "poll", "wait", "done"}, woken : BOOLEAN]
    BY DEF Types
  <2>2. waiter' \in [pc : {"idle", "read", "poll", "wait", "done"}, woken : BOOLEAN]
    <3>1. WaitBegin \/ WaitRead \/ WaitPoll \/ WaitWoken
      BY <1>3 DEF Wait
    <3>2. CASE WaitBegin \/ WaitWoken
      <4>1. waiter' = [pc |-> "read", woken |-> FALSE]
        BY <3>2 DEF WaitBegin, WaitWoken
      <4> QED
        BY <4>1
    <3>3. CASE WaitRead \/ WaitPoll
      BY <2>1, <3>3 DEF WaitRead, WaitPoll
    <3> QED
      BY <3>1, <3>2, <3>3
  <2>3. UNCHANGED waits
    BY <1>3 DEF WaitBegin, Wait, WaitRead, WaitPoll, WaitWoken
  <2> QED
    BY <2>2, <2>3 DEF Types, waits, store, claims, ghosts
<1> QED
  BY <1>1, <1>2, <1>3, <1>4

-----------------------------------------------------------------------------
(* What the steps leave alone *)

\* The other calls are where they were.
Elsewhere(c) ==
    /\ env' = env
    /\ \A o \in Call \ {c} :
          pc'[o] = pc[o] /\ at'[o] = at[o] /\ todo'[o] = todo[o] /\ snap'[o] = snap[o]

\* A remember is not a background task, and leaves those alone.
LEMMA RememberStep ==
    ASSUME Types, NEW c \in Call, Remember(c)
    PROVE  /\ Elsewhere(c) /\ at' = at /\ deleted' = deleted /\ trace' = trace
           /\ UNCHANGED task
           /\ pc[c] \notin Spawned /\ pc'[c] \notin Spawned
<1>1. pc \in [Call -> Before \cup Spawned \cup {"over"}] /\ snap \in [Call -> Snap]
  BY DEF Types
<1> USE DEF Goto, Elsewhere, Spawned, Improving, task
<1>2. CASE Store(c)
  BY <1>1, <1>2 DEF Store
<1>3. CASE SaveQa(c)
  BY <1>1, <1>3 DEF SaveQa
<1>4. CASE ReadState(c)
  BY <1>1, <1>4 DEF ReadState, store
<1>5. CASE Count(c)
  BY <1>1, <1>5 DEF Count, store
<1>6. CASE Update(c)
  BY <1>1, <1>6 DEF Update
<1>7. CASE UpdateSave(c)
  BY <1>1, <1>7 DEF UpdateSave
<1>8. CASE Create(c)
  BY <1>1, <1>8 DEF Create
<1>9. CASE CreateSave(c)
  BY <1>1, <1>9 DEF CreateSave
<1> QED
  BY <1>2, <1>3, <1>4, <1>5, <1>6, <1>7, <1>8, <1>9 DEF Remember

\* A step of a stage is between two points of the stages, and holds its claims.
StageStep(c) ==
    \/ PersistRead(c) \/ Persisted(c) \/ NextStage(c)
    \/ ExtractRead(c) \/ Extracted(c) \/ Advance(c) \/ AdvanceSave(c)

LEMMA StageStepKeeps ==
    ASSUME Types, NEW c \in Call, StageStep(c)
    PROVE  /\ Elsewhere(c) /\ UNCHANGED stage
           /\ pc[c] \in Stages /\ pc'[c] \in Stages
           /\ qa' = qa /\ trace' = trace
<1>1. pc \in [Call -> Before \cup Spawned \cup {"over"}] /\ snap \in [Call -> Snap]
      /\ at \in [Call -> Session] /\ todo \in [Call -> SUBSET Session]
  BY DEF Types
<1> USE DEF Goto, Elsewhere, Stages, Improving, stage
<1>2. CASE PersistRead(c)
  BY <1>1, <1>2 DEF PersistRead, store
<1>3. CASE Persisted(c)
  BY <1>1, <1>3 DEF Persisted, store
<1>4. CASE NextStage(c)
  BY <1>1, <1>4 DEF NextStage, store
<1>5. CASE ExtractRead(c)
  BY <1>1, <1>5 DEF ExtractRead, store
<1>6. CASE Extracted(c)
  BY <1>1, <1>6 DEF Extracted, store
<1>7. CASE Advance(c)
  BY <1>1, <1>7 DEF Advance
<1>8. CASE AdvanceSave(c)
  BY <1>1, <1>8 DEF AdvanceSave
<1> QED
  BY <1>2, <1>3, <1>4, <1>5, <1>6, <1>7, <1>8 DEF StageStep

\* The steps of a task outside its stages.
LEMMA TaskStepKeeps ==
    ASSUME Types, NEW c \in Call,
           Spawn(c) \/ Resolve(c) \/ Acquire(c) \/ Release(c) \/ End(c) \/ Notify(c)
    PROVE  /\ Elsewhere(c) /\ at' = at
           /\ UNCHANGED <<deleted, store, ghosts>>
<1>1. pc \in [Call -> Before \cup Spawned \cup {"over"}] /\ snap \in [Call -> Snap]
      /\ todo \in [Call -> SUBSET Session]
  BY DEF Types
<1> USE DEF Goto, Elsewhere
<1>2. CASE Spawn(c)
  BY <1>1, <1>2 DEF Spawn
<1>3. CASE Resolve(c)
  BY <1>1, <1>3 DEF Resolve
<1>4. CASE Acquire(c)
  BY <1>1, <1>4 DEF Acquire, Take
<1>5. CASE Release(c)
  BY <1>1, <1>5 DEF Release
<1>6. CASE End(c)
  BY <1>1, <1>6 DEF End
<1>7. CASE Notify(c)
  BY <1>1, <1>7 DEF Notify
<1> QED
  BY <1>2, <1>3, <1>4, <1>5, <1>6, <1>7

\* The sessions' own steps and those of a wait concern no call.
Outside ==
    \/ \E s \in Session : TraceLoad(s) \/ TraceSave(s) \/ Expire(s) \/ DeleteSession(s)
    \/ WaitBegin \/ Wait

LEMMA OutsideKeeps ==
    ASSUME Outside
    PROVE  UNCHANGED <<env, pc, at, todo, snap, claims, ghosts, running>>
<1>1. ASSUME NEW s \in Session, TraceLoad(s) \/ TraceSave(s) \/ Expire(s)
      PROVE  UNCHANGED <<env, pc, at, todo, snap, claims, ghosts, running>>
  BY <1>1 DEF TraceLoad, TraceSave, Expire
<1>2. ASSUME NEW s \in Session, DeleteSession(s)
      PROVE  UNCHANGED <<env, pc, at, todo, snap, claims, ghosts, running>>
  BY <1>2 DEF DeleteSession
<1>3. CASE WaitBegin \/ Wait
  BY <1>3 DEF WaitBegin, Wait, WaitRead, WaitPoll, WaitWoken, waits
<1> QED
  BY <1>1, <1>2, <1>3 DEF Outside

LEMMA NextSteps ==
    ASSUME Next
    PROVE  \/ \E c \in Call : Remember(c)
           \/ \E c \in Call : Spawn(c) \/ Resolve(c) \/ Acquire(c) \/ Release(c) \/ End(c) \/ Notify(c)
           \/ \E c \in Call : StageStep(c)
           \/ Outside
  BY DEF Next, Improve, StageStep, Outside

-----------------------------------------------------------------------------
(* The claims on sessions *)

\* A step with which no claim, and no call's part among the improves, changes.
LEMMA ClaimsQuiet ==
    ASSUME ClaimsInv, NEW c \in Call, Elsewhere(c), UNCHANGED claims,
           \/ pc[c] \notin Improving /\ pc'[c] \notin Improving
           \/ pc[c] \in Stages /\ pc'[c] \in Stages
    PROVE  ClaimsInv'
<1>1. \A o \in Call : Claim(o)'
  <2> SUFFICES ASSUME NEW o \in Call PROVE Claim(o)'
    OBVIOUS
  <2>1. Claim(o)
    BY DEF ClaimsInv
  <2>2. lock' = lock /\ arc' = arc /\ taken' = taken /\ env' = env
    BY DEF claims, Elsewhere
  <2>3. CASE o # c
    <3>1. pc'[o] = pc[o] /\ todo'[o] = todo[o]
      BY <2>3 DEF Elsewhere
    <3> QED
      BY <2>1, <2>2, <3>1 DEF Claim
  <2>4. CASE o = c
    BY <2>1, <2>2, <2>4 DEF Claim, Stages, Improving
  <2> QED
    BY <2>3, <2>4
<1> QED
  BY <1>1 DEF ClaimsInv, claims

LEMMA ClaimsResolve ==
    ASSUME Types, ClaimsInv, NEW c \in Call, Resolve(c)
    PROVE  ClaimsInv'
<1>1. Elsewhere(c)
  BY TaskStepKeeps
<1>2. /\ pc[c] = "lock" /\ pc'[c] = "acquire" /\ todo'[c] = env.sessions[c]
      /\ taken' = taken /\ env' = env
  BY DEF Resolve, Goto, Types
<1>3. taken[c] = {}
  BY <1>2 DEF ClaimsInv, Claim, Improving
<1>4. Claim(c)'
  <2>1. \A s \in Session : s \in env.sessions[c] => arc'[c][s] = lock'[s] /\ lock'[s] # 0
    BY ResolveGot
  <2>2. \A s \in Session : s \notin env.sessions[c] => arc'[c][s] = 0
    BY ResolveGot
  <2> QED
    BY <1>2, <1>3, <2>1, <2>2 DEF Claim, Improving, Stages
<1>5. \A o \in Call \ {c} : Claim(o)'
  <2> SUFFICES ASSUME NEW o \in Call \ {c} PROVE Claim(o)'
    OBVIOUS
  <2>1. Claim(o)
    BY DEF ClaimsInv
  <2>2. pc'[o] = pc[o] /\ todo'[o] = todo[o]
    BY <1>1 DEF Elsewhere
  <2>3. arc'[o] = arc[o] /\ \A s \in Session : arc[o][s] # 0 => lock'[s] = lock[s]
    BY ResolveGot
  <2> QED
    BY <1>2, <2>1, <2>2, <2>3 DEF Claim
<1> QED
  BY <1>2, <1>4, <1>5 DEF ClaimsInv

LEMMA ClaimsAcquire ==
    ASSUME Types, ClaimsInv, NEW c \in Call, Acquire(c)
    PROVE  ClaimsInv'
<1>1. Elsewhere(c)
  BY TaskStepKeeps
<1>2. PICK s \in todo[c] : Take(c, s)
  BY DEF Acquire
<1>3. /\ pc[c] = "acquire" /\ lock' = lock /\ arc' = arc /\ env' = env
      /\ taken' = [taken EXCEPT ![c] = taken[c] \cup {s}]
  BY <1>2 DEF Take
<1>4. /\ taken \in [Call -> SUBSET Session] /\ todo \in [Call -> SUBSET Session]
      /\ pc \in [Call -> Before \cup Spawned \cup {"over"}]
  BY DEF Types
<1>5. /\ taken'[c] = taken[c] \cup {s}
      /\ \A o \in Call \ {c} : taken'[o] = taken[o]
  BY <1>3, <1>4
<1>6. Claim(c) /\ \A o \in Call : Claim(o)
  BY DEF ClaimsInv
<1>7. s \in env.sessions[c] /\ s \in Session /\ arc[c][s] = lock[s] /\ arc[c][s] # 0
  BY <1>3, <1>4, <1>6 DEF Claim, Improving
<1>8. \A o \in Call : s \notin taken[o]
  <2> SUFFICES ASSUME NEW o \in Call, s \in taken[o] PROVE FALSE
    OBVIOUS
  <2>1. Claim(o)
    BY <1>6
  <2>2. pc[o] \in Improving /\ s \in env.sessions[o]
    BY <2>1 DEF Claim, Stages
  <2>3. arc[o][s] = lock[s]
    BY <1>7, <2>1, <2>2 DEF Claim
  <2> QED
    BY <1>2, <1>7, <2>3 DEF Take, Free
<1>9. Claim(c)'
  <2>1. env.sessions[c] = taken'[c] \cup (todo[c] \ {s})
    BY <1>3, <1>5, <1>6, <1>7 DEF Claim
  <2>2. CASE todo[c] = {s}
    <3>1. pc'[c] = "persist"
      BY <1>2, <1>4, <2>2 DEF Take, Goto
    <3>2. taken'[c] = env.sessions[c]
      BY <2>1, <2>2
    <3> QED
      BY <1>3, <1>6, <3>1, <3>2 DEF Claim, Improving, Stages
  <2>3. CASE todo[c] # {s}
    <3>1. pc'[c] = "acquire" /\ todo'[c] = todo[c] \ {s}
      BY <1>2, <1>3, <1>4, <2>3 DEF Take
    <3> QED
      BY <1>3, <1>6, <2>1, <3>1 DEF Claim, Improving, Stages
  <2> QED
    BY <2>2, <2>3
<1>10. \A o \in Call \ {c} : Claim(o)'
  BY <1>1, <1>3, <1>5, <1>6 DEF Claim, Elsewhere
<1>11. \A o, p \in Call : o # p => taken'[o] \cap taken'[p] = {}
  BY <1>5, <1>8 DEF ClaimsInv
<1> QED
  BY <1>9, <1>10, <1>11 DEF ClaimsInv

LEMMA ClaimsRelease ==
    ASSUME Types, ClaimsInv, NEW c \in Call, Release(c)
    PROVE  ClaimsInv'
<1>1. Elsewhere(c)
  BY TaskStepKeeps
<1>2. /\ pc'[c] = "end" /\ lock' = lock /\ env' = env
      /\ taken' = [taken EXCEPT ![c] = {}]
      /\ arc' = [arc EXCEPT ![c] = [s \in Session |-> 0]]
  BY DEF Release, Goto, Types
<1>3. /\ taken'[c] = {} /\ \A s \in Session : arc'[c][s] = 0
      /\ \A o \in Call \ {c} : taken'[o] = taken[o] /\ arc'[o] = arc[o]
  BY <1>2 DEF Types
<1>4. Claim(c)'
  BY <1>2, <1>3 DEF Claim, Improving, Stages
<1>5. \A o \in Call \ {c} : Claim(o)'
  BY <1>1, <1>2, <1>3 DEF Claim, Elsewhere, ClaimsInv
<1> QED
  BY <1>3, <1>4, <1>5 DEF ClaimsInv

LEMMA ClaimsNext ==
    ASSUME Types, ClaimsInv, [Next]_vars
    PROVE  ClaimsInv'
<1>1. ASSUME NEW c \in Call, Remember(c) PROVE ClaimsInv'
  <2>1. Elsewhere(c) /\ UNCHANGED claims /\ pc[c] \notin Improving /\ pc'[c] \notin Improving
    BY <1>1, RememberStep DEF task, Spawned
  <2> QED
    BY <2>1, ClaimsQuiet
<1>2. ASSUME NEW c \in Call, StageStep(c) PROVE ClaimsInv'
  <2>1. Elsewhere(c) /\ UNCHANGED claims /\ pc[c] \in Stages /\ pc'[c] \in Stages
    BY <1>2, StageStepKeeps DEF stage
  <2> QED
    BY <2>1, ClaimsQuiet
<1>3. ASSUME NEW c \in Call, Spawn(c) \/ End(c) \/ Notify(c) PROVE ClaimsInv'
  <2>1. Elsewhere(c)
    BY <1>3, TaskStepKeeps
  <2>2. UNCHANGED claims /\ pc[c] \notin Improving /\ pc'[c] \notin Improving
    BY <1>3 DEF Spawn, End, Notify, Goto, Types, Improving
  <2> QED
    BY <2>1, <2>2, ClaimsQuiet
<1>4. ASSUME NEW c \in Call, Resolve(c) \/ Acquire(c) \/ Release(c) PROVE ClaimsInv'
  BY <1>4, ClaimsResolve, ClaimsAcquire, ClaimsRelease
<1>5. CASE Outside
  BY <1>5, OutsideKeeps DEF ClaimsInv, Claim, claims
<1>6. CASE UNCHANGED vars
  BY <1>6 DEF ClaimsInv, Claim, claims, vars
<1> QED
  BY <1>1, <1>2, <1>3, <1>4, <1>5, <1>6, NextSteps

-----------------------------------------------------------------------------
(* The watermark *)

\* Every step up to the w-th was shown to an extraction, or is left behind by a
\* whole window, unless the trace is torn.
Passed(s, w) ==
    \/ trace[s].torn
    \/ \A n \in 1..w : /\ n <= Len(trace[s].list)
                       /\ trace[s].list[n] \in seen[s] \/ n + MaxWindow <= w

\* The same of what an extraction has read, when it will have been shown its window.
Showing(s, w, window) ==
    \/ trace[s].torn
    \/ \A n \in 1..w : /\ n <= Len(trace[s].list)
                       /\ trace[s].list[n] \in seen[s] \cup window \/ n + MaxWindow <= w

\* What a call has read of the watermark, or means to write into it.
Reading(c) ==
    /\ pc[c] \in {"updateSave", "createSave"} => Passed(at[c], snap[c].file.wm)
    /\ pc[c] = "extracting" => Showing(at[c], snap[c].count, snap[c].window)
    /\ pc[c] \in {"advance", "advanceSave"} => Passed(at[c], snap[c].count)

WatermarkInv ==
    /\ \A s \in Session : Passed(s, ctx[s].wm)
    /\ \A c \in Call : Reading(c)

LEMMA WatermarkInit ==
    ASSUME Init PROVE WatermarkInv
<1>1. \A s \in Session : ctx[s].wm = 0
  BY DEF Init, Empty
<1>2. \A c \in Call : pc[c] \in {"new", "over"}
  BY DEF Init
<1>3. \A s \in Session : Passed(s, ctx[s].wm)
  BY <1>1 DEF Passed
<1> QED
  BY <1>2, <1>3 DEF WatermarkInv, Reading

\* What was passed stays so while the trace grows and more steps are shown.
LEMMA StaysPassed ==
    ASSUME Types, NEW s \in Session, Longer(s), Len(trace'[s].list) \in Nat, seen[s] \subseteq seen'[s]
    PROVE  /\ \A w : Passed(s, w) => Passed(s, w)'
           /\ \A w, window : Showing(s, w, window) => Showing(s, w, window)'
<1>1. Len(trace[s].list) \in Nat
  BY TraceTypes
<1>2. CASE trace'[s].torn
  BY <1>2 DEF Passed, Showing
<1>3. CASE /\ ~trace[s].torn /\ Len(trace[s].list) <= Len(trace'[s].list)
           /\ \A n \in 1..Len(trace[s].list) : trace'[s].list[n] = trace[s].list[n]
  <2>1. \A w : \A n \in 1..w : n <= Len(trace[s].list) =>
            n \in 1..Len(trace[s].list) /\ n <= Len(trace'[s].list)
    BY <1>1, <1>3
  <2> QED
    BY <1>3, <2>1 DEF Passed, Showing
<1> QED
  BY <1>2, <1>3 DEF Longer

\* While the traces are as they were, they are longer.
LEMMA SameIsLonger ==
    ASSUME Types, trace' = trace
    PROVE  \A s \in Session : Longer(s) /\ Len(trace'[s].list) \in Nat
  BY TraceTypes DEF Longer

\* What a call holds in hand stays good while the traces grow.
LEMMA StillReading ==
    ASSUME Types, NEW o \in Call, Reading(o),
           pc'[o] = pc[o], at'[o] = at[o], snap'[o] = snap[o],
           \A s \in Session : Longer(s) /\ Len(trace'[s].list) \in Nat /\ seen[s] \subseteq seen'[s]
    PROVE  Reading(o)'
<1>1. at[o] \in Session
  BY DEF Types
<1>2. /\ \A w : Passed(at[o], w) => Passed(at[o], w)'
      /\ \A w, window : Showing(at[o], w, window) => Showing(at[o], w, window)'
  BY <1>1, StaysPassed
<1>3. /\ pc[o] \in {"updateSave", "createSave"} => Passed(at[o], snap[o].file.wm)'
      /\ pc[o] = "extracting" => Showing(at[o], snap[o].count, snap[o].window)'
      /\ pc[o] \in {"advance", "advanceSave"} => Passed(at[o], snap[o].count)'
  BY <1>2 DEF Reading
<1> QED
  BY <1>3 DEF Reading, Passed, Showing

\* The steps that were shown only grow: what others have read stays good.
LEMMA OthersRead ==
    ASSUME Types, WatermarkInv, NEW c \in Call, Elsewhere(c), trace' = trace,
           \A s \in Session : seen[s] \subseteq seen'[s]
    PROVE  /\ \A o \in Call \ {c} : Reading(o)'
           /\ \A s \in Session : \A w : Passed(s, w) => Passed(s, w)'
<1>1. \A s \in Session : Longer(s) /\ Len(trace'[s].list) \in Nat /\ seen[s] \subseteq seen'[s]
  BY SameIsLonger
<1>2. \A o \in Call \ {c} : Reading(o)'
  <2> SUFFICES ASSUME NEW o \in Call \ {c} PROVE Reading(o)'
    OBVIOUS
  <2>1. pc'[o] = pc[o] /\ at'[o] = at[o] /\ snap'[o] = snap[o] /\ Reading(o)
    BY DEF Elsewhere, WatermarkInv
  <2> QED
    BY <1>1, <2>1, StillReading
<1>3. \A s \in Session : \A w : Passed(s, w) => Passed(s, w)'
  BY <1>1, StaysPassed
<1> QED
  BY <1>2, <1>3

\* A remember writes a watermark back only as it has read it.
LEMMA RememberRows ==
    ASSUME Types, NEW c \in Call, Remember(c)
    PROVE  /\ \A s \in Session :
                 \/ ctx'[s].wm = ctx[s].wm
                 \/ /\ pc[c] \in {"updateSave", "createSave"} /\ s = at[c]
                    /\ ctx'[s].wm = snap[c].file.wm
           /\ pc'[c] \in {"updateSave", "createSave"} => snap'[c].file = ctx[at[c]]
<1>1. pc \in [Call -> Before \cup Spawned \cup {"over"}] /\ snap \in [Call -> Snap]
      /\ ctx \in [Session -> Ctx] /\ at[c] \in Session
  BY DEF Types
<1>2. snap[c] \in Snap /\ snap[c].file \in Ctx /\ \A s \in Session : ctx[s] \in Ctx
  BY <1>1, SnapTypes
<1>3. \A f \in Ctx : \A n : Created(f, n).wm = f.wm /\ [f EXCEPT !.mark = n].wm = f.wm
  BY DEF Created, Ctx
<1>4. \A f \in Snap : \A x : [f EXCEPT !.file = x].file = x
  BY DEF Snap
<1>5. CASE Store(c) \/ SaveQa(c) \/ ReadState(c) \/ Count(c)
  <2>1. ctx' = ctx
    BY <1>5 DEF Store, SaveQa, ReadState, Count, store
  <2>2. pc'[c] \notin {"updateSave", "createSave"}
    BY <1>1, <1>5 DEF Store, SaveQa, ReadState, Count, Goto
  <2> QED
    BY <2>1, <2>2
<1>6. CASE Update(c)
  <2>1. ctx' = ctx \/ ctx' = [ctx EXCEPT ![at[c]] = [ctx[at[c]] EXCEPT !.mark = snap[c].count]]
    BY <1>6 DEF Update
  <2>2. \A s \in Session : ctx'[s].wm = ctx[s].wm
    <3>1. [ctx[at[c]] EXCEPT !.mark = snap[c].count].wm = ctx[at[c]].wm
      BY <1>1, <1>2, <1>3
    <3>2. \A s \in Session :
             \/ ctx'[s] = ctx[s]
             \/ s = at[c] /\ ctx'[s] = [ctx[at[c]] EXCEPT !.mark = snap[c].count]
      BY <1>1, <2>1
    <3> QED
      BY <3>1, <3>2
  <2>3. pc'[c] \in {"updateSave", "createSave"} =>
           snap' = [snap EXCEPT ![c] = [snap[c] EXCEPT !.file = ctx[at[c]]]]
    BY <1>1, <1>6 DEF Update, Goto
  <2>4. [snap[c] EXCEPT !.file = ctx[at[c]]].file = ctx[at[c]]
    BY <1>2, <1>4
  <2>5. pc'[c] \in {"updateSave", "createSave"} =>
           snap'[c] = [snap[c] EXCEPT !.file = ctx[at[c]]]
    BY <1>1, <2>3
  <2> QED
    BY <2>2, <2>4, <2>5
<1>7. CASE UpdateSave(c)
  <2>1. /\ ctx' = [ctx EXCEPT ![at[c]] = [snap[c].file EXCEPT !.mark = snap[c].count]]
        /\ pc[c] = "updateSave" /\ pc'[c] = "spawn"
    BY <1>1, <1>7 DEF UpdateSave, Goto
  <2> QED
    BY <1>1, <1>2, <1>3, <2>1
<1>8. CASE Create(c)
  <2>1. ctx' = ctx \/ ctx' = [ctx EXCEPT ![at[c]] = Created(ctx[at[c]], snap[c].count)]
    BY <1>8 DEF Create
  <2>2. \A s \in Session : ctx'[s].wm = ctx[s].wm
    BY <1>1, <1>2, <1>3, <2>1
  <2>3. pc'[c] \in {"updateSave", "createSave"} =>
           snap' = [snap EXCEPT ![c] = [snap[c] EXCEPT !.file = ctx[at[c]]]]
    BY <1>1, <1>8 DEF Create, Goto
  <2>4. [snap[c] EXCEPT !.file = ctx[at[c]]].file = ctx[at[c]]
    BY <1>2, <1>4
  <2>5. pc'[c] \in {"updateSave", "createSave"} =>
           snap'[c] = [snap[c] EXCEPT !.file = ctx[at[c]]]
    BY <1>1, <2>3
  <2> QED
    BY <2>2, <2>4, <2>5
<1>9. CASE CreateSave(c)
  <2>1. /\ ctx' = [ctx EXCEPT ![at[c]] = Created(snap[c].file, snap[c].count)]
        /\ pc[c] = "createSave" /\ pc'[c] = "spawn"
    BY <1>1, <1>9 DEF CreateSave, Goto
  <2> QED
    BY <1>1, <1>2, <1>3, <2>1
<1> QED
  BY <1>5, <1>6, <1>7, <1>8, <1>9 DEF Remember

LEMMA WatermarkRemember ==
    ASSUME Types, WatermarkInv, NEW c \in Call, Remember(c)
    PROVE  WatermarkInv'
<1>1. /\ Elsewhere(c) /\ at' = at /\ seen' = seen /\ trace' = trace
      /\ pc'[c] \notin Spawned /\ at[c] \in Session
  BY RememberStep DEF task, Types
<1>2. \A s \in Session : seen[s] \subseteq seen'[s]
  BY <1>1
<1>3. \A o \in Call \ {c} : Reading(o)'
  BY <1>1, <1>2, OthersRead
<1>4. \A s \in Session : \A w : Passed(s, w)' <=> Passed(s, w)
  BY <1>1 DEF Passed
<1>5. /\ \A s \in Session :
            \/ ctx'[s].wm = ctx[s].wm
            \/ /\ pc[c] \in {"updateSave", "createSave"} /\ s = at[c]
               /\ ctx'[s].wm = snap[c].file.wm
      /\ pc'[c] \in {"updateSave", "createSave"} => snap'[c].file = ctx[at[c]]
  BY RememberRows
<1>6. Reading(c) /\ \A s \in Session : Passed(s, ctx[s].wm)
  BY DEF WatermarkInv
<1>7. \A s \in Session : Passed(s, ctx'[s].wm)
  BY <1>5, <1>6 DEF Reading
<1>8. \A s \in Session : Passed(s, ctx[s].wm)'
  BY <1>1, <1>7 DEF Passed
<1>9. Reading(c)'
  <2>1. pc'[c] \notin {"extracting", "advance", "advanceSave"}
    BY <1>1 DEF Spawned, Improving
  <2>2. pc'[c] \in {"updateSave", "createSave"} => Passed(at[c], snap'[c].file.wm)
    BY <1>1, <1>5, <1>6
  <2> QED
    BY <1>1, <2>1, <2>2 DEF Reading, Passed
<1> QED
  BY <1>3, <1>8, <1>9 DEF WatermarkInv

\* A step that leaves the rows and the looked-at steps alone, and with which the
\* call has nothing of the watermark in hand.
LEMMA WatermarkQuiet ==
    ASSUME Types, WatermarkInv, NEW c \in Call, Elsewhere(c), trace' = trace, ctx' = ctx, seen' = seen,
           pc'[c] \notin {"updateSave", "createSave", "extracting", "advance", "advanceSave"}
    PROVE  WatermarkInv'
<1>1. \A o \in Call \ {c} : Reading(o)'
  BY OthersRead
<1>2. Reading(c)'
  BY DEF Reading
<1> QED
  BY <1>1, <1>2 DEF WatermarkInv, Passed

\* Where the window starts, every step before it was passed, or is left behind.
LEMMA WindowPassed ==
    ASSUME NEW s \in Session, NEW total \in Nat, NEW w \in Nat, w < total, Passed(s, w), ~trace[s].torn
    PROVE  \A n \in 1..WindowStart(total, total - w) :
             trace[s].list[n] \in seen[s] \/ n + MaxWindow <= total
<1> DEFINE size == IF total - w + Overlap > MaxWindow THEN MaxWindow ELSE total - w + Overlap
<1>1. size \in Nat /\ (size = MaxWindow \/ size >= total - w)
  BY ImproveAssumption
<1>2. WindowStart(total, total - w) = IF size > total THEN 0 ELSE total - size
  BY DEF WindowStart
<1> HIDE DEF size
<1> SUFFICES ASSUME NEW n \in 1..WindowStart(total, total - w)
             PROVE  trace[s].list[n] \in seen[s] \/ n + MaxWindow <= total
  OBVIOUS
<1>3. n \in Nat /\ n >= 1 /\ n <= total - size
  BY <1>1, <1>2
<1>4. CASE size = MaxWindow
  BY <1>3, <1>4, ImproveAssumption
<1>5. CASE size >= total - w
  <2>1. n \in 1..w
    BY <1>1, <1>3, <1>5
  <2>2. trace[s].list[n] \in seen[s] \/ n + MaxWindow <= w
    BY <2>1 DEF Passed
  <2> QED
    BY <1>3, <2>2, ImproveAssumption
<1> QED
  BY <1>1, <1>4, <1>5

LEMMA WatermarkStage ==
    ASSUME Types, WatermarkInv, NEW c \in Call, StageStep(c)
    PROVE  WatermarkInv'
<1>0. /\ pc \in [Call -> Before \cup Spawned \cup {"over"}] /\ snap \in [Call -> Snap]
      /\ at[c] \in Session /\ at \in [Call -> Session] /\ todo[c] \in SUBSET Session
  BY DEF Types
<1>ctx. ctx \in [Session -> Ctx] /\ \A s \in Session : ctx[s].wm \in Nat /\ Len(trace[s].list) \in Nat
  BY CtxTypes, TraceTypes DEF Types
<1>read. snap[c] \in Snap /\ snap[c].count \in Nat /\ snap[c].file \in Ctx
  BY <1>0, SnapTypes
<1>rows. Reading(c) /\ \A s \in Session : Passed(s, ctx[s].wm)
  BY DEF WatermarkInv
<1>else. Elsewhere(c) /\ trace' = trace
  BY StageStepKeeps
<1>same. ASSUME seen' = seen PROVE \A o \in Call \ {c} : Reading(o)'
  BY <1>else, <1>same, OthersRead
<1>1. CASE PersistRead(c) \/ Persisted(c) \/ NextStage(c)
  <2>1. ctx' = ctx /\ seen' = seen
    BY <1>1 DEF PersistRead, Persisted, NextStage, store, ghosts
  <2>2. pc'[c] \notin {"updateSave", "createSave", "extracting", "advance", "advanceSave"}
    BY <1>0, <1>1 DEF PersistRead, Persisted, NextStage, Goto
  <2> QED
    BY <1>else, <2>1, <2>2, WatermarkQuiet
<1>2. CASE ExtractRead(c)
  <2>1. PICK s \in todo[c] : \E w \in SUBSET Nat :
             /\ at' = [at EXCEPT ![c] = s]
             /\ snap' = [snap EXCEPT ![c] = [Nothing EXCEPT !.count = Len(trace[s].list), !.window = w]]
             /\ \/ pc' = [pc EXCEPT ![c] = "extract"]
                \/ /\ pc' = [pc EXCEPT ![c] = "extracting"]
                   /\ ctx[s].wm < Len(trace[s].list)
                   /\ \A n \in 1..Len(trace[s].list) :
                        \/ trace[s].list[n] \in w
                        \/ n <= WindowStart(Len(trace[s].list), Len(trace[s].list) - ctx[s].wm)
    BY <1>2, ExtractReads
  <2>2. PICK w \in SUBSET Nat :
             /\ at' = [at EXCEPT ![c] = s]
             /\ snap' = [snap EXCEPT ![c] = [Nothing EXCEPT !.count = Len(trace[s].list), !.window = w]]
             /\ \/ pc' = [pc EXCEPT ![c] = "extract"]
                \/ /\ pc' = [pc EXCEPT ![c] = "extracting"]
                   /\ ctx[s].wm < Len(trace[s].list)
                   /\ \A n \in 1..Len(trace[s].list) :
                        \/ trace[s].list[n] \in w
                        \/ n <= WindowStart(Len(trace[s].list), Len(trace[s].list) - ctx[s].wm)
    BY <2>1
  <2>3. s \in Session /\ ctx' = ctx /\ seen' = seen
    BY <1>0, <1>2 DEF ExtractRead, store, ghosts
  <2>4. CASE pc' = [pc EXCEPT ![c] = "extract"]
    <3>1. pc'[c] = "extract"
      BY <1>0, <2>4
    <3> QED
      BY <1>else, <2>3, <3>1, WatermarkQuiet
  <2>5. CASE /\ pc' = [pc EXCEPT ![c] = "extracting"]
             /\ ctx[s].wm < Len(trace[s].list)
             /\ \A n \in 1..Len(trace[s].list) :
                  \/ trace[s].list[n] \in w
                  \/ n <= WindowStart(Len(trace[s].list), Len(trace[s].list) - ctx[s].wm)
    <3>1. /\ pc'[c] = "extracting" /\ at'[c] = s
          /\ snap'[c] = [Nothing EXCEPT !.count = Len(trace[s].list), !.window = w]
      BY <1>0, <2>2, <2>5
    <3>2. \A x, y : /\ [Nothing EXCEPT !.count = x, !.window = y].count = x
                    /\ [Nothing EXCEPT !.count = x, !.window = y].window = y
      BY DEF Nothing
    <3>3. snap'[c].count = Len(trace[s].list) /\ snap'[c].window = w
      BY <3>1, <3>2
    <3>4. Showing(s, Len(trace[s].list), w)
      <4>1. CASE trace[s].torn
        BY <4>1 DEF Showing
      <4>2. CASE ~trace[s].torn
        <5>1. \A n \in 1..WindowStart(Len(trace[s].list), Len(trace[s].list) - ctx[s].wm) :
                 trace[s].list[n] \in seen[s] \/ n + MaxWindow <= Len(trace[s].list)
          BY <1>ctx, <1>rows, <2>3, <2>5, <4>2, WindowPassed
        <5> DEFINE start == WindowStart(Len(trace[s].list), Len(trace[s].list) - ctx[s].wm)
        <5>2. start \in Nat
          BY <1>ctx, <2>3, <2>5, ImproveAssumption DEF WindowStart
        <5> HIDE DEF start
        <5>3. \A n \in 1..Len(trace[s].list) : n <= start => n \in 1..start
          BY <1>ctx, <2>3, <5>2
        <5>4. \A n \in 1..Len(trace[s].list) :
                 trace[s].list[n] \in seen[s] \cup w \/ n + MaxWindow <= Len(trace[s].list)
          BY <2>5, <5>1, <5>3 DEF start
        <5>5. \A n \in 1..Len(trace[s].list) : n <= Len(trace[s].list)
          BY <1>ctx, <2>3
        <5> QED
          BY <5>4, <5>5 DEF Showing
      <4> QED
        BY <4>1, <4>2
    <3>5. Showing(s, Len(trace[s].list), w)'
      BY <1>else, <2>3, <3>4 DEF Showing
    <3>6. Reading(c)'
      <4>1. Showing(s, Len(trace[s].list), w)' =>
               (pc[c] = "extracting" => Showing(at[c], snap[c].count, snap[c].window))'
        BY <1>else, <3>1, <3>3 DEF Showing
      <4> QED
        BY <3>1, <3>5, <4>1 DEF Reading
    <3> QED
      BY <1>same, <1>rows, <1>else, <2>3, <3>6 DEF WatermarkInv, Passed
  <2> QED
    BY <2>2, <2>4, <2>5
<1>3. CASE Extracted(c)
  <2>1. at' = at /\ snap' = snap /\ ctx' = ctx /\ pc[c] = "extracting"
    BY <1>3 DEF Extracted, store
  <2>2. \/ /\ seen' = [seen EXCEPT ![at[c]] = seen[at[c]] \cup snap[c].window]
           /\ pc'[c] = "advance"
        \/ seen' = seen /\ pc'[c] = "extract"
    BY <1>0, <1>3 DEF Extracted, Goto
  <2>3. CASE seen' = seen /\ pc'[c] = "extract"
    BY <1>else, <2>1, <2>3, WatermarkQuiet
  <2>4. CASE /\ seen' = [seen EXCEPT ![at[c]] = seen[at[c]] \cup snap[c].window]
             /\ pc'[c] = "advance"
    <3>1. seen \in [Session -> SUBSET Nat]
      BY DEF Types
    <3>2. /\ \A s \in Session : seen[s] \subseteq seen'[s]
          /\ seen'[at[c]] = seen[at[c]] \cup snap[c].window
      BY <1>0, <2>4, <3>1
    <3>3. /\ \A o \in Call \ {c} : Reading(o)'
          /\ \A s \in Session : \A w : Passed(s, w) => Passed(s, w)'
      BY <1>else, <3>2, OthersRead
    <3>4. Showing(at[c], snap[c].count, snap[c].window)
      BY <1>rows, <2>1 DEF Reading
    <3>5. Reading(c)'
      BY <1>else, <2>1, <2>4, <3>2, <3>4 DEF Reading, Passed, Showing
    <3>6. \A s \in Session : Passed(s, ctx[s].wm)'
      BY <1>rows, <2>1, <3>3 DEF Passed
    <3> QED
      BY <3>3, <3>5, <3>6 DEF WatermarkInv
  <2> QED
    BY <2>2, <2>3, <2>4
<1>4. CASE Advance(c) \/ AdvanceSave(c)
  <2>1. at' = at /\ seen' = seen /\ pc[c] \in {"advance", "advanceSave"}
    BY <1>4 DEF Advance, AdvanceSave, ghosts
  <2>2. \/ /\ ctx' = ctx /\ pc'[c] = "advanceSave"
           /\ snap' = [snap EXCEPT ![c] = [snap[c] EXCEPT !.file = ctx[at[c]]]]
        \/ /\ \E f \in Ctx : ctx' = [ctx EXCEPT ![at[c]] = [f EXCEPT !.wm = snap[c].count]]
           /\ pc'[c] = "extract"
    <3>1. CASE Advance(c)
      <4>1. ctx[at[c]] \in Ctx
        BY <1>0, <1>ctx
      <4> QED
        BY <1>0, <3>1, <4>1 DEF Advance, Goto
    <3>2. CASE AdvanceSave(c)
      BY <1>0, <1>read, <3>2 DEF AdvanceSave, Goto
    <3> QED
      BY <1>4, <3>1, <3>2
  <2>3. Passed(at[c], snap[c].count)
    BY <1>rows, <2>1 DEF Reading
  <2>4. CASE /\ ctx' = ctx /\ pc'[c] = "advanceSave"
             /\ snap' = [snap EXCEPT ![c] = [snap[c] EXCEPT !.file = ctx[at[c]]]]
    <3>1. snap'[c].count = snap[c].count
      <4>1. \A f \in Snap : \A x : [f EXCEPT !.file = x].count = f.count
        BY DEF Snap
      <4> QED
        BY <1>0, <1>read, <2>4, <4>1
    <3>2. Reading(c)'
      BY <1>else, <2>1, <2>3, <2>4, <3>1 DEF Reading, Passed
    <3> QED
      BY <1>rows, <1>same, <1>else, <2>1, <2>4, <3>2 DEF WatermarkInv, Passed
  <2>5. CASE /\ \E f \in Ctx : ctx' = [ctx EXCEPT ![at[c]] = [f EXCEPT !.wm = snap[c].count]]
             /\ pc'[c] = "extract"
    <3>1. PICK f \in Ctx : ctx' = [ctx EXCEPT ![at[c]] = [f EXCEPT !.wm = snap[c].count]]
      BY <2>5
    <3>2. [f EXCEPT !.wm = snap[c].count].wm = snap[c].count
      BY DEF Ctx
    <3>3. \A s \in Session : ctx'[s].wm = IF s = at[c] THEN snap[c].count ELSE ctx[s].wm
      BY <1>0, <1>ctx, <3>1, <3>2
    <3>4. \A s \in Session : Passed(s, ctx[s].wm)'
      BY <1>rows, <1>else, <2>1, <2>3, <3>3 DEF Passed
    <3>5. Reading(c)'
      BY <2>5 DEF Reading
    <3> QED
      BY <1>same, <2>1, <3>4, <3>5 DEF WatermarkInv
  <2> QED
    BY <2>2, <2>4, <2>5
<1> QED
  BY <1>1, <1>2, <1>3, <1>4 DEF StageStep

LEMMA WatermarkNext ==
    ASSUME Types, WatermarkInv, [Next]_vars
    PROVE  WatermarkInv'
<1>1. ASSUME NEW c \in Call, Remember(c) PROVE WatermarkInv'
  BY <1>1, WatermarkRemember
<1>2. ASSUME NEW c \in Call, StageStep(c) PROVE WatermarkInv'
  BY <1>2, WatermarkStage
<1>3. ASSUME NEW c \in Call,
             Spawn(c) \/ Resolve(c) \/ Acquire(c) \/ Release(c) \/ End(c) \/ Notify(c)
      PROVE  WatermarkInv'
  <2>1. Elsewhere(c) /\ trace' = trace /\ ctx' = ctx /\ seen' = seen
    BY <1>3, TaskStepKeeps DEF store, ghosts
  <2>2. pc \in [Call -> Before \cup Spawned \cup {"over"}]
    BY DEF Types
  <2>3. pc'[c] \notin {"updateSave", "createSave", "extracting", "advance", "advanceSave"}
    <3>1. CASE Acquire(c)
      BY <2>2, <3>1 DEF Acquire, Take, Goto
    <3>2. CASE Spawn(c) \/ Resolve(c) \/ Release(c) \/ End(c) \/ Notify(c)
      BY <2>2, <3>2 DEF Spawn, Resolve, Release, End, Notify, Goto
    <3> QED
      BY <1>3, <3>1, <3>2
  <2> QED
    BY <2>1, <2>3, WatermarkQuiet
<1>4. CASE Outside
  <2>1. UNCHANGED <<pc, at, snap, seen>>
    BY <1>4, OutsideKeeps DEF ghosts
  <2>2. \A s \in Session : ctx'[s] = ctx[s] \/ ctx'[s].wm = 0
    <3>1. ASSUME NEW s \in Session, TraceLoad(s) \/ TraceSave(s) PROVE ctx' = ctx
      BY <3>1 DEF TraceLoad, TraceSave
    <3>2. ASSUME NEW s \in Session, Expire(s) \/ DeleteSession(s)
          PROVE  ctx' = ctx \/ ctx' = [ctx EXCEPT ![s] = Empty]
      BY <3>2 DEF Expire, DeleteSession
    <3>3. CASE WaitBegin \/ Wait
      BY <3>3 DEF WaitBegin, Wait, WaitRead, WaitPoll, WaitWoken, waits, store
    <3> QED
      BY <1>4, <3>1, <3>2, <3>3 DEF Outside, Types, Empty
  <2>3. trace' \in [Session -> Trace] /\ \A s \in Session : Longer(s)
    <3>1. ASSUME NEW s \in Session, TraceLoad(s) \/ TraceSave(s) \/ Expire(s)
          PROVE  trace' \in [Session -> Trace] /\ \A r \in Session : Longer(r)
      BY <3>1, TraceGrows
    <3>2. CASE trace' = trace
      BY <3>2, SameIsLonger DEF Types
    <3>3. ASSUME NEW s \in Session, DeleteSession(s) PROVE trace' = trace
      BY <3>3 DEF DeleteSession
    <3>4. WaitBegin \/ Wait => trace' = trace
      BY DEF WaitBegin, Wait, WaitRead, WaitPoll, WaitWoken, waits, store
    <3> QED
      BY <1>4, <3>1, <3>2, <3>3, <3>4 DEF Outside
  <2>4. \A s \in Session : Longer(s) /\ Len(trace'[s].list) \in Nat /\ seen[s] \subseteq seen'[s]
    <3> SUFFICES ASSUME NEW s \in Session
                 PROVE  Longer(s) /\ Len(trace'[s].list) \in Nat /\ seen[s] \subseteq seen'[s]
      OBVIOUS
    <3>1. trace'[s].list \in Seq(Nat)
      BY <2>3 DEF Trace
    <3> QED
      BY <2>1, <2>3, <3>1, LenProperties
  <2>5. \A c \in Call : Reading(c)'
    <3> SUFFICES ASSUME NEW c \in Call PROVE Reading(c)'
      OBVIOUS
    <3>1. Reading(c) /\ pc'[c] = pc[c] /\ at'[c] = at[c] /\ snap'[c] = snap[c]
      BY <2>1 DEF WatermarkInv
    <3> QED
      BY <2>4, <3>1, StillReading
  <2>6. \A s \in Session : Passed(s, ctx[s].wm)'
    <3> SUFFICES ASSUME NEW s \in Session PROVE Passed(s, ctx[s].wm)'
      OBVIOUS
    <3>1. \A w : Passed(s, w) => Passed(s, w)'
      BY <2>4, StaysPassed
    <3>2. CASE ctx'[s] = ctx[s]
      <4>1. Passed(s, ctx[s].wm)
        BY DEF WatermarkInv
      <4> QED
        BY <3>1, <3>2, <4>1 DEF Passed
    <3>3. CASE ctx'[s].wm = 0
      BY <3>3 DEF Passed
    <3> QED
      BY <2>2, <3>2, <3>3
  <2> QED
    BY <2>5, <2>6 DEF WatermarkInv
<1>5. CASE UNCHANGED vars
  BY <1>5 DEF WatermarkInv, Reading, Passed, Showing, vars, store, ghosts
<1> QED
  BY <1>1, <1>2, <1>3, <1>4, <1>5, NextSteps

-----------------------------------------------------------------------------
(* The background tasks *)

\* The tasks that are counted change with Spawn and End only.
LEMMA TasksNext ==
    ASSUME Types, running = Cardinality(Tasks), [Next]_vars
    PROVE  (running = Cardinality(Tasks))'
<1>0. pc \in [Call -> Before \cup Spawned \cup {"over"}]
  BY DEF Types
<1>same. ASSUME running' = running, \A o \in Call : o \in Tasks' <=> o \in Tasks
         PROVE  (running = Cardinality(Tasks))'
  <2>1. Tasks' = Tasks
    BY <1>same DEF Tasks
  <2> QED
    BY <1>same, <2>1
<1>1. ASSUME NEW c \in Call, Remember(c) PROVE (running = Cardinality(Tasks))'
  <2>1. /\ Elsewhere(c) /\ running' = running
        /\ pc[c] \notin Spawned /\ pc'[c] \notin Spawned
    BY <1>1, RememberStep DEF task
  <2>2. \A o \in Call : o \in Tasks' <=> o \in Tasks
    BY <2>1 DEF Elsewhere, Tasks
  <2> QED
    BY <1>same, <2>1, <2>2
<1>2. ASSUME NEW c \in Call, StageStep(c) PROVE (running = Cardinality(Tasks))'
  <2>1. Elsewhere(c) /\ running' = running /\ pc[c] \in Stages /\ pc'[c] \in Stages
    BY <1>2, StageStepKeeps DEF stage
  <2>2. \A o \in Call : o \in Tasks' <=> o \in Tasks
    BY <2>1 DEF Elsewhere, Tasks, Stages, Spawned, Improving
  <2> QED
    BY <1>same, <2>1, <2>2
<1>3. ASSUME NEW c \in Call, Resolve(c) \/ Acquire(c) \/ Release(c) \/ Notify(c)
      PROVE  (running = Cardinality(Tasks))'
  <2>1. Elsewhere(c)
    BY <1>3, TaskStepKeeps
  <2>2. /\ running' = running
        /\ pc[c] \in Spawned \ {"notify"} <=> pc'[c] \in Spawned \ {"notify"}
    <3>1. CASE Acquire(c)
      BY <1>0, <3>1 DEF Acquire, Take, Goto, Spawned, Improving
    <3>2. CASE Resolve(c) \/ Release(c) \/ Notify(c)
      BY <1>0, <3>2 DEF Resolve, Release, Notify, Goto, Spawned, Improving
    <3> QED
      BY <1>3, <3>1, <3>2
  <2>3. \A o \in Call : o \in Tasks' <=> o \in Tasks
    BY <2>1, <2>2 DEF Elsewhere, Tasks
  <2> QED
    BY <1>same, <2>2, <2>3
<1>4. ASSUME NEW c \in Call, Spawn(c) PROVE (running = Cardinality(Tasks))'
  <2>1. Elsewhere(c)
    BY <1>4, TaskStepKeeps
  <2>2. /\ running' = running + 1
        /\ pc[c] \notin Spawned \ {"notify"} /\ pc'[c] \in Spawned \ {"notify"}
    BY <1>0, <1>4 DEF Spawn, Goto, Spawned, Improving
  <2>3. c \notin Tasks /\ Tasks' = Tasks \cup {c} /\ Tasks \in SUBSET Call
    BY <2>1, <2>2 DEF Elsewhere, Tasks
  <2>4. Cardinality(Tasks \cup {c}) = Cardinality(Tasks) + 1
    BY <2>3, CallAdded
  <2> QED
    BY <2>2, <2>3, <2>4
<1>5. ASSUME NEW c \in Call, End(c) PROVE (running = Cardinality(Tasks))'
  <2>1. Elsewhere(c)
    BY <1>5, TaskStepKeeps
  <2>2. /\ running' = running - 1
        /\ pc[c] \in Spawned \ {"notify"} /\ pc'[c] \notin Spawned \ {"notify"}
    BY <1>0, <1>5 DEF End, Goto, Spawned, Improving
  <2>3. c \in Tasks /\ Tasks' = Tasks \ {c} /\ Tasks \in SUBSET Call
    BY <2>1, <2>2 DEF Elsewhere, Tasks
  <2>4. Cardinality(Tasks \ {c}) = Cardinality(Tasks) - 1
    BY <2>3, CallRemoved
  <2> QED
    BY <2>2, <2>3, <2>4
<1>6. CASE Outside
  BY <1>6, OutsideKeeps DEF Tasks
<1>7. CASE UNCHANGED vars
  BY <1>7 DEF Tasks, vars
<1> QED
  BY <1>1, <1>2, <1>3, <1>4, <1>5, <1>6, <1>7, NextSteps

-----------------------------------------------------------------------------
\* The inductive invariant: the types, the claims, the watermark and the count.
ImproveInv ==
    /\ Types
    /\ ClaimsInv
    /\ WatermarkInv
    /\ running = Cardinality(Tasks)

LEMMA ImproveInvInit == Init => ImproveInv
<1> SUFFICES ASSUME Init PROVE ImproveInv
  OBVIOUS
<1>1. Types /\ ClaimsInv /\ WatermarkInv
  BY InitTypes, WatermarkInit
<1>2. Tasks = {}
  BY DEF Init, Tasks, Spawned, Improving
<1>3. Cardinality(Tasks) = 0
  BY <1>2, FS_EmptySet
<1> QED
  BY <1>1, <1>3 DEF ImproveInv, Init

LEMMA TypesNext ==
    ASSUME Types, ClaimsInv, [Next]_vars
    PROVE  Types'
<1>1. ASSUME NEW c \in Call, Remember(c) \/ Spawn(c) PROVE Types'
  BY <1>1, RememberTypes
<1>2. ASSUME NEW c \in Call, Improve(c) PROVE Types'
  BY <1>2, ImproveTypes
<1>3. CASE Outside
  BY <1>3, OtherTypes DEF Outside
<1>4. CASE UNCHANGED vars
  BY <1>4 DEF Types, vars, store, claims, ghosts
<1> QED
  BY <1>1, <1>2, <1>3, <1>4 DEF Next, Outside

LEMMA ImproveInvNext == ImproveInv /\ [Next]_vars => ImproveInv'
<1> SUFFICES ASSUME ImproveInv, [Next]_vars PROVE ImproveInv'
  OBVIOUS
<1>1. Types /\ ClaimsInv /\ WatermarkInv /\ running = Cardinality(Tasks)
  BY DEF ImproveInv
<1>2. Types' /\ ClaimsInv' /\ WatermarkInv' /\ (running = Cardinality(Tasks))'
  BY <1>1, TypesNext, ClaimsNext, WatermarkNext, TasksNext
<1> QED
  BY <1>2 DEF ImproveInv

\* The invariant holds in every state of the specification.
LEMMA ImproveInvariant == Spec => []ImproveInv
  BY ImproveInvInit, ImproveInvNext, PTL DEF Spec

\* The variables keep their types, and BackgroundTasks counts exactly the tasks
\* that have not ended, whichever improves fail.
THEOREM ImproveTypeCorrect == Spec => []TypeOK
<1>1. ImproveInv => TypeOK
  BY DEF ImproveInv, Types, Tasks, TypeOK
<1> QED
  BY <1>1, ImproveInvariant, PTL

\* No two improves are in their stages with a session in common: the claims of
\* acquire_improve_lock_many exclude each other although a full registry drops
\* the entries that nobody uses.
THEOREM ImprovesExclude == Spec => []OneImprovePerSession
<1>1. ImproveInv => OneImprovePerSession
  BY DEF ImproveInv, ClaimsInv, Claim, OneImprovePerSession
<1> QED
  BY <1>1, ImproveInvariant, PTL

\* The watermark passes no trace step that was not shown to an extraction, but
\* for those that a whole window has left behind, as long as no two appends to
\* the session overlapped and its trace file has not expired.
THEOREM WatermarkFollows == Spec => []SeenBeforePassed
<1>1. ImproveInv => SeenBeforePassed
  BY DEF ImproveInv, WatermarkInv, Passed, SeenBeforePassed
<1> QED
  BY <1>1, ImproveInvariant, PTL

-----------------------------------------------------------------------------
(* The debounce *)

\* A call works on sessions of its own, and with a database nothing is read to be
\* saved as a whole.
Place(c) ==
    /\ at[c] \in env.sessions[c]
    /\ pc[c] \in Stages => todo[c] \subseteq env.sessions[c]
    /\ ~env.files => pc[c] \notin {"saveQa", "updateSave", "createSave", "advanceSave"}

PlacesInv == \A c \in Call : Place(c)

\* The improve of c is still to read the entries of the session.
Ready(c, s) ==
    /\ s \in env.sessions[c]
    /\ \/ pc[c] \in {"update", "create", "spawn", "lock", "acquire"}
       \/ pc[c] \in {"persist", "persisting"} /\ s \in todo[c]

Cover(c, s, k) ==
    \/ Ready(c, s)
    \/ pc[c] = "persisting" /\ at[c] = s /\ k <= Cardinality(snap[c].entries)

\* The first k entries of the session are bridged or on their way, unless an
\* improve of the session failed.
Covered(s, k) ==
    \/ \E o \in Call : Cover(o, s, k)
    \/ \E o \in failed : s \in env.sessions[o]
    \/ k <= Cardinality(bridged[s])

\* Fewer entries than the threshold are not covered.
Bounded(s) ==
    \E m \in Nat : /\ m <= Cardinality(qa[s]) /\ Cardinality(qa[s]) < m + Threshold
                   /\ Covered(s, m)

\* What a call has in hand of the session's entries.
InHand(c, s) ==
    /\ pc[c] = "persisting" /\ at[c] = s => snap[c].entries \subseteq qa[s]
    /\ \A k \in Nat :
          pc[c] = "count" /\ at[c] = s /\ snap[c].file.marked /\ k = snap[c].file.mark =>
             Covered(s, k) /\ k <= Cardinality(qa[s])
    /\ pc[c] \in {"update", "create"} /\ at[c] = s => snap[c].count <= Cardinality(qa[s])

\* A mark covers the entries it counts; whoever stored an entry has not decided
\* yet, or the entries that are not covered are few.
Sound(s) ==
    /\ bridged[s] \subseteq qa[s]
    /\ \A c \in Call : InHand(c, s)
    /\ \A k \in Nat :
          ctx[s].marked /\ k = ctx[s].mark => Covered(s, k) /\ k <= Cardinality(qa[s])
    /\ \/ \E c \in Call : at[c] = s /\ pc[c] \in {"state", "count"}
       \/ Bounded(s)

StrandInv ==
    /\ PlacesInv
    /\ ~env.files => \A s \in Session \ deleted : Sound(s)

LEMMA StrandInit ==
    ASSUME Init PROVE StrandInv
<1>1. /\ env \in Scenarios
      /\ \A c \in Call : env.sessions[c] \subseteq Session /\ env.sessions[c] # {}
      /\ \A c \in Call : pc[c] \in {"new", "over"}
  BY ImproveAssumption DEF Init
<1>2. \A c \in Call : at[c] \in env.sessions[c]
  <2> SUFFICES ASSUME NEW c \in Call PROVE at[c] \in env.sessions[c]
    OBVIOUS
  <2>1. at[c] = CHOOSE s \in Session : env.sessions[c] # {} => s \in env.sessions[c]
    BY DEF Init
  <2>2. \E s \in Session : env.sessions[c] # {} => s \in env.sessions[c]
    BY <1>1
  <2> QED
    BY <1>1, <2>1, <2>2
<1>3. PlacesInv
  BY <1>1, <1>2 DEF PlacesInv, Place, Stages, Improving
<1>4. ASSUME NEW s \in Session PROVE Sound(s)
  <2>1. qa[s] = {} /\ bridged[s] = {} /\ ctx[s] = Empty
    BY DEF Init
  <2>2. ~ctx[s].marked
    BY <2>1 DEF Empty
  <2>3. Cardinality(qa[s]) = 0 /\ Cardinality(bridged[s]) = 0
    BY <2>1, FS_EmptySet
  <2>4. Covered(s, 0)
    BY <2>3 DEF Covered
  <2>5. Bounded(s)
    BY <2>3, <2>4, ImproveAssumption DEF Bounded
  <2>6. \A c \in Call : InHand(c, s)
    BY <1>1 DEF InHand
  <2> QED
    BY <2>1, <2>2, <2>5, <2>6 DEF Sound
<1> QED
  BY <1>3, <1>4 DEF StrandInv

\* The steps of the calls keep them in their sessions.
LEMMA PlacesQuiet ==
    ASSUME PlacesInv, NEW c \in Call, Elsewhere(c), Place(c)'
    PROVE  PlacesInv'
  BY DEF PlacesInv, Place, Elsewhere

LEMMA PlacesNext ==
    ASSUME Types, PlacesInv, [Next]_vars
    PROVE  PlacesInv'
<1>0. pc \in [Call -> Before \cup Spawned \cup {"over"}] /\ at \in [Call -> Session]
      /\ todo \in [Call -> SUBSET Session]
  BY DEF Types
<1>1. ASSUME NEW c \in Call, Remember(c) PROVE PlacesInv'
  <2>1. Elsewhere(c) /\ at' = at /\ pc'[c] \notin Stages /\ env' = env /\ Place(c)
    BY <1>1, RememberStep DEF Spawned, Stages, Elsewhere, PlacesInv
  <2>2. ~env.files => pc'[c] \notin {"saveQa", "updateSave", "createSave", "advanceSave"}
    <3>1. CASE Store(c) \/ SaveQa(c) \/ ReadState(c) \/ Count(c)
      BY <1>0, <3>1 DEF Store, SaveQa, ReadState, Count, Goto
    <3>2. CASE Update(c) \/ UpdateSave(c) \/ Create(c) \/ CreateSave(c)
      BY <1>0, <3>2 DEF Update, UpdateSave, Create, CreateSave, Goto
    <3> QED
      BY <1>1, <3>1, <3>2 DEF Remember
  <2> QED
    BY <2>1, <2>2, PlacesQuiet DEF Place
<1>2. ASSUME NEW c \in Call, StageStep(c) PROVE PlacesInv'
  <2>1. Elsewhere(c) /\ env' = env /\ Place(c) /\ pc[c] \in Stages
    BY <1>2, StageStepKeeps DEF Elsewhere, PlacesInv
  <2>2. CASE PersistRead(c)
    BY <1>0, <2>1, <2>2, PlacesQuiet DEF PersistRead, Goto, Place
  <2>3. CASE ExtractRead(c)
    <3>1. PICK s \in todo[c] : /\ at' = [at EXCEPT ![c] = s]
                               /\ todo' = [todo EXCEPT ![c] = todo[c] \ {s}]
      BY <2>3 DEF ExtractRead
    <3>2. pc'[c] \in {"extract", "extracting"}
      BY <1>0, <2>3 DEF ExtractRead, Goto
    <3> QED
      BY <1>0, <2>1, <3>1, <3>2, PlacesQuiet DEF Place
  <2>4. CASE Persisted(c) \/ NextStage(c)
    BY <1>0, <2>1, <2>4, PlacesQuiet DEF Persisted, NextStage, Goto, Place
  <2>5. CASE Extracted(c) \/ Advance(c) \/ AdvanceSave(c)
    BY <1>0, <2>1, <2>5, PlacesQuiet DEF Extracted, Advance, AdvanceSave, Goto, Place
  <2> QED
    BY <1>2, <2>2, <2>3, <2>4, <2>5 DEF StageStep
<1>3. ASSUME NEW c \in Call,
             Spawn(c) \/ Resolve(c) \/ Acquire(c) \/ Release(c) \/ End(c) \/ Notify(c)
      PROVE  PlacesInv'
  <2>1. Elsewhere(c) /\ env' = env /\ at' = at /\ Place(c)
    BY <1>3, TaskStepKeeps DEF Elsewhere, PlacesInv
  <2>2. CASE Acquire(c)
    BY <1>0, <2>1, <2>2, PlacesQuiet DEF Acquire, Take, Goto, Place, Stages
  <2>3. CASE Spawn(c) \/ Resolve(c) \/ Release(c) \/ End(c) \/ Notify(c)
    <3>1. pc'[c] \in {"lock", "acquire", "end", "notify", "over"}
      BY <1>0, <2>3 DEF Spawn, Resolve, Release, End, Notify, Goto
    <3> QED
      BY <2>1, <3>1, PlacesQuiet DEF Place, Stages, Improving
  <2> QED
    BY <1>3, <2>2, <2>3
<1>4. CASE Outside
  BY <1>4, OutsideKeeps DEF PlacesInv, Place
<1>5. CASE UNCHANGED vars
  BY <1>5 DEF PlacesInv, Place, vars
<1> QED
  BY <1>1, <1>2, <1>3, <1>4, <1>5, NextSteps

\* The sizes that are compared are numbers.
LEMMA Sizes ==
    ASSUME Types, NEW s \in Session
    PROVE  /\ Cardinality(qa[s]) \in Nat /\ Cardinality(bridged[s]) \in Nat
           /\ \A c \in Call : Cardinality(snap[c].entries) \in Nat
           /\ \A c \in Call : snap[c].entries \in SUBSET Call
<1>1. qa[s] \in SUBSET Call /\ bridged[s] \in SUBSET Call
  BY DEF Types
<1>2. \A c \in Call : snap[c] \in Snap
  BY DEF Types
<1>3. \A c \in Call : snap[c].entries \in SUBSET Call
  BY <1>2, SnapTypes
<1> QED
  BY <1>1, <1>3, CallSets

\* What is covered stays covered, if what covers it by c does.
LEMMA CoverStays ==
    ASSUME Types, Types', NEW c \in Call, Elsewhere(c), NEW s \in Session, NEW k \in Nat,
           failed \subseteq failed', bridged[s] \subseteq bridged'[s],
           Cover(c, s, k) => Covered(s, k)',
           Covered(s, k)
    PROVE  Covered(s, k)'
<1>1. CASE \E o \in failed : s \in env.sessions[o]
  BY <1>1 DEF Covered, Elsewhere
<1>2. CASE k <= Cardinality(bridged[s])
  <2>1. bridged'[s] \in SUBSET Call /\ bridged[s] \in SUBSET bridged'[s]
    BY DEF Types
  <2>2. Cardinality(bridged[s]) <= Cardinality(bridged'[s])
    BY <2>1, CallSubsets
  <2>3. Cardinality(bridged[s]) \in Nat /\ Cardinality(bridged'[s]) \in Nat
    BY <2>1, CallSets
  <2>4. k <= Cardinality(bridged'[s])
    BY <1>2, <2>2, <2>3
  <2> QED
    BY <2>4 DEF Covered
<1>3. ASSUME NEW o \in Call \ {c}, Cover(o, s, k) PROVE Covered(s, k)'
  <2>1. Cover(o, s, k)'
    BY <1>3 DEF Cover, Ready, Elsewhere
  <2> QED
    BY <2>1 DEF Covered
<1> QED
  BY <1>1, <1>2, <1>3 DEF Covered

\* A step that stores no entry keeps a session sound when it covers what it
\* covered, marks what it is to bridge, and decides on what is covered.
LEMMA SoundStep ==
    ASSUME Types, Types', NEW s \in Session, Sound(s), NEW c \in Call, Elsewhere(c),
           qa' = qa, failed \subseteq failed',
           bridged[s] \subseteq bridged'[s], bridged'[s] \subseteq qa[s],
           \A k \in Nat : k <= Cardinality(qa[s]) /\ Cover(c, s, k) => Covered(s, k)',
           InHand(c, s)',
           \A k \in Nat : ctx'[s].marked /\ k = ctx'[s].mark =>
              \/ ctx[s].marked /\ k = ctx[s].mark
              \/ k <= Cardinality(qa[s]) /\ Covered(s, k)',
           at[c] = s /\ pc[c] \in {"state", "count"} =>
              \/ at'[c] = s /\ pc'[c] \in {"state", "count"}
              \/ Bounded(s)'
    PROVE  Sound(s)'
<1>1. \A k \in Nat : k <= Cardinality(qa[s]) /\ Covered(s, k) => Covered(s, k)'
  BY CoverStays
<1>2. \A o \in Call \ {c} : InHand(o, s)'
  <2> SUFFICES ASSUME NEW o \in Call \ {c} PROVE InHand(o, s)'
    OBVIOUS
  <2>1. InHand(o, s)
    BY DEF Sound
  <2>2. pc'[o] = pc[o] /\ at'[o] = at[o] /\ snap'[o] = snap[o]
    BY DEF Elsewhere
  <2> QED
    BY <1>1, <2>1, <2>2 DEF InHand
<1>3. \A k \in Nat : (ctx[s].marked /\ k = ctx[s].mark)' =>
                        Covered(s, k)' /\ k <= Cardinality(qa[s])
  BY <1>1 DEF Sound
<1>4. \/ \E o \in Call : at'[o] = s /\ pc'[o] \in {"state", "count"}
      \/ Bounded(s)'
  <2>1. CASE \E o \in Call : at[o] = s /\ pc[o] \in {"state", "count"}
    <3>1. PICK o \in Call : at[o] = s /\ pc[o] \in {"state", "count"}
      BY <2>1
    <3>2. CASE o = c
      BY <3>1, <3>2
    <3>3. CASE o # c
      BY <3>1, <3>3 DEF Elsewhere
    <3> QED
      BY <3>2, <3>3
  <2>2. CASE Bounded(s)
    BY <1>1, <2>2 DEF Bounded
  <2> QED
    BY <2>1, <2>2 DEF Sound
<1> QED
  BY <1>2, <1>3, <1>4 DEF Sound

\* With a call that is to bridge the session, all its entries are covered.
LEMMA ReadyBounds ==
    ASSUME Types', NEW s \in Session, NEW c \in Call,
           Ready(c, s)' \/ (c \in failed' /\ s \in env'.sessions[c])
    PROVE  Bounded(s)' /\ \A k \in Nat : Covered(s, k)'
<1>1. Cardinality(qa'[s]) \in Nat
  BY CallSets DEF Types
<1>2. \A k \in Nat : Covered(s, k)'
  BY DEF Covered, Cover
<1>3. Bounded(s)'
  BY <1>1, <1>2, ImproveAssumption DEF Bounded
<1> QED
  BY <1>2, <1>3

LEMMA SoundTask ==
    ASSUME Types, Types', NEW s \in Session, Sound(s), NEW c \in Call,
           Spawn(c) \/ Resolve(c) \/ Acquire(c) \/ Release(c) \/ End(c) \/ Notify(c)
    PROVE  Sound(s)'
<1>1. Elsewhere(c) /\ env' = env /\ at' = at /\ UNCHANGED <<qa, ctx, failed, bridged>>
  BY TaskStepKeeps DEF store, ghosts, Elsewhere
<1>2. /\ pc \in [Call -> Before \cup Spawned \cup {"over"}]
      /\ todo \in [Call -> SUBSET Session]
  BY DEF Types
<1>3. /\ pc[c] \notin {"state", "count"}
      /\ pc'[c] \notin {"persisting", "count", "update", "create"}
      /\ \A k \in Nat : Cover(c, s, k) => Ready(c, s)'
  <2>1. CASE Spawn(c)
    BY <1>1, <1>2, <2>1 DEF Spawn, Goto, Cover, Ready
  <2>2. CASE Resolve(c)
    BY <1>1, <1>2, <2>2 DEF Resolve, Goto, Cover, Ready
  <2>3. CASE Acquire(c)
    BY <1>1, <1>2, <2>3 DEF Acquire, Take, Goto, Cover, Ready
  <2>4. CASE Release(c)
    BY <1>1, <1>2, <2>4 DEF Release, Goto, Cover, Ready
  <2>5. CASE End(c) \/ Notify(c)
    BY <1>1, <1>2, <2>5 DEF End, Notify, Goto, Cover, Ready
  <2> QED
    BY <2>1, <2>2, <2>3, <2>4, <2>5
<1>4. \A k \in Nat : Cover(c, s, k) => Covered(s, k)'
  BY <1>3, ReadyBounds
<1>5. InHand(c, s)'
  BY <1>3 DEF InHand
<1>6. bridged[s] \subseteq qa[s]
  BY DEF Sound
<1> QED
  BY <1>1, <1>3, <1>4, <1>5, <1>6, SoundStep

LEMMA SoundPersistRead ==
    ASSUME Types, Types', NEW s \in Session, Sound(s), NEW c \in Call, PersistRead(c)
    PROVE  Sound(s)'
<1>1. Elsewhere(c) /\ env' = env /\ UNCHANGED <<qa, ctx, failed, bridged>>
  BY StageStepKeeps DEF StageStep, PersistRead, store, ghosts, Elsewhere
<1>2. /\ pc \in [Call -> Before \cup Spawned \cup {"over"}] /\ at \in [Call -> Session]
      /\ todo \in [Call -> SUBSET Session] /\ snap \in [Call -> Snap] /\ snap[c] \in Snap
  BY DEF Types
<1>3. PICK r \in todo[c] :
          /\ todo' = [todo EXCEPT ![c] = todo[c] \ {r}]
          /\ at' = [at EXCEPT ![c] = r]
          /\ snap' = [snap EXCEPT ![c] = [snap[c] EXCEPT !.entries = qa[r]]]
          /\ pc' = [pc EXCEPT ![c] = IF qa[r] = {} THEN "persist" ELSE "persisting"]
  BY DEF PersistRead, Goto
<1>4. [snap[c] EXCEPT !.entries = qa[r]].entries = qa[r]
  BY <1>2 DEF Snap
<1>5. /\ pc[c] = "persist" /\ todo'[c] = todo[c] \ {r} /\ at'[c] = r /\ snap'[c].entries = qa[r]
      /\ pc'[c] = IF qa[r] = {} THEN "persist" ELSE "persisting"
  BY <1>2, <1>3, <1>4 DEF PersistRead
<1>6. Cardinality(qa[s]) \in Nat /\ Cardinality(bridged[s]) \in Nat
      /\ (qa[s] = {} => Cardinality(qa[s]) = 0)
  BY Sizes, FS_EmptySet
<1>7. ASSUME NEW k \in Nat, k <= Cardinality(qa[s]), Cover(c, s, k) PROVE Covered(s, k)'
  <2>1. s \in env.sessions[c] /\ s \in todo[c]
    BY <1>5, <1>7 DEF Cover, Ready
  <2>2. CASE r # s
    <3>1. Ready(c, s)'
      BY <1>1, <1>5, <2>1, <2>2 DEF Ready
    <3> QED
      BY <3>1, ReadyBounds
  <2>3. CASE r = s /\ qa[s] # {}
    <3>1. Cover(c, s, k)'
      BY <1>5, <1>7, <2>3 DEF Cover
    <3> QED
      BY <3>1 DEF Covered
  <2>4. CASE r = s /\ qa[s] = {}
    <3>1. k <= Cardinality(bridged'[s])
      BY <1>1, <1>6, <1>7, <2>4
    <3> QED
      BY <3>1 DEF Covered
  <2> QED
    BY <2>2, <2>3, <2>4
<1>8. InHand(c, s)'
  BY <1>1, <1>5 DEF InHand
<1>9. bridged[s] \subseteq qa[s]
  BY DEF Sound
<1> QED
  BY <1>1, <1>5, <1>7, <1>8, <1>9, SoundStep

LEMMA SoundPersisted ==
    ASSUME Types, Types', PlacesInv, NEW s \in Session, Sound(s), NEW c \in Call, Persisted(c)
    PROVE  Sound(s)'
<1>1. Elsewhere(c) /\ env' = env /\ UNCHANGED <<at, snap, qa, ctx>>
  BY StageStepKeeps DEF StageStep, Persisted, store, Elsewhere
<1>2. /\ pc \in [Call -> Before \cup Spawned \cup {"over"}] /\ at[c] \in Session
      /\ bridged \in [Session -> SUBSET Call]
  BY DEF Types
<1>3. pc[c] = "persisting" /\ pc'[c] = "persist"
  BY <1>2 DEF Persisted, Goto
<1>4. bridged[s] \subseteq qa[s] /\ InHand(c, s)
  BY DEF Sound
<1>5. InHand(c, s)'
  BY <1>3 DEF InHand
<1>6. CASE /\ bridged' = [bridged EXCEPT ![at[c]] = bridged[at[c]] \cup snap[c].entries]
           /\ UNCHANGED <<todo, failed>>
  <2>1. bridged'[s] = IF s = at[c] THEN bridged[s] \cup snap[c].entries ELSE bridged[s]
    BY <1>2, <1>6
  <2>2. bridged[s] \subseteq bridged'[s] /\ bridged'[s] \subseteq qa[s]
    BY <1>3, <1>4, <2>1 DEF InHand
  <2>3. ASSUME NEW k \in Nat, Cover(c, s, k) PROVE Covered(s, k)'
    <3>1. CASE Ready(c, s)
      <4>1. Ready(c, s)'
        BY <1>1, <1>3, <1>6, <3>1 DEF Ready
      <4> QED
        BY <4>1, ReadyBounds
    <3>2. CASE at[c] = s /\ k <= Cardinality(snap[c].entries)
      <4>1. snap[c].entries \in SUBSET bridged'[s] /\ bridged'[s] \in SUBSET Call
        BY <2>1, <3>2 DEF Types
      <4>2. Cardinality(snap[c].entries) <= Cardinality(bridged'[s])
        BY <4>1, CallSubsets
      <4>3. Cardinality(snap[c].entries) \in Nat /\ Cardinality(bridged'[s]) \in Nat
        BY <4>1, Sizes, CallSets
      <4>4. k <= Cardinality(bridged'[s])
        BY <3>2, <4>2, <4>3
      <4> QED
        BY <4>4 DEF Covered
    <3> QED
      BY <2>3, <3>1, <3>2 DEF Cover
  <2>4. failed \subseteq failed'
    BY <1>6
  <2> QED
    BY <1>1, <1>3, <1>5, <2>2, <2>3, <2>4, SoundStep
<1>7. CASE failed' = failed \cup {c} /\ UNCHANGED bridged
  <2>1. ASSUME NEW k \in Nat, Cover(c, s, k) PROVE Covered(s, k)'
    <3>1. s \in env.sessions[c]
      BY <2>1 DEF Cover, Ready, PlacesInv, Place
    <3> QED
      BY <1>1, <1>7, <3>1, ReadyBounds
  <2> QED
    BY <1>1, <1>3, <1>4, <1>5, <1>7, <2>1, SoundStep
<1> QED
  BY <1>6, <1>7 DEF Persisted

LEMMA SoundStage ==
    ASSUME Types, Types', PlacesInv, ~env.files, NEW s \in Session, Sound(s),
           NEW c \in Call, StageStep(c)
    PROVE  Sound(s)'
<1>1. CASE PersistRead(c) \/ Persisted(c)
  BY <1>1, SoundPersistRead, SoundPersisted
<1>2. CASE NextStage(c) \/ ExtractRead(c) \/ Extracted(c) \/ Advance(c) \/ AdvanceSave(c)
  <2>1. Elsewhere(c) /\ env' = env /\ qa' = qa
    BY StageStepKeeps DEF Elsewhere
  <2>2. failed' = failed /\ bridged' = bridged
    BY <1>2 DEF NextStage, ExtractRead, Extracted, Advance, AdvanceSave, ghosts
  <2>3. pc \in [Call -> Before \cup Spawned \cup {"over"}] /\ ctx \in [Session -> Ctx]
        /\ at[c] \in Session
    BY DEF Types
  <2>4. /\ pc[c] \notin {"state", "count"} /\ \A k \in Nat : ~Cover(c, s, k)
        /\ pc'[c] \notin {"persisting", "count", "update", "create"}
    <3>1. CASE NextStage(c)
      BY <2>3, <3>1 DEF NextStage, Goto, Cover, Ready
    <3>2. CASE ExtractRead(c) \/ Extracted(c) \/ Advance(c) \/ AdvanceSave(c)
      BY <2>3, <3>2 DEF ExtractRead, Extracted, Advance, AdvanceSave, Goto, Cover, Ready
    <3> QED
      BY <1>2, <3>1, <3>2
  <2>5. ctx'[s].marked = ctx[s].marked /\ ctx'[s].mark = ctx[s].mark
    <3>1. CASE NextStage(c) \/ ExtractRead(c) \/ Extracted(c)
      BY <3>1 DEF NextStage, ExtractRead, Extracted, store
    <3>2. CASE Advance(c)
      <4>1. ctx' = [ctx EXCEPT ![at[c]] = [ctx[at[c]] EXCEPT !.wm = snap[c].count]]
        BY <3>2 DEF Advance
      <4>2. /\ [ctx[at[c]] EXCEPT !.wm = snap[c].count].marked = ctx[at[c]].marked
            /\ [ctx[at[c]] EXCEPT !.wm = snap[c].count].mark = ctx[at[c]].mark
        BY <2>3 DEF Ctx
      <4>3. ctx'[s] = IF s = at[c] THEN [ctx[at[c]] EXCEPT !.wm = snap[c].count] ELSE ctx[s]
        BY <2>3, <4>1
      <4> QED
        BY <4>2, <4>3
    <3>3. CASE AdvanceSave(c)
      BY <3>3 DEF AdvanceSave, PlacesInv, Place
    <3> QED
      BY <1>2, <3>1, <3>2, <3>3
  <2>6. InHand(c, s)' /\ bridged[s] \subseteq qa[s]
    BY <2>4 DEF InHand, Sound
  <2> QED
    BY <2>1, <2>2, <2>4, <2>5, <2>6, SoundStep
<1> QED
  BY <1>1, <1>2 DEF StageStep

\* A new entry is one more that its call has yet to decide on.
LEMMA SoundStore ==
    ASSUME Types, Types', ~env.files, NEW s \in Session, Sound(s), NEW c \in Call, Store(c)
    PROVE  Sound(s)'
<1>1. Elsewhere(c) /\ env' = env /\ at' = at /\ UNCHANGED <<ctx, failed, bridged>>
  BY RememberStep DEF Remember, Store, task, Elsewhere
<1>2. /\ pc \in [Call -> Before \cup Spawned \cup {"over"}] /\ at[c] \in Session
      /\ qa \in [Session -> SUBSET Call]
  BY DEF Types
<1>3. /\ pc[c] = "new" /\ pc'[c] = "state" /\ qa' = [qa EXCEPT ![at[c]] = qa[at[c]] \cup {c}]
  BY <1>2 DEF Store, Goto
<1>4. qa[s] \subseteq qa'[s] /\ (s # at[c] => qa'[s] = qa[s]) /\ qa'[s] \in SUBSET Call
  BY <1>2, <1>3
<1>5. /\ Cardinality(qa[s]) \in Nat /\ Cardinality(qa'[s]) \in Nat
      /\ Cardinality(qa[s]) <= Cardinality(qa'[s])
  BY <1>4, CallSets, CallSubsets
<1>6. \A k \in Nat : Covered(s, k) => Covered(s, k)'
  <2>1. \A k \in Nat : ~Cover(c, s, k)
    BY <1>3 DEF Cover, Ready
  <2> QED
    BY <1>1, <2>1, CoverStays
<1>7. \A o \in Call : InHand(o, s)'
  <2> SUFFICES ASSUME NEW o \in Call PROVE InHand(o, s)'
    OBVIOUS
  <2>1. CASE o = c
    BY <1>3, <2>1 DEF InHand
  <2>2. CASE o # c
    <3>1. InHand(o, s) /\ snap[o].count \in Nat
      BY SnapTypes DEF Sound, Types
    <3>2. pc'[o] = pc[o] /\ at'[o] = at[o] /\ snap'[o] = snap[o]
      BY <1>1, <2>2 DEF Elsewhere
    <3> QED
      BY <1>4, <1>5, <1>6, <3>1, <3>2 DEF InHand
  <2> QED
    BY <2>1, <2>2
<1>8. \A k \in Nat : (ctx[s].marked /\ k = ctx[s].mark)' =>
                        Covered(s, k)' /\ k <= Cardinality(qa'[s])
  BY <1>1, <1>5, <1>6 DEF Sound
<1>9. \/ \E o \in Call : at'[o] = s /\ pc'[o] \in {"state", "count"}
      \/ Bounded(s)'
  <2>1. CASE s = at[c]
    BY <1>1, <1>3, <2>1
  <2>2. CASE s # at[c]
    <3>1. CASE Bounded(s)
      BY <1>4, <1>6, <2>2, <3>1 DEF Bounded
    <3>2. CASE \E o \in Call : at[o] = s /\ pc[o] \in {"state", "count"}
      BY <1>1, <1>3, <3>2 DEF Elsewhere
    <3> QED
      BY <3>1, <3>2 DEF Sound
  <2> QED
    BY <2>1, <2>2
<1>10. bridged'[s] \subseteq qa'[s]
  BY <1>1, <1>4 DEF Sound
<1> QED
  BY <1>7, <1>8, <1>9, <1>10 DEF Sound

LEMMA SoundReadState ==
    ASSUME Types, Types', PlacesInv, NEW s \in Session, Sound(s), NEW c \in Call, ReadState(c)
    PROVE  Sound(s)'
<1>1. Elsewhere(c) /\ env' = env /\ at' = at /\ UNCHANGED <<qa, ctx, bridged>>
  BY RememberStep DEF Remember, ReadState, store, task, Elsewhere
<1>2. /\ pc \in [Call -> Before \cup Spawned \cup {"over"}] /\ snap \in [Call -> Snap]
      /\ at[c] \in env.sessions[c] /\ bridged[s] \subseteq qa[s]
  BY DEF Types, PlacesInv, Place, Sound
<1>3. pc[c] = "state" /\ \A k \in Nat : ~Cover(c, s, k)
  BY DEF ReadState, Cover, Ready
<1>4. CASE failed' = failed \cup {c} /\ pc'[c] = "over"
  <2>1. at[c] = s => Bounded(s)'
    BY <1>1, <1>2, <1>4, ReadyBounds
  <2>2. InHand(c, s)'
    BY <1>4 DEF InHand
  <2> QED
    BY <1>1, <1>2, <1>3, <1>4, <2>1, <2>2, SoundStep
<1>5. CASE /\ snap' = [snap EXCEPT ![c] = [Nothing EXCEPT !.file = ctx[at[c]]]]
           /\ pc'[c] = "count" /\ failed' = failed
  <2>1. snap'[c].file = ctx[at[c]]
    <3>1. [Nothing EXCEPT !.file = ctx[at[c]]].file = ctx[at[c]]
      BY DEF Nothing
    <3> QED
      BY <1>2, <1>5, <3>1
  <2>2. \A k \in Nat : Covered(s, k) => Covered(s, k)'
    BY <1>1, <1>3, <1>5, CoverStays
  <2>3. InHand(c, s)'
    <3>1. \A k \in Nat : ctx[s].marked /\ k = ctx[s].mark =>
                            Covered(s, k)' /\ k <= Cardinality(qa[s])
      BY <2>2 DEF Sound
    <3> QED
      BY <1>1, <1>5, <2>1, <3>1 DEF InHand
  <2> QED
    BY <1>1, <1>2, <1>3, <1>5, <2>3, SoundStep
<1>6. CASE /\ snap' = [snap EXCEPT ![c] = [Nothing EXCEPT !.count = Cardinality(qa[at[c]])]]
           /\ pc'[c] = "update" /\ failed' = failed
  <2>1. snap'[c].count = Cardinality(qa[at[c]])
    <3>1. \A n : [Nothing EXCEPT !.count = n].count = n
      BY DEF Nothing
    <3> QED
      BY <1>2, <1>6, <3>1
  <2>2. Cardinality(qa[s]) \in Nat
    BY Sizes
  <2>3. InHand(c, s)'
    BY <1>1, <1>6, <2>1, <2>2 DEF InHand
  <2>4. at[c] = s => Ready(c, s)'
    BY <1>1, <1>2, <1>6 DEF Ready
  <2>5. at[c] = s => Bounded(s)'
    BY <2>4, ReadyBounds
  <2> QED
    BY <1>1, <1>2, <1>3, <1>6, <2>3, <2>5, SoundStep
<1> QED
  BY <1>2, <1>4, <1>5, <1>6 DEF ReadState, Goto

\* The decision: either the call is to bridge the session, or the entries that no
\* mark covers are fewer than the threshold.
LEMMA SoundCount ==
    ASSUME Types, Types', PlacesInv, NEW s \in Session, Sound(s), NEW c \in Call, Count(c)
    PROVE  Sound(s)'
<1>1. Elsewhere(c) /\ env' = env /\ at' = at /\ UNCHANGED <<qa, ctx, bridged, failed>>
  BY RememberStep DEF Remember, Count, store, task, Elsewhere
<1>2. /\ pc \in [Call -> Before \cup Spawned \cup {"over"}] /\ snap \in [Call -> Snap]
      /\ at[c] \in env.sessions[c] /\ bridged[s] \subseteq qa[s] /\ InHand(c, s)
  BY DEF Types, PlacesInv, Place, Sound
<1>3. pc[c] = "count" /\ \A k \in Nat : ~Cover(c, s, k)
  BY DEF Count, Cover, Ready
<1>4. Cardinality(qa[s]) \in Nat
  BY Sizes
<1>5. snap'[c].count = Cardinality(qa[at[c]])
  <2>1. \A n : [Nothing EXCEPT !.count = n].count = n
    BY DEF Nothing
  <2> QED
    BY <1>2, <2>1 DEF Count
<1>6. \/ pc'[c] = "update"
      \/ /\ pc'[c] = "over" /\ snap[c].file.marked
         /\ ~(NewEntries(Cardinality(qa[at[c]]), snap[c].file.mark) >= Threshold)
  BY <1>2 DEF Count, Goto
<1>7. CASE pc'[c] = "update"
  <2>1. InHand(c, s)'
    BY <1>1, <1>4, <1>5, <1>7 DEF InHand
  <2>2. at[c] = s => Ready(c, s)'
    BY <1>1, <1>2, <1>7 DEF Ready
  <2>3. at[c] = s => Bounded(s)'
    BY <2>2, ReadyBounds
  <2> QED
    BY <1>1, <1>2, <1>3, <2>1, <2>3, SoundStep
<1>8. CASE /\ pc'[c] = "over" /\ snap[c].file.marked
           /\ ~(NewEntries(Cardinality(qa[at[c]]), snap[c].file.mark) >= Threshold)
  <2>1. InHand(c, s)'
    BY <1>8 DEF InHand
  <2>2. ASSUME at[c] = s PROVE Bounded(s)'
    <3>1. snap[c].file.mark \in Nat
      BY <1>2, SnapTypes, CtxTypes
    <3>2. Covered(s, snap[c].file.mark) /\ snap[c].file.mark <= Cardinality(qa[s])
      BY <1>2, <1>3, <1>8, <2>2, <3>1 DEF InHand
    <3>3. PICK k \in Nat : k = snap[c].file.mark
      BY <3>1
    <3>4. Cardinality(qa[s]) < k + Threshold
      BY <1>4, <1>8, <2>2, <3>2, <3>3, ImproveAssumption DEF NewEntries
    <3>5. Covered(s, k)
      BY <3>2, <3>3
    <3>6. Covered(s, k)'
      BY <1>1, <1>3, <3>5, CoverStays
    <3> QED
      BY <1>1, <3>2, <3>3, <3>4, <3>6 DEF Bounded
  <2> QED
    BY <1>1, <1>2, <1>3, <2>1, <2>2, SoundStep
<1> QED
  BY <1>6, <1>7, <1>8

LEMMA SoundMark ==
    ASSUME Types, Types', PlacesInv, ~env.files, NEW s \in Session, Sound(s), NEW c \in Call,
           Update(c) \/ Create(c)
    PROVE  Sound(s)'
<1>1. Elsewhere(c) /\ env' = env /\ at' = at /\ UNCHANGED <<qa, bridged, failed>>
  BY RememberStep DEF Remember, Update, Create, task, Elsewhere
<1>2. /\ pc \in [Call -> Before \cup Spawned \cup {"over"}] /\ ctx \in [Session -> Ctx]
      /\ at[c] \in Session /\ at[c] \in env.sessions[c]
      /\ bridged[s] \subseteq qa[s] /\ InHand(c, s)
  BY DEF Types, PlacesInv, Place, Sound
<1>3. pc[c] \in {"update", "create"} /\ pc'[c] \in {"create", "spawn"} /\ snap' = snap
  BY <1>2 DEF Update, Create, Goto
<1>4. s \in env.sessions[c] => Ready(c, s)'
  BY <1>1, <1>3 DEF Ready
<1>5. s \in env.sessions[c] => \A k \in Nat : Covered(s, k)'
  BY <1>4, ReadyBounds
<1>6. \A k \in Nat : Cover(c, s, k) => Covered(s, k)'
  BY <1>3, <1>5 DEF Cover, Ready
<1>7. InHand(c, s)'
  BY <1>1, <1>2, <1>3 DEF InHand
<1>8. \/ ctx'[s] = ctx[s]
      \/ s = at[c] /\ ctx'[s].mark = snap[c].count
  <2>1. CASE Update(c)
    <3>1. ctx' = ctx \/ ctx' = [ctx EXCEPT ![at[c]] = [ctx[at[c]] EXCEPT !.mark = snap[c].count]]
      BY <2>1 DEF Update
    <3>2. [ctx[at[c]] EXCEPT !.mark = snap[c].count].mark = snap[c].count
      BY <1>2 DEF Ctx
    <3> QED
      BY <1>2, <3>1, <3>2
  <2>2. CASE Create(c)
    <3>1. ctx' = [ctx EXCEPT ![at[c]] = Created(ctx[at[c]], snap[c].count)]
      BY <2>2 DEF Create
    <3>2. \/ Created(ctx[at[c]], snap[c].count) = ctx[at[c]]
          \/ Created(ctx[at[c]], snap[c].count).mark = snap[c].count
      BY <1>2 DEF Created, Ctx
    <3> QED
      BY <1>2, <3>1, <3>2
  <2> QED
    BY <2>1, <2>2
<1>9. \A k \in Nat : ctx'[s].marked /\ k = ctx'[s].mark =>
         \/ ctx[s].marked /\ k = ctx[s].mark
         \/ k <= Cardinality(qa[s]) /\ Covered(s, k)'
  <2>1. s = at[c] => snap[c].count <= Cardinality(qa[s])
    BY <1>2, <1>3 DEF InHand
  <2> QED
    BY <1>2, <1>5, <1>8, <2>1
<1> QED
  BY <1>1, <1>2, <1>3, <1>6, <1>7, <1>9, SoundStep

LEMMA StrandNext ==
    ASSUME Types, Types', StrandInv, [Next]_vars
    PROVE  StrandInv'
<1>0. PlacesInv
  BY DEF StrandInv
<1>1. PlacesInv'
  BY <1>0, PlacesNext
<1>2. env' = env /\ deleted \subseteq deleted'
  <2>1. ASSUME NEW c \in Call, Remember(c) PROVE env' = env /\ deleted' = deleted
    BY <2>1, RememberStep DEF Elsewhere
  <2>2. ASSUME NEW c \in Call, StageStep(c) PROVE env' = env /\ deleted' = deleted
    BY <2>2, StageStepKeeps DEF stage
  <2>3. ASSUME NEW c \in Call,
               Spawn(c) \/ Resolve(c) \/ Acquire(c) \/ Release(c) \/ End(c) \/ Notify(c)
        PROVE  env' = env /\ deleted' = deleted
    BY <2>3, TaskStepKeeps DEF Elsewhere
  <2>4. CASE Outside
    BY <2>4 DEF Outside, TraceLoad, TraceSave, Expire, DeleteSession, WaitBegin, Wait, WaitRead,
            WaitPoll, WaitWoken, waits
  <2> QED
    BY <2>1, <2>2, <2>3, <2>4, NextSteps DEF vars
<1>3. ASSUME ~env.files, NEW s \in Session \ deleted' PROVE Sound(s)'
  <2>1. Sound(s)
    BY <1>2, <1>3 DEF StrandInv
  <2>2. ASSUME NEW c \in Call, Remember(c) PROVE Sound(s)'
    <3>1. CASE Store(c)
      BY <1>3, <2>1, <3>1, SoundStore
    <3>2. CASE ReadState(c) \/ Count(c)
      BY <1>0, <2>1, <3>2, SoundReadState, SoundCount
    <3>3. CASE Update(c) \/ Create(c)
      BY <1>0, <1>3, <2>1, <3>3, SoundMark
    <3>4. CASE SaveQa(c) \/ UpdateSave(c) \/ CreateSave(c)
      BY <1>0, <1>3, <3>4 DEF SaveQa, UpdateSave, CreateSave, PlacesInv, Place
    <3> QED
      BY <2>2, <3>1, <3>2, <3>3, <3>4 DEF Remember
  <2>3. ASSUME NEW c \in Call, StageStep(c) PROVE Sound(s)'
    BY <1>0, <1>3, <2>1, <2>3, SoundStage
  <2>4. ASSUME NEW c \in Call,
               Spawn(c) \/ Resolve(c) \/ Acquire(c) \/ Release(c) \/ End(c) \/ Notify(c)
        PROVE  Sound(s)'
    BY <2>1, <2>4, SoundTask
  <2>5. ASSUME UNCHANGED <<env, pc, at, todo, snap, bridged, failed>>, qa'[s] = qa[s], ctx'[s] = ctx[s]
        PROVE  Sound(s)'
    <3>1. \A k \in Nat : Covered(s, k)' <=> Covered(s, k)
      BY <2>5 DEF Covered, Cover, Ready
    <3>2. \A o \in Call : InHand(o, s)'
      BY <2>1, <2>5, <3>1 DEF Sound, InHand
    <3>3. Bounded(s)' <=> Bounded(s)
      BY <2>5, <3>1 DEF Bounded
    <3> QED
      BY <2>1, <2>5, <3>1, <3>2, <3>3 DEF Sound
  <2>6. CASE Outside
    <3>1. UNCHANGED <<env, pc, at, todo, snap, bridged, failed>>
      BY <2>6, OutsideKeeps DEF ghosts
    <3>2. qa'[s] = qa[s] /\ ctx'[s] = ctx[s]
      <4>1. ASSUME NEW r \in Session, TraceLoad(r) \/ TraceSave(r) \/ Expire(r)
            PROVE  qa' = qa /\ ctx' = ctx
        BY <1>3, <4>1 DEF TraceLoad, TraceSave, Expire
      <4>2. ASSUME NEW r \in Session, DeleteSession(r) PROVE qa'[s] = qa[s] /\ ctx'[s] = ctx[s]
        BY <4>2 DEF DeleteSession, Types
      <4>3. CASE WaitBegin \/ Wait
        BY <4>3 DEF WaitBegin, Wait, WaitRead, WaitPoll, WaitWoken, waits, store
      <4> QED
        BY <2>6, <4>1, <4>2, <4>3 DEF Outside
    <3> QED
      BY <2>5, <3>1, <3>2
  <2>7. CASE UNCHANGED vars
    BY <2>5, <2>7 DEF vars, store, ghosts
  <2> QED
    BY <2>2, <2>3, <2>4, <2>6, <2>7, NextSteps
<1> QED
  BY <1>1, <1>2, <1>3 DEF StrandInv

\* With a database the debounce strands nothing: once the calls of a session are
\* over, fewer entries than the threshold are still to be bridged.
THEOREM DebounceStrandsNothing == Spec => []NothingStranded
<1>1. Init => ImproveInv /\ StrandInv
  BY ImproveInvInit, StrandInit
<1>2. (ImproveInv /\ StrandInv) /\ [Next]_vars => (ImproveInv /\ StrandInv)'
  <2> SUFFICES ASSUME ImproveInv, StrandInv, [Next]_vars PROVE ImproveInv' /\ StrandInv'
    OBVIOUS
  <2>1. ImproveInv'
    BY ImproveInvNext
  <2>2. Types /\ Types'
    BY <2>1 DEF ImproveInv
  <2> QED
    BY <2>1, <2>2, StrandNext
<1>3. ImproveInv /\ StrandInv => NothingStranded
  <2> SUFFICES ASSUME ImproveInv, StrandInv, ~env.files, NEW s \in Session \ deleted,
                      \A c \in Call : s \in env.sessions[c] =>
                                          pc[c] \in {"new", "over"} /\ c \notin failed
               PROVE  Cardinality(qa[s] \ bridged[s]) < Threshold
    BY DEF NothingStranded
  <2>1. Types /\ Sound(s) /\ PlacesInv
    BY DEF ImproveInv, StrandInv
  <2>2. \A c \in Call : at[c] = s => pc[c] \in {"new", "over"}
    BY <2>1 DEF PlacesInv, Place
  <2>3. PICK m \in Nat : /\ m <= Cardinality(qa[s]) /\ Cardinality(qa[s]) < m + Threshold
                         /\ Covered(s, m)
    BY <2>1, <2>2 DEF Sound, Bounded
  <2>4. m <= Cardinality(bridged[s])
    <3>1. failed \subseteq Call
      BY <2>1 DEF Types
    <3>2. \A o \in Call : ~Cover(o, s, m)
      BY <2>2 DEF Cover, Ready
    <3> QED
      BY <2>3, <3>1, <3>2 DEF Covered
  <2>5. /\ bridged[s] \in SUBSET qa[s] /\ qa[s] \in SUBSET Call
        /\ qa[s] \ bridged[s] \in SUBSET Call
    BY <2>1 DEF Sound, Types
  <2>6. Cardinality(qa[s] \ bridged[s]) = Cardinality(qa[s]) - Cardinality(bridged[s])
    <3>1. /\ IsFiniteSet(qa[s] \ bridged[s]) /\ IsFiniteSet(bridged[s])
          /\ Cardinality(qa[s] \ bridged[s]) \in Nat /\ Cardinality(bridged[s]) \in Nat
      BY <2>5, CallSets
    <3>2. (qa[s] \ bridged[s]) \cup bridged[s] = qa[s] /\ (qa[s] \ bridged[s]) \cap bridged[s] = {}
      BY <2>5
    <3>3. Cardinality((qa[s] \ bridged[s]) \cup bridged[s]) =
             Cardinality(qa[s] \ bridged[s]) + Cardinality(bridged[s])
               - Cardinality((qa[s] \ bridged[s]) \cap bridged[s])
      BY <3>1, FS_Union
    <3>4. Cardinality(qa[s]) = Cardinality(qa[s] \ bridged[s]) + Cardinality(bridged[s]) - 0
      BY <3>2, <3>3, FS_EmptySet
    <3> QED
      BY <3>1, <3>4
  <2>7. /\ Cardinality(qa[s]) \in Nat /\ Cardinality(bridged[s]) \in Nat
    BY <2>1, Sizes
  <2> QED
    BY <2>3, <2>4, <2>6, <2>7, ImproveAssumption
<1> QED
  BY <1>1, <1>2, <1>3, PTL DEF Spec

=============================================================================
