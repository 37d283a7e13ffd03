------------------------- MODULE RunRegistryProofs --------------------------
(***************************************************************************)
(* Proofs about RunRegistry, for any runs, capacity and scenarios: the     *)
(* variables keep their types, a run is forgotten only once it is over or  *)
(* aborted, and the last word on a run that nobody aborts is its outcome.  *)
(***************************************************************************)
EXTENDS RunRegistry, FiniteSetTheorems, SequenceTheorems, NaturalsInduction,
        WellFoundedInduction, TLAPS

(* Helpers: the eviction order *)

\* A set of numbers that is not empty has a least element.
LEMMA LeastNumber ==
    ASSUME NEW S, S \subseteq Nat, S # {}
    PROVE  \E x \in S : \A y \in S : x <= y
<1>1. PICK x \in S : \A y \in S : ~(<<y, x>> \in OpToRel(<, Nat))
  BY NatLessThanWellFounded, WFMin
<1>2. \A y \in S : ~(y < x)
  BY <1>1 DEF OpToRel
<1> QED
  BY <1>2

\* The kept places have a k-th one, for every k up to their number.
LEMMA NthExists ==
    ASSUME NEW N \in Nat, NEW kept \in SUBSET (1..N), NEW k \in 1..Cardinality(kept)
    PROVE  \E n \in kept : Cardinality({m \in kept : m <= n}) = k
<1> DEFINE low(n) == {m \in kept : m <= n}
           S == {n \in Nat : Cardinality(low(n)) >= k}
<1>fin. IsFiniteSet(kept)
  <2>1. IsFiniteSet(1..N)
    BY FS_Interval
  <2> QED
    BY <2>1, FS_Subset
<1>num. \A m \in kept : m \in Nat /\ 1 <= m /\ m <= N
  OBVIOUS
<1>in. \A n, m : m \in low(n) <=> m \in kept /\ m <= n
  OBVIOUS
<1>low. \A n \in Nat : IsFiniteSet(low(n)) /\ Cardinality(low(n)) \in Nat
  <2> TAKE n \in Nat
  <2>1. low(n) \in SUBSET kept
    OBVIOUS
  <2>2. IsFiniteSet(low(n))
    BY <2>1, <1>fin, FS_Subset
  <2> QED
    BY <2>2, FS_CardinalityType
<1>S. \A n : n \in S <=> n \in Nat /\ Cardinality(low(n)) >= k
  OBVIOUS
<1> HIDE DEF low, S
<1>k. Cardinality(kept) \in Nat /\ k \in Nat /\ k >= 1 /\ k <= Cardinality(kept)
  BY <1>fin, FS_CardinalityType
<1>1. N \in S
  <2>1. low(N) = kept
    BY <1>num, <1>in
  <2> QED
    BY <2>1, <1>k, <1>S
<1>2. PICK n \in S : \A y \in S : n <= y
  <2>1. S \subseteq Nat /\ S # {}
    BY <1>1, <1>S
  <2> QED
    BY <2>1, LeastNumber
<1>3. n \in Nat /\ Cardinality(low(n)) >= k
  BY <1>2, <1>S
<1>4. n # 0
  <2>1. low(0) = {}
    <3>1. \A m \in kept : ~(m <= 0)
      BY <1>num
    <3> QED
      BY <3>1, <1>in
  <2>2. Cardinality(low(0)) = 0
    BY <2>1, FS_EmptySet
  <2> QED
    BY <2>2, <1>3, <1>k
<1>5. n - 1 \in Nat /\ ~(Cardinality(low(n - 1)) >= k)
  <2>1. n - 1 \in Nat /\ ~(n <= n - 1)
    BY <1>3, <1>4
  <2>2. n - 1 \notin S
    BY <2>1, <1>2
  <2> QED
    BY <2>1, <2>2, <1>S
<1>6. CASE n \in kept
  <2>1. n \notin low(n - 1)
    BY <1>3, <1>in
  <2>3. \A m \in kept : m <= n <=> m <= n - 1 \/ m = n
    BY <1>3, <1>num
  <2>4. low(n) = low(n - 1) \cup {n}
    <3>1. \A m : m \in low(n) <=> m \in low(n - 1) \/ m = n
      BY <2>3, <1>in, <1>6
    <3> QED
      BY <3>1
  <2>2. Cardinality(low(n)) = Cardinality(low(n - 1)) + 1
    BY <2>1, <2>4, <1>5, <1>low, FS_AddElement
  <2>5. Cardinality(low(n)) = k
    BY <2>2, <1>3, <1>5, <1>low, <1>k
  <2> QED
    BY <2>5, <1>6, <1>in
<1>7. CASE n \notin kept
  <2>2. \A m \in kept : m <= n <=> m <= n - 1
    BY <1>3, <1>7, <1>num
  <2>1. low(n) = low(n - 1)
    <3>1. \A m : m \in low(n) <=> m \in low(n - 1)
      BY <2>2, <1>in
    <3> QED
      BY <3>1
  <2> QED
    BY <2>1, <1>3, <1>5
<1> QED
  BY <1>6, <1>7 DEF low

\* retain leaves a sequence of the runs it keeps.
LEMMA WithoutType ==
    ASSUME NEW s \in Seq(Run), NEW gone
    PROVE  Without(s, gone) \in Seq(Run)
<1> DEFINE kept == {n \in DOMAIN s : s[n] \notin gone}
           Nth(k) == CHOOSE n \in kept : Cardinality({m \in kept : m <= n}) = k
<1>1. Len(s) \in Nat /\ kept \in SUBSET (1..Len(s))
  OBVIOUS
<1>2. Cardinality(kept) \in Nat
  <2>1. IsFiniteSet(1..Len(s))
    BY <1>1, FS_Interval
  <2>2. IsFiniteSet(kept)
    BY <2>1, <1>1, FS_Subset
  <2> QED
    BY <2>2, FS_CardinalityType
<1>3. \A k \in 1..Cardinality(kept) : Nth(k) \in kept
  <2> TAKE k \in 1..Cardinality(kept)
  <2>1. \E n \in kept : Cardinality({m \in kept : m <= n}) = k
    BY <1>1, NthExists
  <2> QED
    BY <2>1
<1>4. \A n \in kept : s[n] \in Run
  OBVIOUS
<1>5. Without(s, gone) = [k \in 1..Cardinality(kept) |-> s[Nth(k)]]
  BY DEF Without
<1> HIDE DEF kept, Nth
<1>6. \A k \in 1..Cardinality(kept) : s[Nth(k)] \in Run
  BY <1>3, <1>4
<1> QED
  BY <1>2, <1>5, <1>6

\* So does the removal of one place.
LEMMA RemovedType ==
    ASSUME NEW s \in Seq(Run), NEW n \in DOMAIN s
    PROVE  SubSeq(s, 1, n - 1) \o SubSeq(s, n + 1, Len(s)) \in Seq(Run)
<1>1. n \in 1..Len(s) /\ Len(s) \in Nat
  OBVIOUS
<1>2. SubSeq(s, 1, n - 1) \in Seq(Run)
  BY <1>1, SubSeqProperties
<1>3. SubSeq(s, n + 1, Len(s)) \in Seq(Run)
  BY <1>1, SubSeqProperties
<1> QED
  BY <1>2, <1>3, ConcatProperties

-----------------------------------------------------------------------------
(* Steps on the slots, the rows and the subscribers *)

\* The step changes no more than what the slots show.
SlotsStay ==
    /\ slot' \in [Run -> Slot]
    /\ \A q \in Run : /\ slot'[q].ch = slot[q].ch
                      /\ slot[q].ch = 0 => slot'[q] = slot[q]

\* What a slot shows of its run can be set, field by field.
LEMMA SlotFields ==
    ASSUME NEW x \in Slot
    PROVE  /\ \A p \in Phase : /\ [x EXCEPT !.phase = p] \in Slot
                               /\ [x EXCEPT !.phase = p].ch = x.ch
                               /\ [x EXCEPT !.phase = p].finished = x.finished
           /\ /\ [x EXCEPT !.finished = TRUE] \in Slot
              /\ [x EXCEPT !.finished = TRUE].ch = x.ch
           /\ /\ [x EXCEPT !.handle = TRUE] \in Slot
              /\ [x EXCEPT !.handle = TRUE].ch = x.ch
              /\ [x EXCEPT !.handle = TRUE].finished = x.finished
           /\ \A p \in Phase : /\ [x EXCEPT !.finished = TRUE, !.phase = p] \in Slot
                               /\ [x EXCEPT !.finished = TRUE, !.phase = p].ch = x.ch
  BY DEF Slot

\* A slot that is made anew.
LEMMA NewSlot ==
    /\ None \in Slot /\ None.ch = 0 /\ None.finished = FALSE
    /\ \A c \in 0..MaxChannels + 1 :
           /\ [None EXCEPT !.ch = c] \in Slot
           /\ [None EXCEPT !.ch = c].ch = c
           /\ [None EXCEPT !.ch = c].finished = FALSE
<1>1. MaxChannels \in Nat /\ 0 \in 0..MaxChannels + 1
  BY RegistryAssumption
<1> QED
  BY <1>1 DEF None, Slot, Phase

\* Setting one slot of the map.
LEMMA SetSlot ==
    ASSUME slot \in [Run -> Slot], NEW r \in Run, NEW x \in Slot,
           slot' = [slot EXCEPT ![r] = x]
    PROVE  /\ slot' \in [Run -> Slot]
           /\ slot'[r] = x
           /\ \A q \in Run \ {r} : slot'[q] = slot[q]
  OBVIOUS

LEMMA SendPhaseStays ==
    ASSUME slot \in [Run -> Slot], NEW r \in Run, NEW c, NEW p \in Phase, SendPhase(r, c, p)
    PROVE  SlotsStay /\ \A q \in Run : slot'[q].finished = slot[q].finished
<1>1. CASE slot[r].ch = c /\ c # 0
  <2>1. slot' = [slot EXCEPT ![r] = [slot[r] EXCEPT !.phase = p]]
    BY <1>1 DEF SendPhase
  <2>2. /\ [slot[r] EXCEPT !.phase = p] \in Slot
        /\ [slot[r] EXCEPT !.phase = p].ch = slot[r].ch
        /\ [slot[r] EXCEPT !.phase = p].finished = slot[r].finished
    BY SlotFields
  <2> QED
    BY <1>1, <2>1, <2>2, SetSlot DEF SlotsStay
<1>2. CASE ~(slot[r].ch = c /\ c # 0)
  BY <1>2 DEF SendPhase, SlotsStay
<1> QED
  BY <1>1, <1>2

LEMMA SameSlotsStay ==
    ASSUME slot \in [Run -> Slot], UNCHANGED slot
    PROVE  SlotsStay /\ \A q \in Run : slot'[q].finished = slot[q].finished
  BY DEF SlotsStay

LEMMA SendEndTells ==
    ASSUME told \in [Run -> {"none"} \cup Over], NEW r \in Run, NEW c, NEW p \in Over, SendEnd(r, c, p)
    PROVE  /\ told' \in [Run -> {"none"} \cup Over]
           /\ told'[r] = IF sub[r] = c /\ c # 0 THEN p ELSE told[r]
           /\ \A q \in Run \ {r} : told'[q] = told[q]
  BY DEF SendEnd

LEMMA LogTypes ==
    ASSUME TypeOK, NEW r \in Run, NEW status \in {"none", "STARTED", "COMPLETED", "ERRORED"},
           Log(r, status) \/ UNCHANGED db, UNCHANGED env
    PROVE  /\ row' \in [Run -> {"none", "STARTED", "COMPLETED", "ERRORED"}]
           /\ faults' \in 0..env'.faults
<1>1. row \in [Run -> {"none", "STARTED", "COMPLETED", "ERRORED"}] /\ faults \in 0..env.faults
  BY DEF TypeOK
<1>2. env.faults \in Nat
  BY RegistryAssumption DEF TypeOK
<1> QED
  BY <1>1, <1>2 DEF Log, db

-----------------------------------------------------------------------------
(* The types, and what a call may rely on at each of its steps *)

\* The register calls and the work of the runs.
CallTypes ==
    /\ reg \in [Run -> {"new", "full", "evict", "create", "push", "ready", "store", "watch",
                        "returned", "refused"}]
    /\ victim \in [Run -> Run \cup {NoRun}]
    /\ task \in [Run -> {"none", "start", "work", "executing", "reported", "log", "end",
                         "aborted", "over"}]
    /\ outcome \in [Run -> {"none"} \cup Over]
    /\ meta \in [Run -> BOOLEAN]
    /\ fin \in [Run -> 0..MaxChannels + 1] /\ sink \in [Run -> 0..MaxChannels + 1]

\* The work of a run starts after its slot is made, and a background run's only
\* when it is spawned; it has an outcome when it has ended, and not before.
CallOK(r) ==
    /\ reg[r] = "evict" => victim[r] \in Run
    /\ task[r] # "none" => reg[r] \in {"ready", "store", "watch", "returned"}
    /\ (r \in Background /\ reg[r] = "ready") => task[r] = "none"
    /\ task[r] \in {"log", "end"} => outcome[r] \in Over
    /\ task[r] \in {"none", "start", "work", "executing", "reported"} => outcome[r] = "none"

CallsOK == CallTypes /\ \A r \in Run : CallOK(r)

\* The map: a slot has the newest channel of its run, and before create_slot there
\* is room for one more.
Entry(r) == IF Has(r) THEN slot[r].ch = chans[r] ELSE slot[r] = None
Room(r) == reg[r] \in {"new", "full", "evict", "create", "refused"} => chans[r] <= MaxChannels

MapOK ==
    /\ slot \in [Run -> Slot]
    /\ chans \in [Run -> 0..MaxChannels + 1]
    /\ \A r \in Run : Entry(r) /\ Room(r)

\* The subscribers, the rows, and the calls that come from outside: an abort under
\* way is counted among those that hit its run.
ToldOK == sub \in [Run -> 0..MaxChannels + 1] /\ told \in [Run -> {"none"} \cup Over]

RowsOK ==
    /\ env \in Scenarios
    /\ row \in [Run -> {"none", "STARTED", "COMPLETED", "ERRORED"}] /\ faults \in 0..env.faults

StopsOK ==
    /\ hit \in [Run -> SUBSET Aborter]
    /\ ab \in [Aborter -> Abort]
    /\ \A a \in Aborter : ab[a].pc # "idle" => ab[a].run \in Run /\ a \in hit[ab[a].run]
    /\ down \in {"up", "aborting", "down"} /\ todo \subseteq Run
    /\ sweep \in [pc : {"idle", "remove", "prune"}, runs : SUBSET Run]

TypesInv == CallsOK /\ MapOK /\ ToldOK /\ RowsOK /\ StopsOK /\ order \in Seq(Run)

LEMMA TypesInvTypes == TypesInv => TypeOK
  BY DEF TypesInv, TypeOK, CallsOK, CallTypes, CallOK, MapOK, Entry, ToldOK, RowsOK, StopsOK

LEMMA TypesInit == Init => TypesInv
<1> SUFFICES ASSUME Init PROVE TypesInv
  OBVIOUS
<1>n. MaxChannels \in Nat /\ 0 \in 0..MaxChannels + 1
  BY RegistryAssumption
<1>1. CallsOK
  BY <1>n DEF Init, CallsOK, CallTypes, CallOK
<1>2. MapOK
  <2>1. slot \in [Run -> Slot] /\ chans \in [Run -> 0..MaxChannels + 1]
    BY <1>n, NewSlot DEF Init
  <2>2. \A r \in Run : slot[r] = None /\ chans[r] = 0
    BY DEF Init
  <2> QED
    BY <1>n, <2>1, <2>2, NewSlot DEF MapOK, Entry, Room, Has
<1>3. ToldOK
  BY <1>n DEF Init, ToldOK
<1>4. RowsOK
  BY RegistryAssumption DEF Init, RowsOK
<1>5. StopsOK
  BY <1>n DEF Init, StopsOK, Idle, Abort
<1>6. order \in Seq(Run)
  BY DEF Init
<1> QED
  BY <1>1, <1>2, <1>3, <1>4, <1>5, <1>6 DEF TypesInv

\* What a call needs for its types to stay what they are.
LEMMA CallsRegister ==
    ASSUME TypesInv, NEW r \in Run, Check(r) \/ Register(r)
    PROVE  CallsOK'
<1>types. CallTypes /\ \A q \in Run : CallOK(q)
  BY DEF TypesInv, CallsOK
<1>ch. slot[r].ch \in 0..MaxChannels + 1
  BY DEF TypesInv, MapOK, Slot
<1>n. MaxChannels \in Nat /\ 0 \in 0..MaxChannels + 1
  BY RegistryAssumption
<1>ord. \A n \in DOMAIN order : order[n] \in Run
  BY DEF TypesInv
<1>1. CASE Check(r)
  BY <1>types, <1>1 DEF Check, CallsOK, CallTypes, CallOK
<1>2. CASE Pick(r)
  <2>1. \/ /\ reg' = [reg EXCEPT ![r] = "evict"]
           /\ \E v \in Run : victim' = [victim EXCEPT ![r] = v]
        \/ reg' = [reg EXCEPT ![r] = "refused"] /\ UNCHANGED victim
    BY <1>ord, <1>2 DEF Pick
  <2>2. reg[r] = "full" /\ UNCHANGED <<task, outcome, meta, sink, fin>>
    BY <1>2 DEF Pick
  <2> QED
    BY <1>types, <2>1, <2>2 DEF CallsOK, CallTypes, CallOK
<1>3. CASE Evict(r)
  BY <1>types, <1>3 DEF Evict, CallsOK, CallTypes, CallOK
<1>4. CASE Create(r)
  BY <1>types, <1>4 DEF Create, CallsOK, CallTypes, CallOK
<1>5. CASE Push(r)
  BY <1>types, <1>5 DEF Push, CallsOK, CallTypes, CallOK
<1>6. CASE BeginInline(r)
  BY <1>types, <1>6 DEF BeginInline, CallsOK, CallTypes, CallOK
<1>7. CASE Spawn(r)
  BY <1>types, <1>7 DEF Spawn, CallsOK, CallTypes, CallOK
<1>8. CASE StoreHandle(r)
  BY <1>types, <1>8 DEF StoreHandle, CallsOK, CallTypes, CallOK
<1>9. CASE SpawnFinisher(r)
  BY <1>types, <1>ch, <1>9 DEF SpawnFinisher, CallsOK, CallTypes, CallOK
<1>10. CASE LogStarted(r)
  BY <1>types, <1>10 DEF LogStarted, CallsOK, CallTypes, CallOK
<1>11. CASE WatchStarted(r)
  BY <1>types, <1>ch, <1>11 DEF WatchStarted, CallsOK, CallTypes, CallOK
<1>12. CASE WatchCompleted(r)
  BY <1>types, <1>12 DEF WatchCompleted, CallsOK, CallTypes, CallOK, Over
<1>13. CASE WatchErrored(r)
  BY <1>types, <1>13 DEF WatchErrored, CallsOK, CallTypes, CallOK, Over
<1>14. CASE Work(r)
  BY <1>types, <1>14 DEF Work, CallsOK, CallTypes, CallOK
<1>15. CASE LogTerminal(r)
  BY <1>types, <1>15 DEF LogTerminal, CallsOK, CallTypes, CallOK
<1>16. CASE FinishSlot(r)
  BY <1>types, <1>16 DEF FinishSlot, CallsOK, CallTypes, CallOK
<1>17. CASE Finisher(r)
  BY <1>types, <1>n, <1>17 DEF Finisher, CallsOK, CallTypes, CallOK
<1> QED
  BY <1>1, <1>2, <1>3, <1>4, <1>5, <1>6, <1>7, <1>8, <1>9, <1>10, <1>11, <1>12, <1>13,
     <1>14, <1>15, <1>16, <1>17 DEF Register

LEMMA CallsOutside ==
    ASSUME TypesInv,
           \/ \E r \in Run : Subscribe(r) \/ ShutdownSkip(r)
           \/ \E a \in Aborter : AbortStep(a) \/ \E r \in Run : StartAbort(a, r)
           \/ Shutdown \/ ShutdownClear \/ (\E gone \in SUBSET Run : Retain(gone))
           \/ RetainRemove \/ RetainOrder \/ UNCHANGED vars
    PROVE  CallsOK'
<1>types. CallTypes /\ \A q \in Run : CallOK(q)
  BY DEF TypesInv, CallsOK
<1>1. CASE UNCHANGED calls
  BY <1>types, <1>1 DEF calls, CallsOK, CallTypes, CallOK
<1>2. ASSUME NEW a \in Aborter, NEW r \in Run, StartAbort(a, r)
      PROVE  CallsOK'
  <2>1. UNCHANGED <<reg, victim, outcome, meta, sink, fin>>
    BY <1>2 DEF StartAbort
  <2>2. \/ UNCHANGED task
        \/ task[r] \in {"start", "work", "executing", "reported", "log"} /\ task' = [task EXCEPT ![r] = "aborted"]
    BY <1>2 DEF StartAbort
  <2> QED
    BY <1>types, <2>1, <2>2 DEF CallsOK, CallTypes, CallOK
<1>3. \/ UNCHANGED calls
      \/ \E a \in Aborter, r \in Run : StartAbort(a, r)
  BY DEF Subscribe, ShutdownSkip, AbortStep, AbortRow, AbortSend, AbortMark, Shutdown,
         ShutdownClear, Retain, RetainRemove, RetainOrder, vars
<1> QED
  BY <1>1, <1>2, <1>3

-----------------------------------------------------------------------------
(* The map *)

\* A step on the map shows more of some slots, makes one that is not there, or
\* forgets some.
Makes(r) ==
    /\ ~Has(r) /\ chans[r] <= MaxChannels
    /\ slot' = [slot EXCEPT ![r] = [None EXCEPT !.ch = chans[r] + 1]]
    /\ chans' = [chans EXCEPT ![r] = @ + 1]

Forgets(gone) ==
    /\ slot' = [q \in Run |-> IF q \in gone THEN None ELSE slot[q]]
    /\ UNCHANGED chans

\* Room is kept by a call that is past its slot or whose run has no new channel.
LEMMA ShownMap ==
    ASSUME MapOK, SlotsStay, UNCHANGED chans
    PROVE  slot' \in [Run -> Slot] /\ chans' \in [Run -> 0..MaxChannels + 1] /\ \A q \in Run : Entry(q)'
  BY DEF MapOK, SlotsStay, Entry, Has

LEMMA MadeMap ==
    ASSUME MapOK, NEW r \in Run, Makes(r)
    PROVE  slot' \in [Run -> Slot] /\ chans' \in [Run -> 0..MaxChannels + 1] /\ \A q \in Run : Entry(q)'
<1>1. slot \in [Run -> Slot] /\ chans \in [Run -> 0..MaxChannels + 1]
  BY DEF MapOK
<1>2. MaxChannels \in Nat /\ chans[r] \in Nat /\ chans[r] + 1 \in 0..MaxChannels + 1 /\ chans[r] + 1 # 0
  BY <1>1, RegistryAssumption DEF Makes
<1>3. chans' = [chans EXCEPT ![r] = chans[r] + 1]
  BY DEF Makes
<1>4. chans' \in [Run -> 0..MaxChannels + 1]
  BY <1>1, <1>2, <1>3
<1> DEFINE x == [None EXCEPT !.ch = chans[r] + 1]
<1>5. x \in Slot /\ x.ch = chans[r] + 1
  BY <1>2, NewSlot
<1>6. slot' = [slot EXCEPT ![r] = x]
  BY DEF Makes
<1> HIDE DEF x
<1>7. slot' \in [Run -> Slot] /\ slot'[r] = x /\ \A q \in Run \ {r} : slot'[q] = slot[q]
  BY <1>1, <1>5, <1>6, SetSlot
<1>8. chans'[r] = chans[r] + 1 /\ \A q \in Run \ {r} : chans'[q] = chans[q]
  BY <1>1, <1>3
<1>9. \A q \in Run \ {r} : Entry(q)'
  BY <1>7, <1>8 DEF MapOK, Entry, Has
<1>10. Entry(r)'
  BY <1>2, <1>5, <1>7, <1>8 DEF Entry, Has
<1> QED
  BY <1>4, <1>7, <1>9, <1>10

LEMMA ForgottenMap ==
    ASSUME MapOK, NEW gone, Forgets(gone)
    PROVE  slot' \in [Run -> Slot] /\ chans' \in [Run -> 0..MaxChannels + 1] /\ \A q \in Run : Entry(q)'
  BY NewSlot DEF MapOK, Forgets, Entry, Has

\* A run whose work is over, or that somebody aborts.
Ended(r) == task[r] = "over" \/ hit[r] # {}

Shows ==
    /\ SlotsStay /\ UNCHANGED chans
    /\ \A q \in Run : slot'[q].finished => slot[q].finished \/ Ended(q)'

LEMMA SameShows ==
    ASSUME MapOK, UNCHANGED <<slot, chans>>
    PROVE  Shows
  BY SameSlotsStay DEF MapOK, Shows

LEMMA SendShows ==
    ASSUME MapOK, NEW r \in Run, NEW c, NEW p \in Phase, SendPhase(r, c, p), UNCHANGED chans
    PROVE  Shows
  BY SendPhaseStays DEF MapOK, Shows

LEMMA SetShows ==
    ASSUME MapOK, NEW r \in Run, Has(r), NEW x \in Slot, x.ch = slot[r].ch,
           slot' = [slot EXCEPT ![r] = x], UNCHANGED chans,
           x.finished => slot[r].finished \/ Ended(r)'
    PROVE  Shows
<1>1. slot \in [Run -> Slot]
  BY DEF MapOK
<1>2. slot' \in [Run -> Slot] /\ slot'[r] = x /\ \A q \in Run \ {r} : slot'[q] = slot[q]
  BY <1>1, SetSlot
<1> QED
  BY <1>2 DEF Shows, SlotsStay, Has

\* What the steps of a run do to the map.
LEMMA MapRegister ==
    ASSUME TypesInv, NEW r \in Run, Check(r) \/ Register(r)
    PROVE  Shows \/ Makes(r) \/ (reg[r] = "evict" /\ Forgets({victim[r]}))
<1>map. MapOK /\ slot[r] \in Slot /\ Room(r)
  BY DEF TypesInv, MapOK
<1>call. CallOK(r) /\ task \in [Run -> {"none", "start", "work", "executing", "reported", "log", "end",
                         "aborted", "over"}]
  BY DEF TypesInv, CallsOK, CallTypes
<1>1. CASE UNCHANGED <<slot, chans>>
  BY <1>map, <1>1, SameShows
<1>2. CASE Evict(r)
  <2>1. slot' = [slot EXCEPT ![victim[r]] = None] /\ UNCHANGED chans /\ reg[r] = "evict"
    BY <1>2 DEF Evict, events
  <2>2. slot \in [Run -> Slot]
    BY <1>map DEF MapOK
  <2> QED
    BY <2>1, <2>2 DEF Forgets
<1>3. CASE Create(r)
  <2>1. CASE /\ Has(r) /\ UNCHANGED chans
             /\ slot' = [slot EXCEPT ![r].phase = "pending"]
    <3>1. slot' = [slot EXCEPT ![r] = [slot[r] EXCEPT !.phase = "pending"]]
      BY <2>1
    <3>2. "pending" \in Phase
      BY DEF Phase
    <3>3. /\ [slot[r] EXCEPT !.phase = "pending"] \in Slot
          /\ [slot[r] EXCEPT !.phase = "pending"].ch = slot[r].ch
          /\ [slot[r] EXCEPT !.phase = "pending"].finished = slot[r].finished
      BY <1>map, <3>2, SlotFields
    <3> QED
      BY <1>map, <2>1, <3>1, <3>3, SetShows
  <2>2. CASE /\ ~Has(r)
             /\ slot' = [slot EXCEPT ![r] = [None EXCEPT !.ch = chans[r] + 1]]
             /\ chans' = [chans EXCEPT ![r] = @ + 1]
    <3>1. chans[r] <= MaxChannels
      BY <1>map, <1>3 DEF Create, Room
    <3> QED
      BY <2>2, <3>1 DEF Makes
  <2> QED
    BY <1>3, <2>1, <2>2 DEF Create
<1>4. CASE StoreHandle(r)
  <2>1. CASE Has(r)
    <3>1. slot' = [slot EXCEPT ![r] = [slot[r] EXCEPT !.handle = TRUE]] /\ UNCHANGED chans
      BY <1>4, <2>1 DEF StoreHandle, events
    <3>2. /\ [slot[r] EXCEPT !.handle = TRUE] \in Slot
          /\ [slot[r] EXCEPT !.handle = TRUE].ch = slot[r].ch
          /\ [slot[r] EXCEPT !.handle = TRUE].finished = slot[r].finished
      BY <1>map, SlotFields
    <3> QED
      BY <1>map, <2>1, <3>1, <3>2, SetShows
  <2>2. CASE ~Has(r)
    BY <1>4, <1>map, <2>2, SameShows DEF StoreHandle, events
  <2> QED
    BY <2>1, <2>2
<1>5. CASE FinishSlot(r)
  <2>1. CASE Has(r)
    <3>1. outcome[r] \in Phase
      BY <1>call, <1>5 DEF FinishSlot, CallOK, Phase, Over
    <3> DEFINE x == [slot[r] EXCEPT !.finished = TRUE, !.phase = outcome[r]]
    <3>2. slot' = [slot EXCEPT ![r] = x] /\ UNCHANGED chans
      BY <1>5, <2>1, <1>map DEF FinishSlot, MapOK
    <3>3. x \in Slot /\ x.ch = slot[r].ch
      BY <1>map, <3>1, SlotFields
    <3>4. Ended(r)'
      BY <1>5, <1>call DEF FinishSlot, Ended
    <3> HIDE DEF x
    <3> QED
      BY <1>map, <2>1, <3>2, <3>3, <3>4, SetShows
  <2>2. CASE ~Has(r)
    BY <1>5, <1>map, <2>2, SameShows DEF FinishSlot
  <2> QED
    BY <2>1, <2>2
<1>6. CASE BeginInline(r) \/ WatchStarted(r) \/ WatchCompleted(r) \/ WatchErrored(r) \/ Finisher(r)
  <2>1. \E c : \E p \in Phase : SendPhase(r, c, p)
    <3>1. CASE Finisher(r)
      <4>1. outcome[r] \in Phase \/ task[r] = "aborted"
        BY <3>1, <1>call DEF Finisher, CallOK, Phase, Over
      <4> QED
        BY <3>1, <4>1 DEF Finisher, Phase
    <3> QED
      BY <1>6, <3>1 DEF BeginInline, WatchStarted, WatchCompleted, WatchErrored, Phase
  <2>2. UNCHANGED chans
    BY <1>6 DEF BeginInline, WatchStarted, WatchCompleted, WatchErrored, Finisher, events
  <2> QED
    BY <1>map, <2>1, <2>2, SendShows
<1>7. \/ UNCHANGED <<slot, chans>> \/ Evict(r) \/ Create(r) \/ StoreHandle(r) \/ FinishSlot(r)
      \/ BeginInline(r) \/ WatchStarted(r) \/ WatchCompleted(r) \/ WatchErrored(r) \/ Finisher(r)
  BY DEF Register, Check, Pick, Push, Spawn, SpawnFinisher, LogStarted, Work, LogTerminal, events
<1> QED
  BY <1>1, <1>2, <1>3, <1>4, <1>5, <1>6, <1>7

\* What the others do to it.
LEMMA MapOutside ==
    ASSUME TypesInv,
           \/ \E r \in Run : Subscribe(r) \/ ShutdownSkip(r)
           \/ \E a \in Aborter : AbortStep(a) \/ \E r \in Run : StartAbort(a, r)
           \/ Shutdown \/ ShutdownClear \/ (\E gone \in SUBSET Run : Retain(gone))
           \/ RetainRemove \/ RetainOrder \/ UNCHANGED vars
    PROVE  \/ Shows
           \/ \E r \in Run : Makes(r)
           \/ down' = "down" /\ Forgets(Run)
           \/ sweep.pc = "remove" /\ Forgets(sweep.runs)
<1>map. MapOK /\ slot \in [Run -> Slot]
  BY DEF TypesInv, MapOK
<1>1. CASE UNCHANGED <<slot, chans>>
  BY <1>map, <1>1, SameShows
<1>2. ASSUME NEW r \in Run, Subscribe(r) PROVE Shows \/ Makes(r)
  <2>1. CASE Has(r)
    BY <1>2, <1>map, <2>1, SameShows DEF Subscribe
  <2>2. CASE ~Has(r)
    <3>1. chans[r] <= MaxChannels
      <4>1. chans[r] \in Nat /\ MaxChannels \in Nat
        BY <1>map, RegistryAssumption DEF MapOK
      <4> QED
        BY <4>1, <1>2 DEF Subscribe
    <3> QED
      BY <1>2, <2>2, <3>1 DEF Subscribe, Makes
  <2> QED
    BY <2>1, <2>2
<1>3. ASSUME NEW a \in Aborter, AbortSend(a) PROVE Shows
  <2>1. ab[a].run \in Run /\ "errored" \in Phase
    BY <1>3 DEF TypesInv, StopsOK, AbortSend, Phase
  <2>2. SendPhase(ab[a].run, ab[a].ch, "errored") /\ UNCHANGED chans
    BY <1>3 DEF AbortSend
  <2> QED
    BY <1>map, <2>1, <2>2, SendShows
<1>4. ASSUME NEW a \in Aborter, AbortMark(a) PROVE Shows
  <2>1. PICK r \in Run : r = ab[a].run /\ a \in hit[r]
    BY <1>4 DEF TypesInv, StopsOK, AbortMark
  <2>2. Ended(r)' /\ UNCHANGED chans
    BY <1>4, <2>1 DEF AbortMark, Ended, events
  <2>3. CASE Has(r)
    <3>1. slot' = [slot EXCEPT ![r] = [slot[r] EXCEPT !.finished = TRUE]]
      BY <1>4, <2>1, <2>3 DEF AbortMark
    <3>2. [slot[r] EXCEPT !.finished = TRUE] \in Slot /\ [slot[r] EXCEPT !.finished = TRUE].ch = slot[r].ch
      BY <1>map, <2>1, SlotFields
    <3> QED
      BY <1>map, <2>2, <2>3, <3>1, <3>2, SetShows
  <2>4. CASE ~Has(r)
    BY <1>4, <1>map, <2>1, <2>2, <2>4, SameShows DEF AbortMark
  <2> QED
    BY <2>3, <2>4
<1>5. CASE ShutdownClear
  <2>1. down' = "down" /\ slot' = [r \in Run |-> None] /\ UNCHANGED chans
    BY <1>5 DEF ShutdownClear, events
  <2> QED
    BY <2>1 DEF Forgets
<1>6. CASE RetainRemove
  BY <1>6 DEF RetainRemove, Forgets, events
<1>7. \/ UNCHANGED <<slot, chans>> \/ (\E r \in Run : Subscribe(r)) \/ ShutdownClear \/ RetainRemove
      \/ \E a \in Aborter : AbortSend(a) \/ AbortMark(a)
  BY DEF ShutdownSkip, AbortStep, AbortRow, StartAbort, Shutdown, Retain, RetainOrder, vars, events
<1> QED
  BY <1>1, <1>2, <1>3, <1>4, <1>5, <1>6, <1>7

\* A register call that has not made its slot makes no channel but that one.
LEMMA RoomNext ==
    ASSUME TypesInv, [Next]_vars
    PROVE  \A q \in Run : Room(q)'
<1>map. slot \in [Run -> Slot] /\ chans \in [Run -> 0..MaxChannels + 1] /\ MaxChannels \in Nat
        /\ reg \in [Run -> {"new", "full", "evict", "create", "push", "ready", "store", "watch",
                            "returned", "refused"}]
  BY RegistryAssumption DEF TypesInv, MapOK, CallsOK, CallTypes
<1>room. \A q \in Run : Room(q)
  BY DEF TypesInv, MapOK
<1>1. CASE UNCHANGED chans /\ \A q \in Run : reg[q] \in {"push", "ready", "store", "watch", "returned"}
                                              => reg'[q] \in {"push", "ready", "store", "watch", "returned"}
  BY <1>map, <1>room, <1>1 DEF Room
<1>2. ASSUME NEW r \in Run, Create(r)
      PROVE  \A q \in Run : Room(q)'
  BY <1>map, <1>room, <1>2 DEF Create, Room
<1>3. ASSUME NEW r \in Run, Subscribe(r)
      PROVE  \A q \in Run : Room(q)'
  <2>1. UNCHANGED reg /\ chans[r] < MaxChannels /\ chans[r] \in Nat
    BY <1>map, <1>3 DEF Subscribe, calls
  <2>2. UNCHANGED chans \/ chans' = [chans EXCEPT ![r] = chans[r] + 1]
    BY <1>3 DEF Subscribe
  <2> QED
    BY <1>map, <1>room, <2>1, <2>2 DEF Room
<1>4. ASSUME NEW r \in Run, Check(r) \/ Register(r), ~Create(r)
      PROVE  UNCHANGED chans /\ \A q \in Run : reg[q] \in {"push", "ready", "store", "watch", "returned"}
                                              => reg'[q] \in {"push", "ready", "store", "watch", "returned"}
  BY <1>map, <1>4 DEF Check, Register, Pick, Evict, Push, BeginInline, Spawn, StoreHandle,
       SpawnFinisher, LogStarted, WatchStarted, WatchCompleted, WatchErrored, Work, LogTerminal,
       FinishSlot, Finisher, events
<1>5. \/ \E r \in Run : Check(r) \/ Register(r) \/ Subscribe(r)
      \/ UNCHANGED <<chans, reg>>
  BY DEF Next, ShutdownSkip, AbortStep, AbortRow, AbortSend, AbortMark, StartAbort, Shutdown,
         ShutdownClear, Retain, RetainRemove, RetainOrder, vars, events, calls
<1> QED
  BY <1>1, <1>2, <1>3, <1>4, <1>5

LEMMA NextSplits ==
    ASSUME [Next]_vars
    PROVE  \/ \E r \in Run : Check(r) \/ Register(r)
           \/ \/ \E r \in Run : Subscribe(r) \/ ShutdownSkip(r)
              \/ \E a \in Aborter : AbortStep(a) \/ \E r \in Run : StartAbort(a, r)
              \/ Shutdown \/ ShutdownClear \/ (\E gone \in SUBSET Run : Retain(gone))
              \/ RetainRemove \/ RetainOrder \/ UNCHANGED vars
  BY DEF Next

LEMMA MapNext ==
    ASSUME TypesInv, [Next]_vars
    PROVE  MapOK'
<1>map. MapOK
  BY DEF TypesInv
<1>1. \/ Shows \/ \E r \in Run : Makes(r)
      \/ \E gone : Forgets(gone)
  BY NextSplits, MapRegister, MapOutside
<1>2. slot' \in [Run -> Slot] /\ chans' \in [Run -> 0..MaxChannels + 1] /\ \A q \in Run : Entry(q)'
  BY <1>map, <1>1, ShownMap, MadeMap, ForgottenMap DEF Shows
<1> QED
  BY <1>2, RoomNext DEF MapOK

LEMMA CallsNext ==
    ASSUME TypesInv, [Next]_vars
    PROVE  CallsOK'
  BY NextSplits, CallsRegister, CallsOutside

-----------------------------------------------------------------------------
(* The subscribers, the rows and the calls from outside *)

LEMMA ToldNext ==
    ASSUME TypesInv, [Next]_vars
    PROVE  ToldOK'
<1>told. sub \in [Run -> 0..MaxChannels + 1] /\ told \in [Run -> {"none"} \cup Over]
  BY DEF TypesInv, ToldOK
<1>map. slot' \in [Run -> Slot]
  BY MapNext DEF MapOK
<1>1. ASSUME NEW r \in Run, Subscribe(r) PROVE ToldOK'
  <2>1. PICK c \in 0..MaxChannels + 1 : sub' = [sub EXCEPT ![r] = c]
    <3>1. slot[r].ch \in 0..MaxChannels + 1
      BY DEF TypesInv, MapOK, Slot
    <3>2. chans[r] < MaxChannels => chans[r] + 1 \in 0..MaxChannels + 1
      BY RegistryAssumption DEF TypesInv, MapOK
    <3> QED
      BY <1>1, <3>1, <3>2 DEF Subscribe
  <2> QED
    BY <1>told, <1>1, <2>1 DEF Subscribe, ToldOK
<1>2. ASSUME NEW r \in Run, NEW c, NEW p \in Over, SendEnd(r, c, p), UNCHANGED sub
      PROVE  ToldOK'
  BY <1>told, <1>2, SendEndTells DEF ToldOK
<1>3. ASSUME NEW r \in Run, FinishSlot(r) \/ Finisher(r) PROVE ToldOK'
  <2>1. outcome[r] \in Over \/ task[r] = "aborted"
    BY <1>3 DEF TypesInv, CallsOK, CallOK, FinishSlot, Finisher
  <2>2. \E c : \E p \in Over : SendEnd(r, c, p)
    BY <1>3, <2>1 DEF FinishSlot, Finisher, Over
  <2> QED
    BY <1>2, <1>3, <2>2 DEF FinishSlot, Finisher
<1>4. ASSUME NEW r \in Run, WatchCompleted(r) \/ WatchErrored(r) PROVE ToldOK'
  <2>1. \E c : \E p \in Over : SendEnd(r, c, p)
    BY <1>4 DEF WatchCompleted, WatchErrored, Over
  <2> QED
    BY <1>2, <1>4, <2>1 DEF WatchCompleted, WatchErrored
<1>5. ASSUME NEW a \in Aborter, AbortSend(a) PROVE ToldOK'
  <2>1. ab[a].run \in Run /\ "errored" \in Over
    BY <1>5 DEF TypesInv, StopsOK, AbortSend, Over
  <2> QED
    BY <1>2, <1>5, <2>1 DEF AbortSend
<1>6. CASE UNCHANGED <<sub, told>>
  BY <1>told, <1>6 DEF ToldOK
<1>7. \/ \E r \in Run : Subscribe(r) \/ FinishSlot(r) \/ Finisher(r) \/ WatchCompleted(r) \/ WatchErrored(r)
      \/ \E a \in Aborter : AbortSend(a)
      \/ UNCHANGED <<sub, told>>
  BY NextSplits, ZenonT(40) DEF Check, Register, Pick, Evict, Create, Push, BeginInline, Spawn, StoreHandle,
       SpawnFinisher, LogStarted, WatchStarted, Work, LogTerminal, ShutdownSkip, AbortStep, AbortRow,
       AbortMark, StartAbort, Shutdown, ShutdownClear, Retain, RetainRemove, RetainOrder, vars, events
<1> QED
  BY <1>1, <1>3, <1>4, <1>5, <1>6, <1>7

LEMMA RowsNext ==
    ASSUME TypesInv, [Next]_vars
    PROVE  RowsOK'
<1>1. RowsOK /\ TypeOK
  BY TypesInvTypes DEF TypesInv
<1>env. UNCHANGED env
  BY NextSplits, ZenonT(40) DEF Check, Register, Pick, Evict, Create, Push, BeginInline, Spawn, StoreHandle,
       SpawnFinisher, LogStarted, WatchStarted, WatchCompleted, WatchErrored, Work, LogTerminal,
       FinishSlot, Finisher, Subscribe, ShutdownSkip, AbortStep, AbortRow, AbortSend,
       AbortMark, StartAbort, Shutdown, ShutdownClear, Retain, RetainRemove, RetainOrder, vars, stops
<1>2. ASSUME NEW r \in Run, NEW status \in {"none", "STARTED", "COMPLETED", "ERRORED"},
             Log(r, status) \/ UNCHANGED db
      PROVE  RowsOK'
  <2>1. row' \in [Run -> {"none", "STARTED", "COMPLETED", "ERRORED"}] /\ faults' \in 0..env'.faults
    BY <1>1, <1>2, <1>env, LogTypes
  <2> QED
    BY <1>1, <1>env, <2>1 DEF RowsOK
<1>3. CASE UNCHANGED db
  BY <1>1, <1>3, <1>env DEF RowsOK, db
<1>4. ASSUME NEW r \in Run,
             LogStarted(r) \/ WatchStarted(r) \/ WatchCompleted(r) \/ WatchErrored(r) \/ LogTerminal(r)
      PROVE  RowsOK'
  <2>1. UNCHANGED db \/ \E status \in {"none", "STARTED", "COMPLETED", "ERRORED"} : Log(r, status)
    BY <1>4 DEF LogStarted, WatchStarted, WatchCompleted, WatchErrored, LogTerminal, Log
  <2> QED
    BY <1>2, <1>3, <2>1
<1>5. ASSUME NEW a \in Aborter, AbortRow(a) PROVE RowsOK'
  <2>1. ab[a].run \in Run
    BY <1>5 DEF TypesInv, StopsOK, AbortRow
  <2> QED
    BY <1>2, <1>5, <2>1 DEF AbortRow
<1>6. \/ \E r \in Run : \/ LogStarted(r) \/ WatchStarted(r) \/ WatchCompleted(r) \/ WatchErrored(r)
                        \/ LogTerminal(r)
      \/ \E a \in Aborter : AbortRow(a)
      \/ UNCHANGED db
  BY NextSplits DEF Check, Register, Pick, Evict, Create, Push, BeginInline, Spawn, StoreHandle,
       SpawnFinisher, Work, FinishSlot, Finisher, Subscribe, ShutdownSkip, AbortStep, AbortSend,
       AbortMark, StartAbort, Shutdown, ShutdownClear, Retain, RetainRemove, RetainOrder, vars
<1> QED
  BY <1>3, <1>4, <1>5, <1>6

LEMMA StopsNext ==
    ASSUME TypesInv, [Next]_vars
    PROVE  StopsOK'
<1>stops. StopsOK
  BY DEF TypesInv
<1>hit. hit \in [Run -> SUBSET Aborter] /\ ab \in [Aborter -> Abort]
        /\ \A a \in Aborter : ab[a].pc # "idle" => ab[a].run \in Run /\ a \in hit[ab[a].run]
  BY <1>stops DEF StopsOK
<1>rest. down \in {"up", "aborting", "down"} /\ todo \subseteq Run
         /\ sweep \in [pc : {"idle", "remove", "prune"}, runs : SUBSET Run]
  BY <1>stops DEF StopsOK
<1>1. CASE UNCHANGED <<ab, down, todo, sweep, hit>>
  BY <1>stops, <1>1 DEF StopsOK
<1>2. ASSUME NEW a \in Aborter, NEW r \in Run, StartAbort(a, r) PROVE StopsOK'
  <2> DEFINE x == [pc |-> "row", run |-> r, ch |-> slot[r].ch]
  <2>1. x \in Abort /\ x.run = r
    BY DEF TypesInv, MapOK, Slot, Abort
  <2>2. ab' = [ab EXCEPT ![a] = x] /\ hit' = [hit EXCEPT ![r] = hit[r] \cup {a}]
    BY <1>2 DEF StartAbort
  <2> HIDE DEF x
  <2>3. ab' \in [Aborter -> Abort] /\ ab'[a] = x /\ \A b \in Aborter \ {a} : ab'[b] = ab[b]
    BY <1>hit, <2>1, <2>2
  <2>4. hit' \in [Run -> SUBSET Aborter] /\ a \in hit'[r] /\ \A q \in Run : hit[q] \subseteq hit'[q]
    BY <1>hit, <2>2
  <2>5. \A b \in Aborter : ab'[b].pc # "idle" => ab'[b].run \in Run /\ b \in hit'[ab'[b].run]
    BY <1>hit, <2>1, <2>3, <2>4
  <2>6. UNCHANGED <<down, sweep>> /\ todo' \subseteq Run
    BY <1>2, <1>rest DEF StartAbort
  <2> QED
    BY <1>rest, <2>3, <2>4, <2>5, <2>6 DEF StopsOK
<1>3. ASSUME NEW a \in Aborter, AbortStep(a) PROVE StopsOK'
  <2>1. UNCHANGED <<hit, down, todo, sweep>>
    BY <1>3 DEF AbortStep, AbortRow, AbortSend, AbortMark
  <2>2. ab[a] \in Abort /\ ab[a].pc # "idle"
    BY <1>3, <1>hit DEF AbortStep, AbortRow, AbortSend, AbortMark
  <2>3. PICK x \in Abort : ab' = [ab EXCEPT ![a] = x] /\ (x.run = ab[a].run \/ x.pc = "idle")
    <3>1. [ab[a] EXCEPT !.pc = "send"] \in Abort /\ [ab[a] EXCEPT !.pc = "mark"] \in Abort
      BY <2>2 DEF Abort
    <3>2. [ab[a] EXCEPT !.pc = "send"].run = ab[a].run /\ [ab[a] EXCEPT !.pc = "mark"].run = ab[a].run
      BY <2>2 DEF Abort
    <3>3. Idle \in Abort /\ Idle.pc = "idle"
      BY RegistryAssumption DEF Idle, Abort
    <3>4. \/ ab' = [ab EXCEPT ![a] = [ab[a] EXCEPT !.pc = "send"]]
          \/ ab' = [ab EXCEPT ![a] = [ab[a] EXCEPT !.pc = "mark"]]
          \/ ab' = [ab EXCEPT ![a] = Idle]
      BY <1>3 DEF AbortStep, AbortRow, AbortSend, AbortMark
    <3> QED
      BY <3>1, <3>2, <3>3, <3>4
  <2>4. ab' \in [Aborter -> Abort] /\ ab'[a] = x /\ \A b \in Aborter \ {a} : ab'[b] = ab[b]
    BY <1>hit, <2>3
  <2>5. \A b \in Aborter : ab'[b].pc # "idle" => ab'[b].run \in Run /\ b \in hit'[ab'[b].run]
    BY <1>hit, <2>1, <2>2, <2>3, <2>4
  <2> QED
    BY <1>hit, <1>rest, <2>1, <2>4, <2>5 DEF StopsOK
<1>4. CASE /\ UNCHANGED <<ab, hit>> /\ down' \in {"up", "aborting", "down"} /\ todo' \subseteq Run
           /\ sweep' \in [pc : {"idle", "remove", "prune"}, runs : SUBSET Run]
  BY <1>hit, <1>4 DEF StopsOK
<1>5. ASSUME \/ Shutdown \/ ShutdownClear \/ \E r \in Run : ShutdownSkip(r)
      PROVE  StopsOK'
  BY <1>rest, <1>4, <1>5 DEF Shutdown, ShutdownClear, ShutdownSkip
<1>6. ASSUME \/ RetainRemove \/ RetainOrder \/ \E gone \in SUBSET Run : Retain(gone)
      PROVE  StopsOK'
  <2>1. sweep' \in [pc : {"idle", "remove", "prune"}, runs : SUBSET Run]
    BY <1>rest, <1>6 DEF RetainRemove, RetainOrder, Retain
  <2>2. UNCHANGED <<ab, hit, down, todo>>
    BY <1>6 DEF RetainRemove, RetainOrder, Retain
  <2> QED
    BY <1>rest, <1>4, <2>1, <2>2
<1>7. ASSUME NEW r \in Run, Check(r) \/ Register(r) \/ Subscribe(r)
      PROVE  UNCHANGED stops
  BY <1>7 DEF Check, Register, Pick, Evict, Create, Push, BeginInline, Spawn, StoreHandle,
       SpawnFinisher, LogStarted, WatchStarted, WatchCompleted, WatchErrored, Work, LogTerminal,
       FinishSlot, Finisher, Subscribe
<1>8. CASE UNCHANGED stops
  BY <1>8, <1>1 DEF stops
<1>9. CASE UNCHANGED vars
  BY <1>9, <1>1 DEF vars, stops
<1> QED
  BY NextSplits, <1>2, <1>3, <1>5, <1>6, <1>7, <1>8, <1>9

LEMMA OrderNext ==
    ASSUME TypesInv, [Next]_vars
    PROVE  order' \in Seq(Run)
<1>1. order \in Seq(Run)
  BY DEF TypesInv
<1>2. CASE UNCHANGED order
  BY <1>1, <1>2
<1>3. ASSUME NEW r \in Run, Pick(r) PROVE order' \in Seq(Run)
  <2>1. \/ UNCHANGED order
        \/ \E n \in DOMAIN order :
               order' = SubSeq(order, 1, n - 1) \o SubSeq(order, n + 1, Len(order))
    BY <1>3 DEF Pick
  <2> QED
    BY <1>1, <2>1, RemovedType
<1>4. ASSUME NEW r \in Run, Push(r) \/ Subscribe(r) PROVE order' \in Seq(Run)
  <2>1. UNCHANGED order \/ order' = Append(order, r)
    BY <1>4 DEF Push, Subscribe
  <2> QED
    BY <1>1, <2>1
<1>5. CASE RetainOrder
  BY <1>1, <1>5, WithoutType DEF RetainOrder
<1>6. \/ \E r \in Run : Pick(r) \/ Push(r) \/ Subscribe(r)
      \/ RetainOrder \/ UNCHANGED order
  BY NextSplits DEF Check, Register, Evict, Create, BeginInline, Spawn, StoreHandle,
       SpawnFinisher, LogStarted, WatchStarted, WatchCompleted, WatchErrored, Work, LogTerminal,
       FinishSlot, Finisher, ShutdownSkip, AbortStep, AbortRow, AbortSend,
       AbortMark, StartAbort, Shutdown, ShutdownClear, Retain, RetainRemove, vars
<1> QED
  BY <1>2, <1>3, <1>4, <1>5, <1>6

LEMMA TypesNext == TypesInv /\ [Next]_vars => TypesInv'
  BY CallsNext, MapNext, ToldNext, RowsNext, StopsNext, OrderNext DEF TypesInv

LEMMA TypesInvariant == Spec => []TypesInv
  BY TypesInit, TypesNext, PTL DEF Spec

\* Every variable keeps its type; a slot has the newest channel of its run, an
\* absent one leaves nothing behind, and no work starts before its slot is made
\* (TypeOK: create_slot, run_work_inline, register_background).
THEOREM RegistryTypeCorrect == Spec => []TypeOK
  BY TypesInvariant, TypesInvTypes, PTL

-----------------------------------------------------------------------------
(* A run is forgotten only once it is over *)

\* What is marked as finished, picked for eviction or collected by the retention
\* has ended.
EndedInv ==
    /\ \A r \in Run : /\ slot[r].finished => Ended(r)
                      /\ reg[r] = "evict" => Ended(victim[r])
    /\ sweep.pc = "remove" => \A q \in sweep.runs : Ended(q)

\* A run that has ended stays so.
LEMMA EndedStays ==
    ASSUME TypesInv, [Next]_vars, NEW q \in Run, Ended(q)
    PROVE  Ended(q)'
<1>types. hit \in [Run -> SUBSET Aborter] /\ CallOK(q)
          /\ task \in [Run -> {"none", "start", "work", "executing", "reported", "log", "end",
                         "aborted", "over"}]
  BY DEF TypesInv, StopsOK, CallsOK, CallTypes
<1>hit. hit[q] \subseteq hit'[q]
  <2>1. ASSUME NEW a \in Aborter, NEW r \in Run, StartAbort(a, r)
        PROVE  hit[q] \subseteq hit'[q]
    BY <1>types, <2>1 DEF StartAbort
  <2>2. UNCHANGED hit \/ \E a \in Aborter : \E r \in Run : StartAbort(a, r)
    BY NextSplits, ZenonT(40) DEF Check, Register, Pick, Evict, Create, Push, BeginInline, Spawn, StoreHandle,
       SpawnFinisher, LogStarted, WatchStarted, WatchCompleted, WatchErrored, Work, LogTerminal,
       FinishSlot, Finisher, Subscribe, ShutdownSkip, AbortStep, AbortRow, AbortSend,
       AbortMark, Shutdown, ShutdownClear, Retain, RetainRemove, RetainOrder, vars, stops
  <2> QED
    BY <2>1, <2>2
<1>task. ASSUME task[q] = "over" PROVE task'[q] = "over"
  <2>1. ASSUME NEW r \in Run, Check(r) \/ Register(r) PROVE task'[q] = "over"
    <3>1. CASE UNCHANGED task
      BY <1>task, <3>1
    <3>2. CASE task' = [task EXCEPT ![r] = "over"]
      BY <1>task, <1>types, <3>2
    <3>3. CASE task[r] # "over" /\ \E x : task' = [task EXCEPT ![r] = x]
      BY <1>task, <1>types, <3>3
    <3>4. Spawn(r) => task[r] = "none"
      BY DEF Spawn, TypesInv, CallsOK, CallOK
    <3> QED
      BY <2>1, <3>1, <3>2, <3>3, <3>4 DEF Check, Register, Pick, Evict, Create, Push, BeginInline, Spawn,
         StoreHandle, SpawnFinisher, LogStarted, WatchStarted, WatchCompleted, WatchErrored, Work,
         LogTerminal, FinishSlot, Finisher
  <2>2. ASSUME NEW a \in Aborter, NEW r \in Run, StartAbort(a, r) PROVE task'[q] = "over"
    BY <1>task, <1>types, <2>2 DEF StartAbort
  <2>3. \/ UNCHANGED task
        \/ \E r \in Run : Check(r) \/ Register(r)
        \/ \E a \in Aborter : \E r \in Run : StartAbort(a, r)
    BY NextSplits DEF Subscribe, ShutdownSkip, AbortStep, AbortRow, AbortSend,
       AbortMark, Shutdown, ShutdownClear, Retain, RetainRemove, RetainOrder, vars, calls
  <2> QED
    BY <1>task, <2>1, <2>2, <2>3
<1> QED
  BY <1>hit, <1>task DEF Ended

LEMMA EndedInit == Init => EndedInv
  BY DEF Init, EndedInv, None

\* A slot's mark comes with the end of its run.
LEMMA FinishedNext ==
    ASSUME TypesInv, EndedInv, [Next]_vars
    PROVE  \A q \in Run : slot'[q].finished => Ended(q)'
<1> SUFFICES ASSUME NEW q \in Run, slot'[q].finished PROVE Ended(q)'
  OBVIOUS
<1>1. slot \in [Run -> Slot] /\ chans \in [Run -> 0..MaxChannels + 1] /\ MaxChannels \in Nat
  BY RegistryAssumption DEF TypesInv, MapOK
<1>2. slot[q].finished => Ended(q)'
  BY EndedStays DEF EndedInv
<1>3. CASE Shows
  BY <1>2, <1>3 DEF Shows
<1>4. ASSUME NEW r \in Run, Makes(r) PROVE slot[q].finished
  <2>1. chans[r] + 1 \in 0..MaxChannels + 1
    BY <1>1, <1>4 DEF Makes
  <2> DEFINE x == [None EXCEPT !.ch = chans[r] + 1]
  <2>2. x.finished = FALSE
    BY <2>1, NewSlot
  <2>3. slot' = [slot EXCEPT ![r] = x]
    BY <1>4 DEF Makes
  <2> HIDE DEF x
  <2> QED
    BY <1>1, <2>2, <2>3
<1>5. ASSUME NEW gone, Forgets(gone) PROVE slot[q].finished
  BY <1>5, NewSlot DEF Forgets
<1>6. \/ Shows \/ \E r \in Run : Makes(r)
      \/ \E gone : Forgets(gone)
  BY NextSplits, MapRegister, MapOutside
<1> QED
  BY <1>2, <1>3, <1>4, <1>5, <1>6

LEMMA EndedNext == TypesInv /\ EndedInv /\ [Next]_vars => EndedInv'
<1> SUFFICES ASSUME TypesInv, EndedInv, [Next]_vars PROVE EndedInv'
  OBVIOUS
<1>calls. reg \in [Run -> {"new", "full", "evict", "create", "push", "ready", "store", "watch",
                           "returned", "refused"}]
          /\ victim \in [Run -> Run \cup {NoRun}]
  BY DEF TypesInv, CallsOK, CallTypes
<1>1. ASSUME NEW q \in Run, reg'[q] = "evict" PROVE Ended(victim[q])'
  <2>1. CASE reg[q] = "evict" /\ victim'[q] = victim[q]
    <3>1. victim[q] \in Run /\ Ended(victim[q])
      BY <2>1 DEF EndedInv, TypesInv, CallsOK, CallOK
    <3>2. PICK v \in Run : v = victim[q]
      BY <3>1
    <3>3. Ended(v)'
      BY <3>1, <3>2, EndedStays
    <3> QED
      BY <2>1, <3>2, <3>3 DEF Ended
  <2>2. ASSUME NEW r \in Run, Pick(r) PROVE Ended(victim[q])'
    <3>1. CASE q = r
      <4>1. PICK v \in Run : slot[v].finished /\ victim' = [victim EXCEPT ![r] = v]
        BY <1>1, <1>calls, <2>2, <3>1 DEF Pick
      <4>2. Ended(v)'
        BY <4>1, EndedStays DEF EndedInv
      <4> QED
        BY <1>calls, <3>1, <4>1, <4>2 DEF Ended
    <3>2. CASE q # r
      <4>1. reg'[q] = reg[q] /\ victim'[q] = victim[q]
        BY <1>calls, <2>2, <3>2 DEF Pick
      <4> QED
        BY <1>1, <2>1, <4>1
    <3> QED
      BY <3>1, <3>2
  <2>3. ASSUME NEW r \in Run, Check(r) \/ Register(r), ~Pick(r)
        PROVE  reg[q] = "evict" /\ victim'[q] = victim[q]
    BY <1>1, <1>calls, <2>3 DEF Check, Register, Evict, Create, Push, BeginInline, Spawn, StoreHandle,
       SpawnFinisher, LogStarted, WatchStarted, WatchCompleted, WatchErrored, Work, LogTerminal,
       FinishSlot, Finisher
  <2>4. UNCHANGED <<reg, victim>> \/ \E r \in Run : Check(r) \/ Register(r)
    BY NextSplits DEF Subscribe, ShutdownSkip, AbortStep, AbortRow, AbortSend, StartAbort,
       AbortMark, Shutdown, ShutdownClear, Retain, RetainRemove, RetainOrder, vars, calls
  <2> QED
    BY <1>1, <2>1, <2>2, <2>3, <2>4
<1>2. ASSUME sweep'.pc = "remove", NEW q \in sweep'.runs PROVE Ended(q)'
  <2>0. q \in Run
    BY <1>2, StopsNext DEF StopsOK
  <2>1. CASE UNCHANGED sweep
    BY <1>2, <2>0, <2>1, EndedStays DEF EndedInv
  <2>2. ASSUME NEW gone \in SUBSET Run, Retain(gone) PROVE Ended(q)'
    BY <1>2, <2>0, <2>2, EndedStays DEF EndedInv, Retain
  <2>3. CASE RetainRemove \/ RetainOrder
    <3>1. sweep'.pc # "remove"
      BY <2>3 DEF RetainRemove, RetainOrder, TypesInv, StopsOK
    <3> QED
      BY <1>2, <3>1
  <2>4. UNCHANGED sweep \/ RetainRemove \/ RetainOrder \/ \E gone \in SUBSET Run : Retain(gone)
    BY NextSplits, ZenonT(40) DEF Check, Register, Pick, Evict, Create, Push, BeginInline, Spawn, StoreHandle,
       SpawnFinisher, LogStarted, WatchStarted, WatchCompleted, WatchErrored, Work, LogTerminal,
       FinishSlot, Finisher, Subscribe, ShutdownSkip, AbortStep, AbortRow, AbortSend,
       AbortMark, StartAbort, Shutdown, ShutdownClear, vars, stops
  <2> QED
    BY <2>1, <2>2, <2>3, <2>4
<1>3. \A q \in Run : slot'[q].finished => Ended(q)'
  BY FinishedNext
<1> QED
  BY <1>1, <1>2, <1>3 DEF EndedInv, Ended

LEMMA ForgetsEnded ==
    ASSUME TypesInv, EndedInv, [Next]_vars
    PROVE  \A r \in Run : Has(r) /\ ~Has(r)' /\ down' # "down" => task[r] = "over" \/ hit[r] # {}
<1> SUFFICES ASSUME NEW q \in Run, Has(q), ~Has(q)', down' # "down" PROVE Ended(q)
  BY DEF Ended
<1>map. slot \in [Run -> Slot] /\ chans \in [Run -> 0..MaxChannels + 1] /\ MaxChannels \in Nat
  BY RegistryAssumption DEF TypesInv, MapOK
<1>1. ~Shows
  BY DEF Shows, SlotsStay, Has
<1>2. ASSUME NEW r \in Run, Makes(r) PROVE FALSE
  <2>1. chans[r] + 1 \in 0..MaxChannels + 1 /\ chans[r] + 1 # 0
    BY <1>map, <1>2 DEF Makes
  <2> DEFINE x == [None EXCEPT !.ch = chans[r] + 1]
  <2>2. x.ch # 0
    BY <2>1, NewSlot
  <2>3. slot' = [slot EXCEPT ![r] = x]
    BY <1>2 DEF Makes
  <2> HIDE DEF x
  <2> QED
    BY <1>map, <2>2, <2>3 DEF Has
<1>3. ASSUME NEW gone, Forgets(gone) PROVE q \in gone
  BY <1>3 DEF Forgets, Has
<1>4. \/ \E r \in Run : reg[r] = "evict" /\ Forgets({victim[r]})
      \/ sweep.pc = "remove" /\ Forgets(sweep.runs)
  BY <1>1, <1>2, NextSplits, MapRegister, MapOutside
<1> QED
  BY <1>3, <1>4 DEF EndedInv

\* Making room and retention forget no run whose work goes on, unless somebody
\* aborts it (EvictsOnlyEnded: ensure_capacity reads finished_at under one lock
\* and removes the slot under another, and run_retention collects the expired
\* runs before it removes them).
THEOREM EvictionSparesRunning == Spec => EvictsOnlyEnded
<1>1. TypesInv /\ EndedInv /\ [Next]_vars
        => [\A r \in Run : Has(r) /\ ~Has(r)' /\ down' # "down" =>
                task[r] = "over" \/ hit[r] # {}]_vars
  BY ForgetsEnded
<1>2. Spec => []TypesInv
  BY TypesInvariant
<1>3. Spec => []EndedInv
  BY <1>2, EndedInit, EndedNext, PTL DEF Spec
<1> QED
  BY <1>1, <1>2, <1>3, PTL DEF Spec, EvictsOnlyEnded

-----------------------------------------------------------------------------
(* The last word on a run is how its work returned *)

Under == {"start", "work", "executing", "reported", "log", "end"}

\* What holds of a run that nobody aborts, until the map is cleared.  From
\* create_slot until its work is over its slot is in the map, and the watcher, the
\* finisher and a subscriber who has heard of an end have the channel of that slot.
Made(r) == reg[r] \in {"push", "ready", "store", "watch", "returned"} /\ task[r] # "over" => Has(r)
Quiet(r) == task[r] = "none" => sink[r] = 0 /\ told[r] = "none"
Tuned(r) ==
    task[r] \in Under =>
        /\ sink[r] = 0 \/ sink[r] = slot[r].ch
        /\ told[r] # "none" => sub[r] = slot[r].ch
        /\ r \in Background /\ reg[r] = "returned" => fin[r] = slot[r].ch
Last(r) ==
    task[r] = "over" /\ told[r] # "none" =>
        sub[r] # 0 /\ told[r] = outcome[r] /\ (slot[r].ch = sub[r] => slot[r].phase = outcome[r])

Spared(r) == hit[r] = {} /\ down # "down"
Story(r) == Spared(r) => task[r] # "aborted" /\ Made(r) /\ Quiet(r) /\ Tuned(r) /\ Last(r)
StoryInv == \A r \in Run : Story(r)

LEMMA StoryInit == Init => StoryInv
  BY DEF Init, StoryInv, Story, Made, Quiet, Tuned, Last, Under

\* Who is not aborted now was not before, and the map that is not cleared was not.
LEMMA SparedBefore ==
    ASSUME TypesInv, [Next]_vars, NEW q \in Run, Spared(q)'
    PROVE  Spared(q)
<1>types. hit \in [Run -> SUBSET Aborter] /\ down \in {"up", "aborting", "down"}
  BY DEF TypesInv, StopsOK
<1>1. hit[q] \subseteq hit'[q]
  <2>2. ASSUME NEW a \in Aborter, NEW r \in Run, StartAbort(a, r)
        PROVE  hit[q] \subseteq hit'[q]
    BY <1>types, <2>2 DEF StartAbort
  <2>3. UNCHANGED hit \/ \E a \in Aborter : \E r \in Run : StartAbort(a, r)
    BY NextSplits, ZenonT(40) DEF Check, Register, Pick, Evict, Create, Push, BeginInline, Spawn, StoreHandle,
       SpawnFinisher, LogStarted, WatchStarted, WatchCompleted, WatchErrored, Work, LogTerminal,
       FinishSlot, Finisher, Subscribe, ShutdownSkip, AbortStep, AbortRow, AbortSend,
       AbortMark, Shutdown, ShutdownClear, Retain, RetainRemove, RetainOrder, vars, stops
  <2> QED
    BY <2>2, <2>3
<1>2. down = "down" => down' = "down"
  <2>1. UNCHANGED down \/ Shutdown \/ ShutdownClear
    BY NextSplits, ZenonT(40) DEF Check, Register, Pick, Evict, Create, Push, BeginInline, Spawn, StoreHandle,
       SpawnFinisher, LogStarted, WatchStarted, WatchCompleted, WatchErrored, Work, LogTerminal,
       FinishSlot, Finisher, Subscribe, ShutdownSkip, AbortStep, AbortRow, AbortSend,
       AbortMark, StartAbort, Retain, RetainRemove, RetainOrder, vars, stops
  <2> QED
    BY <2>1 DEF Shutdown, ShutdownClear
<1> QED
  BY <1>1, <1>2 DEF Spared

\* A slot keeps its channel until it is forgotten.
LEMMA KeepsChannel ==
    ASSUME TypesInv, EndedInv, [Next]_vars, NEW q \in Run, Spared(q)', Has(q), task[q] # "over"
    PROVE  slot'[q].ch = slot[q].ch
<1>map. slot \in [Run -> Slot]
  BY DEF TypesInv, MapOK
<1>spared. hit[q] = {} /\ down' # "down"
  BY SparedBefore DEF Spared
<1>1. Has(q)'
  BY <1>spared, ForgetsEnded
<1>2. CASE Shows
  BY <1>2 DEF Shows, SlotsStay
<1>3. ASSUME NEW r \in Run, Makes(r) PROVE slot'[q] = slot[q]
  <2>1. q # r
    BY <1>3 DEF Makes
  <2> QED
    BY <1>map, <1>3, <2>1 DEF Makes
<1>4. ASSUME NEW gone, Forgets(gone) PROVE slot'[q] = slot[q]
  <2>1. q \notin gone
    BY <1>1, <1>4, NewSlot DEF Forgets, Has
  <2> QED
    BY <1>4, <2>1 DEF Forgets
<1>5. \/ Shows \/ (\E r \in Run : Makes(r)) \/ (\E gone : Forgets(gone))
  BY NextSplits, MapRegister, MapOutside
<1> QED
  BY <1>2, <1>3, <1>4, <1>5

\* What the slot of a run shows is changed by its own calls only.
LEMMA KeepsPhase ==
    ASSUME TypesInv, [Next]_vars, NEW q \in Run, hit[q] = {},
           ~Check(q), ~Register(q), ~Subscribe(q)
    PROVE  slot'[q] = slot[q] \/ slot'[q].ch = 0
<1>types. slot \in [Run -> Slot]
  BY DEF TypesInv, MapOK
<1>1. ASSUME NEW r \in Run, Subscribe(r) PROVE slot'[q] = slot[q]
  BY <1>types, <1>1 DEF Subscribe
<1>2. ASSUME NEW a \in Aborter, AbortSend(a) \/ AbortMark(a) PROVE slot'[q] = slot[q]
  <2>1. PICK r \in Run : r = ab[a].run /\ a \in hit[r]
    BY <1>2 DEF TypesInv, StopsOK, AbortSend, AbortMark
  <2>2. r # q
    BY <2>1
  <2> QED
    BY <1>types, <1>2, <2>1, <2>2 DEF AbortSend, AbortMark, SendPhase
<1>3. ASSUME NEW r \in Run, Check(r) \/ Register(r) PROVE slot'[q] = slot[q] \/ slot'[q].ch = 0
  <2>1. r # q
    BY <1>3
  <2>2. CASE Evict(r)
    BY <1>types, <2>2, NewSlot DEF Evict
  <2>3. CASE UNCHANGED slot
    BY <2>3
  <2>4. CASE \E x : slot' = [slot EXCEPT ![r] = x]
    BY <1>types, <2>1, <2>4
  <2>5. UNCHANGED slot \/ Evict(r) \/ \E x : slot' = [slot EXCEPT ![r] = x]
    <3>1. ASSUME NEW c, NEW p, SendPhase(r, c, p)
          PROVE  UNCHANGED slot \/ \E x : slot' = [slot EXCEPT ![r] = x]
      BY <3>1 DEF SendPhase
    <3>2. Create(r) => \E x : slot' = [slot EXCEPT ![r] = x]
      BY DEF Create
    <3>3. StoreHandle(r) \/ FinishSlot(r) => UNCHANGED slot \/ \E x : slot' = [slot EXCEPT ![r] = x]
      BY <1>types DEF StoreHandle, FinishSlot
    <3>4. BeginInline(r) \/ WatchStarted(r) \/ WatchCompleted(r) \/ WatchErrored(r) \/ Finisher(r)
             => \E c, p : SendPhase(r, c, p)
      BY DEF BeginInline, WatchStarted, WatchCompleted, WatchErrored, Finisher
    <3> QED
      BY <1>3, <3>1, <3>2, <3>3, <3>4 DEF Check, Register, Pick, Push, Spawn, SpawnFinisher, LogStarted,
         Work, LogTerminal
  <2> QED
    BY <2>2, <2>3, <2>4, <2>5
<1>4. CASE ShutdownClear \/ RetainRemove
  BY <1>4, NewSlot DEF ShutdownClear, RetainRemove
<1>5. \/ UNCHANGED slot \/ ShutdownClear \/ RetainRemove
      \/ \E r \in Run : Check(r) \/ Register(r) \/ Subscribe(r)
      \/ \E a \in Aborter : AbortSend(a) \/ AbortMark(a)
  BY NextSplits DEF ShutdownSkip, AbortStep, AbortRow, StartAbort, Shutdown, Retain, RetainOrder, vars
<1> QED
  BY <1>1, <1>2, <1>3, <1>4, <1>5

\* A step of another run, or of somebody else.
LEMMA StoryOther ==
    ASSUME TypesInv, EndedInv, StoryInv, [Next]_vars, NEW q \in Run,
           ~Check(q), ~Register(q), ~Subscribe(q)
    PROVE  Story(q)'
<1> SUFFICES ASSUME Spared(q)'
             PROVE  task'[q] # "aborted" /\ Made(q)' /\ Quiet(q)' /\ Tuned(q)' /\ Last(q)'
  BY DEF Story
<1>spared. Spared(q) /\ hit[q] = {} /\ hit'[q] = {}
  BY SparedBefore DEF Spared
<1>story. task[q] # "aborted" /\ Made(q) /\ Quiet(q) /\ Tuned(q) /\ Last(q)
  BY <1>spared DEF StoryInv, Story
<1>types. CallTypes /\ ToldOK /\ hit \in [Run -> SUBSET Aborter] /\ CallOK(q)
  BY DEF TypesInv, CallsOK, StopsOK
<1>1. reg'[q] = reg[q] /\ task'[q] = task[q] /\ outcome'[q] = outcome[q] /\ sink'[q] = sink[q] /\ fin'[q] = fin[q]
  <2>1. CASE UNCHANGED calls
    BY <2>1 DEF calls
  <2>2. ASSUME NEW r \in Run \ {q}, Check(r) \/ Register(r)
        PROVE  /\ reg'[q] = reg[q] /\ task'[q] = task[q] /\ outcome'[q] = outcome[q]
               /\ sink'[q] = sink[q] /\ fin'[q] = fin[q]
    BY <1>types, <2>2 DEF CallTypes, Check, Register, Pick, Evict, Create, Push, BeginInline, Spawn, StoreHandle,
       SpawnFinisher, LogStarted, WatchStarted, WatchCompleted, WatchErrored, Work, LogTerminal,
       FinishSlot, Finisher
  <2>3. ASSUME NEW a \in Aborter, NEW r \in Run, StartAbort(a, r)
        PROVE  UNCHANGED <<reg, outcome, sink, fin>> /\ task'[q] = task[q]
    <3>1. r # q
      BY <1>spared, <1>types, <2>3 DEF StartAbort
    <3> QED
      BY <1>types, <2>3, <3>1 DEF StartAbort, CallTypes
  <2>4. \/ UNCHANGED calls
        \/ \E r \in Run \ {q} : Check(r) \/ Register(r)
        \/ \E a \in Aborter : \E r \in Run : StartAbort(a, r)
    BY NextSplits DEF Subscribe, ShutdownSkip, AbortStep, AbortRow, AbortSend, AbortMark,
       Shutdown, ShutdownClear, Retain, RetainRemove, RetainOrder, vars
  <2> QED
    BY <2>1, <2>2, <2>3, <2>4
<1>2. told'[q] = told[q] /\ sub'[q] = sub[q]
  <2>1. ASSUME NEW r \in Run \ {q}, NEW c, NEW p, SendEnd(r, c, p)
        PROVE  told'[q] = told[q]
    BY <1>types, <2>1 DEF SendEnd, ToldOK
  <2>2. ASSUME NEW a \in Aborter, AbortSend(a) PROVE told'[q] = told[q] /\ UNCHANGED sub
    <3>1. PICK r \in Run : r = ab[a].run /\ a \in hit[r]
      BY <2>2 DEF TypesInv, StopsOK, AbortSend
    <3>2. r # q
      BY <1>spared, <3>1
    <3> QED
      BY <2>1, <2>2, <3>1, <3>2 DEF AbortSend
  <2>3. ASSUME NEW r \in Run \ {q}, Subscribe(r) PROVE told'[q] = told[q] /\ sub'[q] = sub[q]
    BY <1>types, <2>3 DEF Subscribe, ToldOK
  <2>4. ASSUME NEW r \in Run \ {q}, FinishSlot(r) \/ Finisher(r) \/ WatchCompleted(r) \/ WatchErrored(r)
        PROVE  told'[q] = told[q] /\ UNCHANGED sub
    BY <2>1, <2>4 DEF FinishSlot, Finisher, WatchCompleted, WatchErrored
  <2>5. \/ \E r \in Run \ {q} : Subscribe(r) \/ FinishSlot(r) \/ Finisher(r) \/ WatchCompleted(r)
                                 \/ WatchErrored(r)
        \/ \E a \in Aborter : AbortSend(a)
        \/ UNCHANGED <<sub, told>>
    BY NextSplits, ZenonT(40) DEF Check, Register, Pick, Evict, Create, Push, BeginInline, Spawn, StoreHandle,
       SpawnFinisher, LogStarted, WatchStarted, Work, LogTerminal, ShutdownSkip, AbortStep, AbortRow,
       AbortMark, StartAbort, Shutdown, ShutdownClear, Retain, RetainRemove, RetainOrder, vars, events
  <2> QED
    BY <2>2, <2>3, <2>4, <2>5
<1>3. task[q] # "over" /\ Has(q) => slot'[q].ch = slot[q].ch
  BY KeepsChannel
<1>4. slot'[q] = slot[q] \/ slot'[q].ch = 0
  BY <1>spared, KeepsPhase
<1>5. Made(q)' /\ Quiet(q)' /\ Last(q)'
  BY <1>story, <1>1, <1>2, <1>3, <1>4 DEF Made, Quiet, Last, Has
<1>6. Tuned(q)'
  <2>1. task[q] \in Under => task[q] # "over" /\ Has(q)
    BY <1>story, <1>types DEF CallOK, Made, Under
  <2> QED
    BY <1>story, <1>1, <1>2, <1>3, <2>1 DEF Tuned
<1> QED
  BY <1>1, <1>story, <1>5, <1>6

\* A subscriber who has heard of an end does not subscribe again.
LEMMA StorySubscribes ==
    ASSUME TypesInv, EndedInv, StoryInv, [Next]_vars, NEW q \in Run, Subscribe(q)
    PROVE  Story(q)'
<1> SUFFICES ASSUME Spared(q)'
             PROVE  task'[q] # "aborted" /\ Made(q)' /\ Quiet(q)' /\ Tuned(q)' /\ Last(q)'
  BY DEF Story
<1>spared. Spared(q)
  BY SparedBefore
<1>story. task[q] # "aborted" /\ Made(q) /\ Quiet(q) /\ Tuned(q) /\ Last(q)
  BY <1>spared DEF StoryInv, Story
<1>call. CallOK(q)
  BY DEF TypesInv, CallsOK
<1>1. UNCHANGED <<reg, task, outcome, sink, fin, told>> /\ sub[q] = 0
  BY DEF Subscribe, calls
<1>2. task[q] # "over" /\ Has(q) => slot'[q].ch = slot[q].ch
  BY KeepsChannel
<1>3. task[q] \in Under => task[q] # "over" /\ Has(q)
  BY <1>story, <1>call DEF CallOK, Made, Under
<1>4. task[q] \in Under \cup {"over"} => told[q] = "none"
  BY <1>story, <1>1, <1>3 DEF Tuned, Last, Has
<1> QED
  BY <1>story, <1>1, <1>2, <1>3, <1>4 DEF Made, Quiet, Tuned, Last, Has

\* Until its slot is made, a run has no work.
LEMMA StoryMakes ==
    ASSUME TypesInv, EndedInv, StoryInv, [Next]_vars, NEW q \in Run, Spared(q)',
           Check(q) \/ Pick(q) \/ Evict(q) \/ Create(q) \/ Push(q)
    PROVE  Story(q)'
<1>story. Made(q) /\ Quiet(q)
  BY SparedBefore DEF StoryInv, Story
<1>types. CallTypes /\ CallOK(q)
  BY DEF TypesInv, CallsOK
<1>1. task[q] = "none"
  <2>1. reg[q] \in {"new", "full", "evict", "create", "push"}
    BY DEF Check, Pick, Evict, Create, Push
  <2> QED
    BY <2>1, <1>types DEF CallOK
<1>2. UNCHANGED <<task, outcome, sink, fin, told, sub>>
  BY DEF Check, Pick, Evict, Create, Push, events
<1>3. Made(q)'
  <2>1. ASSUME Check(q) \/ Pick(q) \/ Evict(q)
        PROVE  reg'[q] \notin {"push", "ready", "store", "watch", "returned"}
    BY <1>types, <2>1 DEF Check, Pick, Evict, CallTypes
  <2>2. CASE Create(q)
    <3>1. CASE Has(q)
      BY <1>1, <3>1, KeepsChannel DEF Made, Has
    <3>2. CASE ~Has(q)
      <4> DEFINE x == [None EXCEPT !.ch = chans[q] + 1]
      <4>1. chans[q] + 1 \in 0..MaxChannels + 1 /\ chans[q] + 1 # 0
        BY <2>2, RegistryAssumption DEF Create, TypesInv, MapOK, Room
      <4>2. x.ch # 0
        BY <4>1, NewSlot
      <4>3. slot' = [slot EXCEPT ![q] = x] /\ slot \in [Run -> Slot]
        BY <2>2, <3>2 DEF Create, TypesInv, MapOK
      <4> HIDE DEF x
      <4> QED
        BY <4>2, <4>3 DEF Made, Has
    <3> QED
      BY <3>1, <3>2
  <2>3. CASE Push(q)
    <3>1. Has(q)
      BY <1>story, <1>1, <2>3 DEF Push, Made
    <3> QED
      BY <1>1, <3>1, KeepsChannel DEF Made, Has
  <2> QED
    BY <2>1, <2>2, <2>3 DEF Made
<1>4. Quiet(q)' /\ Tuned(q)' /\ Last(q)' /\ task'[q] # "aborted"
  BY <1>story, <1>1, <1>2 DEF Quiet, Tuned, Last, Under
<1> QED
  BY <1>3, <1>4 DEF Story

\* The steps of a run under way that tell nobody.
LEMMA StoryGoesOn ==
    ASSUME TypesInv, EndedInv, StoryInv, [Next]_vars, NEW q \in Run, Spared(q)',
           \/ BeginInline(q) \/ Spawn(q) \/ StoreHandle(q) \/ SpawnFinisher(q)
           \/ LogStarted(q) \/ WatchStarted(q) \/ Work(q) \/ LogTerminal(q)
    PROVE  Story(q)'
<1>story. task[q] # "aborted" /\ Made(q) /\ Quiet(q) /\ Tuned(q) /\ Last(q)
  BY SparedBefore DEF StoryInv, Story
<1>types. CallTypes /\ CallOK(q)
  BY DEF TypesInv, CallsOK
<1>1. told'[q] = told[q] /\ sub'[q] = sub[q]
  BY DEF BeginInline, Spawn, StoreHandle, SpawnFinisher, LogStarted, WatchStarted, Work, LogTerminal, events
<1>reg. reg[q] \in {"ready", "store", "watch", "returned"}
  <2>1. Work(q) \/ LogStarted(q) \/ WatchStarted(q) \/ LogTerminal(q) => task[q] # "none"
    BY DEF LogStarted, WatchStarted, Work, LogTerminal
  <2> QED
    BY <2>1, <1>types DEF BeginInline, Spawn, StoreHandle, SpawnFinisher, CallOK
<1>over. CASE task[q] = "over"
  <2>1. StoreHandle(q) \/ SpawnFinisher(q)
    BY <1>over, <1>types DEF BeginInline, Spawn, LogStarted, WatchStarted, Work, LogTerminal, CallOK
  <2>2. UNCHANGED <<task, outcome>>
    BY <2>1 DEF StoreHandle, SpawnFinisher
  <2>3. slot'[q].ch = slot[q].ch /\ slot'[q].phase = slot[q].phase
    <3>1. slot \in [Run -> Slot]
      BY DEF TypesInv, MapOK
    <3>2. [slot[q] EXCEPT !.handle = TRUE].ch = slot[q].ch /\ [slot[q] EXCEPT !.handle = TRUE].phase = slot[q].phase
      BY <3>1 DEF Slot
    <3>3. UNCHANGED slot \/ slot' = [slot EXCEPT ![q] = [slot[q] EXCEPT !.handle = TRUE]]
      BY <2>1, <3>1 DEF StoreHandle, SpawnFinisher
    <3> QED
      BY <3>1, <3>2, <3>3
  <2> QED
    BY <1>over, <1>story, <1>1, <2>2, <2>3 DEF Story, Made, Quiet, Tuned, Last, Under
<1>under. CASE task[q] # "over"
  <2>1. Has(q) /\ slot'[q].ch = slot[q].ch
    BY <1>under, <1>story, <1>reg, KeepsChannel DEF Made
  <2>2. Made(q)'
    BY <2>1 DEF Made, Has
  <2>3. task'[q] \in Under \cup {"none"}
    <3>1. task[q] \in Under \cup {"none"}
      BY <1>under, <1>story, <1>types DEF CallTypes, Under
    <3> QED
      BY <3>1, <1>types DEF BeginInline, Spawn, StoreHandle, SpawnFinisher, LogStarted, WatchStarted, Work,
         LogTerminal, CallTypes, Under
  <2>4. sink'[q] = sink[q] \/ sink'[q] = slot[q].ch
    BY <1>types DEF BeginInline, Spawn, StoreHandle, SpawnFinisher, LogStarted, WatchStarted, Work,
       LogTerminal, CallTypes
  <2>5. task'[q] = "none" => sink'[q] = sink[q] /\ task[q] = "none"
    BY <1>types DEF BeginInline, Spawn, StoreHandle, SpawnFinisher, LogStarted, WatchStarted, Work,
       LogTerminal, CallTypes
  <2>6. reg'[q] = "returned" => fin'[q] = slot[q].ch \/ (fin'[q] = fin[q] /\ reg[q] = "returned")
    <3>1. CASE SpawnFinisher(q)
      BY <3>1, <1>types DEF SpawnFinisher, CallTypes
    <3>2. CASE Spawn(q) \/ StoreHandle(q)
      BY <3>2, <1>types DEF Spawn, StoreHandle, CallTypes
    <3>3. CASE BeginInline(q) \/ LogStarted(q) \/ WatchStarted(q) \/ Work(q) \/ LogTerminal(q)
      BY <3>3 DEF BeginInline, LogStarted, WatchStarted, Work, LogTerminal
    <3> QED
      BY <3>1, <3>2, <3>3
  <2>7. task[q] = "none" => reg[q] # "returned" \/ q \notin Background \/ SpawnFinisher(q)
    BY <1>types, <1>reg DEF BeginInline, Spawn, StoreHandle, SpawnFinisher, LogStarted, WatchStarted, Work,
       LogTerminal, CallTypes
  <2>8. sink[q] = 0 \/ sink[q] = slot[q].ch
    BY <1>under, <1>story, <1>types DEF Quiet, Tuned, Under, CallTypes
  <2>9. told[q] # "none" => sub[q] = slot[q].ch
    BY <1>under, <1>story, <1>types DEF Quiet, Tuned, Under, CallTypes
  <2>10. q \in Background /\ reg'[q] = "returned" => fin'[q] = slot[q].ch
    <3>1. CASE task[q] \in Under
      BY <3>1, <1>story, <2>6 DEF Tuned
    <3>2. CASE task[q] = "none"
      BY <3>2, <1>types, <2>6, <2>7 DEF SpawnFinisher, CallTypes
    <3> QED
      BY <3>1, <3>2, <1>under, <1>story, <1>types DEF Under, CallTypes
  <2>11. Quiet(q)'
    BY <1>story, <1>1, <2>5 DEF Quiet
  <2>12. Tuned(q)'
    BY <1>1, <2>1, <2>4, <2>8, <2>9, <2>10 DEF Tuned
  <2>13. task'[q] # "aborted" /\ Last(q)'
    BY <2>3 DEF Last, Under
  <2> QED
    BY <2>2, <2>11, <2>12, <2>13 DEF Story
<1> QED
  BY <1>over, <1>under

\* A watcher speaks while its run is under way, to the channel of its slot.
LEMMA StoryWatches ==
    ASSUME TypesInv, EndedInv, StoryInv, [Next]_vars, NEW q \in Run, Spared(q)',
           WatchCompleted(q) \/ WatchErrored(q)
    PROVE  Story(q)'
<1>story. Made(q) /\ Quiet(q) /\ Tuned(q) /\ Last(q)
  BY SparedBefore DEF StoryInv, Story
<1>types. CallTypes /\ CallOK(q) /\ ToldOK
  BY DEF TypesInv, CallsOK
<1>1. task[q] = "executing" /\ task'[q] = "reported"
  BY <1>types DEF WatchCompleted, WatchErrored, CallTypes
<1>2. UNCHANGED <<reg, sink, fin, sub>>
  BY DEF WatchCompleted, WatchErrored
<1>3. Has(q) /\ slot'[q].ch = slot[q].ch
  BY <1>1, <1>story, <1>types, KeepsChannel DEF Made, CallOK
<1>4. PICK p \in Over : SendEnd(q, sink[q], p)
  BY DEF WatchCompleted, WatchErrored, Over
<1>5. told'[q] = IF sub[q] = sink[q] /\ sink[q] # 0 THEN p ELSE told[q]
  BY <1>4, <1>types, SendEndTells DEF ToldOK
<1>6. Tuned(q)'
  BY <1>1, <1>2, <1>3, <1>5, <1>story DEF Tuned, Under
<1> QED
  BY <1>1, <1>3, <1>6 DEF Story, Made, Has, Quiet, Last

\* The registry and the finisher have the last word.
LEMMA StoryEnds ==
    ASSUME TypesInv, EndedInv, StoryInv, [Next]_vars, NEW q \in Run, Spared(q)',
           FinishSlot(q) \/ Finisher(q)
    PROVE  Story(q)'
<1>story. task[q] # "aborted" /\ Made(q) /\ Tuned(q)
  BY SparedBefore DEF StoryInv, Story
<1>types. CallTypes /\ CallOK(q) /\ ToldOK
  BY DEF TypesInv, CallsOK
<1>slot. slot \in [Run -> Slot]
  BY DEF TypesInv, MapOK
<1>1. task[q] = "end" /\ task'[q] = "over" /\ outcome[q] \in Over /\ UNCHANGED <<outcome, sub>>
  BY <1>story, <1>types DEF FinishSlot, Finisher, CallTypes, CallOK
<1>2. Has(q)
  BY <1>1, <1>story, <1>types DEF Made, CallOK
<1>3. SendEnd(q, slot[q].ch, outcome[q])
  BY <1>1, <1>story DEF FinishSlot, Finisher, Tuned, Under
<1>4. told'[q] = IF sub[q] = slot[q].ch THEN outcome[q] ELSE told[q]
  BY <1>1, <1>2, <1>3, <1>types, SendEndTells DEF ToldOK, Has
<1>5. told'[q] # "none" => sub[q] = slot[q].ch
  BY <1>1, <1>4, <1>story DEF Tuned, Under
<1>6. slot'[q].phase = outcome[q]
  <2>1. outcome[q] \in Phase
    BY <1>1 DEF Over, Phase
  <2>2. CASE FinishSlot(q)
    <3> DEFINE x == [slot[q] EXCEPT !.finished = TRUE, !.phase = outcome[q]]
    <3>1. slot' = [slot EXCEPT ![q] = x]
      BY <2>2, <1>2, <1>slot DEF FinishSlot
    <3>2. x.phase = outcome[q]
      BY <1>slot DEF Slot
    <3> HIDE DEF x
    <3> QED
      BY <1>slot, <3>1, <3>2
  <2>3. CASE Finisher(q)
    <3> DEFINE x == [slot[q] EXCEPT !.phase = outcome[q]]
    <3>1. SendPhase(q, slot[q].ch, outcome[q])
      BY <2>3, <1>1, <1>story DEF Finisher, Tuned, Under
    <3>2. slot' = [slot EXCEPT ![q] = x]
      BY <3>1, <1>2, <1>slot DEF SendPhase, Has
    <3>3. x.phase = outcome[q]
      BY <1>slot DEF Slot
    <3> HIDE DEF x
    <3> QED
      BY <1>slot, <3>2, <3>3
  <2> QED
    BY <2>2, <2>3
<1>7. Last(q)'
  BY <1>1, <1>2, <1>4, <1>5, <1>6 DEF Last, Has
<1> QED
  BY <1>1, <1>7 DEF Story, Made, Quiet, Tuned, Under

LEMMA StoryNext == TypesInv /\ EndedInv /\ StoryInv /\ [Next]_vars => StoryInv'
<1> SUFFICES ASSUME TypesInv, EndedInv, StoryInv, [Next]_vars, NEW q \in Run, Spared(q)'
             PROVE  Story(q)'
  BY DEF StoryInv, Story
<1> QED
  BY StoryOther, StorySubscribes, StoryMakes, StoryGoesOn, StoryWatches, StoryEnds DEF Register

\* A subscriber who heard of an end of a run that nobody aborts has in the end
\* heard how its work returned, and the slot shows the same (LastWord: the
\* ScopedRunWatcher, finish_slot and the finisher task each took the channel at a
\* time of their own, while ensure_capacity and run_retention forget slots).
THEOREM LastWordIsTheOutcome == Spec => []LastWord
<1>1. TypesInv /\ StoryInv => LastWord
  <2> SUFFICES ASSUME StoryInv, NEW r \in Run, Spared(r), task[r] = "over", told[r] # "none"
               PROVE  told[r] = outcome[r] /\ (slot[r].ch = sub[r] => slot[r].phase = outcome[r])
    BY DEF LastWord, Spared
  <2> QED
    BY DEF StoryInv, Story, Last
<1>2. Spec => []TypesInv
  BY TypesInvariant
<1>3. Spec => []EndedInv
  BY <1>2, EndedInit, EndedNext, PTL DEF Spec
<1>4. Spec => []StoryInv
  BY <1>2, <1>3, StoryInit, StoryNext, PTL DEF Spec
<1> QED
  BY <1>1, <1>2, <1>4, PTL

=============================================================================
