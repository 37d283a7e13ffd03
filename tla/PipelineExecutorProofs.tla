----------------------- MODULE PipelineExecutorProofs ------------------------
(***************************************************************************)
(* Proofs about PipelineExecutor, for any pipelines, items, batch sizes,   *)
(* attempts and concurrency: the variables keep their types, a COMPLETED   *)
(* row stands for all the work, an item marked as completed has nothing    *)
(* left to do, a cancellation stops the work at the next boundary, and a   *)
(* failure stops the run after its chunk.                                  *)
(***************************************************************************)
EXTENDS PipelineExecutor, SequenceTheorems, TLAPS

(* The values in the frames of an item *)

\* A frame of execute_from or of a call holds one value, any other its batch.
Weight(f) == IF f.at \in {"exec", "acquire", "call", "retry"} THEN 1 ELSE f.n

\* The frames of s hold m values between them: h counts those of the first n.
Holds(s, m) ==
    \E h \in [0..Len(s) -> Nat] :
        /\ h[0] = 0 /\ h[Len(s)] = m
        /\ \A n \in 1..Len(s) : h[n] = h[n - 1] + Weight(s[n])

LEMMA WeightType == \A f \in Frame : Weight(f) \in Nat
  BY DEF Weight, Frame

LEMMA HoldsNothing ==
    /\ Holds(<<>>, 0)
    /\ \A m : Holds(<<>>, m) => m = 0
<1>1. Len(<<>>) = 0
  OBVIOUS
<1>2. Holds(<<>>, 0)
  <2> DEFINE h == [n \in 0..Len(<<>>) |-> 0]
  <2>1. h \in [0..Len(<<>>) -> Nat] /\ h[0] = 0 /\ h[Len(<<>>)] = 0
    BY <1>1
  <2>2. \A n \in 1..Len(<<>>) : h[n] = h[n - 1] + Weight(<<>>[n])
    BY <1>1
  <2> HIDE DEF h
  <2> QED
    BY <2>1, <2>2 DEF Holds
<1> QED
  BY <1>1, <1>2 DEF Holds

\* The innermost frame gives up its values, and a new one brings its own.
LEMMA HoldsPop ==
    ASSUME NEW s \in Seq(Frame), s # <<>>, NEW m \in Nat, Holds(s, m)
    PROVE  /\ m - Weight(s[Len(s)]) \in Nat
           /\ Holds(SubSeq(s, 1, Len(s) - 1), m - Weight(s[Len(s)]))
<1> DEFINE L == Len(s)
           t == SubSeq(s, 1, L - 1)
<1>1. L \in Nat /\ L >= 1 /\ L - 1 \in Nat
  OBVIOUS
<1>2. t \in Seq(Frame) /\ Len(t) = L - 1 /\ \A n \in 1..L - 1 : t[n] = s[n]
  <2>1. 1 \in Int /\ L - 1 \in Int /\ \A n \in 1..L - 1 : s[n] \in Frame
    BY <1>1
  <2> HIDE DEF L
  <2>2. t \in Seq(Frame) /\ Len(t) = (IF 1 <= L - 1 THEN L - 1 - 1 + 1 ELSE 0)
        /\ \A n \in 1..L - 1 - 1 + 1 : t[n] = s[1 + n - 1]
    BY <2>1, SubSeqProperties
  <2> HIDE DEF t
  <2>3. L \in Nat /\ L >= 1
    BY <1>1 DEF L
  <2>4. Len(t) = L - 1
    BY <2>2, <2>3
  <2>5. \A n \in 1..L - 1 : n \in 1..L - 1 - 1 + 1 /\ 1 + n - 1 = n
    BY <2>3
  <2>6. \A n \in 1..L - 1 : t[n] = s[n]
    BY <2>2, <2>5
  <2> QED
    BY <2>2, <2>4, <2>6
<1>3. PICK h \in [0..L -> Nat] : /\ h[0] = 0 /\ h[L] = m
                                 /\ \A n \in 1..L : h[n] = h[n - 1] + Weight(s[n])
  BY DEF Holds
<1>4. Weight(s[L]) \in Nat
  BY <1>1, WeightType
<1> HIDE DEF L, t
<1>5. h[L - 1] = m - Weight(s[L]) /\ h[L - 1] \in Nat
  BY <1>1, <1>3, <1>4
<1> DEFINE g == [n \in 0..L - 1 |-> h[n]]
<1>6. g \in [0..L - 1 -> Nat] /\ g[0] = 0 /\ g[L - 1] = m - Weight(s[L])
  BY <1>1, <1>3, <1>5
<1>7. \A n \in 1..L - 1 : g[n] = g[n - 1] + Weight(t[n])
  BY <1>1, <1>2, <1>3
<1> HIDE DEF g
<1>8. Holds(t, m - Weight(s[L]))
  BY <1>2, <1>6, <1>7 DEF Holds
<1> QED
  BY <1>5, <1>8 DEF L, t

LEMMA HoldsPush ==
    ASSUME NEW s \in Seq(Frame), NEW m \in Nat, Holds(s, m), NEW f \in Frame
    PROVE  /\ m + Weight(f) \in Nat
           /\ Holds(Append(s, f), m + Weight(f))
<1> DEFINE L == Len(s)
           t == Append(s, f)
<1>1. L \in Nat /\ L + 1 \in Nat /\ L + 1 # 0
  OBVIOUS
<1>2. t \in Seq(Frame) /\ Len(t) = L + 1 /\ t[L + 1] = f /\ \A n \in 1..L : t[n] = s[n]
  BY <1>1
<1>3. PICK h \in [0..L -> Nat] : /\ h[0] = 0 /\ h[L] = m
                                 /\ \A n \in 1..L : h[n] = h[n - 1] + Weight(s[n])
  BY DEF Holds
<1>4. Weight(f) \in Nat
  BY WeightType
<1> HIDE DEF L, t
<1> DEFINE g == [n \in 0..L + 1 |-> IF n = L + 1 THEN m + Weight(f) ELSE h[n]]
<1>6. g \in [0..L + 1 -> Nat] /\ g[0] = 0 /\ g[L + 1] = m + Weight(f)
  BY <1>1, <1>3, <1>4
<1>7. \A n \in 1..L + 1 : g[n] = g[n - 1] + Weight(t[n])
  BY <1>1, <1>2, <1>3, <1>4
<1> HIDE DEF g
<1>8. Holds(t, m + Weight(f))
  BY <1>2, <1>6, <1>7 DEF Holds
<1> QED
  BY <1>4, <1>8 DEF L, t

\* Frames are put on one or two at a time.
LEMMA Concats ==
    ASSUME NEW s \in Seq(Frame), NEW f \in Frame, NEW g \in Frame
    PROVE  /\ s \o <<>> = s
           /\ s \o <<f>> = Append(s, f)
           /\ s \o <<f, g>> = Append(Append(s, f), g)
           /\ <<>> \o <<f>> = <<f>>
           /\ <<f>> \o <<g>> = <<f, g>>
<1>1. s \o <<>> = s
  BY ConcatEmptySeq
<1>2. s \o <<f>> = Append(s, f)
  OBVIOUS
<1>3. <<>> \o <<f>> = <<f>>
  BY ConcatEmptySeq
<1>4. <<f>> \o <<g>> = <<f, g>>
  <2>1. <<f>> \in Seq(Frame) /\ <<g>> \in Seq(Frame) /\ <<f, g>> \in Seq(Frame)
    OBVIOUS
  <2>2. Len(<<f>>) = 1 /\ Len(<<g>>) = 1 /\ Len(<<f, g>>) = 2
    OBVIOUS
  <2>3. <<f>>[1] = f /\ <<g>>[1] = g /\ <<f, g>>[1] = f /\ <<f, g>>[2] = g
    OBVIOUS
  <2> DEFINE t == <<f>> \o <<g>>
             u == <<f, g>>
             x == <<f>>
             y == <<g>>
  <2>4. t \in Seq(Frame) /\ Len(t) = Len(x) + Len(y)
        /\ \A i \in 1..Len(x) + Len(y) : t[i] = IF i <= Len(x) THEN x[i] ELSE y[i - Len(x)]
    BY <2>1, ConcatProperties
  <2>5. u \in Seq(Frame) /\ Len(u) = 2 /\ u[1] = f /\ u[2] = g
    BY <2>1, <2>2, <2>3
  <2>6. Len(x) = 1 /\ Len(y) = 1 /\ x[1] = f /\ y[1] = g
    BY <2>2, <2>3
  <2> HIDE DEF t, u, x, y
  <2>7. t[1] = f /\ t[2] = g /\ Len(t) = 2
    BY <2>4, <2>6
  <2>8. \A i \in 1..Len(t) : t[i] = u[i]
    BY <2>5, <2>7
  <2>9. t = u
    BY <2>4, <2>5, <2>7, <2>8, SeqEqual
  <2> QED
    BY <2>9 DEF t, u
<1>5. s \o <<f, g>> = Append(Append(s, f), g)
  <2>1. <<f>> \in Seq(Frame) /\ <<g>> \in Seq(Frame) /\ Append(s, f) \in Seq(Frame)
    OBVIOUS
  <2>2. (s \o <<f>>) \o <<g>> = s \o (<<f>> \o <<g>>)
    BY <2>1, ConcatAssociative
  <2>3. Append(s, f) \o <<g>> = Append(Append(s, f), g)
    BY <2>1
  <2> QED
    BY <1>2, <1>4, <2>2, <2>3
<1> QED
  BY <1>1, <1>2, <1>3, <1>4, <1>5

-----------------------------------------------------------------------------
(* The frames of an item *)

Producer == {"iter", "stream", "each"}

\* A frame feeds or calls a task of the pipeline; a batch task is never entered
\* or called as one that takes a single value; and attempts are counted.
FrameOK(f) ==
    /\ f.k >= 1
    /\ f.at \in {"acquire", "call", "retry", "admit", "batch", "each"} => f.k <= Len(tasks)
    /\ (f.at \in {"exec", "acquire", "call", "retry", "each"} /\ f.k <= Len(tasks)) => ~tasks[f.k].batch
    /\ f.at \in {"acquire", "call"} => f.n \in 1..MaxAttempts
    /\ f.at = "retry" => f.n \in 1..MaxAttempts - 1

\* Only a producer has frames above its own: what it feeds returns to it.
Open(s) == s \in Seq(Frame) /\ \A n \in 1..Len(s) : FrameOK(s[n]) /\ s[n].at \in Producer

Good(s) ==
    /\ s \in Seq(Frame)
    /\ \A n \in 1..Len(s) : FrameOK(s[n])
    /\ \A n \in 1..Len(s) - 1 : s[n].at \in Producer

\* Of the calls that started after the cancellation, all but the current one were
\* attempts before it.
LateOK(f, l) ==
    /\ f.at = "acquire" => l < f.n
    /\ f.at \in {"call", "retry"} => l <= f.n

LateTop(s, l) == s # <<>> => LateOK(s[Len(s)], l)

LEMMA PopFrame ==
    ASSUME NEW s, Good(s), s # <<>>
    PROVE  Open(SubSeq(s, 1, Len(s) - 1)) /\ s[Len(s)] \in Frame /\ FrameOK(s[Len(s)])
<1> DEFINE L == Len(s)
           t == SubSeq(s, 1, L - 1)
<1>0. s \in Seq(Frame)
  BY DEF Good
<1>1. L \in Nat /\ L >= 1 /\ L \in 1..L
  BY <1>0
<1>2. \A n \in 1..L - 1 : s[n] \in Frame
  BY <1>0, <1>1
<1>3. t \in Seq(Frame) /\ Len(t) = (IF 1 <= L - 1 THEN L - 1 - 1 + 1 ELSE 0)
      /\ \A n \in 1..L - 1 - 1 + 1 : t[n] = s[1 + n - 1]
  BY <1>1, <1>2, SubSeqProperties
<1>4. s[L] \in Frame
  BY <1>0, <1>1
<1> HIDE DEF t, L
<1>5. Len(t) = L - 1
  BY <1>1, <1>3
<1>8. \A n \in 1..L - 1 : n \in 1..L /\ n \in 1..L - 1 - 1 + 1 /\ 1 + n - 1 = n
  BY <1>1
<1>6. \A n \in 1..Len(t) : t[n] = s[n] /\ n \in 1..L
  BY <1>3, <1>5, <1>8
<1>7. Open(t)
  BY <1>3, <1>5, <1>6 DEF Open, Good, L
<1> QED
  BY <1>1, <1>4, <1>7 DEF t, L, Good

LEMMA PushFrame ==
    ASSUME NEW s, Open(s), NEW f \in Frame, FrameOK(f)
    PROVE  /\ Good(Append(s, f)) /\ Append(s, f) # <<>>
           /\ Append(s, f)[Len(Append(s, f))] = f
           /\ f.at \in Producer => Open(Append(s, f))
<1> DEFINE t == Append(s, f)
<1>0. s \in Seq(Frame) /\ Len(s) \in Nat
  BY DEF Open
<1>1. t \in Seq(Frame) /\ Len(t) = Len(s) + 1 /\ t[Len(s) + 1] = f /\ \A n \in 1..Len(s) : t[n] = s[n]
  BY <1>0
<1>2. t # <<>>
  BY <1>0
<1> HIDE DEF t
<1>3. \A n \in 1..Len(t) : n = Len(s) + 1 \/ n \in 1..Len(s)
  BY <1>0, <1>1
<1>4. \A n \in 1..Len(t) - 1 : n \in 1..Len(s)
  BY <1>0, <1>1
<1>5. Good(t)
  BY <1>1, <1>3, <1>4 DEF Open, Good
<1>6. f.at \in Producer => Open(t)
  BY <1>1, <1>3 DEF Open
<1> QED
  BY <1>1, <1>2, <1>5, <1>6 DEF t

LEMMA OpenIsGood ==
    ASSUME NEW s, Open(s), NEW l
    PROVE  Good(s) /\ LateTop(s, l)
<1>1. s \in Seq(Frame) /\ Len(s) \in Nat /\ (s # <<>> => Len(s) \in 1..Len(s))
  BY DEF Open
<1>2. \A n \in 1..Len(s) - 1 : n \in 1..Len(s)
  BY <1>1
<1> QED
  BY <1>1, <1>2 DEF Open, Good, LateTop, LateOK, Producer

LEMMA NoFrames == Good(<<>>)
<1>1. <<>> \in Seq(Frame) /\ Len(<<>>) = 0
  OBVIOUS
<1> QED
  BY <1>1 DEF Good

\* The pipeline does not change, so neither does what is asked of the frames.
LEMMA GoodKept ==
    ASSUME UNCHANGED tasks
    PROVE  \A s : Good(s) => Good(s)'
  BY DEF Good, FrameOK

-----------------------------------------------------------------------------
(* What holds of each item *)

\* The values owed are those in the frames while the item runs, and none are left
\* when it has gone through.
Values(i) ==
    /\ res[i] = "run" => Holds(stack[i], owed[i])
    /\ res[i] = "ok" => owed[i] = 0

Late(i) ==
    /\ late[i] <= MaxAttempts
    /\ ~cancelled => late[i] = 0
    /\ LateTop(stack[i], late[i])

ItemOK(i) ==
    /\ Good(stack[i])
    /\ res[i] # "run" => stack[i] = <<>>
    /\ Values(i) /\ Late(i)

ItemTypes ==
    /\ stack \in [Item -> Seq(Frame)]
    /\ res \in [Item -> {"wait", "run", "ok", "failed", "cancelled"}]
    /\ status \in [Item -> {"none", "completed", "failed"}]
    /\ owed \in [Item -> Nat] /\ late \in [Item -> Nat] /\ lateBatch \in BOOLEAN

ItemsInv == ItemTypes /\ (\A i \in Item : ItemOK(i)) /\ ~lateBatch

PipeTypes ==
    /\ tasks \in Pipelines /\ conc \in Concurrencies /\ dedup \in BOOLEAN
    /\ pc \in {"new", "started", "items", "record", "failed", "done", "aborted"}
    /\ base \in 0..Items
    /\ rows \in Seq({"STARTED", "COMPLETED", "ERRORED"})
    /\ result \in {"none", "ok", "failed", "cancelled", "invalid", "unrecorded"}
    /\ cancelled \in BOOLEAN /\ tokens \in 0..Capacity

LEMMA TaskFacts ==
    ASSUME tasks \in Pipelines
    PROVE  /\ tasks \in Seq(TaskInfo) /\ Len(tasks) \in Nat /\ Len(tasks) >= 1
           /\ \A k \in 1..Len(tasks) : /\ tasks[k] \in TaskInfo
                                       /\ tasks[k].batch => k > 1 /\ tasks[k - 1].kind # "single"
           /\ ~tasks[1].batch
<1>1. tasks \in Seq(TaskInfo) /\ tasks # <<>>
  BY ExecutorAssumption
<1>2. DOMAIN tasks = 1..Len(tasks) /\ Len(tasks) \in Nat /\ Len(tasks) >= 1
  BY <1>1
<1>3. \A k \in 1..Len(tasks) : tasks[k].batch => k > 1 /\ tasks[k - 1].kind # "single"
  BY <1>2, ExecutorAssumption
<1>4. 1 \in 1..Len(tasks)
  BY <1>2
<1>5. \A k \in 1..Len(tasks) : tasks[k] \in TaskInfo
  BY <1>1
<1> QED
  BY <1>1, <1>2, <1>3, <1>4, <1>5

\* A step of item i leaves the others alone.
Around(i) ==
    /\ UNCHANGED <<tasks, cancelled>>
    /\ \A j \in Item \ {i} : /\ stack'[j] = stack[j] /\ res'[j] = res[j]
                             /\ owed'[j] = owed[j] /\ late'[j] = late[j]

LEMMA OthersOK ==
    ASSUME ItemsInv, NEW i \in Item, Around(i)
    PROVE  \A j \in Item \ {i} : ItemOK(j)'
<1> TAKE j \in Item \ {i}
<1>1. ItemOK(j) /\ j \in Item
  BY DEF ItemsInv
<1>2. stack'[j] = stack[j] /\ res'[j] = res[j] /\ owed'[j] = owed[j] /\ late'[j] = late[j]
      /\ UNCHANGED <<tasks, cancelled>>
  BY DEF Around
<1>3. Good(stack[j])'
  BY <1>1, <1>2, GoodKept DEF ItemOK
<1>4. Values(j)'
  BY <1>1, <1>2 DEF ItemOK, Values
<1>5. Late(j)'
  BY <1>1, <1>2 DEF ItemOK, Late
<1> QED
  BY <1>1, <1>2, <1>3, <1>4, <1>5 DEF ItemOK

-----------------------------------------------------------------------------
(* The steps of an item on its frames *)

\* The calls counted in the step go with the innermost frame f.
LateCall(i, f) ==
    /\ late' \in [Item -> Nat]
    /\ \A j \in Item \ {i} : late'[j] = late[j]
    /\ late'[i] <= MaxAttempts
    /\ ~cancelled => late'[i] = 0
    /\ LateOK(f, late'[i])
    /\ UNCHANGED lateBatch

LEMMA QuietCall ==
    ASSUME ItemsInv, NEW i \in Item, Quiet, NEW f, f.at \notin {"acquire", "call", "retry"}
    PROVE  LateCall(i, f)
  BY DEF ItemsInv, ItemTypes, ItemOK, Late, Quiet, LateCall, LateOK

\* The frames of item i become s, which hold m values.
LEMMA Turned ==
    ASSUME ItemsInv, NEW i \in Item, res[i] = "run",
           NEW s, NEW m \in Nat, NEW f, Good(s), Holds(s, m), LateCall(i, f), LateTop(s, late'[i]),
           stack' = [stack EXCEPT ![i] = s], owed' = [owed EXCEPT ![i] = m],
           UNCHANGED <<res, status, tasks, cancelled>>
    PROVE  ItemsInv'
<1>types. ItemTypes /\ ~lateBatch
  BY DEF ItemsInv
<1>s. s \in Seq(Frame)
  BY DEF Good
<1>1. stack' \in [Item -> Seq(Frame)] /\ stack'[i] = s /\ \A j \in Item \ {i} : stack'[j] = stack[j]
  BY <1>types, <1>s DEF ItemTypes
<1>2. owed' \in [Item -> Nat] /\ owed'[i] = m /\ \A j \in Item \ {i} : owed'[j] = owed[j]
  BY <1>types DEF ItemTypes
<1>3. ItemTypes' /\ ~lateBatch'
  BY <1>types, <1>1, <1>2 DEF ItemTypes, LateCall
<1>4. \A j \in Item \ {i} : ItemOK(j)'
  <2>1. Around(i)
    BY <1>1, <1>2 DEF Around, LateCall
  <2> QED
    BY <2>1, OthersOK
<1>5. ItemOK(i)'
  <2>1. Good(stack[i])'
    BY <1>1, GoodKept
  <2>2. Values(i)'
    BY <1>1, <1>2 DEF Values
  <2>3. Late(i)'
    BY <1>1 DEF Late, LateCall
  <2> QED
    BY <2>1, <2>2, <2>3 DEF ItemOK
<1> QED
  BY <1>3, <1>4, <1>5 DEF ItemsInv

\* What is under the innermost frame.
LEMMA Under ==
    ASSUME ItemsInv, NEW i \in Item, res[i] = "run", stack[i] # <<>>
    PROVE  /\ Top(i) \in Frame /\ FrameOK(Top(i)) /\ Weight(Top(i)) \in Nat
           /\ Open(Rest(i)) /\ Rest(i) \in Seq(Frame)
           /\ owed[i] \in Nat /\ owed[i] - Weight(Top(i)) \in Nat
           /\ Holds(Rest(i), owed[i] - Weight(Top(i)))
           /\ LateOK(Top(i), late[i]) /\ late[i] \in Nat /\ late[i] <= MaxAttempts
           /\ ~cancelled => late[i] = 0
<1>1. Good(stack[i]) /\ Holds(stack[i], owed[i]) /\ LateTop(stack[i], late[i]) /\ late[i] <= MaxAttempts
      /\ (~cancelled => late[i] = 0)
  BY DEF ItemsInv, ItemOK, Values, Late
<1>2. stack[i] \in Seq(Frame) /\ owed[i] \in Nat /\ late[i] \in Nat
  BY DEF ItemsInv, ItemTypes
<1>3. Top(i) \in Frame /\ FrameOK(Top(i)) /\ Open(Rest(i))
  BY <1>1, PopFrame DEF Top, Rest
<1>4. owed[i] - Weight(Top(i)) \in Nat /\ Holds(Rest(i), owed[i] - Weight(Top(i)))
  BY <1>1, <1>2, HoldsPop DEF Top, Rest
<1>5. Rest(i) \in Seq(Frame)
  BY <1>3 DEF Open
<1>6. LateOK(Top(i), late[i])
  BY <1>1 DEF LateTop, Top
<1> QED
  BY <1>1, <1>2, <1>3, <1>4, <1>5, <1>6, WeightType

\* It returns.
LEMMA Popped ==
    ASSUME ItemsInv, NEW i \in Item, res[i] = "run", stack[i] # <<>>,
           NEW m, m = owed[i] - Weight(Top(i)), Becomes(i, <<>>, m),
           Quiet, UNCHANGED <<tasks, cancelled>>
    PROVE  ItemsInv'
<1>1. Open(Rest(i)) /\ Rest(i) \in Seq(Frame) /\ m \in Nat /\ Holds(Rest(i), m)
  BY Under
<1>2. Rest(i) \o <<>> = Rest(i)
  BY <1>1, ConcatEmptySeq
<1>3. stack' = [stack EXCEPT ![i] = Rest(i)] /\ owed' = [owed EXCEPT ![i] = m] /\ UNCHANGED <<res, status>>
  BY <1>2 DEF Becomes
<1>4. Good(Rest(i)) /\ LateTop(Rest(i), late'[i])
  BY <1>1, OpenIsGood
<1>5. LateCall(i, F("exec", 1, 0))
  BY QuietCall DEF F
<1> QED
  BY <1>1, <1>3, <1>4, <1>5, Turned

\* Another takes its place.
LEMMA Replaced ==
    ASSUME ItemsInv, NEW i \in Item, res[i] = "run", stack[i] # <<>>,
           NEW f \in Frame, FrameOK(f), NEW m, m = owed[i] - Weight(Top(i)) + Weight(f),
           Becomes(i, <<f>>, m), LateCall(i, f), UNCHANGED <<tasks, cancelled>>
    PROVE  ItemsInv'
<1>1. Open(Rest(i)) /\ Rest(i) \in Seq(Frame) /\ owed[i] - Weight(Top(i)) \in Nat
      /\ Holds(Rest(i), owed[i] - Weight(Top(i)))
  BY Under
<1> DEFINE s == Append(Rest(i), f)
<1>2. Rest(i) \o <<f>> = s
  BY <1>1, Concats
<1>3. Good(s) /\ s # <<>> /\ s[Len(s)] = f
  BY <1>1, PushFrame
<1>4. m \in Nat /\ Holds(s, m)
  BY <1>1, HoldsPush
<1>5. stack' = [stack EXCEPT ![i] = s] /\ owed' = [owed EXCEPT ![i] = m] /\ UNCHANGED <<res, status>>
  BY <1>2 DEF Becomes
<1> HIDE DEF s
<1>6. LateTop(s, late'[i])
  BY <1>3 DEF LateTop, LateCall
<1> QED
  BY <1>3, <1>4, <1>5, <1>6, Turned

\* A producer feeds f.
LEMMA Pushed ==
    ASSUME ItemsInv, NEW i \in Item, res[i] = "run", stack[i] # <<>>,
           NEW g \in Frame, FrameOK(g), g.at \in Producer,
           NEW f \in Frame, FrameOK(f), f.at \notin {"acquire", "call", "retry"},
           NEW m, m = owed[i] - Weight(Top(i)) + Weight(g) + Weight(f),
           Becomes(i, <<g, f>>, m), Quiet, UNCHANGED <<tasks, cancelled>>
    PROVE  ItemsInv'
<1>1. Open(Rest(i)) /\ Rest(i) \in Seq(Frame) /\ owed[i] - Weight(Top(i)) \in Nat
      /\ Holds(Rest(i), owed[i] - Weight(Top(i)))
  BY Under
<1> DEFINE t == Append(Rest(i), g)
           s == Append(t, f)
<1>2. Rest(i) \o <<g, f>> = s
  BY <1>1, Concats
<1>3. Open(t) /\ t \in Seq(Frame)
  BY <1>1, PushFrame DEF Open
<1>4. Good(s) /\ s # <<>> /\ s[Len(s)] = f
  BY <1>3, PushFrame
<1> DEFINE v == owed[i] - Weight(Top(i)) + Weight(g)
<1>5. v \in Nat /\ Holds(t, v)
  BY <1>1, HoldsPush
<1>6. m \in Nat /\ Holds(s, m)
  BY <1>3, <1>5, HoldsPush
<1>7. stack' = [stack EXCEPT ![i] = s] /\ owed' = [owed EXCEPT ![i] = m] /\ UNCHANGED <<res, status>>
  BY <1>2 DEF Becomes
<1>8. LateCall(i, f)
  BY QuietCall
<1> HIDE DEF s
<1>9. LateTop(s, late'[i])
  BY <1>4, <1>8 DEF LateTop, LateCall
<1> QED
  BY <1>4, <1>6, <1>7, <1>8, <1>9, Turned

\* The item ends, and its result is recorded or not.
LEMMA Ended ==
    ASSUME ItemsInv, NEW i \in Item, NEW r \in {"ok", "failed", "cancelled"}, Ends(i, r),
           r = "ok" => owed[i] = 0, Quiet, UNCHANGED <<tasks, cancelled>>
    PROVE  ItemsInv'
<1>types. ItemTypes /\ ~lateBatch
  BY DEF ItemsInv
<1>1. stack' \in [Item -> Seq(Frame)] /\ stack'[i] = <<>> /\ \A j \in Item \ {i} : stack'[j] = stack[j]
  BY <1>types DEF ItemTypes, Ends
<1>2. res' \in [Item -> {"wait", "run", "ok", "failed", "cancelled"}] /\ res'[i] = r
      /\ \A j \in Item \ {i} : res'[j] = res[j]
  BY <1>types DEF ItemTypes, Ends
<1>3. status' \in [Item -> {"none", "completed", "failed"}]
  BY <1>types DEF ItemTypes, Ends
<1>4. UNCHANGED <<owed, late, lateBatch>>
  BY DEF Ends, Quiet
<1>5. ItemTypes' /\ ~lateBatch'
  BY <1>types, <1>1, <1>2, <1>3, <1>4 DEF ItemTypes
<1>6. \A j \in Item \ {i} : ItemOK(j)'
  BY <1>1, <1>2, <1>4, OthersOK DEF Around
<1>7. ItemOK(i)'
  <2>1. Good(stack[i])'
    BY <1>1 DEF Good
  <2>2. Values(i)'
    BY <1>2, <1>4 DEF Values
  <2>3. Late(i)'
    BY <1>1, <1>4 DEF Late, LateTop, ItemsInv, ItemOK
  <2> QED
    BY <1>1, <2>1, <2>2, <2>3 DEF ItemOK
<1> QED
  BY <1>5, <1>6, <1>7 DEF ItemsInv

-----------------------------------------------------------------------------
(* The frames that the actions make *)

LEMMA NewFrame ==
    ASSUME NEW at \in {"exec", "acquire", "call", "retry", "iter", "stream", "each", "admit", "batch"},
           NEW k \in Nat, NEW n \in Nat
    PROVE  F(at, k, n) \in Frame /\ F(at, k, n).at = at /\ F(at, k, n).k = k /\ F(at, k, n).n = n
  BY DEF F, Frame

LEMMA FrameFields ==
    ASSUME NEW f \in Frame
    PROVE  /\ f.k \in Nat /\ f.n \in Nat /\ f.y \in Nat
           /\ \A a \in {"call", "retry", "batch"} :
                  /\ [f EXCEPT !.at = a] \in Frame /\ [f EXCEPT !.at = a].at = a
                  /\ [f EXCEPT !.at = a].k = f.k /\ [f EXCEPT !.at = a].n = f.n
           /\ \A n \in Nat :
                  /\ [f EXCEPT !.n = n] \in Frame /\ [f EXCEPT !.n = n].n = n
                  /\ [f EXCEPT !.n = n].at = f.at /\ [f EXCEPT !.n = n].k = f.k
           /\ \A y \in Nat :
                  /\ [f EXCEPT !.y = y] \in Frame /\ [f EXCEPT !.y = y].n = f.n
                  /\ [f EXCEPT !.y = y].at = f.at /\ [f EXCEPT !.y = y].k = f.k
  BY DEF Frame

\* The frame of an attempt.
LEMMA CallFrameOK ==
    ASSUME PipeTypes, NEW k \in 1..Len(tasks), ~tasks[k].batch, NEW n \in 1..MaxAttempts
    PROVE  /\ CallFrame(k, n) \in Frame /\ FrameOK(CallFrame(k, n)) /\ Weight(CallFrame(k, n)) = 1
           /\ CallFrame(k, n).n = n
           /\ CallFrame(k, n).at = IF tasks[k].limited THEN "acquire" ELSE "call"
<1>1. Len(tasks) \in Nat /\ MaxAttempts \in Nat
  BY TaskFacts, ExecutorAssumption DEF PipeTypes
<1>2. k \in Nat /\ k >= 1 /\ k <= Len(tasks) /\ n \in Nat
  BY <1>1
<1> DEFINE a == IF tasks[k].limited THEN "acquire" ELSE "call"
<1>3. a \in {"acquire", "call"} /\ CallFrame(k, n) = F(a, k, n)
  BY DEF CallFrame
<1> HIDE DEF a
<1>4. F(a, k, n) \in Frame /\ F(a, k, n).at = a /\ F(a, k, n).k = k /\ F(a, k, n).n = n
  BY <1>2, <1>3, NewFrame
<1>5. FrameOK(F(a, k, n)) /\ Weight(F(a, k, n)) = 1
  BY <1>2, <1>3, <1>4 DEF FrameOK, Weight
<1> QED
  BY <1>3, <1>4, <1>5 DEF a

\* A frame of execute_from for the first task, for one of a task that takes one
\* value at a time, or behind a task that gives one.
LEMMA ExecFrameOK ==
    ASSUME PipeTypes, NEW k \in Nat, k >= 1, k <= Len(tasks) => ~tasks[k].batch
    PROVE  /\ F("exec", k, 0) \in Frame /\ FrameOK(F("exec", k, 0)) /\ Weight(F("exec", k, 0)) = 1
           /\ F("exec", k, 0).at = "exec"
<1>1. F("exec", k, 0) \in Frame /\ F("exec", k, 0).at = "exec" /\ F("exec", k, 0).k = k
  BY NewFrame
<1> QED
  BY <1>1 DEF FrameOK, Weight

LEMMA AfterSingle ==
    ASSUME PipeTypes, NEW k \in 1..Len(tasks), tasks[k].kind = "single"
    PROVE  k + 1 \in Nat /\ k + 1 >= 1 /\ (k + 1 <= Len(tasks) => ~tasks[k + 1].batch)
<1>1. Len(tasks) \in Nat /\ \A j \in 1..Len(tasks) : tasks[j].batch => j > 1 /\ tasks[j - 1].kind # "single"
  BY TaskFacts DEF PipeTypes
<1>2. k \in Nat /\ k + 1 - 1 = k
  BY <1>1
<1>3. k + 1 <= Len(tasks) => k + 1 \in 1..Len(tasks)
  BY <1>1, <1>2
<1>4. k + 1 \in 1..Len(tasks) => ~tasks[k + 1].batch
  BY <1>1, <1>2
<1> QED
  BY <1>2, <1>3, <1>4

-----------------------------------------------------------------------------
(* The actions of an item *)

LEMMA EnterOK ==
    ASSUME ItemsInv, PipeTypes, NEW i \in Item, Enter(i), UNCHANGED rest
    PROVE  ItemsInv'
<1> DEFINE k == Top(i).k
<1>same. UNCHANGED <<tasks, cancelled>> /\ Quiet
  BY DEF rest, pipeline, Enter
<1>at. res[i] = "run" /\ stack[i] # <<>> /\ Top(i).at = "exec"
  BY DEF Enter, At
<1>top. Top(i) \in Frame /\ FrameOK(Top(i)) /\ owed[i] \in Nat /\ (~cancelled => late[i] = 0)
  BY <1>at, Under
<1>k. k \in Nat /\ k >= 1 /\ Len(tasks) \in Nat /\ Weight(Top(i)) = 1
  BY <1>at, <1>top, FrameFields, TaskFacts DEF PipeTypes, FrameOK, Weight
<1>1. CASE Becomes(i, <<>>, owed[i] - 1)
  BY <1>same, <1>at, <1>k, <1>1, Popped
<1>2. CASE Ends(i, "cancelled") \/ Ends(i, "failed")
  BY <1>same, <1>2, Ended
<1>3. CASE k <= Len(tasks) /\ ~cancelled /\ Becomes(i, <<CallFrame(k, 1)>>, owed[i])
  <2>1. k \in 1..Len(tasks) /\ ~tasks[k].batch /\ 1 \in 1..MaxAttempts
    BY <1>3, <1>k, <1>at, <1>top, ExecutorAssumption DEF FrameOK
  <2> DEFINE f == CallFrame(k, 1)
  <2>2. f \in Frame /\ FrameOK(f) /\ Weight(f) = 1 /\ f.n = 1
    BY <2>1, CallFrameOK
  <2>3. LateCall(i, f)
    BY <1>3, <1>same, <1>top, <2>2, ExecutorAssumption
       DEF LateCall, LateOK, Quiet, ItemsInv, ItemTypes, ItemOK, Late
  <2>4. owed[i] = owed[i] - Weight(Top(i)) + Weight(f)
    BY <1>k, <1>top, <2>2
  <2>5. Becomes(i, <<f>>, owed[i])
    BY <1>3
  <2> HIDE DEF f
  <2> QED
    BY <1>same, <1>at, <2>2, <2>3, <2>4, <2>5, Replaced
<1> QED
  BY <1>1, <1>2, <1>3 DEF Enter

LEMMA AcquireOK ==
    ASSUME ItemsInv, PipeTypes, NEW i \in Item, Acquire(i), UNCHANGED rest
    PROVE  ItemsInv'
<1> DEFINE f == [Top(i) EXCEPT !.at = "call"]
<1>same. UNCHANGED <<tasks, cancelled>>
  BY DEF rest, pipeline
<1>at. res[i] = "run" /\ stack[i] # <<>> /\ Top(i).at = "acquire"
  BY DEF Acquire, At
<1>top. Top(i) \in Frame /\ FrameOK(Top(i)) /\ owed[i] \in Nat /\ Weight(Top(i)) \in Nat
        /\ LateOK(Top(i), late[i]) /\ late[i] \in Nat /\ (~cancelled => late[i] = 0)
  BY <1>at, Under
<1>1. f \in Frame /\ f.at = "call" /\ f.k = Top(i).k /\ f.n = Top(i).n /\ Top(i).k \in Nat /\ Top(i).n \in Nat
  BY <1>top, FrameFields
<1>2. Becomes(i, <<f>>, owed[i]) /\ Starts(i, Top(i).k)
  BY DEF Acquire
<1> HIDE DEF f
<1>3. FrameOK(f) /\ ~tasks[Top(i).k].batch
  BY <1>at, <1>top, <1>1 DEF FrameOK
<1>4. owed[i] = owed[i] - Weight(Top(i)) + Weight(f)
  BY <1>at, <1>top, <1>1 DEF Weight
<1>5. late[i] + 1 <= f.n /\ f.n <= MaxAttempts /\ MaxAttempts \in Nat
  BY <1>at, <1>top, <1>1, ExecutorAssumption DEF LateOK, FrameOK
<1>6. LateCall(i, f)
  <2>1. late \in [Item -> Nat]
    BY DEF ItemsInv, ItemTypes
  <2>2. late' \in [Item -> Nat] /\ late'[i] = (IF cancelled THEN late[i] + 1 ELSE late[i])
        /\ \A j \in Item \ {i} : late'[j] = late[j]
    BY <1>2, <2>1 DEF Starts
  <2>3. UNCHANGED lateBatch
    BY <1>2, <1>3 DEF Starts, ItemsInv, ItemTypes
  <2> QED
    BY <1>1, <1>5, <1>top, <2>2, <2>3 DEF LateCall, LateOK
<1> QED
  BY <1>same, <1>at, <1>1, <1>2, <1>3, <1>4, <1>6, Replaced

\* What a successful call makes of its n values.
LEMMA ResolvedOK ==
    ASSUME ItemsInv, PipeTypes, NEW i \in Item, res[i] = "run", stack[i] # <<>>,
           Top(i).k \in 1..Len(tasks), NEW n \in Nat, n = Weight(Top(i)),
           Resolved(i, Top(i).k, n), Quiet, UNCHANGED <<tasks, cancelled>>
    PROVE  ItemsInv'
<1>top. owed[i] \in Nat
  BY Under
<1>task. tasks[Top(i).k].kind \in {"single", "iter", "stream"} /\ Top(i).k \in Nat
  BY TaskFacts DEF PipeTypes, TaskInfo
<1>1. CASE tasks[Top(i).k].kind = "single"
  <2> DEFINE f == F("exec", Top(i).k + 1, 0)
  <2>1. f \in Frame /\ FrameOK(f) /\ Weight(f) = 1 /\ f.at = "exec"
    BY <1>1, AfterSingle, ExecFrameOK
  <2>2. Becomes(i, <<f>>, owed[i] - n + 1)
    BY <1>1 DEF Resolved
  <2> HIDE DEF f
  <2>3. LateCall(i, f)
    BY <2>1, QuietCall
  <2>4. owed[i] - n + 1 = owed[i] - Weight(Top(i)) + Weight(f)
    BY <2>1
  <2> QED
    BY <2>1, <2>2, <2>3, <2>4, Replaced
<1>2. CASE tasks[Top(i).k].kind \in {"iter", "stream"}
  <2> DEFINE f == F(tasks[Top(i).k].kind, Top(i).k + 1, 0)
  <2>1. f \in Frame /\ f.at \in {"iter", "stream"} /\ f.k = Top(i).k + 1 /\ f.n = 0
    <3>1. PICK a \in {"iter", "stream"} : a = tasks[Top(i).k].kind
      BY <1>2
    <3>2. PICK k \in Nat : k = Top(i).k + 1
      BY <1>task
    <3>3. F(a, k, 0) \in Frame /\ F(a, k, 0).at = a /\ F(a, k, 0).k = k /\ F(a, k, 0).n = 0
      BY ONLY a \in {"iter", "stream"}, k \in Nat, 0 \in Nat, NewFrame
    <3> QED
      BY <3>1, <3>2, <3>3
  <2>2. Becomes(i, <<f>>, owed[i] - n)
    BY <1>2 DEF Resolved
  <2> HIDE DEF f
  <2>3. FrameOK(f) /\ Weight(f) = 0
    BY <1>task, <2>1 DEF FrameOK, Weight
  <2>4. LateCall(i, f)
    BY <2>1, QuietCall
  <2>5. owed[i] - n = owed[i] - Weight(Top(i)) + Weight(f)
    BY <1>top, <2>3
  <2> QED
    BY <2>1, <2>2, <2>3, <2>4, <2>5, Replaced
<1> QED
  BY <1>task, <1>1, <1>2

LEMMA ReturnOK ==
    ASSUME ItemsInv, PipeTypes, NEW i \in Item, Return(i), UNCHANGED rest
    PROVE  ItemsInv'
<1>same. UNCHANGED <<tasks, cancelled>> /\ Quiet
  BY DEF rest, pipeline, Return
<1>at. res[i] = "run" /\ stack[i] # <<>> /\ Top(i).at = "call"
  BY DEF Return, At
<1>top. Top(i) \in Frame /\ FrameOK(Top(i)) /\ owed[i] \in Nat
        /\ LateOK(Top(i), late[i]) /\ late[i] \in Nat /\ (~cancelled => late[i] = 0) /\ late[i] <= MaxAttempts
  BY <1>at, Under
<1>k. Top(i).k \in 1..Len(tasks) /\ Top(i).n \in 1..MaxAttempts /\ Weight(Top(i)) = 1
  <2>1. Len(tasks) \in Nat /\ Top(i).k \in Nat
    BY <1>top, FrameFields, TaskFacts DEF PipeTypes
  <2>2. Top(i).k >= 1 /\ Top(i).k <= Len(tasks) /\ Top(i).n \in 1..MaxAttempts
    BY <1>at, <1>top DEF FrameOK
  <2> QED
    BY <1>at, <2>1, <2>2 DEF Weight
<1>1. CASE Resolved(i, Top(i).k, 1)
  BY <1>same, <1>at, <1>k, <1>1, ResolvedOK
<1>2. CASE Becomes(i, <<>>, owed[i] - 1)
  BY <1>same, <1>at, <1>k, <1>2, Popped
<1>3. CASE Ends(i, "failed")
  BY <1>same, <1>3, Ended
<1>4. CASE Top(i).n < MaxAttempts /\ Becomes(i, <<[Top(i) EXCEPT !.at = "retry"]>>, owed[i])
  <2> DEFINE f == [Top(i) EXCEPT !.at = "retry"]
  <2>1. f \in Frame /\ f.at = "retry" /\ f.k = Top(i).k /\ f.n = Top(i).n
    BY <1>top, FrameFields
  <2>2. Becomes(i, <<f>>, owed[i])
    BY <1>4
  <2> HIDE DEF f
  <2>3. FrameOK(f) /\ Weight(f) = 1
    BY <1>at, <1>top, <1>k, <1>4, <2>1, ExecutorAssumption DEF FrameOK, Weight
  <2>4. LateCall(i, f)
    <3>1. LateOK(f, late[i])
      BY <1>at, <1>top, <2>1 DEF LateOK
    <3> QED
      BY <1>same, <1>top, <3>1 DEF LateCall, Quiet, ItemsInv, ItemTypes
  <2>5. owed[i] = owed[i] - Weight(Top(i)) + Weight(f)
    BY <1>top, <1>k, <2>3
  <2> QED
    BY <1>same, <1>at, <2>1, <2>2, <2>3, <2>4, <2>5, Replaced
<1> QED
  BY <1>1, <1>2, <1>3, <1>4 DEF Return

LEMMA RetryOK ==
    ASSUME ItemsInv, PipeTypes, NEW i \in Item, Retry(i), UNCHANGED rest
    PROVE  ItemsInv'
<1> DEFINE k == Top(i).k
           n == Top(i).n + 1
           f == CallFrame(k, n)
<1>same. UNCHANGED <<tasks, cancelled>>
  BY DEF rest, pipeline
<1>at. res[i] = "run" /\ stack[i] # <<>> /\ Top(i).at = "retry"
  BY DEF Retry, At
<1>top. Top(i) \in Frame /\ FrameOK(Top(i)) /\ owed[i] \in Nat
        /\ LateOK(Top(i), late[i]) /\ late[i] \in Nat /\ (~cancelled => late[i] = 0) /\ late[i] <= MaxAttempts
  BY <1>at, Under
<1>k. k \in 1..Len(tasks) /\ ~tasks[k].batch /\ n \in 1..MaxAttempts /\ Weight(Top(i)) = 1 /\ late[i] + 1 <= n
      /\ n <= MaxAttempts /\ MaxAttempts \in Nat /\ n \in Nat
  <2>1. MaxAttempts \in Nat /\ Len(tasks) \in Nat /\ k \in Nat /\ Top(i).n \in Nat
    BY <1>top, FrameFields, TaskFacts, ExecutorAssumption DEF PipeTypes
  <2>2. k >= 1 /\ k <= Len(tasks) /\ ~tasks[k].batch /\ Top(i).n \in 1..MaxAttempts - 1 /\ late[i] <= Top(i).n
    BY <1>at, <1>top DEF FrameOK, LateOK
  <2> QED
    BY <1>at, <1>top, <2>1, <2>2 DEF Weight
<1>1. f \in Frame /\ FrameOK(f) /\ Weight(f) = 1 /\ f.n = n
      /\ f.at = IF tasks[k].limited THEN "acquire" ELSE "call"
  BY <1>k, CallFrameOK
<1>2. Becomes(i, <<f>>, owed[i]) /\ IF tasks[k].limited THEN Quiet ELSE Starts(i, k)
  BY DEF Retry
<1> HIDE DEF f, k, n
<1>3. LateCall(i, f)
  <2>1. late \in [Item -> Nat]
    BY DEF ItemsInv, ItemTypes
  <2>2. CASE tasks[k].limited
    BY <1>top, <1>k, <1>1, <1>2, <2>1, <2>2 DEF LateCall, LateOK, Quiet
  <2>3. CASE ~tasks[k].limited
    <3>1. late' \in [Item -> Nat] /\ late'[i] = (IF cancelled THEN late[i] + 1 ELSE late[i])
          /\ \A j \in Item \ {i} : late'[j] = late[j]
      BY <1>2, <2>1, <2>3 DEF Starts
    <3>2. UNCHANGED lateBatch
      BY <1>k, <1>2, <2>3 DEF Starts, ItemsInv, ItemTypes
    <3> QED
      BY <1>top, <1>k, <1>1, <2>3, <3>1, <3>2 DEF LateCall, LateOK
  <2> QED
    BY <2>2, <2>3
<1>4. owed[i] = owed[i] - Weight(Top(i)) + Weight(f)
  BY <1>top, <1>k, <1>1
<1> QED
  BY <1>same, <1>at, <1>1, <1>2, <1>3, <1>4, Replaced

\* dispatch_batch of n of the m values owed, of which w stay with the frames under
\* the producer's: the producer is done, or keeps its frame g, which is empty.
LEMMA DispatchOK ==
    ASSUME ItemsInv, PipeTypes, NEW i \in Item, res[i] = "run", stack[i] # <<>>,
           NEW k \in Nat, k >= 1, NEW n \in Nat, NEW m, m = owed[i] - Weight(Top(i)) + n,
           NEW g \in Frame, FrameOK(g), g.at \in Producer, Weight(g) = 0,
           NEW keep, keep = <<>> \/ keep = <<g>>, Dispatch(i, keep, k, n, m), UNCHANGED <<tasks, cancelled>>
    PROVE  ItemsInv'
<1>q. Quiet
  BY DEF Dispatch
<1>top. owed[i] \in Nat /\ Weight(Top(i)) \in Nat /\ Len(tasks) \in Nat
  BY Under, TaskFacts DEF PipeTypes
<1>g. LateCall(i, g)
  BY <1>q, QuietCall DEF Producer
<1>1. CASE Becomes(i, keep, m - n)
  <2>1. m - n = owed[i] - Weight(Top(i))
    BY <1>top
  <2>2. CASE keep = <<>>
    BY <1>q, <1>1, <2>1, <2>2, Popped
  <2>3. CASE keep = <<g>>
    <3>1. m - n = owed[i] - Weight(Top(i)) + Weight(g)
      BY <1>top
    <3> QED
      BY <1>g, <1>1, <2>3, <3>1, Replaced
  <2> QED
    BY <2>2, <2>3
<1>2. ASSUME NEW f \in Frame, FrameOK(f), f.at \in {"each", "admit", "batch"}, f.n = n,
             Becomes(i, keep \o <<f>>, m)
      PROVE  ItemsInv'
  <2>1. Weight(f) = n
    BY <1>2 DEF Weight
  <2>2. CASE keep = <<>>
    <3>1. keep \o <<f>> = <<f>>
      BY <2>2, Concats
    <3>2. Becomes(i, <<f>>, m)
      BY <1>2, <3>1
    <3>3. LateCall(i, f)
      BY <1>q, <1>2, QuietCall
    <3> QED
      BY <1>2, <2>1, <3>2, <3>3, Replaced
  <2>3. CASE keep = <<g>>
    <3>1. <<g>> \o <<f>> = <<g, f>>
      <4>1. <<>> \in Seq(Frame)
        OBVIOUS
      <4> QED
        BY <1>2, <4>1, Concats
    <3>2. Becomes(i, <<g, f>>, m)
      BY <1>2, <2>3, <3>1
    <3>3. m = owed[i] - Weight(Top(i)) + Weight(g) + Weight(f)
      BY <1>top, <2>1
    <3> QED
      BY <1>q, <1>2, <3>2, <3>3, Pushed
  <2> QED
    BY <2>2, <2>3
<1>3. CASE Ends(i, "cancelled")
  BY <1>q, <1>3, Ended
<1>4. ASSUME NEW a \in {"each", "admit", "batch"}, k <= Len(tasks), a = "each" => ~tasks[k].batch,
             Becomes(i, keep \o <<F(a, k, n)>>, m)
      PROVE  ItemsInv'
  <2> DEFINE f == F(a, k, n)
  <2>0. a \in {"exec", "acquire", "call", "retry", "iter", "stream", "each", "admit", "batch"}
    OBVIOUS
  <2>1. f \in Frame /\ f.at = a /\ f.k = k /\ f.n = n
    BY ONLY <2>0, k \in Nat, n \in Nat, NewFrame
  <2>2. Becomes(i, keep \o <<f>>, m)
    BY <1>4
  <2> HIDE DEF f
  <2>3. FrameOK(f)
    BY <1>4, <2>1 DEF FrameOK
  <2> QED
    BY <1>2, <2>1, <2>2, <2>3
<1> QED
  BY <1>1, <1>3, <1>4 DEF Dispatch

\* A producer's frame, at its task k with n values in the batch.
LEMMA GatherOK ==
    ASSUME ItemsInv, PipeTypes, NEW i \in Item, res[i] = "run", stack[i] # <<>>,
           Top(i).at \in {"iter", "stream"}, Gather(i), UNCHANGED <<tasks, cancelled>>
    PROVE  ItemsInv'
<1> DEFINE f == [Top(i) EXCEPT !.y = @ + 1]
<1>top. Top(i) \in Frame /\ FrameOK(Top(i)) /\ owed[i] \in Nat
  BY Under
<1>0. f \in Frame /\ f.at = Top(i).at /\ f.k = Top(i).k /\ f.n = Top(i).n /\ f.k \in Nat /\ f.n \in Nat
  <2>1. Top(i).y \in Nat /\ Top(i).k \in Nat /\ Top(i).n \in Nat
    BY <1>top, FrameFields
  <2>2. PICK y \in Nat : y = Top(i).y + 1
    BY <2>1
  <2>3. f = [Top(i) EXCEPT !.y = y]
    BY <2>2
  <2> HIDE DEF f
  <2> QED
    BY <1>top, <2>1, <2>3, FrameFields
<1>gather. \/ Becomes(i, <<f>>, owed[i]) /\ Quiet
           \/ Becomes(i, <<[f EXCEPT !.n = f.n + 1]>>, owed[i] + 1) /\ Quiet
           \/ Dispatch(i, <<[f EXCEPT !.n = 0]>>, f.k, f.n + 1, owed[i] + 1)
  BY DEF Gather
<1> HIDE DEF f
<1>w. Weight(Top(i)) = f.n
  BY <1>0 DEF Weight
<1>frame. ASSUME NEW g \in Frame, g.at = Top(i).at, g.k = Top(i).k
          PROVE  FrameOK(g) /\ Weight(g) = g.n /\ g.at \in Producer /\ (Quiet => LateCall(i, g))
  <2>1. FrameOK(g) /\ Weight(g) = g.n /\ g.at \in Producer
    BY <1>top, <1>frame DEF FrameOK, Weight, Producer
  <2> QED
    BY <1>frame, <2>1, QuietCall
<1>1. CASE Becomes(i, <<f>>, owed[i]) /\ Quiet
  <2>1. FrameOK(f) /\ Weight(f) = f.n /\ LateCall(i, f)
    BY <1>0, <1>1, <1>frame
  <2>2. owed[i] = owed[i] - Weight(Top(i)) + Weight(f)
    BY <1>top, <1>w, <1>0, <2>1
  <2> QED
    BY <1>0, <1>1, <2>1, <2>2, Replaced
<1>2. CASE Becomes(i, <<[f EXCEPT !.n = f.n + 1]>>, owed[i] + 1) /\ Quiet
  <2> DEFINE g == [f EXCEPT !.n = f.n + 1]
  <2>1. g \in Frame /\ g.at = f.at /\ g.k = f.k /\ g.n = f.n + 1
    <3>1. f.n + 1 \in Nat
      BY <1>0
    <3> QED
      BY <1>0, <3>1, FrameFields
  <2>2. Becomes(i, <<g>>, owed[i] + 1)
    BY <1>2
  <2> HIDE DEF g
  <2>3. FrameOK(g) /\ Weight(g) = g.n /\ LateCall(i, g)
    BY <1>0, <1>2, <2>1, <1>frame
  <2>4. owed[i] + 1 = owed[i] - Weight(Top(i)) + Weight(g)
    BY <1>top, <1>w, <1>0, <2>1, <2>3
  <2> QED
    BY <2>1, <2>2, <2>3, <2>4, Replaced
<1>3. CASE Dispatch(i, <<[f EXCEPT !.n = 0]>>, f.k, f.n + 1, owed[i] + 1)
  <2> DEFINE g == [f EXCEPT !.n = 0]
  <2>1. g \in Frame /\ g.at = f.at /\ g.k = f.k /\ g.n = 0
    <3>1. PICK n \in Nat : n = 0
      OBVIOUS
    <3>2. g = [f EXCEPT !.n = n]
      BY <3>1
    <3> HIDE DEF g
    <3> QED
      BY <1>0, <3>1, <3>2, FrameFields, ZenonT(40)
  <2>2. Dispatch(i, <<g>>, f.k, f.n + 1, owed[i] + 1)
    BY <1>3
  <2> HIDE DEF g
  <2>3. FrameOK(g) /\ Weight(g) = 0 /\ g.at \in Producer
    BY <1>0, <2>1, <1>frame
  <2>4. f.k >= 1 /\ f.n + 1 \in Nat /\ owed[i] + 1 = owed[i] - Weight(Top(i)) + (f.n + 1)
    BY <1>top, <1>w, <1>0 DEF FrameOK
  <2> QED
    BY <1>0, <2>1, <2>2, <2>3, <2>4, DispatchOK
<1> QED
  BY <1>gather, <1>1, <1>2, <1>3

LEMMA ExhaustedOK ==
    ASSUME ItemsInv, PipeTypes, NEW i \in Item, res[i] = "run", stack[i] # <<>>,
           Top(i).at \in {"iter", "stream"}, Exhausted(i), UNCHANGED <<tasks, cancelled>>
    PROVE  ItemsInv'
<1>top. Top(i) \in Frame /\ FrameOK(Top(i)) /\ owed[i] \in Nat
  BY Under
<1>0. Top(i).k \in Nat /\ Top(i).n \in Nat /\ Top(i).k >= 1 /\ Weight(Top(i)) = Top(i).n
  BY <1>top, FrameFields DEF FrameOK, Weight
<1>1. CASE Top(i).n = 0
  <2>1. Becomes(i, <<>>, owed[i]) /\ Quiet
    BY <1>1 DEF Exhausted
  <2>2. owed[i] = owed[i] - Weight(Top(i))
    BY <1>top, <1>0, <1>1
  <2> QED
    BY <2>1, <2>2, Popped
<1>2. CASE Top(i).n # 0
  <2>1. Dispatch(i, <<>>, Top(i).k, Top(i).n, owed[i])
    BY <1>2 DEF Exhausted
  <2> DEFINE g == F("iter", 1, 0)
  <2>2. g \in Frame /\ g.at = "iter" /\ g.k = 1 /\ g.n = 0
    BY NewFrame
  <2> HIDE DEF g
  <2>3. FrameOK(g) /\ g.at \in Producer /\ Weight(g) = 0
    BY <2>2 DEF FrameOK, Producer, Weight
  <2>4. owed[i] = owed[i] - Weight(Top(i)) + Top(i).n
    BY <1>top, <1>0
  <2> QED
    BY <1>0, <2>1, <2>2, <2>3, <2>4, DispatchOK
<1> QED
  BY <1>1, <1>2

LEMMA ProducerOK ==
    ASSUME ItemsInv, PipeTypes, NEW i \in Item, Iterate(i) \/ Stream(i) \/ StreamCancelled(i), UNCHANGED rest
    PROVE  ItemsInv'
<1>same. UNCHANGED <<tasks, cancelled>>
  BY DEF rest, pipeline
<1>at. res[i] = "run" /\ stack[i] # <<>> /\ Top(i).at \in {"iter", "stream"}
  BY DEF Iterate, Stream, StreamCancelled, At
<1>1. \/ Gather(i) \/ Exhausted(i)
      \/ (Ends(i, "cancelled") \/ Ends(i, "failed")) /\ Quiet
  BY DEF Iterate, Stream, StreamCancelled
<1> QED
  BY <1>same, <1>at, <1>1, GatherOK, ExhaustedOK, Ended

LEMMA AdmitOK ==
    ASSUME ItemsInv, PipeTypes, NEW i \in Item, Admit(i), UNCHANGED rest
    PROVE  ItemsInv'
<1> DEFINE f == [Top(i) EXCEPT !.at = "batch"]
<1>same. UNCHANGED <<tasks, cancelled>>
  BY DEF rest, pipeline
<1>at. res[i] = "run" /\ stack[i] # <<>> /\ Top(i).at = "admit"
  BY DEF Admit, At
<1>top. Top(i) \in Frame /\ FrameOK(Top(i)) /\ owed[i] \in Nat
  BY <1>at, Under
<1>0. f \in Frame /\ f.at = "batch" /\ f.k = Top(i).k /\ f.n = Top(i).n /\ f.n \in Nat
  BY <1>top, FrameFields
<1>1. CASE Ends(i, "cancelled") /\ Quiet
  BY <1>same, <1>1, Ended
<1>2. CASE ~cancelled /\ Becomes(i, <<f>>, owed[i]) /\ Starts(i, Top(i).k)
  <2> HIDE DEF f
  <2>1. FrameOK(f) /\ Weight(f) = Weight(Top(i)) /\ Weight(f) = f.n
    BY <1>at, <1>top, <1>0 DEF FrameOK, Weight
  <2>2. Quiet
    BY <1>2 DEF Starts, Quiet, ItemsInv, ItemTypes
  <2>3. LateCall(i, f)
    BY <1>0, <2>2, QuietCall
  <2>4. owed[i] = owed[i] - Weight(Top(i)) + Weight(f)
    BY <1>top, <1>0, <2>1
  <2> QED
    BY <1>same, <1>at, <1>0, <1>2, <2>1, <2>3, <2>4, Replaced
<1> QED
  BY <1>1, <1>2 DEF Admit

LEMMA BatchReturnOK ==
    ASSUME ItemsInv, PipeTypes, NEW i \in Item, BatchReturn(i), UNCHANGED rest
    PROVE  ItemsInv'
<1>same. UNCHANGED <<tasks, cancelled>> /\ Quiet
  BY DEF rest, pipeline, BatchReturn
<1>at. res[i] = "run" /\ stack[i] # <<>> /\ Top(i).at = "batch"
  BY DEF BatchReturn, At
<1>top. Top(i) \in Frame /\ FrameOK(Top(i))
  BY <1>at, Under
<1>k. Top(i).k \in 1..Len(tasks) /\ Top(i).n \in Nat /\ Weight(Top(i)) = Top(i).n
  <2>1. Len(tasks) \in Nat /\ Top(i).k \in Nat /\ Top(i).n \in Nat
    BY <1>top, FrameFields, TaskFacts DEF PipeTypes
  <2>2. Top(i).k >= 1 /\ Top(i).k <= Len(tasks)
    BY <1>at, <1>top DEF FrameOK
  <2> QED
    BY <1>at, <2>1, <2>2 DEF Weight
<1>1. CASE Resolved(i, Top(i).k, Top(i).n)
  BY <1>same, <1>at, <1>k, <1>1, ResolvedOK
<1>2. CASE Ends(i, "failed")
  BY <1>same, <1>2, Ended
<1> QED
  BY <1>1, <1>2 DEF BatchReturn

LEMMA EachNextOK ==
    ASSUME ItemsInv, PipeTypes, NEW i \in Item, EachNext(i), UNCHANGED rest
    PROVE  ItemsInv'
<1>same. UNCHANGED <<tasks, cancelled>> /\ Quiet
  BY DEF rest, pipeline, EachNext
<1>at. res[i] = "run" /\ stack[i] # <<>> /\ Top(i).at = "each"
  BY DEF EachNext, At
<1>top. Top(i) \in Frame /\ FrameOK(Top(i)) /\ owed[i] \in Nat
  BY <1>at, Under
<1>k. Top(i).k \in Nat /\ Top(i).n \in Nat /\ Weight(Top(i)) = Top(i).n
      /\ Top(i).k >= 1 /\ Top(i).k <= Len(tasks) /\ ~tasks[Top(i).k].batch
  BY <1>at, <1>top, FrameFields DEF FrameOK, Weight
<1>1. CASE Top(i).n = 0 /\ Becomes(i, <<>>, owed[i])
  <2>1. owed[i] = owed[i] - Weight(Top(i))
    BY <1>top, <1>k, <1>1
  <2> QED
    BY <1>same, <1>at, <1>1, <2>1, Popped
<1>2. CASE Top(i).n > 0 /\ Becomes(i, <<[Top(i) EXCEPT !.n = @ - 1], F("exec", Top(i).k, 0)>>, owed[i])
  <2> DEFINE g == [Top(i) EXCEPT !.n = @ - 1]
             f == F("exec", Top(i).k, 0)
  <2>1. g \in Frame /\ g.at = "each" /\ g.k = Top(i).k /\ g.n = Top(i).n - 1
    <3>1. PICK n \in Nat : n = Top(i).n - 1
      BY <1>k, <1>2
    <3>2. g = [Top(i) EXCEPT !.n = n]
      BY <3>1
    <3> HIDE DEF g
    <3> QED
      BY <1>at, <1>top, <3>1, <3>2, FrameFields
  <2>2. f \in Frame /\ FrameOK(f) /\ Weight(f) = 1 /\ f.at = "exec"
    BY <1>k, ExecFrameOK
  <2>3. Becomes(i, <<g, f>>, owed[i])
    BY <1>2
  <2> HIDE DEF f, g
  <2>4. FrameOK(g) /\ g.at \in Producer /\ Weight(g) = g.n
    BY <1>k, <2>1 DEF FrameOK, Producer, Weight
  <2>5. owed[i] = owed[i] - Weight(Top(i)) + Weight(g) + Weight(f)
    BY <1>top, <1>k, <2>1, <2>2, <2>4
  <2> QED
    BY <1>same, <1>at, <2>1, <2>2, <2>3, <2>4, <2>5, Pushed
<1> QED
  BY <1>1, <1>2 DEF EachNext

LEMMA ItemDoneOK ==
    ASSUME ItemsInv, PipeTypes, NEW i \in Item, ItemDone(i), UNCHANGED rest
    PROVE  ItemsInv'
<1>1. res[i] = "run" /\ stack[i] = <<>> /\ Ends(i, "ok") /\ Quiet
  BY DEF ItemDone
<1>2. owed[i] = 0
  BY <1>1, HoldsNothing DEF ItemsInv, ItemOK, Values
<1> QED
  BY <1>1, <1>2, Ended DEF rest, pipeline

LEMMA StartItemOK ==
    ASSUME ItemsInv, PipeTypes, NEW i \in Item, StartItem(i), UNCHANGED rest
    PROVE  ItemsInv'
<1> DEFINE f == F("exec", 1, 0)
           s == <<f>>
<1>types. ItemTypes /\ ~lateBatch
  BY DEF ItemsInv
<1>same. UNCHANGED <<tasks, cancelled, status, late, lateBatch>>
  BY DEF StartItem, rest, pipeline
<1>f. f \in Frame /\ FrameOK(f) /\ Weight(f) = 1 /\ f.at = "exec"
  BY TaskFacts, ExecFrameOK DEF PipeTypes
<1>s. s = Append(<<>>, f) /\ <<>> \in Seq(Frame)
  OBVIOUS
<1>1. Good(s) /\ s # <<>> /\ s[Len(s)] = f
  <2>1. Open(<<>>)
    BY DEF Open
  <2> QED
    BY <1>f, <1>s, <2>1, PushFrame
<1>2. Holds(s, 1)
  <2>1. Holds(<<>>, 0) /\ 0 + Weight(f) = 1
    BY <1>f, HoldsNothing
  <2> QED
    BY <1>f, <1>s, <2>1, HoldsPush
<1>set. stack' = [stack EXCEPT ![i] = s] /\ res' = [res EXCEPT ![i] = "run"] /\ owed' = [owed EXCEPT ![i] = 1]
  BY DEF StartItem
<1> HIDE DEF s, f
<1>3. stack' \in [Item -> Seq(Frame)] /\ stack'[i] = s /\ \A j \in Item \ {i} : stack'[j] = stack[j]
  BY <1>types, <1>1, <1>set DEF ItemTypes, Good
<1>4. owed' \in [Item -> Nat] /\ owed'[i] = 1 /\ \A j \in Item \ {i} : owed'[j] = owed[j]
  BY <1>types, <1>set DEF ItemTypes
<1>5. res' \in [Item -> {"wait", "run", "ok", "failed", "cancelled"}] /\ res'[i] = "run"
      /\ \A j \in Item \ {i} : res'[j] = res[j]
  BY <1>types, <1>set DEF ItemTypes
<1>6. ItemTypes' /\ ~lateBatch'
  BY <1>types, <1>same, <1>3, <1>4, <1>5 DEF ItemTypes
<1>7. \A j \in Item \ {i} : ItemOK(j)'
  BY <1>same, <1>3, <1>4, <1>5, OthersOK DEF Around
<1>8. ItemOK(i)'
  <2>1. Good(stack[i])'
    BY <1>1, <1>3, <1>same, GoodKept
  <2>2. Values(i)'
    BY <1>2, <1>3, <1>4, <1>5 DEF Values
  <2>3. Late(i)'
    <3>1. LateTop(s, late[i])
      BY <1>1, <1>f DEF LateTop, LateOK
    <3> QED
      BY <1>3, <1>same, <3>1 DEF Late, ItemsInv, ItemOK
  <2> QED
    BY <1>5, <2>1, <2>2, <2>3 DEF ItemOK
<1> QED
  BY <1>6, <1>7, <1>8 DEF ItemsInv

LEMMA ItemStepOK ==
    ASSUME ItemsInv, PipeTypes, NEW i \in Item, ItemStep(i) \/ Stream(i), UNCHANGED rest
    PROVE  ItemsInv'
  BY StartItemOK, EnterOK, AcquireOK, ReturnOK, RetryOK, ProducerOK, AdmitOK, BatchReturnOK,
     EachNextOK, ItemDoneOK DEF ItemStep

-----------------------------------------------------------------------------
(* The run around the items *)

LEMMA ItemsInit == Init => ItemsInv
<1> SUFFICES ASSUME Init PROVE ItemsInv
  OBVIOUS
<1>1. ItemTypes /\ ~lateBatch
  <2>1. <<>> \in Seq(Frame)
    OBVIOUS
  <2>2. stack \in [Item -> Seq(Frame)]
    BY <2>1 DEF Init
  <2>3. status \in [Item -> {"none", "completed", "failed"}]
    BY DEF Init
  <2> QED
    BY <2>2, <2>3 DEF Init, ItemTypes
<1>2. \A i \in Item : stack[i] = <<>> /\ res[i] = "wait" /\ late[i] = 0
  BY DEF Init
<1>3. MaxAttempts \in Nat
  BY ExecutorAssumption
<1>4. \A i \in Item : ItemOK(i)
  BY <1>2, <1>3, NoFrames DEF ItemOK, Values, Late, LateTop
<1> QED
  BY <1>1, <1>4 DEF ItemsInv

\* The frames of a run that is dropped are gone, with the values in them.
LEMMA AbortOK ==
    ASSUME ItemsInv, Abort
    PROVE  ItemsInv'
<1>1. \A i \in Item : stack'[i] = <<>> /\ res'[i] # "run" /\ (res'[i] = "ok" => res[i] = "ok")
  BY DEF Abort
<1>2. UNCHANGED <<tasks, cancelled, status, owed, late, lateBatch>>
  BY DEF Abort, pipeline
<1>3. ItemTypes' /\ ~lateBatch'
  BY <1>2 DEF Abort, ItemsInv, ItemTypes
<1>4. \A i \in Item : ItemOK(i)'
  <2> TAKE i \in Item
  <2>1. ItemOK(i)
    BY DEF ItemsInv
  <2>2. Good(stack[i])'
    BY <1>1, <1>2, NoFrames, GoodKept
  <2>3. Values(i)'
    BY <1>1, <1>2, <2>1 DEF ItemOK, Values
  <2>4. Late(i)'
    BY <1>1, <1>2, <2>1 DEF ItemOK, Late, LateTop
  <2> QED
    BY <1>1, <2>2, <2>3, <2>4 DEF ItemOK
<1> QED
  BY <1>3, <1>4 DEF ItemsInv

LEMMA ItemsNext ==
    ASSUME ItemsInv, PipeTypes, [Next]_vars
    PROVE  ItemsInv'
<1>1. ASSUME UNCHANGED <<perItem, tasks>>, cancelled => cancelled' PROVE ItemsInv'
  <2>1. ItemTypes' /\ ~lateBatch'
    BY <1>1 DEF ItemsInv, ItemTypes, perItem
  <2>2. \A i \in Item : ItemOK(i)'
    <3> TAKE i \in Item
    <3>1. ItemOK(i) /\ UNCHANGED <<stack, res, owed, late>>
      BY <1>1 DEF ItemsInv, perItem
    <3>2. Good(stack[i])'
      BY <1>1, <3>1, GoodKept DEF ItemOK
    <3>3. Values(i)'
      BY <3>1 DEF ItemOK, Values
    <3>4. Late(i)'
      BY <1>1, <3>1 DEF ItemOK, Late
    <3> QED
      BY <3>1, <3>2, <3>3, <3>4 DEF ItemOK
  <2> QED
    BY <2>1, <2>2 DEF ItemsInv
<1>2. CASE RunStep \/ Refill \/ Over \/ UNCHANGED vars
  <2>1. UNCHANGED <<perItem, tasks, cancelled>>
    BY <1>2 DEF RunStep, Start, Split, NextChunk, Record, RecordError, Refill, Over, vars, pipeline
  <2> QED
    BY <1>1, <2>1
<1>3. CASE Cancel
  BY <1>1, <1>3 DEF Cancel, pipeline
<1> QED
  BY <1>2, <1>3, AbortOK, ItemStepOK DEF Next

\* Items between two multiples of the chunk size are of one chunk.
LEMMA Times ==
    ASSUME NEW a \in Nat, NEW b \in Nat, NEW c \in Nat, a <= b
    PROVE  a * c <= b * c /\ a * c \in Nat
<1>1. PICK d \in Nat : b = a + d
  BY b - a \in Nat
<1>2. d * c \in Nat /\ a * c \in Nat
  OBVIOUS
<1>3. (a + d) * c = a * c + d * c
  OBVIOUS
<1> QED
  BY <1>1, <1>2, <1>3

LEMMA Quotient ==
    ASSUME NEW x \in Nat, NEW c \in Nat \ {0}
    PROVE  x \div c \in Nat /\ (x \div c) * c <= x /\ x < (x \div c) * c + c
  OBVIOUS

LEMMA SameChunk ==
    ASSUME NEW c \in Nat \ {0}, NEW q \in Nat, NEW x \in Nat, NEW y \in Nat,
           q * c <= x, y < q * c + c
    PROVE  y \div c <= x \div c
<1>1. x \div c \in Nat /\ x < (x \div c) * c + c
  BY Quotient
<1>2. y \div c \in Nat /\ (y \div c) * c <= y
  BY Quotient
<1> DEFINE a == y \div c
           b == x \div c
<1> HIDE DEF a, b
<1>3. a \in Nat /\ b \in Nat /\ x < b * c + c /\ a * c <= y
  BY <1>1, <1>2 DEF a, b
<1>4. CASE q + 1 <= a
  <2>1. (q + 1) * c <= a * c
    BY <1>3, <1>4, Times
  <2>2. (q + 1) * c = q * c + c
    OBVIOUS
  <2>3. a * c \in Nat /\ q * c \in Nat
    BY <1>3
  <2> QED
    BY <1>3, <2>1, <2>2, <2>3
<1>5. CASE b + 1 <= q
  <2>1. (b + 1) * c <= q * c
    BY <1>3, <1>5, Times
  <2>2. (b + 1) * c = b * c + c
    BY <1>3
  <2>3. b * c \in Nat /\ q * c \in Nat
    BY <1>3
  <2> QED
    BY <1>3, <2>1, <2>2, <2>3
<1>6. CASE a <= q /\ q <= b
  BY <1>3, <1>6 DEF a, b
<1> QED
  BY <1>3, <1>4, <1>5, <1>6

\* The items before the chunk went through, those after it wait; a run that is to
\* be recorded as completed has no chunk left, and only then has it that row.
Progress ==
    /\ base = Items \/ \E q \in Nat : base = q * conc
    /\ \A i \in Item : /\ i <= base => res[i] = "ok"
                       /\ i > base + conc => res[i] = "wait"
    /\ pc = "record" => base = Items

Recorded ==
    /\ pc \notin {"done", "aborted"} => \A n \in DOMAIN rows : rows[n] = "STARTED"
    /\ \A n \in DOMAIN rows : rows[n] = "COMPLETED" =>
           base = Items /\ \A m \in DOMAIN rows : rows[m] # "ERRORED"

RunInv == PipeTypes /\ Progress /\ Recorded

LEMMA RunInit == Init => RunInv
<1> SUFFICES ASSUME Init PROVE RunInv
  OBVIOUS
<1>n. Items \in Nat /\ Capacity \in Nat
  BY ExecutorAssumption
<1>c. conc \in Nat
  BY ExecutorAssumption DEF Init
<1>1. PipeTypes
  <2>1. rows \in Seq({"STARTED", "COMPLETED", "ERRORED"})
    BY DEF Init
  <2>2. base \in 0..Items /\ tokens \in 0..Capacity
    BY <1>n DEF Init
  <2> QED
    BY <2>1, <2>2 DEF Init, PipeTypes
<1>2. Progress
  <2>1. base = 0 * conc
    BY <1>c DEF Init
  <2> QED
    BY <1>n, <1>c, <2>1 DEF Init, Progress, Item
<1>3. Recorded
  BY DEF Init, Recorded
<1> QED
  BY <1>1, <1>2, <1>3 DEF RunInv

LEMMA Numbers ==
    ASSUME PipeTypes
    PROVE  Items \in Nat /\ conc \in Nat /\ conc >= 1 /\ base \in Nat /\ base <= Items
  BY ExecutorAssumption DEF PipeTypes

\* The steps of an item change neither the run nor an item that is not running.
LEMMA ItemSteps ==
    ASSUME ItemsInv, PipeTypes, NEW i \in Item, ItemStep(i) \/ Stream(i), UNCHANGED rest
    PROVE  /\ tokens' \in 0..Capacity
           /\ \A j \in Item \ {i} : res'[j] = res[j]
           /\ res'[i] = res[i] \/ res[i] = "run" \/ (res[i] = "wait" /\ i \in Chunk)
<1>t. tokens \in 0..Capacity /\ Capacity \in Nat
  BY ExecutorAssumption DEF PipeTypes
<1>r. res \in [Item -> {"wait", "run", "ok", "failed", "cancelled"}]
  BY DEF ItemsInv, ItemTypes
<1>1. tokens' \in 0..Capacity
  BY <1>t DEF ItemStep, StartItem, Enter, Acquire, Return, Retry, Iterate, Stream, StreamCancelled,
     Admit, BatchReturn, EachNext, ItemDone
<1>2. CASE StartItem(i)
  BY <1>r, <1>1, <1>2 DEF StartItem
<1>3. CASE res[i] = "run" /\ (UNCHANGED res \/ \E r : Ends(i, r))
  BY <1>r, <1>1, <1>3 DEF Ends
<1>4. ASSUME ~StartItem(i) PROVE res[i] = "run" /\ (UNCHANGED res \/ \E r : Ends(i, r))
  <2>1. res[i] = "run"
    BY <1>4 DEF ItemStep, Enter, Acquire, Return, Retry, Iterate, Stream, StreamCancelled,
       Admit, BatchReturn, EachNext, ItemDone, At
  <2>2. Enter(i) => UNCHANGED res \/ \E r : Ends(i, r)
    BY DEF Enter, Becomes
  <2>3. Acquire(i) \/ Retry(i) => UNCHANGED res
    BY DEF Acquire, Retry, Becomes
  <2>4. Return(i) \/ BatchReturn(i) => UNCHANGED res \/ \E r : Ends(i, r)
    BY DEF Return, BatchReturn, Resolved, Becomes
  <2>5. Iterate(i) \/ Stream(i) \/ StreamCancelled(i) => UNCHANGED res \/ \E r : Ends(i, r)
    BY DEF Iterate, Stream, StreamCancelled, Gather, Exhausted, Dispatch, Becomes
  <2>6. Admit(i) \/ EachNext(i) \/ ItemDone(i) => UNCHANGED res \/ \E r : Ends(i, r)
    BY DEF Admit, EachNext, ItemDone, Becomes
  <2> QED
    BY <1>4, <2>1, <2>2, <2>3, <2>4, <2>5, <2>6 DEF ItemStep
<1> QED
  BY <1>2, <1>3, <1>4

LEMMA RunItems ==
    ASSUME ItemsInv, RunInv, NEW i \in Item, ItemStep(i) \/ Stream(i), UNCHANGED rest
    PROVE  RunInv'
<1>1. PipeTypes /\ Progress /\ Recorded
  BY DEF RunInv
<1>2. UNCHANGED <<tasks, conc, dedup, pc, base, rows, result, cancelled>>
  BY DEF rest, pipeline
<1>3. /\ tokens' \in 0..Capacity
      /\ \A j \in Item \ {i} : res'[j] = res[j]
      /\ res'[i] = res[i] \/ res[i] = "run" \/ (res[i] = "wait" /\ i \in Chunk)
  BY <1>1, ItemSteps
<1>4. PipeTypes'
  BY <1>1, <1>2, <1>3 DEF PipeTypes
<1>n. base \in Nat /\ conc \in Nat /\ i \in Nat
  BY <1>1, Numbers DEF Item
<1>5. \A j \in Item : (j <= base => res'[j] = "ok") /\ (j > base + conc => res'[j] = "wait")
  BY <1>1, <1>3, <1>n DEF Progress, Chunk
<1>6. Progress'
  BY <1>1, <1>2, <1>5 DEF Progress
<1>7. Recorded'
  BY <1>1, <1>2 DEF Recorded
<1> QED
  BY <1>4, <1>6, <1>7 DEF RunInv

\* The chunk has gone through: its items join those before it.
LEMMA RunNextChunk ==
    ASSUME ItemsInv, RunInv, NextChunk
    PROVE  RunInv'
<1>1. PipeTypes /\ Progress /\ Recorded
  BY DEF RunInv
<1>2. UNCHANGED <<tasks, conc, dedup, res, rows, cancelled, tokens>>
  BY DEF NextChunk, pipeline, perItem
<1>n. Items \in Nat /\ conc \in Nat /\ conc >= 1 /\ base \in Nat /\ base <= Items
  BY <1>1, Numbers
<1>pc. pc = "items" /\ \A j \in Chunk : res[j] \notin {"wait", "run"}
  BY DEF NextChunk
<1>res. res \in [Item -> {"wait", "run", "ok", "failed", "cancelled"}]
  BY DEF ItemsInv, ItemTypes
<1>in. \A j \in Item : j \in Nat /\ j >= 1 /\ j <= Items
  BY <1>n DEF Item
<1>3. CASE \E i \in Failures : pc' = "failed" /\ result' = res[i] /\ UNCHANGED base
  <2>1. pc' = "failed" /\ result' \in {"failed", "cancelled"} /\ UNCHANGED base
    BY <1>3 DEF Failures
  <2>2. PipeTypes'
    BY <1>1, <1>2, <2>1 DEF PipeTypes
  <2>3. Progress'
    BY <1>1, <1>2, <2>1 DEF Progress
  <2>4. Recorded'
    BY <1>1, <1>2, <1>pc, <2>1 DEF Recorded
  <2> QED
    BY <2>2, <2>3, <2>4 DEF RunInv
<1>4. CASE /\ Failures = {} /\ Chunk # {}
           /\ base' = IF base + conc > Items THEN Items ELSE base + conc
           /\ UNCHANGED <<pc, result>>
  <2>0. base < Items
    BY <1>4, <1>n, <1>in DEF Chunk
  <2>1. base' \in Nat /\ base' <= Items /\ base' <= base + conc /\ base' \in 0..Items
    BY <1>4, <1>n
  <2>2. PipeTypes'
    BY <1>1, <1>2, <1>4, <2>1 DEF PipeTypes
  <2>3. base' = Items \/ \E q \in Nat : base' = q * conc
    <3>1. PICK q \in Nat : base = q * conc
      BY <1>1, <2>0, <1>n DEF Progress
    <3>2. (q + 1) * conc = q * conc + conc /\ q + 1 \in Nat
      BY <1>n
    <3>3. CASE base' = Items
      BY <3>3
    <3>4. CASE base' = base + conc
      <4>1. base' = (q + 1) * conc
        BY <3>1, <3>2, <3>4
      <4> QED
        BY <3>2, <4>1
    <3> QED
      BY <1>4, <3>3, <3>4
  <2>4. ASSUME NEW j \in Item PROVE (j <= base' => res[j] = "ok") /\ (j > base' + conc => res[j] = "wait")
    <3>1. CASE j <= base
      <4>1. ~(j > base' + conc)
        BY <1>n, <1>in, <1>4, <3>1
      <4> QED
        BY <1>1, <3>1, <4>1 DEF Progress
    <3>2. CASE j > base /\ j <= base + conc
      <4>1. j \in Chunk
        BY <3>2 DEF Chunk
      <4>2. res[j] = "ok"
        BY <1>4, <1>pc, <1>res, <4>1 DEF Failures
      <4>3. ~(j > base' + conc)
        BY <1>n, <1>in, <1>4, <3>2
      <4> QED
        BY <4>2, <4>3
    <3>3. CASE j > base + conc
      <4>1. ~(j <= base')
        BY <1>n, <1>in, <2>1, <3>3
      <4> QED
        BY <1>1, <3>3, <4>1 DEF Progress
    <3> QED
      BY <1>n, <1>in, <3>1, <3>2, <3>3
  <2>5. Progress'
    BY <1>2, <1>4, <1>pc, <2>3, <2>4 DEF Progress
  <2>6. Recorded'
    BY <1>1, <1>2, <1>4, <1>pc DEF Recorded
  <2> QED
    BY <2>2, <2>5, <2>6 DEF RunInv
<1>5. CASE Chunk = {} /\ pc' = "record" /\ UNCHANGED <<base, result>>
  <2>1. base = Items
    <3>1. CASE base < Items
      <4>1. base + 1 \in Item /\ base < base + 1 /\ base + 1 <= base + conc
        BY <1>n, <3>1 DEF Item
      <4>2. base + 1 \in Chunk
        BY <4>1 DEF Chunk
      <4> QED
        BY <1>5, <4>2
    <3> QED
      BY <1>n, <3>1
  <2>2. PipeTypes'
    BY <1>1, <1>2, <1>5 DEF PipeTypes
  <2>3. Progress'
    BY <1>1, <1>2, <1>5, <2>1 DEF Progress
  <2>4. Recorded'
    BY <1>1, <1>2, <1>5, <1>pc DEF Recorded
  <2> QED
    BY <2>2, <2>3, <2>4 DEF RunInv
<1> QED
  BY <1>3, <1>4, <1>5 DEF NextChunk

\* The rows of the run.
LEMMA RunRecords ==
    ASSUME ItemsInv, RunInv, Start \/ Split \/ Record \/ RecordError
    PROVE  RunInv'
<1>1. PipeTypes /\ Progress /\ Recorded
  BY DEF RunInv
<1>2. UNCHANGED <<tasks, conc, dedup, base, res, cancelled, tokens>>
  BY DEF Start, Split, Record, RecordError, pipeline, perItem
<1>pc. pc' \in {"started", "items", "failed", "done"} /\ pc \in {"new", "started", "record", "failed"}
  BY DEF Start, Split, Record, RecordError
<1>rows. rows \in Seq({"STARTED", "COMPLETED", "ERRORED"}) /\ Len(rows) \in Nat
         /\ \A n \in 1..Len(rows) : rows[n] = "STARTED"
  BY <1>1, <1>pc DEF PipeTypes, Recorded
<1>3. \/ UNCHANGED rows
      \/ rows' = <<"STARTED">> /\ pc' = "started"
      \/ rows' = Append(rows, "COMPLETED") /\ pc = "record" /\ pc' = "done"
      \/ rows' = Append(rows, "ERRORED") /\ pc' = "done"
  BY DEF Start, Split, Record, RecordError
<1>4. rows' \in Seq({"STARTED", "COMPLETED", "ERRORED"})
  <2>1. <<"STARTED">> \in Seq({"STARTED", "COMPLETED", "ERRORED"})
    OBVIOUS
  <2>2. \A e \in {"STARTED", "COMPLETED", "ERRORED"} :
            Append(rows, e) \in Seq({"STARTED", "COMPLETED", "ERRORED"})
    BY <1>rows
  <2> QED
    BY <1>rows, <1>3, <2>1, <2>2
<1>5. result' \in {"none", "ok", "failed", "cancelled", "invalid", "unrecorded"}
  BY <1>1 DEF Start, Split, Record, RecordError, PipeTypes
<1>6. PipeTypes'
  BY <1>1, <1>2, <1>pc, <1>4, <1>5 DEF PipeTypes
<1>7. Progress'
  BY <1>1, <1>2, <1>pc DEF Progress
<1>8. Recorded'
  <2>1. CASE UNCHANGED rows
    BY <1>rows, <2>1 DEF Recorded
  <2>2. CASE rows' = <<"STARTED">>
    <3>1. DOMAIN rows' = {1} /\ rows'[1] = "STARTED"
      BY <2>2
    <3> QED
      BY <3>1 DEF Recorded
  <2>3. CASE rows' = Append(rows, "COMPLETED") /\ pc = "record" /\ pc' = "done"
    <3>1. base' = Items
      BY <1>1, <1>2, <2>3 DEF Progress
    <3>2. \A n \in DOMAIN rows' : rows'[n] # "ERRORED"
      BY <1>rows, <2>3
    <3> QED
      BY <2>3, <3>1, <3>2 DEF Recorded
  <2>4. CASE rows' = Append(rows, "ERRORED") /\ pc' = "done"
    <3>1. \A n \in DOMAIN rows' : rows'[n] # "COMPLETED"
      BY <1>rows, <2>4
    <3> QED
      BY <2>4, <3>1 DEF Recorded
  <2> QED
    BY <1>3, <2>1, <2>2, <2>3, <2>4
<1> QED
  BY <1>6, <1>7, <1>8 DEF RunInv

LEMMA RunNext ==
    ASSUME ItemsInv, RunInv, [Next]_vars
    PROVE  RunInv'
<1>1. PipeTypes /\ Progress /\ Recorded
  BY DEF RunInv
<1>2. CASE Cancel \/ Over \/ UNCHANGED vars
  <2>1. UNCHANGED <<tasks, conc, dedup, pc, base, res, rows, result, tokens>> /\ cancelled' \in BOOLEAN
    BY <1>1, <1>2 DEF Cancel, Over, vars, pipeline, perItem, PipeTypes
  <2> QED
    BY <1>1, <2>1 DEF RunInv, PipeTypes, Progress, Recorded
<1>3. CASE Refill
  <2>1. UNCHANGED <<tasks, conc, dedup, pc, base, res, rows, result, cancelled>>
    BY <1>3 DEF Refill, pipeline, perItem
  <2>2. tokens' \in 0..Capacity
    BY <1>1, <1>3, ExecutorAssumption DEF Refill, PipeTypes
  <2> QED
    BY <1>1, <2>1, <2>2 DEF RunInv, PipeTypes, Progress, Recorded
<1>4. CASE Abort
  <2>1. UNCHANGED <<tasks, conc, dedup, base, rows, result, cancelled, tokens>> /\ pc' = "aborted"
    BY <1>4 DEF Abort, pipeline
  <2>2. \A i \in Item : (res[i] = "ok" => res'[i] = "ok") /\ (res[i] = "wait" => res'[i] = "wait")
    BY <1>4 DEF Abort
  <2>3. PipeTypes'
    BY <1>1, <2>1 DEF PipeTypes
  <2>4. Progress'
    BY <1>1, <2>1, <2>2 DEF Progress
  <2>5. Recorded'
    BY <1>1, <2>1 DEF Recorded
  <2> QED
    BY <2>3, <2>4, <2>5 DEF RunInv
<1> QED
  BY <1>2, <1>3, <1>4, RunItems, RunNextChunk, RunRecords DEF Next, RunStep

-----------------------------------------------------------------------------
(* The theorems *)

ExecutorInv == ItemsInv /\ RunInv

LEMMA ExecutorInvariant == Spec => []ExecutorInv
<1>1. Init => ExecutorInv
  BY ItemsInit, RunInit DEF ExecutorInv
<1>2. ExecutorInv /\ [Next]_vars => ExecutorInv'
  BY ItemsNext, RunNext DEF ExecutorInv, RunInv
<1> QED
  BY <1>1, <1>2, PTL DEF Spec

\* Every variable keeps its type, in particular no value is taken that is not owed,
\* and an item that is not running has no frame (TypeOK: execute_one_item).
THEOREM ExecutorTypeCorrect == Spec => []TypeOK
<1>1. ExecutorInv => TypeOK
  BY DEF ExecutorInv, ItemsInv, ItemTypes, ItemOK, RunInv, PipeTypes, TypeOK
<1> QED
  BY <1>1, ExecutorInvariant, PTL

\* A COMPLETED row stands for all the work: every chunk was run to its end and every
\* value that a task produced reached its consumer or was returned, and the run
\* has no ERRORED row (CompletedIsComplete: execute_unscoped, execute_items_par,
\* the flush of process_iter and process_stream).
THEOREM CompletedMeansAllDone == Spec => []CompletedIsComplete
<1>1. ExecutorInv => CompletedIsComplete
  <2> SUFFICES ASSUME ExecutorInv, NEW n \in DOMAIN rows, rows[n] = "COMPLETED"
               PROVE  /\ \A i \in Item : res[i] = "ok" /\ owed[i] = 0
                      /\ "ERRORED" \notin {rows[m] : m \in DOMAIN rows}
    BY DEF CompletedIsComplete
  <2>1. base = Items /\ \A m \in DOMAIN rows : rows[m] # "ERRORED"
    BY DEF ExecutorInv, RunInv, Recorded
  <2>2. \A i \in Item : i <= base
    BY <2>1, ExecutorAssumption DEF Item
  <2>3. \A i \in Item : res[i] = "ok"
    BY <2>2 DEF ExecutorInv, RunInv, Progress
  <2>4. \A i \in Item : owed[i] = 0
    BY <2>3 DEF ExecutorInv, ItemsInv, ItemOK, Values
  <2> QED
    BY <2>1, <2>3, <2>4
<1> QED
  BY <1>1, ExecutorInvariant, PTL

\* An item recorded as completed, which later runs skip, left no value behind, even
\* when the run around it failed or was cancelled (MarkedIsDone: the end of
\* execute_one_item).
THEOREM MarkedItemsAreDone == Spec => []MarkedIsDone
<1>1. ExecutorInv => MarkedIsDone
  BY DEF ExecutorInv, ItemsInv, ItemOK, Values, MarkedIsDone
<1> QED
  BY <1>1, ExecutorInvariant, PTL

\* After a cancellation an item makes no more calls than the attempts of the task it
\* is in, and no batch task is called (CancelStopsWork: the checks of the token
\* in execute_from, process_iter, process_stream and dispatch_batch).
THEOREM CancellationStopsWork == Spec => []CancelStopsWork
<1>1. ExecutorInv => CancelStopsWork
  BY DEF ExecutorInv, ItemsInv, ItemOK, Late, CancelStopsWork
<1> QED
  BY <1>1, ExecutorInvariant, PTL

\* No item starts after one of an earlier chunk has failed (FailureStopsRun:
\* execute_items_par waits for the whole chunk before it looks for a failure).
THEOREM FailureStopsChunks == Spec => []FailureStopsRun
<1>1. ExecutorInv => FailureStopsRun
  <2> SUFFICES ASSUME ExecutorInv, NEW i \in Item, NEW j \in Item,
                      res[i] \in {"failed", "cancelled"}, res[j] # "wait"
               PROVE  (j - 1) \div conc <= (i - 1) \div conc
    BY DEF FailureStopsRun
  <2>1. PipeTypes /\ Progress
    BY DEF ExecutorInv, RunInv
  <2>2. Items \in Nat /\ conc \in Nat /\ conc >= 1 /\ base \in Nat /\ base <= Items
    BY <2>1, Numbers
  <2>3. i \in Nat /\ j \in Nat /\ i >= 1 /\ j >= 1 /\ i <= Items /\ j <= Items
    BY <2>2 DEF Item
  <2>4. ~(i <= base) /\ ~(j > base + conc)
    BY <2>1 DEF Progress
  <2>5. PICK q \in Nat : base = q * conc
    BY <2>1, <2>2, <2>3, <2>4 DEF Progress
  <2>6. i - 1 \in Nat /\ j - 1 \in Nat /\ base <= i - 1 /\ j - 1 < base + conc
    BY <2>2, <2>3, <2>4
  <2>7. conc \in Nat \ {0} /\ q * conc <= i - 1 /\ j - 1 < q * conc + conc
    BY <2>2, <2>5, <2>6
  <2> HIDE DEF Item
  <2>8. ASSUME NEW x \in Nat, NEW y \in Nat, q * conc <= x, y < q * conc + conc
        PROVE  y \div conc <= x \div conc
    BY <2>7, <2>8, SameChunk
  <2>9. PICK x \in Nat : x = i - 1
    BY <2>6
  <2>10. PICK y \in Nat : y = j - 1
    BY <2>6
  <2> QED
    BY <2>7, <2>8, <2>9, <2>10
<1> QED
  BY <1>1, ExecutorInvariant, PTL

=============================================================================
