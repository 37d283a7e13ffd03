------------------------- MODULE DatasetLocksProofs -------------------------
(***************************************************************************)
(* Theorems about DatasetLocks, for any number of tasks, dataset ids,      *)
(* mutexes and nested calls: the types, exclusion, no lost permit, no      *)
(* circular wait, and that the registry implements AbstractLock.           *)
(***************************************************************************)
EXTENDS DatasetLocks, TLAPS, SequenceTheorems, FiniteSetTheorems, WellFoundedInduction

(* The inductive invariant *)

\* The call f has a guard of id d.
Covers(f, d) == \E m \in Mutex : <<d, m>> \in f.guards

\* A call that encloses call i of the stack s has a guard of id d.
Outer(s, i, d) == \E j \in 1..(i - 1) : Covers(s[j], d)

\* The frame f at place i of the stack s.  It has or will take every id it names,
\* or rides on an enclosing call; it takes no id twice, and in ascending order; lock
\* and try_lock name one id;
\* HELD is what the enclosing calls took and, inside a hold, what it took itself.
FrameOK(s, i, f) ==
    /\ f.phase \in {"take", "wait"} <=> f.phase # "out" /\ f.take # {}
    /\ f.phase = "wait" => f.arc # NoMutex
    /\ f.arc # NoMutex => f.phase \in {"take", "wait"}
    /\ f.take \subseteq f.want
    /\ f.kind # "hold" => \A d, e \in f.want : d = e
    /\ f.kind # "hold" /\ f.take # {} => f.guards = {}
    /\ \A d \in Id :
         /\ d \in f.take => ~Outer(s, i, d)
         /\ Covers(f, d) => ~Outer(s, i, d)
         /\ \A e \in f.take : Covers(f, d) => d < e
         /\ d \in f.want /\ f.phase # "out" => d \in f.take \/ Covers(f, d) \/ Outer(s, i, d)
         /\ f.phase # "out" =>
              (d \in f.held <=> \/ Outer(s, i, d)
                                \/ f.phase = "in" /\ f.kind = "hold" /\ Covers(f, d))

\* Only the innermost call of a stack is not inside, or is not a hold.
StackOK(s) ==
    \A i \in 1..Len(s) :
        /\ FrameOK(s, i, s[i])
        /\ i < Len(s) => s[i].phase = "in" /\ s[i].kind = "hold"

StacksOK == \A t \in Task : StackOK(stack[t])

\* An id has one mutex at a time: two ids have two, a guard's is the one in the
\* registry, and so is the one that a call has resolved.  The permit of a guard
\* is with the task of the call.
GuardsOK ==
    /\ \A d, e \in Id : d # e /\ registry[d] # NoMutex => registry[d] # registry[e]
    /\ \A t \in Task : \A i \in 1..Depth(t) :
         /\ \A d \in Id, m \in Mutex :
              <<d, m>> \in stack[t][i].guards => registry[d] = m /\ owner[m] = t
         /\ stack[t][i].arc # NoMutex => stack[t][i].arc = registry[NextId(stack[t][i])]

\* The innermost call of the stack s waits for m.
Waits(s, m) == Len(s) > 0 /\ s[Len(s)].phase = "wait" /\ s[Len(s)].arc = m

\* A task in the queue of a mutex is there once, waits for it, and is not the one
\* that has the permit.
QueuesOK ==
    \A m \in Mutex : \A n \in 1..Len(queue[m]) :
        /\ Waits(stack[queue[m][n]], m)
        /\ owner[m] # queue[m][n]
        /\ \A k \in 1..Len(queue[m]) : k # n => queue[m][k] # queue[m][n]

LocksInv == TypeOK /\ StacksOK /\ GuardsOK /\ QueuesOK /\ NoLostPermit

-----------------------------------------------------------------------------
(* Numbers and frames *)

\* A set of numbers that is not empty has a least element.
LEMMA LeastNumber ==
    ASSUME NEW S, S \subseteq Nat, S # {}
    PROVE  \E x \in S : \A y \in S : x <= y
<1>1. PICK x \in S : \A y \in S : ~(<<y, x>> \in OpToRel(<, Nat))
  BY NatLessThanWellFounded, WFMin
<1>2. \A y \in S : ~(y < x)
  BY <1>1 DEF OpToRel
<1> QED
  BY <1>2

\* The next id of a call is the least of those it has still to take.
LEMMA NextIdLeast ==
    ASSUME NEW f \in Frame, f.take # {}
    PROVE  /\ NextId(f) \in f.take
           /\ NextId(f) \in Id
           /\ \A d \in f.take : NextId(f) <= d
<1>1. f.take \subseteq Id /\ Id \subseteq Nat
  BY LocksAssumption DEF Frame
<1>2. \E x \in f.take : \A y \in f.take : x <= y
  BY <1>1, LeastNumber
<1> QED
  BY <1>1, <1>2 DEF NextId

\* What the fields of a frame hold.
LEMMA FrameFields ==
    ASSUME NEW f \in Frame
    PROVE  /\ f.kind \in {"hold", "lock", "try"}
           /\ f.want \in SUBSET Id
           /\ f.take \in SUBSET Id
           /\ f.arc \in Mutex \cup {NoMutex}
           /\ f.guards \in SUBSET (Id \X Mutex)
           /\ f.held \in SUBSET Id
           /\ f.phase \in {"take", "wait", "in", "out"}
BY DEF Frame

\* The updates of a frame that the steps make are frames of the same ids.
LEMMA FrameUpdates ==
    ASSUME NEW f \in Frame
    PROVE  /\ \A m \in Mutex \cup {NoMutex} :
                [f EXCEPT !.arc = m] \in Frame /\ [f EXCEPT !.arc = m].want = f.want
           /\ \A p \in {"wait", "out"} :
                [f EXCEPT !.phase = p] \in Frame /\ [f EXCEPT !.phase = p].want = f.want
           /\ \A g : /\ [f EXCEPT !.guards = @ \ {g}] \in Frame
                    /\ [f EXCEPT !.guards = @ \ {g}].want = f.want
           /\ [f EXCEPT !.phase = "out", !.arc = NoMutex] \in Frame
           /\ [f EXCEPT !.phase = "out", !.arc = NoMutex].want = f.want
<1>1. \A g : f.guards \ {g} \in SUBSET (Id \X Mutex)
  BY FrameFields
<1> QED
  BY <1>1 DEF Frame

\* The frame of a call that is granted the mutex it has resolved.
LEMMA TakenFields ==
    ASSUME NEW f \in Frame, f.take # {}, f.arc # NoMutex
    PROVE  LET g == Taken(f)
               n == NextId(f)
           IN  /\ g \in Frame
               /\ g.kind = f.kind /\ g.want = f.want
               /\ g.take = f.take \ {n}
               /\ g.arc = NoMutex
               /\ g.guards = f.guards \cup {<<n, f.arc>>}
               /\ g.phase = IF g.take = {} THEN "in" ELSE "take"
               /\ g.held = IF g.take = {} /\ f.kind = "hold"
                           THEN f.held \cup {h[1] : h \in g.guards} ELSE f.held
<1> DEFINE n == NextId(f)
           t == f.take \ {n}
           s == f.guards \cup {<<n, f.arc>>}
           g == [f EXCEPT !.guards = s, !.take = t, !.arc = NoMutex, !.phase = "take"]
<1>1. n \in Id /\ f.arc \in Mutex
  BY NextIdLeast, FrameFields
<1>2. s \in SUBSET (Id \X Mutex) /\ t \in SUBSET Id /\ {h[1] : h \in s} \in SUBSET Id
  BY <1>1, FrameFields
<1>3. Taken(f) = IF t = {} THEN Entered(g) ELSE g
  BY DEF Taken, Frame
<1> HIDE DEF s, t
<1>4. /\ g \in Frame /\ g.kind = f.kind /\ g.want = f.want /\ g.take = t
      /\ g.arc = NoMutex /\ g.guards = s /\ g.phase = "take" /\ g.held = f.held
  BY <1>2 DEF Frame
<1> HIDE DEF g
<1>5. LET e == Entered(g)
      IN  /\ e \in Frame /\ e.kind = f.kind /\ e.want = f.want /\ e.take = t
          /\ e.arc = NoMutex /\ e.guards = s /\ e.phase = "in"
          /\ e.held = IF f.kind = "hold" THEN f.held \cup {h[1] : h \in s} ELSE f.held
  BY <1>2, <1>4 DEF Entered, Frame
<1>6. CASE t = {}
  BY <1>3, <1>5, <1>6 DEF s, t
<1>7. CASE t # {}
  BY <1>3, <1>4, <1>7 DEF s, t
<1> QED
  BY <1>6, <1>7

\* The frame of a new call.
LEMMA NewFrameFields ==
    ASSUME NEW t \in Task, NEW kind \in {"hold", "lock", "try"}, NEW S \in SUBSET Id,
           Held(t) \in SUBSET Id
    PROVE  LET f == NewFrame(t, kind, S)
           IN  /\ f \in Frame
               /\ f.kind = kind /\ f.want = S /\ f.take = S \ Held(t)
               /\ f.arc = NoMutex /\ f.guards = {} /\ f.held = Held(t)
               /\ f.phase = IF f.take = {} THEN "in" ELSE "take"
<1> DEFINE h == Held(t)
           g == [kind |-> kind, want |-> S, take |-> S \ h, arc |-> NoMutex,
                 guards |-> {}, held |-> h, phase |-> "take"]
<1>1. NewFrame(t, kind, S) = IF S \ h = {} THEN Entered(g) ELSE g
  BY DEF NewFrame
<1> HIDE DEF h
<1>2. h \in SUBSET Id
  BY DEF h
<1>3. g \in Frame
  BY <1>2 DEF Frame
<1>4. LET e == Entered(g)
      IN  /\ e \in Frame /\ e.kind = kind /\ e.want = S /\ e.take = S \ h
          /\ e.arc = NoMutex /\ e.guards = {} /\ e.phase = "in" /\ e.held = h
  BY <1>2 DEF Entered, Frame
<1> QED
  BY <1>1, <1>3, <1>4 DEF h

-----------------------------------------------------------------------------
(* Stacks *)

\* What a frame relies on in its stack are the frames below it.
LEMMA FrameOKSame ==
    ASSUME NEW s, NEW r, NEW i \in Nat, NEW f, \A j \in 1..(i - 1) : r[j] = s[j],
           FrameOK(s, i, f)
    PROVE  FrameOK(r, i, f)
<1>1. \A d : Outer(r, i, d) <=> Outer(s, i, d)
  BY DEF Outer
<1> QED
  BY <1>1 DEF FrameOK

\* A call is added on top of a stack.
LEMMA StackPush ==
    ASSUME NEW s \in Seq(Frame), NEW f \in Frame, StackOK(s),
           Len(s) > 0 => s[Len(s)].phase = "in" /\ s[Len(s)].kind = "hold",
           FrameOK(s, Len(s) + 1, f)
    PROVE  StackOK(Append(s, f))
<1> DEFINE r == Append(s, f)
<1>1. /\ r \in Seq(Frame) /\ Len(r) = Len(s) + 1 /\ Len(s) \in Nat
      /\ \A i \in 1..Len(s) : r[i] = s[i]
      /\ r[Len(s) + 1] = f
  BY AppendProperties
<1> HIDE DEF r
<1>2. ASSUME NEW i \in 1..Len(r)
      PROVE  FrameOK(r, i, r[i]) /\ (i < Len(r) => r[i].phase = "in" /\ r[i].kind = "hold")
  <2>1. CASE i = Len(r)
    BY <1>1, <2>1, FrameOKSame
  <2>2. CASE i # Len(r)
    <3>1. i \in 1..Len(s) /\ r[i] = s[i]
      BY <1>1, <2>2
    <3>2. FrameOK(s, i, s[i]) /\ (i < Len(s) => s[i].phase = "in" /\ s[i].kind = "hold")
      BY <3>1 DEF StackOK
    <3>3. FrameOK(r, i, r[i])
      BY <1>1, <3>1, <3>2, FrameOKSame
    <3> QED
      BY <1>1, <3>1, <3>2, <3>3
  <2> QED
    BY <2>1, <2>2
<1> QED
  BY <1>2 DEF StackOK, r

\* The innermost call of a stack changes.
LEMMA StackSetTop ==
    ASSUME NEW s \in Seq(Frame), NEW f \in Frame, StackOK(s), Len(s) > 0,
           FrameOK(s, Len(s), f)
    PROVE  StackOK([s EXCEPT ![Len(s)] = f])
<1> DEFINE r == [s EXCEPT ![Len(s)] = f]
<1>1. /\ Len(s) \in Nat /\ Len(r) = Len(s)
      /\ \A i \in 1..Len(s) : r[i] = IF i = Len(s) THEN f ELSE s[i]
  BY ExceptSeq
<1> HIDE DEF r
<1>2. ASSUME NEW i \in 1..Len(r)
      PROVE  FrameOK(r, i, r[i]) /\ (i < Len(r) => r[i].phase = "in" /\ r[i].kind = "hold")
  <2>1. FrameOK(s, i, r[i]) /\ (i < Len(r) => r[i].phase = "in" /\ r[i].kind = "hold")
    BY <1>1 DEF StackOK
  <2>2. FrameOK(r, i, r[i])
    BY <1>1, <2>1, FrameOKSame
  <2> QED
    BY <2>1, <2>2
<1> QED
  BY <1>2 DEF StackOK, r

\* A sequence without its last element.
LEMMA ButLast ==
    ASSUME NEW S, NEW s \in Seq(S), Len(s) > 0
    PROVE  LET r == SubSeq(s, 1, Len(s) - 1)
           IN  /\ r \in Seq(S) /\ Len(r) = Len(s) - 1
               /\ \A i \in 1..(Len(s) - 1) : r[i] = s[i]
<1> DEFINE n == Len(s) - 1
<1>1. n \in Nat /\ n <= Len(s)
  BY LenProperties
<1> HIDE DEF n
<1>2. SubSeq(s, 1, n) \in Seq(S)
  BY <1>1
<1>3. Len(SubSeq(s, 1, n)) = n
  BY <1>1
<1>4. \A i \in 1..n : SubSeq(s, 1, n)[i] = s[i]
  BY <1>1
<1> QED
  BY <1>2, <1>3, <1>4 DEF n

\* The innermost call of a stack returns.
LEMMA StackPop ==
    ASSUME NEW s \in Seq(Frame), StackOK(s), Len(s) > 0
    PROVE  /\ SubSeq(s, 1, Len(s) - 1) \in Seq(Frame)
           /\ Len(SubSeq(s, 1, Len(s) - 1)) = Len(s) - 1
           /\ \A i \in 1..(Len(s) - 1) : SubSeq(s, 1, Len(s) - 1)[i] = s[i]
           /\ StackOK(SubSeq(s, 1, Len(s) - 1))
<1> DEFINE r == SubSeq(s, 1, Len(s) - 1)
<1>1. /\ Len(s) \in Nat /\ r \in Seq(Frame) /\ Len(r) = Len(s) - 1
      /\ \A i \in 1..(Len(s) - 1) : r[i] = s[i]
  BY ButLast, LenProperties
<1> HIDE DEF r
<1>2. ASSUME NEW i \in 1..Len(r)
      PROVE  FrameOK(r, i, r[i]) /\ (i < Len(r) => r[i].phase = "in" /\ r[i].kind = "hold")
  <2>1. FrameOK(s, i, r[i]) /\ (i < Len(r) => r[i].phase = "in" /\ r[i].kind = "hold")
    BY <1>1 DEF StackOK
  <2>2. FrameOK(r, i, r[i])
    BY <1>1, <2>1, FrameOKSame
  <2> QED
    BY <2>1, <2>2
<1> QED
  BY <1>1, <1>2 DEF StackOK, r

\* A sequence without its element at x.
LEMMA WithoutAt ==
    ASSUME NEW S, NEW s \in Seq(S), NEW x \in 1..Len(s)
    PROVE  LET r == SubSeq(s, 1, x - 1) \o SubSeq(s, x + 1, Len(s))
           IN  /\ r \in Seq(S) /\ Len(r) = Len(s) - 1
               /\ \A i \in 1..(Len(s) - 1) : r[i] = IF i < x THEN s[i] ELSE s[i + 1]
<1> DEFINE a == SubSeq(s, 1, x - 1)
           b == SubSeq(s, x + 1, Len(s))
<1>1. Len(s) \in Nat
  OBVIOUS
<1>2. a \in Seq(S) /\ Len(a) = x - 1 /\ \A i \in 1..(x - 1) : a[i] = s[i]
  OBVIOUS
<1>3. b \in Seq(S)
  OBVIOUS
<1>4. Len(b) = Len(s) - x
  BY <1>1
<1>5. \A i \in 1..(Len(s) - x) : b[i] = s[x + i]
  BY <1>1
<1> HIDE DEF a, b
<1>6. /\ a \o b \in Seq(S) /\ Len(a \o b) = Len(a) + Len(b)
      /\ \A i \in 1..(Len(a) + Len(b)) : (a \o b)[i] = IF i <= Len(a) THEN a[i] ELSE b[i - Len(a)]
  BY <1>2, <1>3, ConcatProperties
<1>7. \A i \in 1..(Len(s) - 1) : (a \o b)[i] = IF i < x THEN s[i] ELSE s[i + 1]
  BY <1>1, <1>2, <1>4, <1>5, <1>6
<1>8. Len(a \o b) = Len(s) - 1
  BY <1>1, <1>2, <1>4, <1>6
<1> QED
  BY <1>6, <1>7, <1>8 DEF a, b

\* A task that is at most once in a queue is not in it after it left; the others
\* are, each as often as before.
LEMMA LeaveQueue ==
    ASSUME NEW q \in Seq(Task), NEW t \in Task,
           \A i, j \in 1..Len(q) : i # j => q[i] # q[j]
    PROVE  /\ Leave(q, t) \in Seq(Task)
           /\ \A i \in 1..Len(Leave(q, t)) : /\ Leave(q, t)[i] # t
                                            /\ \E k \in 1..Len(q) : Leave(q, t)[i] = q[k]
           /\ \A i, j \in 1..Len(Leave(q, t)) : i # j => Leave(q, t)[i] # Leave(q, t)[j]
<1>1. DOMAIN q = 1..Len(q) /\ Len(q) \in Nat
  BY LenProperties
<1>2. CASE \E n \in DOMAIN q : q[n] = t
  <2> DEFINE n == CHOOSE n \in DOMAIN q : q[n] = t
             r == SubSeq(q, 1, n - 1) \o SubSeq(q, n + 1, Len(q))
  <2>1. n \in 1..Len(q) /\ q[n] = t
    BY <1>1, <1>2
  <2>2. Leave(q, t) = r
    BY <1>2 DEF Leave
  <2> HIDE DEF n
  <2>3. /\ r \in Seq(Task) /\ Len(r) = Len(q) - 1
        /\ \A i \in 1..(Len(q) - 1) : r[i] = IF i < n THEN q[i] ELSE q[i + 1]
    BY <2>1, WithoutAt
  <2> HIDE DEF r
  <2>4. ASSUME NEW i \in 1..Len(r)
        PROVE  r[i] # t /\ \E k \in 1..Len(q) : r[i] = q[k]
    <3>1. i \in 1..Len(q) /\ i + 1 \in 1..Len(q)
      BY <1>1, <2>3
    <3> QED
      BY <1>1, <2>1, <2>3, <3>1
  <2>5. ASSUME NEW i \in 1..Len(r), NEW j \in 1..Len(r), i # j PROVE r[i] # r[j]
    <3>1. /\ i \in 1..Len(q) /\ i + 1 \in 1..Len(q)
          /\ j \in 1..Len(q) /\ j + 1 \in 1..Len(q)
      BY <1>1, <2>3
    <3> QED
      BY <1>1, <2>1, <2>3, <2>5, <3>1
  <2> QED
    BY <2>2, <2>3, <2>4, <2>5
<1>3. CASE ~\E n \in DOMAIN q : q[n] = t
  BY <1>1, <1>3 DEF Leave
<1> QED
  BY <1>2, <1>3

-----------------------------------------------------------------------------
(* Steps of a task on its stack *)

\* What the other tasks have, and the enclosing calls of task t, stay.
LEMMA SetTopStep ==
    ASSUME TypeOK, StacksOK, NEW t \in Task, Depth(t) > 0, NEW f \in Frame,
           FrameOK(stack[t], Depth(t), f), SetTop(t, f)
    PROVE  /\ stack' \in [Task -> Seq(Frame)] /\ StacksOK'
           /\ \A u \in Task : Len(stack'[u]) = Len(stack[u])
           /\ \A u \in Task : \A i \in 1..Len(stack[u]) :
                stack'[u][i] = IF u = t /\ i = Len(stack[t]) THEN f ELSE stack[u][i]
<1>1. stack \in [Task -> Seq(Frame)] /\ stack[t] \in Seq(Frame)
  BY DEF TypeOK
<1> DEFINE r == [stack[t] EXCEPT ![Len(stack[t])] = f]
<1>2. stack' = [stack EXCEPT ![t] = r]
  BY DEF SetTop, Depth
<1>3. Len(stack[t]) \in 1..Len(stack[t])
  BY <1>1, LenProperties DEF Depth
<1>4. /\ r \in Seq(Frame) /\ Len(r) = Len(stack[t])
      /\ \A i \in 1..Len(stack[t]) : r[i] = IF i = Len(stack[t]) THEN f ELSE stack[t][i]
  BY <1>1, <1>3, ExceptSeq
<1>5. StackOK(r)
  BY <1>1, StackSetTop DEF StacksOK, Depth
<1> HIDE DEF r
<1> QED
  BY <1>1, <1>2, <1>4, <1>5 DEF StacksOK

\* A new call goes on top.
LEMMA PushStep ==
    ASSUME TypeOK, StacksOK, NEW t \in Task, NEW f \in Frame,
           Depth(t) > 0 => Top(t).phase = "in" /\ Top(t).kind = "hold",
           FrameOK(stack[t], Depth(t) + 1, f), Push(t, f)
    PROVE  /\ stack' \in [Task -> Seq(Frame)] /\ StacksOK'
           /\ \A u \in Task : Len(stack'[u]) = IF u = t THEN Len(stack[u]) + 1 ELSE Len(stack[u])
           /\ \A u \in Task : \A i \in 1..Len(stack[u]) : stack'[u][i] = stack[u][i]
           /\ stack'[t][Len(stack[t]) + 1] = f
<1>1. stack \in [Task -> Seq(Frame)] /\ stack[t] \in Seq(Frame)
  BY DEF TypeOK
<1> DEFINE r == Append(stack[t], f)
<1>2. stack' = [stack EXCEPT ![t] = r]
  BY DEF Push
<1>3. /\ r \in Seq(Frame) /\ Len(r) = Len(stack[t]) + 1
      /\ \A i \in 1..Len(stack[t]) : r[i] = stack[t][i]
      /\ r[Len(stack[t]) + 1] = f
  BY <1>1, AppendProperties
<1>4. StackOK(r)
  BY <1>1, StackPush DEF StacksOK, Depth, Top
<1> HIDE DEF r
<1> QED
  BY <1>1, <1>2, <1>3, <1>4 DEF StacksOK

\* The innermost call returns.
LEMMA PopStep ==
    ASSUME TypeOK, StacksOK, NEW t \in Task, Depth(t) > 0, Pop(t)
    PROVE  /\ stack' \in [Task -> Seq(Frame)] /\ StacksOK'
           /\ \A u \in Task : Len(stack'[u]) = IF u = t THEN Len(stack[u]) - 1 ELSE Len(stack[u])
           /\ \A u \in Task : \A i \in 1..Len(stack'[u]) : stack'[u][i] = stack[u][i]
<1>1. stack \in [Task -> Seq(Frame)] /\ stack[t] \in Seq(Frame)
  BY DEF TypeOK
<1> DEFINE r == SubSeq(stack[t], 1, Len(stack[t]) - 1)
<1>2. stack' = [stack EXCEPT ![t] = r]
  BY DEF Pop, Depth
<1>3. /\ r \in Seq(Frame) /\ Len(r) = Len(stack[t]) - 1 /\ StackOK(r)
      /\ \A i \in 1..(Len(stack[t]) - 1) : r[i] = stack[t][i]
  BY <1>1, StackPop DEF StacksOK, Depth
<1> HIDE DEF r
<1> QED
  BY <1>1, <1>2, <1>3 DEF StacksOK

\* The frames of a task, and a mutex that lives.
LEMMA FramesOf ==
    ASSUME TypeOK
    PROVE  /\ \A t \in Task : Depth(t) \in Nat
           /\ \A t \in Task : \A i \in 1..Depth(t) : stack[t][i] \in Frame
           /\ \A t \in Task : \A f : f \in Frames(t) <=> \E i \in 1..Depth(t) : f = stack[t][i]
<1>1. \A t \in Task : stack[t] \in Seq(Frame)
  BY DEF TypeOK
<1>2. \A t \in Task : DOMAIN stack[t] = 1..Depth(t) /\ Depth(t) \in Nat
  BY <1>1, LenProperties DEF Depth
<1>3. \A t \in Task : \A i \in 1..Depth(t) : stack[t][i] \in Frame
  BY <1>1, ElementOfSeq DEF Depth
<1> QED
  BY <1>2, <1>3 DEF Frames

\* The permits, read off the stacks.
Uses(f, m) == \/ \E d \in Id : <<d, m>> \in f.guards
              \/ f.phase = "wait" /\ f.arc = m

\* Who has a permit has a use for it, before and after a step.
LEMMA PermitUse ==
    ASSUME TypeOK, NoLostPermit, NEW m \in Mutex, owner[m] # NoTask
    PROVE  owner[m] \in Task /\ \E i \in 1..Len(stack[owner[m]]) : Uses(stack[owner[m]][i], m)
<1>1. owner[m] \in Task
  BY DEF TypeOK
<1>2. PICK f \in Frames(owner[m]) : Uses(f, m)
  BY DEF NoLostPermit, Uses
<1>3. \E i \in 1..Depth(owner[m]) : f = stack[owner[m]][i]
  BY <1>1, <1>2, FramesOf
<1> QED
  BY <1>1, <1>2, <1>3 DEF Depth

LEMMA PermitsKept ==
    ASSUME stack' \in [Task -> Seq(Frame)], owner' \in [Mutex -> Task \cup {NoTask}],
           \A m \in Mutex : owner'[m] = NoTask => queue'[m] = <<>>,
           \A m \in Mutex : owner'[m] # NoTask =>
              \E i \in 1..Len(stack'[owner'[m]]) : Uses(stack'[owner'[m]][i], m)
    PROVE  NoLostPermit'
<1> SUFFICES ASSUME NEW m \in Mutex, owner'[m] # NoTask
             PROVE  \E f \in Frames(owner[m])' : Uses(f, m)
  BY DEF NoLostPermit, Uses
<1>1. owner'[m] \in Task
  OBVIOUS
<1>2. PICK i \in 1..Len(stack'[owner'[m]]) : Uses(stack'[owner'[m]][i], m)
  OBVIOUS
<1>3. DOMAIN stack'[owner'[m]] = 1..Len(stack'[owner'[m]])
  BY <1>1, LenProperties
<1>4. stack'[owner'[m]][i] \in Frames(owner[m])'
  BY <1>2, <1>3 DEF Frames
<1> QED
  BY <1>2, <1>4

\* The types after a step whose stacks are well formed.
LEMMA TypesKept ==
    ASSUME stack' \in [Task -> Seq(Frame)], StacksOK',
           registry' \in [Id -> Mutex \cup {NoMutex}],
           owner' \in [Mutex -> Task \cup {NoTask}],
           queue' \in [Mutex -> Seq(Task)]
    PROVE  TypeOK'
<1>1. ASSUME NEW t \in Task, NEW i \in DOMAIN stack'[t]
      PROVE  /\ stack'[t][i].phase = "in" => stack'[t][i].take = {}
             /\ stack'[t][i].phase = "wait" => stack'[t][i].arc # NoMutex
  <2>1. i \in 1..Len(stack'[t])
    BY <1>1, LenProperties
  <2>2. FrameOK(stack'[t], i, stack'[t][i])
    BY <2>1 DEF StacksOK, StackOK
  <2> QED
    BY <2>2 DEF FrameOK
<1> QED
  BY <1>1 DEF TypeOK

\* What is known of a task's innermost call.
LEMMA TopFacts ==
    ASSUME TypeOK, StacksOK, NEW t \in Task, Depth(t) > 0
    PROVE  /\ Depth(t) = Len(stack[t]) /\ Depth(t) \in 1..Len(stack[t]) /\ Len(stack[t]) \in Nat
           /\ Top(t) = stack[t][Len(stack[t])]
           /\ Top(t) \in Frame
           /\ FrameOK(stack[t], Depth(t), Top(t))
<1>1. stack[t] \in Seq(Frame)
  BY DEF TypeOK
<1>2. Depth(t) = Len(stack[t]) /\ Depth(t) \in 1..Len(stack[t]) /\ Len(stack[t]) \in Nat
  BY <1>1, LenProperties DEF Depth
<1> QED
  BY <1>1, <1>2, ElementOfSeq DEF Top, StacksOK, StackOK

\* A task in a queue is another one than a task that does not wait for it.
LEMMA QueuedFacts ==
    ASSUME LocksInv, NEW m \in Mutex, NEW k \in 1..Len(queue[m])
    PROVE  /\ queue[m][k] \in Task
           /\ Waits(stack[queue[m][k]], m)
           /\ \A t \in Task : ~Waits(stack[t], m) => queue[m][k] # t
<1>1. queue[m] \in Seq(Task)
  BY DEF LocksInv, TypeOK
<1>2. queue[m][k] \in Task
  BY <1>1, ElementOfSeq
<1> QED
  BY <1>2 DEF LocksInv, QueuesOK

-----------------------------------------------------------------------------
(* Every action keeps the invariant *)

\* A set of one id.
LEMMA OneId ==
    ASSUME NEW S \in SUBSET Id, Cardinality(S) = 1
    PROVE  \A d, e \in S : d = e
<1>1. IsFiniteSet(S)
  <2>1. IsFiniteSet(0..MaxId)
    BY FS_Interval, LocksAssumption
  <2> QED
    BY <2>1, FS_Subset, LocksAssumption
<1> QED
  BY <1>1, FS_Singleton

\* A new call.
LEMMA CallKeeps ==
    ASSUME LocksInv, NEW t \in Task, NEW kind \in {"hold", "lock", "try"}, NEW S \in SUBSET Id,
           Call(t, kind, S)
    PROVE  LocksInv'
<1> DEFINE f == NewFrame(t, kind, S)
           n == Len(stack[t]) + 1
<1>1. TypeOK /\ StacksOK /\ Len(stack[t]) \in Nat
  BY LenProperties DEF LocksInv, TypeOK
<1>2. \A d \in Id : d \in Held(t) <=> Outer(stack[t], n, d)
  <2>1. CASE Depth(t) = 0
    BY <1>1, <2>1 DEF Held, Outer, Depth
  <2>2. CASE Depth(t) # 0
    <3>1. Depth(t) > 0
      BY <1>1, <2>2 DEF Depth
    <3>2. /\ FrameOK(stack[t], Len(stack[t]), Top(t)) /\ Top(t).phase = "in" /\ Top(t).kind = "hold"
          /\ Top(t) = stack[t][Len(stack[t])]
      BY <1>1, <3>1, TopFacts DEF Call, CanCall
    <3>3. \A d \in Id : d \in Top(t).held <=> Outer(stack[t], Len(stack[t]), d) \/ Covers(Top(t), d)
      BY <3>2 DEF FrameOK
    <3>4. \A d \in Id : Outer(stack[t], n, d) <=>
                           Outer(stack[t], Len(stack[t]), d) \/ Covers(stack[t][Len(stack[t])], d)
      BY <1>1, <3>1 DEF Outer, Depth
    <3> QED
      BY <2>2, <3>2, <3>3, <3>4 DEF Held
  <2> QED
    BY <2>1, <2>2
<1>3. Held(t) \in SUBSET Id
  BY <1>1, TopFacts, FrameFields DEF Held, Depth
<1>4. /\ f \in Frame /\ f.kind = kind /\ f.want = S /\ f.take = S \ Held(t)
      /\ f.arc = NoMutex /\ f.guards = {} /\ f.held = Held(t)
      /\ f.phase = IF f.take = {} THEN "in" ELSE "take"
  BY <1>3, NewFrameFields
<1>5. kind # "hold" => \A d, e \in S : d = e
  BY OneId DEF Call
<1>6. FrameOK(stack[t], n, f)
  <2> HIDE DEF f, n
  <2>1. \A d : ~Covers(f, d)
    BY <1>4 DEF Covers
  <2> QED
    BY <1>2, <1>4, <1>5, <2>1 DEF FrameOK
<1>7. Push(t, f) /\ UNCHANGED <<registry, owner, queue>>
  BY DEF Call
<1>8. Depth(t) > 0 => Top(t).phase = "in" /\ Top(t).kind = "hold"
  BY DEF Call, CanCall
<1> HIDE DEF f
<1>9. /\ stack' \in [Task -> Seq(Frame)] /\ StacksOK'
      /\ \A u \in Task : Len(stack'[u]) = IF u = t THEN Len(stack[u]) + 1 ELSE Len(stack[u])
      /\ \A u \in Task : \A i \in 1..Len(stack[u]) : stack'[u][i] = stack[u][i]
      /\ stack'[t][Len(stack[t]) + 1] = f
  BY <1>1, <1>4, <1>6, <1>7, <1>8, PushStep DEF Depth
<1>10. \A u \in Task : Len(stack[u]) \in Nat
  BY <1>1, LenProperties DEF TypeOK
<1>11. TypeOK'
  BY <1>7, <1>9, TypesKept DEF LocksInv, TypeOK
<1>12. GuardsOK'
  BY <1>4, <1>7, <1>9, <1>10 DEF LocksInv, GuardsOK, Depth
<1>13. QueuesOK'
  <2>1. \A m : ~Waits(stack[t], m)
    BY <1>1, <1>8 DEF Waits, Depth, Top
  <2>2. \A u \in Task \ {t}, m \in Mutex : Waits(stack[u], m) => Waits(stack'[u], m)
    BY <1>9, <1>10 DEF Waits
  <2> QED
    BY <1>7, <2>1, <2>2, QueuedFacts DEF LocksInv, QueuesOK
<1>14. NoLostPermit'
  <2>1. ASSUME NEW m \in Mutex, owner'[m] # NoTask
        PROVE  \E i \in 1..Len(stack'[owner'[m]]) : Uses(stack'[owner'[m]][i], m)
    <3>1. PICK u \in Task : u = owner'[m] /\ \E i \in 1..Len(stack[u]) : Uses(stack[u][i], m)
      BY <1>7, <2>1, PermitUse DEF LocksInv
    <3> QED
      BY <1>9, <1>10, <3>1
  <2>2. \A m \in Mutex : owner'[m] = NoTask => queue'[m] = <<>>
    BY <1>7 DEF LocksInv, NoLostPermit
  <2> QED
    BY <1>7, <1>9, <2>1, <2>2, PermitsKept DEF LocksInv, TypeOK
<1> QED
  BY <1>9, <1>11, <1>12, <1>13, <1>14 DEF LocksInv

\* A step of a task that waits for nothing leaves the queues in order.
LEMMA QueuesStay ==
    ASSUME LocksInv, NEW t \in Task, UNCHANGED <<owner, queue>>,
           \A m \in Mutex : ~Waits(stack[t], m),
           \A u \in Task \ {t} : stack'[u] = stack[u]
    PROVE  QueuesOK'
<1>1. \A m \in Mutex : \A k \in 1..Len(queue[m]) : stack'[queue[m][k]] = stack[queue[m][k]]
  BY QueuedFacts
<1> QED
  BY <1>1 DEF LocksInv, QueuesOK

\* A step of a task that keeps its uses of the permits loses none.
LEMMA PermitsStay ==
    ASSUME LocksInv, NEW t \in Task, UNCHANGED <<owner, queue>>,
           stack' \in [Task -> Seq(Frame)],
           \A u \in Task \ {t} : stack'[u] = stack[u],
           \A m \in Mutex :
              owner[m] = t /\ (\E i \in 1..Len(stack[t]) : Uses(stack[t][i], m))
                => \E i \in 1..Len(stack'[t]) : Uses(stack'[t][i], m)
    PROVE  NoLostPermit'
<1>1. ASSUME NEW m \in Mutex, owner'[m] # NoTask
      PROVE  \E i \in 1..Len(stack'[owner'[m]]) : Uses(stack'[owner'[m]][i], m)
  <2>1. owner[m] \in Task /\ \E i \in 1..Len(stack[owner[m]]) : Uses(stack[owner[m]][i], m)
    BY <1>1, PermitUse DEF LocksInv
  <2>2. CASE owner[m] = t
    BY <2>1, <2>2
  <2>3. CASE owner[m] # t
    BY <2>1, <2>3
  <2> QED
    BY <2>2, <2>3
<1>2. \A m \in Mutex : owner'[m] = NoTask => queue'[m] = <<>>
  BY DEF LocksInv, NoLostPermit
<1> QED
  BY <1>1, <1>2, PermitsKept DEF LocksInv, TypeOK

\* A change of the innermost frame leaves the other stacks alone.
LEMMA OthersStay ==
    ASSUME TypeOK, NEW t \in Task, NEW s, stack' = [stack EXCEPT ![t] = s]
    PROVE  \A u \in Task \ {t} : stack'[u] = stack[u]
BY DEF TypeOK

LEMMA SetTopOthers ==
    ASSUME TypeOK, NEW t \in Task, NEW f, SetTop(t, f) \/ Pop(t)
    PROVE  \A u \in Task \ {t} : stack'[u] = stack[u]
<1>1. CASE SetTop(t, f)
  BY <1>1, OthersStay DEF SetTop
<1>2. CASE Pop(t)
  BY <1>2, OthersStay DEF Pop
<1> QED
  BY <1>1, <1>2

\* A frame with another mutex at hand.
LEMMA NextIdSame ==
    ASSUME NEW f, NEW g, f.take = g.take
    PROVE  NextId(f) = NextId(g)
BY DEF NextId

\* lock_arc: no entry in use is replaced or pruned, and the new mutex is nobody's.
LEMMA LockArcKeeps ==
    ASSUME LocksInv, NEW t \in Task, LockArc(t)
    PROVE  LocksInv'
<1> DEFINE f == Top(t)
           n == NextId(f)
<1>1. TypeOK /\ StacksOK /\ Depth(t) > 0 /\ UNCHANGED <<owner, queue>>
  BY DEF LocksInv, LockArc
<1>2. /\ f \in Frame /\ FrameOK(stack[t], Depth(t), f) /\ f.phase = "take" /\ f.arc = NoMutex
      /\ Depth(t) = Len(stack[t]) /\ Depth(t) \in 1..Len(stack[t]) /\ f = stack[t][Len(stack[t])]
  BY <1>1, TopFacts DEF LockArc
<1>3. f.take # {} /\ n \in Id
  BY <1>2, NextIdLeast DEF FrameOK
<1>4. PICK m \in Mutex :
        /\ SetTop(t, [f EXCEPT !.arc = m])
        /\ registry' \in [Id -> Mutex \cup {NoMutex}]
        /\ registry'[n] = m
        /\ \A d, e \in Id : d # e /\ registry'[d] # NoMutex => registry'[d] # registry'[e]
        /\ \A d \in Id : registry[d] # NoMutex /\ Live(registry[d]) => registry'[d] = registry[d]
  <2>1. /\ registry \in [Id -> Mutex \cup {NoMutex}]
        /\ \A d, e \in Id : d # e /\ registry[d] # NoMutex => registry[d] # registry[e]
    BY DEF LocksInv, TypeOK, GuardsOK
  <2>2. CASE /\ registry[n] # NoMutex /\ Live(registry[n])
             /\ SetTop(t, [f EXCEPT !.arc = registry[n]])
             /\ UNCHANGED registry
    BY <1>3, <2>1, <2>2
  <2>3. CASE /\ registry[n] = NoMutex \/ ~Live(registry[n])
             /\ \E full \in BOOLEAN :
                LET kept == [i \in Id |-> IF full /\ registry[i] # NoMutex /\ ~Live(registry[i])
                                          THEN NoMutex ELSE registry[i]]
                IN  \E m \in Mutex :
                       /\ ~Live(m) /\ \A i \in Id \ {n} : kept[i] # m
                       /\ registry' = [kept EXCEPT ![n] = m]
                       /\ SetTop(t, [f EXCEPT !.arc = m])
    <3>1. PICK full \in BOOLEAN, m \in Mutex :
            LET kept == [i \in Id |-> IF full /\ registry[i] # NoMutex /\ ~Live(registry[i])
                                      THEN NoMutex ELSE registry[i]]
            IN  /\ ~Live(m) /\ \A i \in Id \ {n} : kept[i] # m
                /\ registry' = [kept EXCEPT ![n] = m]
                /\ SetTop(t, [f EXCEPT !.arc = m])
      BY <2>3
    <3> DEFINE kept == [i \in Id |-> IF full /\ registry[i] # NoMutex /\ ~Live(registry[i])
                                     THEN NoMutex ELSE registry[i]]
    <3>2. /\ kept \in [Id -> Mutex \cup {NoMutex}]
          /\ \A d, e \in Id : d # e /\ kept[d] # NoMutex => kept[d] # kept[e]
          /\ \A d \in Id : registry[d] # NoMutex /\ Live(registry[d]) => kept[d] = registry[d]
      BY <2>1
    <3>3. \A i \in Id \ {n} : kept[i] # m
      BY <3>1
    <3>4. registry' = [kept EXCEPT ![n] = m]
      BY <3>1
    <3> HIDE DEF kept
    <3>5. /\ registry' \in [Id -> Mutex \cup {NoMutex}] /\ registry'[n] = m
          /\ \A d \in Id \ {n} : registry'[d] = kept[d]
      BY <1>3, <3>2, <3>4
    <3>6. \A d, e \in Id : d # e /\ registry'[d] # NoMutex => registry'[d] # registry'[e]
      BY <3>2, <3>3, <3>5
    <3>7. \A d \in Id : registry[d] # NoMutex /\ Live(registry[d]) => registry'[d] = registry[d]
      BY <2>3, <3>2, <3>5
    <3> QED
      BY <3>1, <3>5, <3>6, <3>7
  <2> QED
    BY <2>2, <2>3 DEF LockArc
<1> DEFINE g == [f EXCEPT !.arc = m]
<1>5. /\ g \in Frame /\ g.arc = m /\ g.phase = "take" /\ g.kind = f.kind /\ g.want = f.want
      /\ g.take = f.take /\ g.held = f.held /\ g.guards = f.guards
  <2> HIDE DEF f
  <2> QED
    BY <1>2 DEF Frame
<1>6. FrameOK(stack[t], Depth(t), g)
  <2> HIDE DEF f, g
  <2>1. \A d : Covers(g, d) <=> Covers(f, d)
    BY <1>5 DEF Covers
  <2> QED
    BY <1>2, <1>5, <2>1 DEF FrameOK
<1>7. SetTop(t, g)
  BY <1>4
<1> HIDE DEF g
<1>8. /\ stack' \in [Task -> Seq(Frame)] /\ StacksOK'
      /\ \A u \in Task : Len(stack'[u]) = Len(stack[u])
      /\ \A u \in Task : \A i \in 1..Len(stack[u]) :
           stack'[u][i] = IF u = t /\ i = Len(stack[t]) THEN g ELSE stack[u][i]
  BY <1>1, <1>5, <1>6, <1>7, SetTopStep
<1>9. \A u \in Task \ {t} : stack'[u] = stack[u]
  BY <1>1, <1>7, SetTopOthers
<1>10. TypeOK'
  BY <1>1, <1>4, <1>8, TypesKept DEF TypeOK
<1>11. \A u \in Task : \A i \in 1..Len(stack[u]) :
         /\ stack[u][i].arc # NoMutex => Live(stack[u][i].arc)
         /\ \A d \in Id, k \in Mutex : <<d, k>> \in stack[u][i].guards => Live(k)
  <2>1. \A u \in Task : \A i \in 1..Len(stack[u]) : stack[u][i] \in Frames(u)
    BY <1>1, FramesOf DEF Depth
  <2> QED
    BY <2>1 DEF Live
<1>12. GuardsOK'
  <2>1. ASSUME NEW u \in Task, NEW i \in 1..Len(stack'[u])
        PROVE  /\ \A d \in Id, k \in Mutex :
                    <<d, k>> \in stack'[u][i].guards => registry'[d] = k /\ owner'[k] = u
               /\ stack'[u][i].arc # NoMutex => stack'[u][i].arc = registry'[NextId(stack'[u][i])]
    <3>1. i \in 1..Len(stack[u]) /\ stack'[u][i].guards = stack[u][i].guards
      BY <1>2, <1>5, <1>8
    <3>2. \A d \in Id, k \in Mutex :
             <<d, k>> \in stack[u][i].guards => registry'[d] = k /\ owner'[k] = u
      BY <1>1, <1>4, <1>11, <3>1, LocksAssumption DEF LocksInv, GuardsOK, Depth
    <3>3. CASE u = t /\ i = Len(stack[t])
      <4>1. NextId(g) = n
        BY <1>5, NextIdSame
      <4>2. stack'[u][i] = g
        BY <1>8, <3>1, <3>3
      <4>3. g.arc = registry'[n]
        BY <1>4, <1>5
      <4> QED
        BY <3>1, <3>2, <4>1, <4>2, <4>3
    <3>4. CASE ~(u = t /\ i = Len(stack[t]))
      <4>1. stack'[u][i] = stack[u][i]
        BY <1>8, <3>1, <3>4
      <4>2. ASSUME stack[u][i].arc # NoMutex
            PROVE  /\ registry'[NextId(stack[u][i])] = stack[u][i].arc
        <5>1. stack[u][i] \in Frame /\ FrameOK(stack[u], i, stack[u][i])
          BY <1>1, <3>1, FramesOf DEF StacksOK, StackOK, Depth
        <5>2. NextId(stack[u][i]) \in Id
          BY <4>2, <5>1, NextIdLeast DEF FrameOK
        <5>3. registry[NextId(stack[u][i])] = stack[u][i].arc
          BY <3>1, <4>2 DEF LocksInv, GuardsOK, Depth
        <5> QED
          BY <1>4, <1>11, <3>1, <4>2, <5>2, <5>3
      <4> QED
        BY <3>1, <3>2, <4>1, <4>2
    <3> QED
      BY <3>3, <3>4
  <2> QED
    BY <1>4, <2>1 DEF GuardsOK, Depth
<1>13. QueuesOK'
  BY <1>1, <1>2, <1>9, QueuesStay DEF Waits
<1>14. NoLostPermit'
  <2>1. \A i \in 1..Len(stack[t]), k \in Mutex : Uses(stack[t][i], k) => Uses(stack'[t][i], k)
    BY <1>2, <1>5, <1>8 DEF Uses
  <2> QED
    BY <1>1, <1>8, <1>9, <2>1, PermitsStay
<1> QED
  BY <1>8, <1>10, <1>12, <1>13, <1>14 DEF LocksInv

\* A frame that is granted its mutex is in order.
LEMMA TakenOK ==
    ASSUME NEW s, NEW i, NEW f \in Frame, FrameOK(s, i, f), f.arc # NoMutex
    PROVE  FrameOK(s, i, Taken(f))
<1> DEFINE g == Taken(f)
           n == NextId(f)
<1>1. f.phase \in {"take", "wait"} /\ f.take # {}
  BY DEF FrameOK
<1>2. /\ g \in Frame /\ g.kind = f.kind /\ g.want = f.want /\ g.take = f.take \ {n}
      /\ g.arc = NoMutex /\ g.guards = f.guards \cup {<<n, f.arc>>}
      /\ g.phase = IF g.take = {} THEN "in" ELSE "take"
      /\ g.held = IF g.take = {} /\ f.kind = "hold"
                  THEN f.held \cup {h[1] : h \in g.guards} ELSE f.held
  BY <1>1, TakenFields
<1>3. n \in f.take /\ n \in Id /\ f.arc \in Mutex /\ \A d \in f.take : n <= d
  BY <1>1, NextIdLeast, FrameFields
<1> HIDE DEF g, n
<1>4. \A d \in Id : Covers(g, d) <=> Covers(f, d) \/ d = n
  BY <1>2, <1>3 DEF Covers
<1>5. \A d \in Id : d \in {h[1] : h \in g.guards} <=> Covers(g, d)
  <2>1. g.guards \subseteq Id \X Mutex
    BY <1>2, FrameFields
  <2>2. \A h \in g.guards : h = <<h[1], h[2]>> /\ h[2] \in Mutex
    BY <2>1
  <2>3. ASSUME NEW d \in Id, d \in {h[1] : h \in g.guards} PROVE Covers(g, d)
    <3>1. PICK h \in g.guards : d = h[1]
      BY <2>3
    <3> QED
      BY <2>2, <3>1 DEF Covers
  <2>4. ASSUME NEW d \in Id, Covers(g, d) PROVE d \in {h[1] : h \in g.guards}
    <3>1. PICK m \in Mutex : <<d, m>> \in g.guards
      BY <2>4 DEF Covers
    <3>2. <<d, m>>[1] = d
      OBVIOUS
    <3> QED
      BY <3>1, <3>2
  <2> QED
    BY <2>3, <2>4
<1>6. f.take \subseteq Id /\ Id \subseteq Nat
  BY FrameFields, LocksAssumption
<1>7. g.kind # "hold" => g.take = {}
  BY <1>2, <1>3 DEF FrameOK
<1>8. ASSUME NEW d \in Id
      PROVE  /\ d \in g.take => ~Outer(s, i, d)
             /\ Covers(g, d) => ~Outer(s, i, d)
             /\ \A e \in g.take : Covers(g, d) => d < e
             /\ d \in g.want => d \in g.take \/ Covers(g, d) \/ Outer(s, i, d)
             /\ d \in g.held <=> \/ Outer(s, i, d)
                                 \/ g.phase = "in" /\ g.kind = "hold" /\ Covers(g, d)
  <2>1. ASSUME NEW e \in g.take, Covers(g, d) PROVE d < e
    <3>1. e \in f.take /\ e # n /\ n <= e /\ e \in Nat /\ n \in Nat /\ d \in Nat
      BY <1>2, <1>3, <1>6
    <3>2. Covers(f, d) => d < e
      BY <3>1 DEF FrameOK
    <3> QED
      BY <1>4, <2>1, <3>1, <3>2
  <2>2. d \in f.held <=> Outer(s, i, d)
    BY <1>1 DEF FrameOK
  <2>3. d \in g.held <=> \/ Outer(s, i, d)
                         \/ g.phase = "in" /\ g.kind = "hold" /\ Covers(g, d)
    BY <1>2, <1>5, <2>2
  <2> QED
    BY <1>1, <1>2, <1>3, <1>4, <2>1, <2>3 DEF FrameOK
<1>9. g.take \subseteq g.want /\ (g.kind # "hold" => \A d, e \in g.want : d = e)
  BY <1>2 DEF FrameOK
<1>10. FrameOK(s, i, g)
  BY <1>2, <1>7, <1>8, <1>9 DEF FrameOK
<1> QED
  BY <1>10 DEF g

\* The permit of a free mutex, or one that was passed to the waiting task, becomes
\* a guard of the innermost call.
LEMMA TakeKeeps ==
    ASSUME LocksInv, NEW t \in Task, Depth(t) > 0, Top(t).arc # NoMutex,
           owner[Top(t).arc] \in {NoTask, t},
           SetTop(t, Taken(Top(t))), owner' = [owner EXCEPT ![Top(t).arc] = t],
           UNCHANGED <<registry, queue>>
    PROVE  LocksInv'
<1> DEFINE f == Top(t)
           g == Taken(f)
           n == NextId(f)
           a == f.arc
<1>1. TypeOK /\ StacksOK
  BY DEF LocksInv
<1>2. /\ f \in Frame /\ FrameOK(stack[t], Depth(t), f) /\ a # NoMutex
      /\ Depth(t) = Len(stack[t]) /\ Depth(t) \in 1..Len(stack[t]) /\ f = stack[t][Len(stack[t])]
  BY <1>1, TopFacts
<1>3. f.phase \in {"take", "wait"} /\ f.take # {} /\ a \in Mutex
  BY <1>2, FrameFields DEF FrameOK
<1>4. n \in Id
  BY <1>2, <1>3, NextIdLeast
<1>5. /\ g \in Frame /\ g.arc = NoMutex /\ g.guards = f.guards \cup {<<n, a>>}
      /\ g.phase = IF g.take = {} THEN "in" ELSE "take"
  BY <1>2, <1>3, TakenFields
<1>6. FrameOK(stack[t], Depth(t), g)
  BY <1>2, TakenOK
<1>7. registry[n] = a
  BY <1>2 DEF LocksInv, GuardsOK
<1>8. SetTop(t, g) /\ owner' = [owner EXCEPT ![a] = t] /\ owner[a] \in {NoTask, t}
  OBVIOUS
<1> HIDE DEF g, n, f, a
<1>9. /\ stack' \in [Task -> Seq(Frame)] /\ StacksOK'
      /\ \A u \in Task : Len(stack'[u]) = Len(stack[u])
      /\ \A u \in Task : \A i \in 1..Len(stack[u]) :
           stack'[u][i] = IF u = t /\ i = Len(stack[t]) THEN g ELSE stack[u][i]
  BY <1>1, <1>5, <1>6, <1>8, SetTopStep
<1>10. \A u \in Task \ {t} : stack'[u] = stack[u]
  BY <1>1, <1>8, SetTopOthers
<1>11. /\ owner' \in [Mutex -> Task \cup {NoTask}] /\ owner'[a] = t
       /\ \A m \in Mutex \ {a} : owner'[m] = owner[m]
  BY <1>1, <1>3, <1>8 DEF TypeOK
<1>12. TypeOK'
  BY <1>1, <1>9, <1>11, TypesKept DEF TypeOK
<1>13. GuardsOK'
  <2>1. ASSUME NEW u \in Task, NEW i \in 1..Len(stack'[u])
        PROVE  /\ \A d \in Id, k \in Mutex :
                    <<d, k>> \in stack'[u][i].guards => registry[d] = k /\ owner'[k] = u
               /\ stack'[u][i].arc # NoMutex => stack'[u][i].arc = registry[NextId(stack'[u][i])]
    <3>1. /\ \A d \in Id, k \in Mutex :
               <<d, k>> \in stack[u][i].guards => registry[d] = k /\ owner[k] = u
          /\ stack[u][i].arc # NoMutex => stack[u][i].arc = registry[NextId(stack[u][i])]
          /\ i \in 1..Len(stack[u])
      BY <1>9 DEF LocksInv, GuardsOK, Depth
    <3>2. \A d \in Id, k \in Mutex :
               <<d, k>> \in stack[u][i].guards => registry[d] = k /\ owner'[k] = u
      BY <1>8, <1>11, <3>1, LocksAssumption
    <3>3. CASE u = t /\ i = Len(stack[t])
      <4>1. stack'[u][i] = g /\ stack[u][i] = f
        BY <1>2, <1>9, <3>1, <3>3
      <4> QED
        BY <1>4, <1>5, <1>7, <1>11, <3>2, <3>3, <4>1
    <3>4. CASE ~(u = t /\ i = Len(stack[t]))
      BY <1>9, <3>1, <3>2, <3>4
    <3> QED
      BY <3>3, <3>4
  <2> QED
    BY <2>1 DEF LocksInv, GuardsOK, Depth
<1>14. QueuesOK'
  <2>1. ASSUME NEW m \in Mutex, NEW k \in 1..Len(queue[m])
        PROVE  queue[m][k] \in Task \ {t} /\ owner'[m] # queue[m][k]
    <3>1. queue[m][k] \in Task /\ owner[m] # queue[m][k]
      BY QueuedFacts DEF LocksInv, QueuesOK
    <3>2. CASE m = a
      <4>1. owner[m] # NoTask
        BY LenProperties DEF LocksInv, NoLostPermit
      <4> QED
        BY <1>8, <1>11, <3>1, <3>2, <4>1
    <3>3. CASE m # a
      <4>1. ~Waits(stack[t], m)
        BY <1>2, <3>3 DEF Waits, a
      <4> QED
        BY <1>11, <3>1, <3>3, <4>1, QueuedFacts
    <3> QED
      BY <3>2, <3>3
  <2> QED
    BY <1>10, <2>1 DEF LocksInv, QueuesOK
<1>15. NoLostPermit'
  <2>1. ASSUME NEW m \in Mutex, owner'[m] # NoTask
        PROVE  \E i \in 1..Len(stack'[owner'[m]]) : Uses(stack'[owner'[m]][i], m)
    <3>1. CASE m = a
      <4>1. Uses(g, a)
        BY <1>4, <1>5 DEF Uses
      <4> QED
        BY <1>2, <1>9, <1>11, <3>1, <4>1
    <3>2. CASE m # a
      <4>1. owner'[m] = owner[m]
        BY <1>11, <3>2
      <4>2. PICK u \in Task : u = owner[m] /\ \E i \in 1..Len(stack[u]) : Uses(stack[u][i], m)
        BY <2>1, <4>1, PermitUse DEF LocksInv
      <4>3. Uses(f, m) => Uses(g, m)
        BY <1>5, <3>2 DEF Uses, a
      <4> QED
        BY <1>2, <1>9, <4>1, <4>2, <4>3
    <3> QED
      BY <3>1, <3>2
  <2>2. \A m \in Mutex : owner'[m] = NoTask => queue'[m] = <<>>
    BY <1>3, <1>11, LocksAssumption DEF LocksInv, NoLostPermit
  <2> QED
    BY <1>9, <1>11, <2>1, <2>2, PermitsKept
<1> QED
  BY <1>9, <1>12, <1>13, <1>14, <1>15 DEF LocksInv

\* A step of a task that changes its innermost frame alone, has the same mutex at
\* hand and no more guards, keeps the guards in order if it gives no permit away
\* that another guard needs.
LEMMA GuardsStay ==
    ASSUME LocksInv, NEW t \in Task, Depth(t) > 0, NEW f \in Frame,
           f.guards \subseteq Top(t).guards, f.take = Top(t).take,
           f.arc \in {NoMutex, Top(t).arc},
           \A u \in Task : Len(stack'[u]) = Len(stack[u]),
           \A u \in Task : \A i \in 1..Len(stack[u]) :
                stack'[u][i] = IF u = t /\ i = Len(stack[t]) THEN f ELSE stack[u][i],
           UNCHANGED registry,
           \A u \in Task : \A i \in 1..Len(stack'[u]) : \A d \in Id, m \in Mutex :
               <<d, m>> \in stack'[u][i].guards => owner'[m] = owner[m]
    PROVE  GuardsOK'
<1>1. TypeOK /\ StacksOK
  BY DEF LocksInv
<1>2. Depth(t) \in 1..Len(stack[t]) /\ Top(t) = stack[t][Len(stack[t])] /\ Depth(t) = Len(stack[t])
  BY <1>1, TopFacts
<1>3. NextId(f) = NextId(Top(t))
  BY NextIdSame
<1>4. ASSUME NEW u \in Task, NEW i \in 1..Len(stack'[u])
      PROVE  /\ \A d \in Id, k \in Mutex :
                  <<d, k>> \in stack'[u][i].guards => registry[d] = k /\ owner'[k] = u
             /\ stack'[u][i].arc # NoMutex => stack'[u][i].arc = registry[NextId(stack'[u][i])]
  <2>1. /\ \A d \in Id, k \in Mutex :
             <<d, k>> \in stack[u][i].guards => registry[d] = k /\ owner[k] = u
        /\ stack[u][i].arc # NoMutex => stack[u][i].arc = registry[NextId(stack[u][i])]
        /\ i \in 1..Len(stack[u])
    BY DEF LocksInv, GuardsOK, Depth
  <2>2. CASE u = t /\ i = Len(stack[t])
    <3>1. stack'[u][i] = f /\ stack[u][i] = Top(t)
      BY <1>2, <2>1, <2>2
    <3> QED
      BY <1>3, <2>1, <3>1
  <2>3. CASE ~(u = t /\ i = Len(stack[t]))
    BY <2>1, <2>3
  <2> QED
    BY <2>2, <2>3
<1> QED
  BY <1>4 DEF LocksInv, GuardsOK, Depth

\* The innermost call returns: it has no guards left and waits for nothing.
LEMMA PopKeeps ==
    ASSUME LocksInv, NEW t \in Task, Depth(t) > 0, Top(t).guards = {}, Top(t).phase # "wait",
           Pop(t), UNCHANGED <<registry, owner, queue>>
    PROVE  LocksInv'
<1>1. TypeOK /\ StacksOK
  BY DEF LocksInv
<1>2. /\ Depth(t) = Len(stack[t]) /\ Depth(t) \in 1..Len(stack[t]) /\ Len(stack[t]) \in Nat
      /\ Top(t) = stack[t][Len(stack[t])]
  BY <1>1, TopFacts
<1>3. /\ stack' \in [Task -> Seq(Frame)] /\ StacksOK'
      /\ \A u \in Task : Len(stack'[u]) = IF u = t THEN Len(stack[u]) - 1 ELSE Len(stack[u])
      /\ \A u \in Task : \A i \in 1..Len(stack'[u]) : stack'[u][i] = stack[u][i]
  BY <1>1, PopStep
<1>4. \A u \in Task \ {t} : stack'[u] = stack[u]
  BY <1>1, SetTopOthers
<1>5. \A u \in Task : \A i \in 1..Len(stack'[u]) : i \in 1..Len(stack[u])
  BY <1>2, <1>3
<1>6. TypeOK'
  BY <1>1, <1>3, TypesKept DEF TypeOK
<1>7. GuardsOK'
  <2>1. ASSUME NEW u \in Task, NEW i \in 1..Len(stack'[u])
        PROVE  /\ \A d \in Id, k \in Mutex :
                    <<d, k>> \in stack'[u][i].guards => registry'[d] = k /\ owner'[k] = u
               /\ stack'[u][i].arc # NoMutex => stack'[u][i].arc = registry'[NextId(stack'[u][i])]
    <3>1. i \in 1..Len(stack[u]) /\ stack'[u][i] = stack[u][i]
      BY <1>3, <1>5
    <3> QED
      BY <3>1 DEF LocksInv, GuardsOK, Depth
  <2> QED
    BY <2>1 DEF LocksInv, GuardsOK, Depth
<1>8. QueuesOK'
  BY <1>2, <1>4, QueuesStay DEF Waits
<1>9. NoLostPermit'
  <2>1. \A m \in Mutex : ~Uses(Top(t), m)
    BY DEF Uses
  <2>2. \A m \in Mutex : \A i \in 1..Len(stack[t]) : Uses(stack[t][i], m) =>
            i \in 1..Len(stack'[t]) /\ Uses(stack'[t][i], m)
    BY <1>2, <1>3, <2>1
  <2> QED
    BY <1>3, <1>4, <2>2, PermitsStay
<1> QED
  BY <1>3, <1>6, <1>7, <1>8, <1>9 DEF LocksInv

\* A task joins the queue of the mutex it has resolved.
LEMMA QueueKeeps ==
    ASSUME LocksInv, NEW t \in Task, Depth(t) > 0, Top(t).phase = "take", Top(t).arc # NoMutex,
           owner[Top(t).arc] # NoTask, owner[Top(t).arc] # t,
           queue' = [queue EXCEPT ![Top(t).arc] = Append(@, t)],
           SetTop(t, [Top(t) EXCEPT !.phase = "wait"]), UNCHANGED <<registry, owner>>
    PROVE  LocksInv'
<1> DEFINE f == Top(t)
           g == [f EXCEPT !.phase = "wait"]
           a == f.arc
<1>1. TypeOK /\ StacksOK
  BY DEF LocksInv
<1>2. /\ f \in Frame /\ FrameOK(stack[t], Depth(t), f)
      /\ Depth(t) = Len(stack[t]) /\ Depth(t) \in 1..Len(stack[t]) /\ f = stack[t][Len(stack[t])]
  BY <1>1, TopFacts
<1>3. a \in Mutex /\ f.phase = "take"
  BY <1>2, FrameFields
<1>4. /\ g \in Frame /\ g.arc = a /\ g.phase = "wait" /\ g.kind = f.kind /\ g.want = f.want
      /\ g.take = f.take /\ g.held = f.held /\ g.guards = f.guards
  <2> HIDE DEF f
  <2> QED
    BY <1>2 DEF Frame
<1>5. SetTop(t, g) /\ queue' = [queue EXCEPT ![a] = Append(@, t)] /\ owner[a] # NoTask /\ owner[a] # t
  OBVIOUS
<1> HIDE DEF g
<1>6. FrameOK(stack[t], Depth(t), g)
  <2> HIDE DEF f
  <2>1. \A d : Covers(g, d) <=> Covers(f, d)
    BY <1>4 DEF Covers
  <2>2. f.arc # NoMutex
    BY <1>3, LocksAssumption DEF f
  <2> QED
    BY <1>2, <1>3, <1>4, <2>1, <2>2 DEF FrameOK
<1> HIDE DEF f, a
<1>7. /\ stack' \in [Task -> Seq(Frame)] /\ StacksOK'
      /\ \A u \in Task : Len(stack'[u]) = Len(stack[u])
      /\ \A u \in Task : \A i \in 1..Len(stack[u]) :
           stack'[u][i] = IF u = t /\ i = Len(stack[t]) THEN g ELSE stack[u][i]
  BY <1>1, <1>4, <1>5, <1>6, SetTopStep
<1>8. \A u \in Task \ {t} : stack'[u] = stack[u]
  BY <1>1, <1>5, SetTopOthers
<1>9. /\ queue' \in [Mutex -> Seq(Task)] /\ queue'[a] = Append(queue[a], t)
      /\ \A m \in Mutex \ {a} : queue'[m] = queue[m]
      /\ queue[a] \in Seq(Task)
  BY <1>1, <1>3, <1>5 DEF TypeOK
<1>10. TypeOK'
  BY <1>1, <1>7, <1>9, TypesKept DEF TypeOK
<1>11. GuardsOK'
  BY <1>4, <1>7, GuardsStay DEF f, a
<1>12. QueuesOK'
  <2>1. \A m \in Mutex : ~Waits(stack[t], m)
    BY <1>2, <1>3 DEF Waits
  <2>2. ASSUME NEW m \in Mutex, NEW n \in 1..Len(queue[m])
        PROVE  /\ Waits(stack'[queue[m][n]], m) /\ owner'[m] # queue[m][n] /\ queue[m][n] # t
               /\ \A k \in 1..Len(queue[m]) : k # n => queue[m][k] # queue[m][n]
    <3>1. queue[m][n] \in Task \ {t} /\ Waits(stack[queue[m][n]], m)
      BY <2>1, QueuedFacts
    <3> QED
      BY <1>8, <3>1 DEF LocksInv, QueuesOK
  <2>3. ASSUME NEW n \in 1..Len(queue'[a])
        PROVE  /\ Waits(stack'[queue'[a][n]], a) /\ owner'[a] # queue'[a][n]
               /\ \A k \in 1..Len(queue'[a]) : k # n => queue'[a][k] # queue'[a][n]
    <3>1. /\ Len(queue'[a]) = Len(queue[a]) + 1 /\ Len(queue[a]) \in Nat
          /\ \A k \in 1..Len(queue[a]) : queue'[a][k] = queue[a][k]
          /\ queue'[a][Len(queue[a]) + 1] = t
      BY <1>9, AppendProperties, LenProperties
    <3>2. Waits(stack'[t], a)
      BY <1>2, <1>4, <1>7 DEF Waits
    <3>3. CASE n = Len(queue[a]) + 1
      BY <1>3, <1>5, <2>2, <3>1, <3>2, <3>3
    <3>4. CASE n # Len(queue[a]) + 1
      BY <1>3, <2>2, <3>1, <3>4
    <3> QED
      BY <3>3, <3>4
  <2> QED
    BY <1>9, <2>2, <2>3 DEF QueuesOK
<1>13. NoLostPermit'
  <2>1. ASSUME NEW m \in Mutex, owner'[m] # NoTask
        PROVE  \E i \in 1..Len(stack'[owner'[m]]) : Uses(stack'[owner'[m]][i], m)
    <3>1. PICK u \in Task : u = owner[m] /\ \E i \in 1..Len(stack[u]) : Uses(stack[u][i], m)
      BY <2>1, PermitUse DEF LocksInv
    <3>2. Uses(f, m) => Uses(g, m)
      BY <1>3, <1>4 DEF Uses
    <3> QED
      BY <1>2, <1>7, <3>1, <3>2
  <2>2. \A m \in Mutex : owner'[m] = NoTask => queue'[m] = <<>>
    BY <1>5, <1>9 DEF LocksInv, NoLostPermit
  <2> QED
    BY <1>1, <1>7, <2>1, <2>2, PermitsKept DEF TypeOK
<1> QED
  BY <1>7, <1>10, <1>11, <1>12, <1>13 DEF LocksInv

\* A mutex has at most one guard.
LEMMA GuardUnique ==
    ASSUME LocksInv, NEW t \in Task, NEW u \in Task,
           NEW i \in 1..Len(stack[t]), NEW j \in 1..Len(stack[u]),
           NEW d \in Id, NEW e \in Id, NEW m \in Mutex,
           <<d, m>> \in stack[t][i].guards, <<e, m>> \in stack[u][j].guards
    PROVE  t = u /\ i = j /\ d = e
<1>1. registry[d] = m /\ owner[m] = t /\ registry[e] = m /\ owner[m] = u
  BY DEF LocksInv, GuardsOK, Depth
<1>2. t = u /\ d = e
  BY <1>1, LocksAssumption DEF LocksInv, GuardsOK
<1>3. Covers(stack[t][i], d) /\ Covers(stack[t][j], d)
  BY <1>2 DEF Covers
<1>4. ~Outer(stack[t], i, d) /\ ~Outer(stack[t], j, d)
  BY <1>2, <1>3 DEF LocksInv, StacksOK, StackOK, FrameOK
<1>5. Len(stack[t]) \in Nat
  BY LenProperties DEF LocksInv, TypeOK
<1>6. ~(j < i) /\ ~(i < j)
  BY <1>2, <1>3, <1>4, <1>5 DEF Outer
<1> QED
  BY <1>2, <1>5, <1>6

\* The mutex that a call has resolved is no guard of its task.
LEMMA ArcNotGuarded ==
    ASSUME LocksInv, NEW t \in Task, Depth(t) > 0, Top(t).arc # NoMutex,
           NEW i \in 1..Len(stack[t]), NEW d \in Id
    PROVE  <<d, Top(t).arc>> \notin stack[t][i].guards
<1> DEFINE f == Top(t)
           n == NextId(f)
<1> SUFFICES ASSUME <<d, f.arc>> \in stack[t][i].guards PROVE FALSE
  OBVIOUS
<1>1. /\ f \in Frame /\ FrameOK(stack[t], Len(stack[t]), f) /\ Len(stack[t]) \in 1..Len(stack[t])
      /\ f = stack[t][Len(stack[t])] /\ Len(stack[t]) \in Nat
  BY TopFacts DEF LocksInv
<1>2. f.arc \in Mutex /\ f.take # {}
  BY <1>1, FrameFields DEF FrameOK
<1>3. n \in f.take /\ n \in Id
  BY <1>1, <1>2, NextIdLeast
<1>4. registry[d] = f.arc /\ registry[n] = f.arc
  BY <1>1, <1>2 DEF LocksInv, GuardsOK, Depth
<1>5. d = n
  BY <1>3, <1>4 DEF LocksInv, GuardsOK
<1>6. Covers(stack[t][i], n)
  BY <1>2, <1>5 DEF Covers
<1> HIDE DEF f, n
<1>7. ~Outer(stack[t], Len(stack[t]), n) /\ ~Covers(f, n)
  <2>1. n \in Nat /\ ~(n < n)
    BY <1>3, LocksAssumption
  <2> QED
    BY <1>1, <1>3, <2>1 DEF FrameOK
<1>8. i < Len(stack[t])
  BY <1>1, <1>6, <1>7
<1> QED
  BY <1>1, <1>6, <1>7, <1>8 DEF Outer

\* The task of a permit is not asking for it again.
LEMMA ArcNotOwned ==
    ASSUME LocksInv, NEW t \in Task, Depth(t) > 0, Top(t).arc # NoMutex, Top(t).phase # "wait"
    PROVE  owner[Top(t).arc] # t
<1> SUFFICES ASSUME owner[Top(t).arc] = t PROVE FALSE
  OBVIOUS
<1>1. /\ Top(t) \in Frame /\ Top(t) = stack[t][Len(stack[t])] /\ Len(stack[t]) \in Nat
  BY TopFacts DEF LocksInv
<1>2. Top(t).arc \in Mutex
  BY <1>1, FrameFields
<1>3. PICK i \in 1..Len(stack[t]) : Uses(stack[t][i], Top(t).arc)
  BY <1>2, PermitUse, LocksAssumption DEF LocksInv
<1>4. stack[t][i].phase = "wait"
  BY <1>3, ArcNotGuarded DEF Uses
<1>5. i < Len(stack[t]) => stack[t][i].phase = "in"
  BY DEF LocksInv, StacksOK, StackOK
<1> QED
  BY <1>1, <1>4, <1>5

\* lock_owned and try_lock_owned.
LEMMA RequestKeeps ==
    ASSUME LocksInv, NEW t \in Task, Request(t)
    PROVE  LocksInv'
<1>1. /\ Depth(t) > 0 /\ Top(t).phase = "take" /\ Top(t).arc # NoMutex /\ UNCHANGED registry
  BY DEF Request
<1>2. owner[Top(t).arc] # t
  BY <1>1, ArcNotOwned
<1>3. CASE /\ owner[Top(t).arc] = NoTask /\ owner' = [owner EXCEPT ![Top(t).arc] = t]
           /\ SetTop(t, Taken(Top(t))) /\ UNCHANGED queue
  BY <1>1, <1>3, TakeKeeps
<1>4. CASE Top(t).kind = "try" /\ Pop(t) /\ UNCHANGED <<owner, queue>>
  <2>1. FrameOK(stack[t], Depth(t), Top(t))
    BY <1>1, TopFacts DEF LocksInv
  <2>2. Top(t).guards = {}
    BY <1>1, <1>4, <2>1 DEF FrameOK
  <2> QED
    BY <1>1, <1>4, <2>2, PopKeeps
<1>5. CASE /\ owner[Top(t).arc] # NoTask /\ queue' = [queue EXCEPT ![Top(t).arc] = Append(@, t)]
           /\ SetTop(t, [Top(t) EXCEPT !.phase = "wait"]) /\ UNCHANGED owner
  BY <1>1, <1>2, <1>5, QueueKeeps
<1> QED
  BY <1>3, <1>4, <1>5 DEF Request

\* A permit that was passed to a waiting task.
LEMMA GrantedKeeps ==
    ASSUME LocksInv, NEW t \in Task, Granted(t)
    PROVE  LocksInv'
<1>1. /\ Depth(t) > 0 /\ Top(t).phase = "wait" /\ owner[Top(t).arc] = t
      /\ SetTop(t, Taken(Top(t))) /\ UNCHANGED <<registry, owner, queue>>
  BY DEF Granted
<1>2. Top(t).arc # NoMutex /\ Top(t).arc \in Mutex \cup {NoMutex}
  BY <1>1, TopFacts, FrameFields DEF LocksInv, FrameOK
<1>3. owner' = [owner EXCEPT ![Top(t).arc] = t]
  BY <1>1, <1>2 DEF LocksInv, TypeOK
<1> QED
  BY <1>1, <1>2, <1>3, TakeKeeps

\* What ran under the locks has ended.
LEMMA FinishKeeps ==
    ASSUME LocksInv, NEW t \in Task, Finish(t)
    PROVE  LocksInv'
<1> DEFINE f == Top(t)
           g == [f EXCEPT !.phase = "out"]
<1>1. /\ TypeOK /\ StacksOK /\ Depth(t) > 0 /\ f.phase = "in" /\ SetTop(t, g)
      /\ UNCHANGED <<registry, owner, queue>>
  BY DEF LocksInv, Finish
<1>2. /\ f \in Frame /\ FrameOK(stack[t], Depth(t), f)
      /\ Depth(t) = Len(stack[t]) /\ Depth(t) \in 1..Len(stack[t]) /\ f = stack[t][Len(stack[t])]
  BY <1>1, TopFacts
<1>3. /\ g \in Frame /\ g.arc = f.arc /\ g.phase = "out" /\ g.kind = f.kind /\ g.want = f.want
      /\ g.take = f.take /\ g.held = f.held /\ g.guards = f.guards
  <2> HIDE DEF f
  <2> QED
    BY <1>2 DEF Frame
<1> HIDE DEF g
<1>4. FrameOK(stack[t], Depth(t), g)
  <2> HIDE DEF f
  <2>1. \A d : Covers(g, d) <=> Covers(f, d)
    BY <1>3 DEF Covers
  <2>2. f.arc = NoMutex
    BY <1>1, <1>2 DEF FrameOK
  <2> QED
    BY <1>1, <1>2, <1>3, <2>1, <2>2 DEF FrameOK
<1>5. /\ stack' \in [Task -> Seq(Frame)] /\ StacksOK'
      /\ \A u \in Task : Len(stack'[u]) = Len(stack[u])
      /\ \A u \in Task : \A i \in 1..Len(stack[u]) :
           stack'[u][i] = IF u = t /\ i = Len(stack[t]) THEN g ELSE stack[u][i]
  BY <1>1, <1>3, <1>4, SetTopStep
<1>6. \A u \in Task \ {t} : stack'[u] = stack[u]
  BY <1>1, SetTopOthers
<1>7. TypeOK'
  BY <1>1, <1>5, TypesKept DEF TypeOK
<1>8. GuardsOK'
  BY <1>1, <1>3, <1>5, GuardsStay
<1>9. QueuesOK'
  BY <1>1, <1>2, <1>6, QueuesStay DEF Waits
<1>10. NoLostPermit'
  <2>1. \A i \in 1..Len(stack[t]), k \in Mutex : Uses(stack[t][i], k) => Uses(stack'[t][i], k)
    BY <1>1, <1>2, <1>3, <1>5 DEF Uses
  <2> QED
    BY <1>1, <1>5, <1>6, <2>1, PermitsStay
<1> QED
  BY <1>5, <1>7, <1>8, <1>9, <1>10 DEF LocksInv

\* A permit goes to the first in the queue, or is free.
LEMMA GiveUpQueue ==
    ASSUME TypeOK, NEW a \in Mutex, GiveUp(a)
    PROVE  /\ owner' \in [Mutex -> Task \cup {NoTask}] /\ queue' \in [Mutex -> Seq(Task)]
           /\ \A m \in Mutex \ {a} : owner'[m] = owner[m] /\ queue'[m] = queue[m]
           /\ owner'[a] = NoTask => queue'[a] = <<>>
           /\ owner'[a] # NoTask => Len(queue[a]) > 0 /\ owner'[a] = queue[a][1]
           /\ \A n \in 1..Len(queue'[a]) : /\ n + 1 \in 1..Len(queue[a])
                                           /\ queue'[a][n] = queue[a][n + 1]
<1>1. /\ owner \in [Mutex -> Task \cup {NoTask}] /\ queue \in [Mutex -> Seq(Task)]
      /\ queue[a] \in Seq(Task) /\ Len(queue[a]) \in Nat
  BY LenProperties DEF TypeOK
<1>2. CASE queue[a] = <<>>
  BY <1>1, <1>2 DEF GiveUp
<1>3. CASE queue[a] # <<>>
  <2>1. /\ Head(queue[a]) = queue[a][1] /\ Head(queue[a]) \in Task /\ Tail(queue[a]) \in Seq(Task)
        /\ Len(Tail(queue[a])) = Len(queue[a]) - 1 /\ Len(queue[a]) > 0
        /\ \A n \in 1..(Len(queue[a]) - 1) : Tail(queue[a])[n] = queue[a][n + 1]
    BY <1>1, <1>3, HeadTailProperties
  <2>2. owner' = [owner EXCEPT ![a] = Head(queue[a])] /\ queue' = [queue EXCEPT ![a] = Tail(queue[a])]
    BY <1>3 DEF GiveUp
  <2>3. owner'[a] = queue[a][1] /\ queue'[a] = Tail(queue[a])
    BY <1>1, <2>1, <2>2
  <2>4. owner'[a] # NoTask
    BY <2>1, <2>3, LocksAssumption
  <2>5. owner' \in [Mutex -> Task \cup {NoTask}] /\ queue' \in [Mutex -> Seq(Task)]
    BY <1>1, <2>1, <2>2
  <2>6. \A m \in Mutex \ {a} : owner'[m] = owner[m] /\ queue'[m] = queue[m]
    BY <1>1, <2>2
  <2> QED
    BY <1>1, <2>1, <2>3, <2>4, <2>5, <2>6
<1> QED
  BY <1>2, <1>3

\* The innermost call of a task gives up a permit and has no more use for it.
LEMMA PassKeeps ==
    ASSUME LocksInv, NEW t \in Task, Depth(t) > 0, NEW g \in Frame, NEW a \in Mutex,
           FrameOK(stack[t], Depth(t), g), SetTop(t, g), GiveUp(a), UNCHANGED registry,
           g.guards \subseteq Top(t).guards, g.take = Top(t).take, g.arc \in {NoMutex, Top(t).arc},
           owner[a] = t,
           \A m \in Mutex \ {a} : Uses(Top(t), m) => Uses(g, m),
           \A d \in Id : <<d, a>> \notin g.guards,
           \A u \in Task : \A i \in 1..Len(stack[u]) :
              ~(u = t /\ i = Len(stack[t])) => \A d \in Id : <<d, a>> \notin stack[u][i].guards,
           \A m \in Mutex : Waits(stack[t], m) => m = a
    PROVE  LocksInv'
<1>1. TypeOK /\ StacksOK
  BY DEF LocksInv
<1>2. Depth(t) \in 1..Len(stack[t]) /\ Top(t) = stack[t][Len(stack[t])] /\ Depth(t) = Len(stack[t])
  BY <1>1, TopFacts
<1>3. /\ stack' \in [Task -> Seq(Frame)] /\ StacksOK'
      /\ \A u \in Task : Len(stack'[u]) = Len(stack[u])
      /\ \A u \in Task : \A i \in 1..Len(stack[u]) :
           stack'[u][i] = IF u = t /\ i = Len(stack[t]) THEN g ELSE stack[u][i]
  BY <1>1, SetTopStep
<1>4. \A u \in Task \ {t} : stack'[u] = stack[u]
  BY <1>1, SetTopOthers
<1>5. /\ owner' \in [Mutex -> Task \cup {NoTask}] /\ queue' \in [Mutex -> Seq(Task)]
      /\ \A m \in Mutex \ {a} : owner'[m] = owner[m] /\ queue'[m] = queue[m]
      /\ owner'[a] = NoTask => queue'[a] = <<>>
      /\ owner'[a] # NoTask => Len(queue[a]) > 0 /\ owner'[a] = queue[a][1]
      /\ \A n \in 1..Len(queue'[a]) : /\ n + 1 \in 1..Len(queue[a])
                                      /\ queue'[a][n] = queue[a][n + 1]
  BY <1>1, GiveUpQueue
<1>6. TypeOK'
  BY <1>1, <1>3, <1>5, TypesKept DEF TypeOK
<1>7. \A m \in Mutex : Len(queue[m]) \in Nat /\ Len(queue'[m]) \in Nat
  BY <1>1, <1>5, LenProperties DEF TypeOK
<1>8. GuardsOK'
  <2>1. ASSUME NEW u \in Task, NEW i \in 1..Len(stack'[u]), NEW d \in Id, NEW m \in Mutex,
               <<d, m>> \in stack'[u][i].guards
        PROVE  owner'[m] = owner[m]
    BY <1>3, <1>5, <2>1
  <2> QED
    BY <1>3, <2>1, GuardsStay
<1>9. \A m \in Mutex : \A n \in 1..Len(queue[m]) :
         queue[m][n] \in Task \ {t} /\ Waits(stack'[queue[m][n]], m)
  <2>1. ASSUME NEW m \in Mutex, NEW n \in 1..Len(queue[m])
        PROVE  queue[m][n] \in Task \ {t}
    <3>1. queue[m][n] \in Task /\ owner[m] # queue[m][n] /\ Waits(stack[queue[m][n]], m)
      BY QueuedFacts DEF LocksInv, QueuesOK
    <3> QED
      BY <3>1
  <2> QED
    BY <1>4, <2>1, QueuedFacts
<1>10. QueuesOK'
  <2>1. ASSUME NEW m \in Mutex, NEW n \in 1..Len(queue'[m])
        PROVE  /\ Waits(stack'[queue'[m][n]], m)
               /\ owner'[m] # queue'[m][n]
               /\ \A k \in 1..Len(queue'[m]) : k # n => queue'[m][k] # queue'[m][n]
    <3>1. CASE m = a
      <4>1. /\ n + 1 \in 1..Len(queue[a]) /\ queue'[a][n] = queue[a][n + 1] /\ n + 1 # 1
            /\ 1 \in 1..Len(queue[a])
        BY <1>5, <1>7, <3>1
      <4>2. \A k, l \in 1..Len(queue[a]) : k # l => queue[a][k] # queue[a][l]
        BY DEF LocksInv, QueuesOK
      <4>3. owner'[a] # queue'[a][n]
        <5>1. CASE owner'[a] = NoTask
          BY <1>9, <4>1, <5>1, LocksAssumption
        <5>2. CASE owner'[a] # NoTask
          BY <1>5, <4>1, <4>2, <5>2
        <5> QED
          BY <5>1, <5>2
      <4>4. ASSUME NEW k \in 1..Len(queue'[a]), k # n PROVE queue'[a][k] # queue'[a][n]
        BY <1>5, <1>7, <3>1, <4>1, <4>2, <4>4
      <4> QED
        BY <1>9, <3>1, <4>1, <4>3, <4>4
    <3>2. CASE m # a
      <4>1. queue'[m] = queue[m] /\ owner'[m] = owner[m]
        BY <1>5, <3>2
      <4> QED
        BY <1>9, <4>1 DEF LocksInv, QueuesOK
    <3> QED
      BY <3>1, <3>2
  <2> QED
    BY <2>1 DEF QueuesOK
<1>11. NoLostPermit'
  <2>1. ASSUME NEW m \in Mutex, owner'[m] # NoTask
        PROVE  \E i \in 1..Len(stack'[owner'[m]]) : Uses(stack'[owner'[m]][i], m)
    <3>1. CASE m = a
      <4>1. 1 \in 1..Len(queue[a]) /\ owner'[a] = queue[a][1]
        BY <1>5, <1>7, <2>1, <3>1
      <4>2. owner'[a] \in Task /\ Waits(stack'[owner'[a]], a)
        BY <1>9, <4>1
      <4>3. Len(stack'[owner'[a]]) \in Nat
        BY <1>3, <4>2, LenProperties
      <4> QED
        BY <3>1, <4>2, <4>3 DEF Waits, Uses
    <3>2. CASE m # a
      <4>1. owner'[m] = owner[m]
        BY <1>5, <3>2
      <4>2. PICK u \in Task : u = owner[m] /\ \E i \in 1..Len(stack[u]) : Uses(stack[u][i], m)
        BY <2>1, <4>1, PermitUse DEF LocksInv
      <4> QED
        BY <1>2, <1>3, <3>2, <4>1, <4>2
    <3> QED
      BY <3>1, <3>2
  <2>2. \A m \in Mutex : owner'[m] = NoTask => queue'[m] = <<>>
    BY <1>5 DEF LocksInv, NoLostPermit
  <2> QED
    BY <1>3, <1>5, <2>1, <2>2, PermitsKept
<1> QED
  BY <1>3, <1>6, <1>8, <1>10, <1>11 DEF LocksInv

\* The guards are dropped, the call returns.
LEMMA ReleaseKeeps ==
    ASSUME LocksInv, NEW t \in Task, Release(t)
    PROVE  LocksInv'
<1> DEFINE f == Top(t)
<1>1. TypeOK /\ StacksOK /\ Depth(t) > 0 /\ f.phase = "out" /\ UNCHANGED registry
  BY DEF LocksInv, Release
<1>2. /\ f \in Frame /\ FrameOK(stack[t], Depth(t), f)
      /\ Depth(t) = Len(stack[t]) /\ Depth(t) \in 1..Len(stack[t]) /\ f = stack[t][Len(stack[t])]
  BY <1>1, TopFacts
<1>3. CASE f.guards = {} /\ Pop(t) /\ UNCHANGED <<owner, queue>>
  BY <1>1, <1>3, PopKeeps
<1>4. ASSUME NEW h \in f.guards, SetTop(t, [f EXCEPT !.guards = @ \ {h}]), GiveUp(h[2])
      PROVE  LocksInv'
  <2> DEFINE g == [f EXCEPT !.guards = @ \ {h}]
  <2>1. PICK d \in Id, a \in Mutex : h = <<d, a>>
    BY <1>2, FrameFields
  <2>2. GiveUp(a) /\ SetTop(t, g)
    BY <1>4, <2>1
  <2>3. /\ g \in Frame /\ g.arc = f.arc /\ g.phase = f.phase /\ g.kind = f.kind /\ g.want = f.want
        /\ g.take = f.take /\ g.held = f.held /\ g.guards = f.guards \ {h}
    <3> HIDE DEF f
    <3> QED
      BY <1>2 DEF Frame
  <2>4. <<d, a>> \in stack[t][Len(stack[t])].guards
    BY <1>2, <2>1
  <2>5. owner[a] = t
    BY <1>2, <2>4 DEF LocksInv, GuardsOK
  <2> HIDE DEF g
  <2>6. FrameOK(stack[t], Depth(t), g)
    <3> HIDE DEF f
    <3>1. \A e : Covers(g, e) => Covers(f, e)
      BY <2>3 DEF Covers
    <3>2. f.guards = {} => g.guards = {}
      BY <2>3
    <3> QED
      BY <1>1, <1>2, <2>3, <3>1, <3>2 DEF FrameOK
  <2>7. ASSUME NEW e \in Id PROVE <<e, a>> \notin g.guards
    <3>1. <<e, a>> \in f.guards => e = d
      BY <1>2, <2>4, GuardUnique
    <3> QED
      BY <2>1, <2>3, <3>1
  <2>8. ASSUME NEW u \in Task, NEW i \in 1..Len(stack[u]), ~(u = t /\ i = Len(stack[t])), NEW e \in Id
        PROVE  <<e, a>> \notin stack[u][i].guards
    BY <1>2, <2>4, <2>8, GuardUnique
  <2>9. ASSUME NEW m \in Mutex \ {a}, Uses(f, m) PROVE Uses(g, m)
    BY <1>1, <2>1, <2>3, <2>9 DEF Uses
  <2>10. \A m \in Mutex : Waits(stack[t], m) => m = a
    BY <1>1, <1>2 DEF Waits
  <2>11. g.guards \subseteq f.guards /\ g.take = f.take /\ g.arc \in {NoMutex, f.arc}
    BY <2>3
  <2> QED
    BY <1>1, <2>2, <2>3, <2>5, <2>6, <2>7, <2>8, <2>9, <2>10, <2>11, PassKeeps
<1> QED
  BY <1>3, <1>4 DEF Release

\* A waiting call is dropped.
LEMMA CancelKeeps ==
    ASSUME LocksInv, NEW t \in Task, Cancel(t)
    PROVE  LocksInv'
<1> DEFINE f == Top(t)
           g == [f EXCEPT !.phase = "out", !.arc = NoMutex]
           a == f.arc
<1>1. /\ TypeOK /\ StacksOK /\ Depth(t) > 0 /\ f.phase \in {"take", "wait"} /\ SetTop(t, g)
      /\ UNCHANGED registry
  BY DEF LocksInv, Cancel
<1>2. /\ f \in Frame /\ FrameOK(stack[t], Depth(t), f)
      /\ Depth(t) = Len(stack[t]) /\ Depth(t) \in 1..Len(stack[t]) /\ f = stack[t][Len(stack[t])]
  BY <1>1, TopFacts
<1>3. /\ g \in Frame /\ g.arc = NoMutex /\ g.phase = "out" /\ g.kind = f.kind /\ g.want = f.want
      /\ g.take = f.take /\ g.held = f.held /\ g.guards = f.guards
  <2> HIDE DEF f
  <2> QED
    BY <1>2 DEF Frame
<1>4. a \in Mutex \cup {NoMutex} /\ (f.phase = "wait" => a # NoMutex)
  BY <1>2, FrameFields DEF FrameOK
<1>5. CASE f.phase = "wait" /\ owner[a] = t /\ GiveUp(a)
  <2> HIDE DEF g
  <2>1. a \in Mutex
    BY <1>4, <1>5
  <2>2. FrameOK(stack[t], Depth(t), g)
    <3> HIDE DEF f
    <3>1. \A d : Covers(g, d) <=> Covers(f, d)
      BY <1>3 DEF Covers
    <3> QED
      BY <1>2, <1>3, <3>1 DEF FrameOK
  <2>3. ASSUME NEW u \in Task, NEW i \in 1..Len(stack[u]), NEW d \in Id
        PROVE  <<d, a>> \notin stack[u][i].guards
    <3>1. <<d, a>> \in stack[u][i].guards => u = t
      BY <1>5, <2>1 DEF LocksInv, GuardsOK, Depth
    <3> QED
      BY <1>1, <2>1, <3>1, ArcNotGuarded, LocksAssumption
  <2>4. \A m \in Mutex \ {a} : Uses(f, m) => Uses(g, m)
    BY <1>3 DEF Uses
  <2>5. \A d \in Id : <<d, a>> \notin g.guards
    BY <1>2, <1>3, <2>3
  <2>6. \A m \in Mutex : Waits(stack[t], m) => m = a
    BY <1>2 DEF Waits
  <2>7. g.guards \subseteq f.guards /\ g.take = f.take /\ g.arc \in {NoMutex, f.arc}
    BY <1>3
  <2> QED
    BY <1>1, <1>3, <1>5, <2>1, <2>2, <2>3, <2>4, <2>5, <2>6, <2>7, PassKeeps
<1>6. CASE /\ ~(f.phase = "wait" /\ owner[a] = t) /\ UNCHANGED owner
           /\ queue' = IF a = NoMutex THEN queue ELSE [queue EXCEPT ![a] = Leave(@, t)]
  <2> HIDE DEF g
  <2>1. FrameOK(stack[t], Depth(t), g)
    <3> HIDE DEF f
    <3>1. \A d : Covers(g, d) <=> Covers(f, d)
      BY <1>3 DEF Covers
    <3> QED
      BY <1>2, <1>3, <3>1 DEF FrameOK
  <2>2. /\ stack' \in [Task -> Seq(Frame)] /\ StacksOK'
        /\ \A u \in Task : Len(stack'[u]) = Len(stack[u])
        /\ \A u \in Task : \A i \in 1..Len(stack[u]) :
             stack'[u][i] = IF u = t /\ i = Len(stack[t]) THEN g ELSE stack[u][i]
    BY <1>1, <1>3, <2>1, SetTopStep
  <2>3. \A u \in Task \ {t} : stack'[u] = stack[u]
    BY <1>1, SetTopOthers
  <2>4. /\ queue' \in [Mutex -> Seq(Task)]
        /\ \A m \in Mutex : \A n \in 1..Len(queue'[m]) :
             /\ \E k \in 1..Len(queue[m]) : queue'[m][n] = queue[m][k]
             /\ queue'[m][n] # t
             /\ \A k \in 1..Len(queue'[m]) : k # n => queue'[m][k] # queue'[m][n]
    <3>1. /\ queue \in [Mutex -> Seq(Task)]
          /\ \A m \in Mutex : \A k, n \in 1..Len(queue[m]) : k # n => queue[m][k] # queue[m][n]
      BY DEF LocksInv, TypeOK, QueuesOK
    <3>2. ASSUME NEW m \in Mutex, m # a, NEW n \in 1..Len(queue[m])
          PROVE  queue[m][n] # t
      <4>1. ~Waits(stack[t], m)
        BY <1>2, <3>2 DEF Waits
      <4> QED
        BY <4>1, QueuedFacts
    <3>3. CASE a = NoMutex
      BY <1>6, <3>1, <3>2, <3>3, LocksAssumption
    <3>4. CASE a # NoMutex
      <4>1. a \in Mutex /\ queue[a] \in Seq(Task)
        BY <1>4, <3>1, <3>4
      <4> DEFINE r == Leave(queue[a], t)
      <4>2. /\ r \in Seq(Task)
            /\ \A i \in 1..Len(r) : r[i] # t /\ \E k \in 1..Len(queue[a]) : r[i] = queue[a][k]
            /\ \A i, j \in 1..Len(r) : i # j => r[i] # r[j]
        BY <3>1, <4>1, LeaveQueue, SMTT(30)
      <4>3. queue' = [queue EXCEPT ![a] = r]
        BY <1>6, <3>4
      <4> HIDE DEF r, a
      <4>4. /\ queue' \in [Mutex -> Seq(Task)] /\ queue'[a] = r
            /\ \A m \in Mutex \ {a} : queue'[m] = queue[m]
        BY <3>1, <4>1, <4>2, <4>3
      <4>5. ASSUME NEW m \in Mutex, m # a, NEW n \in 1..Len(queue'[m])
            PROVE  /\ \E k \in 1..Len(queue[m]) : queue'[m][n] = queue[m][k]
                   /\ queue'[m][n] # t
                   /\ \A k \in 1..Len(queue'[m]) : k # n => queue'[m][k] # queue'[m][n]
        <5>1. queue'[m] = queue[m]
          BY <4>4, <4>5
        <5> QED
          BY <3>1, <3>2, <4>5, <5>1
      <4>6. ASSUME NEW n \in 1..Len(queue'[a])
            PROVE  /\ \E k \in 1..Len(queue[a]) : queue'[a][n] = queue[a][k]
                   /\ queue'[a][n] # t
                   /\ \A k \in 1..Len(queue'[a]) : k # n => queue'[a][k] # queue'[a][n]
        BY <4>2, <4>4
      <4> QED
        BY <4>4, <4>5, <4>6
    <3> QED
      BY <3>3, <3>4
  <2>5. TypeOK'
    BY <1>1, <1>6, <2>2, <2>4, TypesKept DEF TypeOK
  <2>6. GuardsOK'
    BY <1>1, <1>3, <1>6, <2>2, GuardsStay
  <2>7. QueuesOK'
    <3>1. ASSUME NEW m \in Mutex, NEW n \in 1..Len(queue'[m])
          PROVE  Waits(stack'[queue'[m][n]], m) /\ owner'[m] # queue'[m][n]
      <4>1. PICK k \in 1..Len(queue[m]) : queue'[m][n] = queue[m][k]
        BY <2>4
      <4>2. queue[m][k] \in Task \ {t} /\ Waits(stack[queue[m][k]], m) /\ owner[m] # queue[m][k]
        BY <2>4, <4>1, QueuedFacts DEF LocksInv, QueuesOK
      <4> QED
        BY <1>6, <2>3, <4>1, <4>2
    <3> QED
      BY <2>4, <3>1 DEF QueuesOK
  <2>8. NoLostPermit'
    <3>1. ASSUME NEW m \in Mutex, owner'[m] # NoTask
          PROVE  \E i \in 1..Len(stack'[owner'[m]]) : Uses(stack'[owner'[m]][i], m)
      <4>1. PICK u \in Task : u = owner[m] /\ \E i \in 1..Len(stack[u]) : Uses(stack[u][i], m)
        BY <1>6, <3>1, PermitUse DEF LocksInv
      <4>2. u = t /\ Uses(f, m) => Uses(g, m)
        BY <1>3, <1>6, <4>1 DEF Uses
      <4> QED
        BY <1>2, <1>6, <2>2, <4>1, <4>2
    <3>2. ASSUME NEW m \in Mutex, owner'[m] = NoTask PROVE queue'[m] = <<>>
      <4>1. queue[m] = <<>> /\ Len(queue[m]) = 0
        BY <1>6, <3>2 DEF LocksInv, NoLostPermit
      <4>2. queue'[m] \in Seq(Task) /\ Len(queue'[m]) \in Nat
        BY <2>4, LenProperties
      <4>3. 1 \notin 1..Len(queue'[m])
        BY <2>4, <4>1
      <4> QED
        BY <4>2, <4>3, EmptySeq
    <3> QED
      BY <1>1, <1>6, <2>2, <3>1, <3>2, PermitsKept DEF TypeOK
  <2> QED
    BY <2>2, <2>5, <2>6, <2>7, <2>8 DEF LocksInv
<1> QED
  BY <1>5, <1>6 DEF Cancel

-----------------------------------------------------------------------------
(* The theorems *)

\* The invariant holds at first.
LEMMA InitLocks ==
    ASSUME Init
    PROVE  LocksInv
<1>1. \A t \in Task : stack[t] = <<>> /\ Len(stack[t]) = 0
  BY DEF Init
<1>2. \A m \in Mutex : queue[m] = <<>> /\ Len(queue[m]) = 0 /\ owner[m] = NoTask
  BY DEF Init
<1>3. TypeOK
  <2>1. \A t \in Task : DOMAIN stack[t] = {}
    BY <1>1
  <2> QED
    BY <2>1 DEF Init, TypeOK
<1>4. StacksOK
  BY <1>1 DEF StacksOK, StackOK
<1>5. GuardsOK
  BY <1>1 DEF GuardsOK, Depth, Init
<1>6. QueuesOK
  BY <1>2 DEF QueuesOK
<1>7. NoLostPermit
  BY <1>2 DEF NoLostPermit
<1> QED
  BY <1>3, <1>4, <1>5, <1>6, <1>7 DEF LocksInv

\* Every step keeps the invariant.
LEMMA LocksStep ==
    ASSUME LocksInv, [Next]_vars
    PROVE  LocksInv'
<1>1. ASSUME NEW t \in Task, NEW kind \in {"hold", "lock", "try"}, NEW S \in (SUBSET Id) \ {{}},
             Call(t, kind, S)
      PROVE  LocksInv'
  BY <1>1, CallKeeps
<1>2. ASSUME NEW t \in Task, Step(t) PROVE LocksInv'
  BY <1>2, LockArcKeeps, RequestKeeps, GrantedKeeps, FinishKeeps, ReleaseKeeps DEF Step
<1>3. ASSUME NEW t \in Task, Cancel(t) PROVE LocksInv'
  BY <1>3, CancelKeeps
<1>4. ASSUME UNCHANGED vars PROVE LocksInv'
  <2>1. UNCHANGED <<registry, owner, queue, stack>>
    BY <1>4 DEF vars
  <2>2. \A t \in Task : Frames(t)' = Frames(t) /\ Depth(t)' = Depth(t)
    BY <2>1 DEF Frames, Depth
  <2>3. TypeOK'
    BY <2>1 DEF LocksInv, TypeOK
  <2>4. StacksOK' /\ QueuesOK'
    BY <2>1 DEF LocksInv, StacksOK, QueuesOK
  <2>5. GuardsOK'
    BY <2>1, <2>2 DEF LocksInv, GuardsOK, Depth
  <2>6. NoLostPermit'
    BY <2>1 DEF LocksInv, NoLostPermit, Frames
  <2> QED
    BY <2>3, <2>4, <2>5, <2>6 DEF LocksInv
<1> QED
  BY <1>1, <1>2, <1>3, <1>4 DEF Next

\* The invariant: every id that a call has taken has one guard, in one task, of the
\* mutex that the registry has for it, and every permit and queue is accounted for.
THEOREM LocksInvariant == Spec => []LocksInv
BY InitLocks, LocksStep, PTL DEF Spec

\* The registry, the permits, the queues and the calls keep their types.
THEOREM LocksTypeCorrect == Spec => []TypeOK
<1>1. LocksInv => TypeOK
  BY DEF LocksInv
<1> QED
  BY <1>1, LocksInvariant, PTL

\* No permit is lost with a dropped call, and nobody waits for a free mutex.
THEOREM PermitsNotLost == Spec => []NoLostPermit
<1>1. LocksInv => NoLostPermit
  BY DEF LocksInv
<1> QED
  BY <1>1, LocksInvariant, PTL

\* The permit of every id that a task works under is with the task: a call of the
\* task, this one or an enclosing one, has the guard.
LEMMA InsideGuarded ==
    ASSUME LocksInv, NEW t \in Task, NEW d \in Inside(t)
    PROVE  d \in Id /\ \E i \in 1..Len(stack[t]) : \E m \in Mutex :
                          <<d, m>> \in stack[t][i].guards /\ registry[d] = m /\ owner[m] = t
<1>1. PICK f \in Frames(t) : f.phase = "in" /\ d \in f.want
  BY DEF Inside
<1>2. PICK i \in 1..Len(stack[t]) : f = stack[t][i]
  BY <1>1, FramesOf DEF LocksInv, Depth
<1>3. f \in Frame /\ FrameOK(stack[t], i, f) /\ Len(stack[t]) \in Nat
  BY <1>2, FramesOf DEF LocksInv, Depth, StacksOK, StackOK
<1>4. d \in Id
  BY <1>1, <1>3, FrameFields
<1>5. Covers(f, d) \/ Outer(stack[t], i, d)
  BY <1>1, <1>3, <1>4 DEF FrameOK
<1>6. \E j \in 1..Len(stack[t]) : Covers(stack[t][j], d)
  BY <1>2, <1>3, <1>5 DEF Outer
<1> QED
  BY <1>4, <1>6 DEF Covers, LocksInv, GuardsOK, Depth

\* No two tasks work under the same id.
LEMMA InvExclusive == LocksInv => Exclusive
<1> SUFFICES ASSUME LocksInv, NEW t \in Task, NEW u \in Task, t # u,
                    NEW d \in Inside(t), d \in Inside(u)
             PROVE  FALSE
  BY DEF Exclusive
<1>1. owner[registry[d]] = t
  BY InsideGuarded
<1>2. owner[registry[d]] = u
  BY InsideGuarded
<1> QED
  BY <1>1, <1>2

\* Two tasks are never inside calls that name the same dataset, by whichever mix of
\* locks, holds and nested calls, whatever the registry has pruned or replaced.
THEOREM LocksExclusive == Spec => []Exclusive
BY InvExclusive, LocksInvariant, PTL

\* A task that waits for an id waits for a task that has it, and what that one
\* waits for in turn is a larger id.
LEMMA BlockerAhead ==
    ASSUME LocksInv, NEW t \in Task, NEW u \in Blocks(t),
           Depth(u) = 1, Blocks(u) # {}
    PROVE  /\ NextId(Top(t)) \in Id /\ NextId(Top(u)) \in Id
           /\ NextId(Top(t)) < NextId(Top(u))
<1>1. Depth(t) # 0 /\ Top(t).phase = "wait" /\ u \in Task
      /\ \E f \in Frames(u), i \in Id : <<i, Top(t).arc>> \in f.guards
  BY DEF Blocks
<1>2. Depth(u) # 0 /\ Top(u).phase = "wait"
  BY DEF Blocks
<1>3. Depth(t) \in Nat /\ Depth(u) \in Nat
  BY <1>1, FramesOf DEF LocksInv
<1>4. /\ Top(t) \in Frame /\ FrameOK(stack[t], Depth(t), Top(t)) /\ Depth(t) \in 1..Len(stack[t])
      /\ Top(t) = stack[t][Len(stack[t])] /\ Depth(t) = Len(stack[t])
      /\ Top(u) \in Frame /\ FrameOK(stack[u], Depth(u), Top(u)) /\ Depth(u) \in 1..Len(stack[u])
      /\ Top(u) = stack[u][Len(stack[u])] /\ Depth(u) = Len(stack[u])
  <2>1. Depth(t) > 0 /\ Depth(u) > 0
    BY <1>1, <1>2, <1>3
  <2> QED
    BY <1>1, <2>1, TopFacts DEF LocksInv
<1>5. Top(t).arc \in Mutex /\ Top(t).take # {} /\ Top(u).take # {}
  BY <1>1, <1>2, <1>4, FrameFields DEF FrameOK
<1>6. NextId(Top(t)) \in Id /\ NextId(Top(u)) \in Id /\ NextId(Top(u)) \in Top(u).take
  BY <1>4, <1>5, NextIdLeast
<1>7. \E i \in Id : <<i, Top(t).arc>> \in Top(u).guards
  BY <1>1, <1>4, FramesOf DEF LocksInv
<1>8. PICK d \in Id : <<d, Top(t).arc>> \in Top(u).guards
  BY <1>7
<1>9. registry[d] = Top(t).arc /\ registry[NextId(Top(t))] = Top(t).arc
  BY <1>1, <1>4, <1>5, <1>8, LocksAssumption DEF LocksInv, GuardsOK
<1>10. d = NextId(Top(t))
  <2>1. Top(t).arc # NoMutex
    BY <1>5, LocksAssumption
  <2> QED
    BY <1>6, <1>9, <2>1 DEF LocksInv, GuardsOK
<1>11. Covers(Top(u), d)
  BY <1>5, <1>8 DEF Covers
<1> QED
  BY <1>4, <1>6, <1>10, <1>11 DEF FrameOK

\* A task inside enclosing calls that name all it wants waits for nothing.
LEMMA RidersDoNotWait ==
    ASSUME LocksInv, NEW t \in Task, Blocks(t) # {}
    PROVE  ~(Top(t).want \subseteq Inside(t))
<1> SUFFICES ASSUME Top(t).want \subseteq Inside(t) PROVE FALSE
  OBVIOUS
<1>1. Depth(t) # 0 /\ Top(t).phase = "wait" /\ Depth(t) \in Nat
  BY FramesOf DEF LocksInv, Blocks
<1>2. /\ Top(t) \in Frame /\ FrameOK(stack[t], Depth(t), Top(t)) /\ Depth(t) \in 1..Len(stack[t])
      /\ Top(t) = stack[t][Len(stack[t])] /\ Depth(t) = Len(stack[t])
  BY <1>1, TopFacts DEF LocksInv
<1>3. Top(t).arc # NoMutex /\ Top(t).take # {} /\ Top(t).take \subseteq Top(t).want
  BY <1>1, <1>2 DEF FrameOK
<1>4. NextId(Top(t)) \in Inside(t)
  BY <1>2, <1>3, NextIdLeast
<1>5. PICK i \in 1..Len(stack[t]), m \in Mutex :
         <<NextId(Top(t)), m>> \in stack[t][i].guards /\ registry[NextId(Top(t))] = m
  BY <1>4, InsideGuarded
<1>6. Top(t).arc = m
  BY <1>2, <1>3, <1>5 DEF LocksInv, GuardsOK
<1>7. NextId(Top(t)) \in Id
  BY <1>2, <1>3, NextIdLeast
<1> QED
  BY <1>1, <1>3, <1>5, <1>6, <1>7, ArcNotGuarded

\* A circle of waiting tasks needs one that called, inside a call, for an id that
\* the outer calls do not name.
LEMMA InvNoCircle == LocksInv => NoCircularWait
<1> SUFFICES ASSUME LocksInv, NEW S \in (SUBSET Task) \ {{}},
                    \A t \in S : Blocks(t) \cap S # {},
                    \A t \in S : Top(t).want \subseteq Inside(t) \/ ~(Depth(t) > 1)
             PROVE  FALSE
  BY DEF NoCircularWait
<1>1. ASSUME NEW t \in S PROVE Depth(t) = 1 /\ Blocks(t) # {} /\ NextId(Top(t)) \in Id
  <2>1. t \in Task /\ Blocks(t) # {}
    OBVIOUS
  <2>2. ~(Depth(t) > 1) /\ Depth(t) # 0 /\ Depth(t) \in Nat /\ Top(t).phase = "wait"
    BY <2>1, RidersDoNotWait, FramesOf DEF LocksInv, Blocks
  <2>3. Top(t) \in Frame /\ Top(t).take # {}
    BY <2>1, <2>2, TopFacts DEF LocksInv, FrameOK
  <2> QED
    BY <2>1, <2>2, <2>3, NextIdLeast
<1> DEFINE Rest == {MaxId - NextId(Top(t)) : t \in S}
<1>2. Rest \subseteq Nat /\ Rest # {}
  <2>1. ASSUME NEW n \in Id PROVE MaxId - n \in Nat
    BY LocksAssumption
  <2>2. \A t \in S : MaxId - NextId(Top(t)) \in Nat
    BY <1>1, <2>1
  <2>3. \E t : t \in S
    OBVIOUS
  <2>4. Rest # {}
    BY <2>3
  <2>5. \A x \in Rest : x \in Nat
    BY <2>2
  <2> QED
    BY <2>4, <2>5
<1>3. PICK x \in Rest : \A y \in Rest : x <= y
  BY <1>2, LeastNumber
<1>4. PICK t \in S : x = MaxId - NextId(Top(t))
  BY <1>3
<1>5. PICK u \in S : u \in Blocks(t)
  OBVIOUS
<1>6. NextId(Top(t)) \in Id /\ NextId(Top(u)) \in Id /\ NextId(Top(t)) < NextId(Top(u))
  BY <1>1, <1>5, BlockerAhead
<1>7. MaxId - NextId(Top(u)) \in Rest
  OBVIOUS
<1>8. x <= MaxId - NextId(Top(u))
  BY <1>3, <1>7
<1>9. \A m, n \in Id : m < n => ~(MaxId - m <= MaxId - n)
  BY LocksAssumption
<1> QED
  BY <1>4, <1>6, <1>8, <1>9

\* Calls over overlapping sets of ids do not wait for each other in a circle.
THEOREM NoCircle == Spec => []NoCircularWait
BY InvNoCircle, LocksInvariant, PTL

-----------------------------------------------------------------------------
(* The registry implements AbstractLock *)

\* The calls a stack is inside, all of them but for an innermost one that is not in.
InLen(s)   == IF Len(s) = 0 \/ s[Len(s)].phase = "in" THEN Len(s) ELSE Len(s) - 1
CallsOf(s) == [i \in 1..InLen(s) |-> s[i].want]

LEMMA CallsOfType ==
    ASSUME NEW s \in Seq(Frame)
    PROVE  /\ InLen(s) \in Nat /\ InLen(s) <= Len(s)
           /\ CallsOf(s) \in Seq(SUBSET Id) /\ Len(CallsOf(s)) = InLen(s)
<1>1. Len(s) \in Nat /\ \A i \in 1..Len(s) : s[i] \in Frame
  BY LenProperties, ElementOfSeq
<1>2. InLen(s) \in Nat /\ InLen(s) <= Len(s)
  BY <1>1 DEF InLen
<1>3. \A i \in 1..InLen(s) : s[i].want \in SUBSET Id
  BY <1>1, <1>2, FrameFields
<1> HIDE DEF InLen
<1>4. CallsOf(s) \in Seq(SUBSET Id)
  BY <1>2, <1>3, IsASeq DEF CallsOf
<1>5. DOMAIN CallsOf(s) = 1..InLen(s)
  BY DEF CallsOf
<1>6. Len(CallsOf(s)) = InLen(s)
  BY <1>2, <1>4, <1>5, LenProperties
<1> QED
  BY <1>2, <1>4, <1>6

\* A stack that is inside the same calls, one more, or one less.
LEMMA CallsSame ==
    ASSUME NEW s \in Seq(Frame), NEW r \in Seq(Frame), InLen(r) = InLen(s),
           \A i \in 1..InLen(s) : r[i].want = s[i].want
    PROVE  CallsOf(r) = CallsOf(s)
BY DEF CallsOf

LEMMA CallsMore ==
    ASSUME NEW s \in Seq(Frame), NEW r \in Seq(Frame), InLen(r) = InLen(s) + 1,
           \A i \in 1..InLen(s) : r[i].want = s[i].want
    PROVE  CallsOf(r) = Append(CallsOf(s), r[InLen(r)].want)
<1> DEFINE a == CallsOf(r)
           b == Append(CallsOf(s), r[InLen(r)].want)
<1>1. /\ InLen(s) \in Nat /\ CallsOf(s) \in Seq(SUBSET Id) /\ Len(CallsOf(s)) = InLen(s)
      /\ a \in Seq(SUBSET Id) /\ Len(a) = InLen(s) + 1
  BY CallsOfType
<1>2. \A i \in 1..InLen(s) : CallsOf(s)[i] = s[i].want
  BY DEF CallsOf
<1>3. \A i \in 1..InLen(r) : a[i] = r[i].want
  BY DEF CallsOf
<1>4. a[InLen(r)] = r[InLen(r)].want /\ r[InLen(r)].want \in SUBSET Id
  BY <1>1, <1>3, ElementOfSeq
<1> HIDE DEF a
<1>5. /\ b \in Seq(SUBSET Id) /\ Len(b) = InLen(s) + 1
      /\ \A i \in 1..InLen(s) : b[i] = CallsOf(s)[i]
      /\ b[InLen(s) + 1] = r[InLen(r)].want
  BY <1>1, <1>4, AppendProperties
<1> HIDE DEF b
<1>6. ASSUME NEW i \in 1..Len(a) PROVE a[i] = b[i]
  <2>1. i \in 1..InLen(r) /\ (i \in 1..InLen(s) \/ i = InLen(s) + 1)
    BY <1>1
  <2> QED
    BY <1>2, <1>3, <1>5, <2>1
<1>7. a = b
  BY <1>1, <1>5, <1>6, SeqEqual
<1> QED
  BY <1>7 DEF a, b

LEMMA CallsLess ==
    ASSUME NEW s \in Seq(Frame), NEW r \in Seq(Frame), InLen(r) + 1 = InLen(s),
           \A i \in 1..InLen(r) : r[i].want = s[i].want
    PROVE  /\ CallsOf(s) # <<>>
           /\ CallsOf(r) = SubSeq(CallsOf(s), 1, Len(CallsOf(s)) - 1)
<1> DEFINE a == CallsOf(r)
           c == CallsOf(s)
           b == SubSeq(c, 1, Len(c) - 1)
<1>1. /\ InLen(r) \in Nat /\ c \in Seq(SUBSET Id) /\ Len(c) = InLen(r) + 1
      /\ a \in Seq(SUBSET Id) /\ Len(a) = InLen(r)
  BY CallsOfType
<1>2. \A i \in 1..InLen(r) : a[i] = r[i].want /\ c[i] = s[i].want
  BY <1>1 DEF CallsOf
<1> HIDE DEF a, c
<1>3. b \in Seq(SUBSET Id) /\ Len(b) = InLen(r) /\ \A i \in 1..InLen(r) : b[i] = c[i]
  BY <1>1, ButLast
<1> HIDE DEF b
<1>4. \A i \in 1..Len(a) : a[i] = b[i]
  BY <1>1, <1>2, <1>3
<1>5. a = b
  BY <1>1, <1>3, <1>4, SeqEqual
<1>6. c # <<>>
  BY <1>1
<1> QED
  BY <1>5, <1>6 DEF a, b, c

\* The ids a task works under are those of the calls it is inside.
CallsHeld ==
    \A t \in Task : \A i \in 1..InLen(stack[t]) : stack[t][i].want \subseteq Inside(t)

LEMMA InvCallsHeld == LocksInv => CallsHeld
<1> SUFFICES ASSUME LocksInv, NEW t \in Task, NEW i \in 1..InLen(stack[t])
             PROVE  stack[t][i].want \subseteq Inside(t)
  BY DEF CallsHeld
<1>1. stack[t] \in Seq(Frame) /\ Len(stack[t]) \in Nat
  BY LenProperties DEF LocksInv, TypeOK
<1>2. i \in 1..Len(stack[t])
  BY <1>1, CallsOfType
<1>3. stack[t][i].phase = "in"
  BY <1>1, <1>2 DEF InLen, LocksInv, StacksOK, StackOK
<1>4. stack[t][i] \in Frames(t)
  BY <1>2, FramesOf DEF LocksInv, Depth
<1> QED
  BY <1>3, <1>4 DEF Inside

\* What a step of a task does to its stack: a call more, another innermost frame of
\* the same ids, or, when it is not inside, a call less.
StackStep(t) ==
    \/ /\ Depth(t) > 0 => Top(t).phase = "in"
       /\ \E f \in Frame : Push(t, f)
    \/ Depth(t) > 0 /\ \E f \in Frame : f.want = Top(t).want /\ SetTop(t, f)
    \/ Depth(t) > 0 /\ Top(t).phase # "in" /\ Pop(t)
    \/ UNCHANGED stack

LEMMA StackStepOf ==
    ASSUME LocksInv, NEW t \in Task,
           \/ \E kind \in {"hold", "lock", "try"}, S \in (SUBSET Id) \ {{}} : Call(t, kind, S)
           \/ Step(t)
           \/ Cancel(t)
    PROVE  StackStep(t)
<1>1. TypeOK /\ StacksOK
  BY DEF LocksInv
<1>2. Depth(t) > 0 => Top(t) \in Frame /\ FrameOK(stack[t], Depth(t), Top(t))
  BY <1>1, TopFacts
<1>3. ASSUME NEW kind \in {"hold", "lock", "try"}, NEW S \in (SUBSET Id) \ {{}}, Call(t, kind, S)
      PROVE  StackStep(t)
  <2>1. Held(t) \in SUBSET Id
    BY <1>1, TopFacts, FrameFields, FramesOf DEF Held
  <2>2. NewFrame(t, kind, S) \in Frame
    BY <2>1, NewFrameFields
  <2> QED
    BY <1>3, <2>2 DEF Call, CanCall, StackStep
<1>4. ASSUME LockArc(t) PROVE StackStep(t)
  <2>1. PICK m : m \in Mutex \cup {NoMutex} /\ SetTop(t, [Top(t) EXCEPT !.arc = m])
    <3>1. /\ Depth(t) > 0 /\ Top(t).phase = "take"
          /\ \/ SetTop(t, [Top(t) EXCEPT !.arc = registry[NextId(Top(t))]])
             \/ \E m \in Mutex : SetTop(t, [Top(t) EXCEPT !.arc = m])
      BY <1>4 DEF LockArc
    <3>2. registry[NextId(Top(t))] \in Mutex \cup {NoMutex}
      BY <1>1, <1>2, <3>1, NextIdLeast DEF FrameOK, TypeOK
    <3> QED
      BY <3>1, <3>2
  <2>2. Depth(t) > 0
    BY <1>4 DEF LockArc
  <2>3. [Top(t) EXCEPT !.arc = m] \in Frame /\ [Top(t) EXCEPT !.arc = m].want = Top(t).want
    BY <1>2, <2>1, <2>2, FrameUpdates
  <2> QED
    BY <2>1, <2>2, <2>3 DEF StackStep
<1>5. ASSUME Depth(t) > 0, SetTop(t, Taken(Top(t))), Top(t).arc # NoMutex PROVE StackStep(t)
  <2>1. Taken(Top(t)) \in Frame /\ Taken(Top(t)).want = Top(t).want
    BY <1>2, <1>5, TakenFields DEF FrameOK
  <2> QED
    BY <1>5, <2>1 DEF StackStep
<1>6. ASSUME Depth(t) > 0, NEW p \in {"wait", "out"}, SetTop(t, [Top(t) EXCEPT !.phase = p])
      PROVE  StackStep(t)
  <2>1. [Top(t) EXCEPT !.phase = p] \in Frame /\ [Top(t) EXCEPT !.phase = p].want = Top(t).want
    BY <1>2, <1>6, FrameUpdates
  <2> QED
    BY <1>6, <2>1 DEF StackStep
<1>7. ASSUME Request(t) PROVE StackStep(t)
  <2>1. Depth(t) > 0 /\ Top(t).phase = "take" /\ Top(t).arc # NoMutex
    BY <1>7 DEF Request
  <2>2. CASE SetTop(t, Taken(Top(t)))
    BY <1>5, <2>1, <2>2
  <2>3. CASE Pop(t)
    BY <2>1, <2>3 DEF StackStep
  <2>4. CASE SetTop(t, [Top(t) EXCEPT !.phase = "wait"])
    BY <1>6, <2>1, <2>4
  <2> QED
    BY <1>7, <2>2, <2>3, <2>4 DEF Request
<1>8. ASSUME Granted(t) PROVE StackStep(t)
  <2>1. Depth(t) > 0 /\ SetTop(t, Taken(Top(t))) /\ Top(t).phase = "wait"
    BY <1>8 DEF Granted
  <2>2. Top(t).arc # NoMutex
    BY <1>2, <2>1 DEF FrameOK
  <2> QED
    BY <1>5, <2>1, <2>2
<1>9. ASSUME Finish(t) PROVE StackStep(t)
  BY <1>6, <1>9 DEF Finish
<1>10. ASSUME Release(t) PROVE StackStep(t)
  <2>1. Depth(t) > 0 /\ Top(t).phase = "out"
    BY <1>10 DEF Release
  <2>2. CASE Pop(t)
    BY <2>1, <2>2 DEF StackStep
  <2>3. ASSUME NEW g, SetTop(t, [Top(t) EXCEPT !.guards = @ \ {g}]) PROVE StackStep(t)
    <3>1. /\ [Top(t) EXCEPT !.guards = @ \ {g}] \in Frame
          /\ [Top(t) EXCEPT !.guards = @ \ {g}].want = Top(t).want
      BY <1>2, <2>1, FrameUpdates
    <3> QED
      BY <2>1, <2>3, <3>1 DEF StackStep
  <2> QED
    BY <1>10, <2>2, <2>3 DEF Release
<1>11. ASSUME Cancel(t) PROVE StackStep(t)
  <2>1. Depth(t) > 0 /\ SetTop(t, [Top(t) EXCEPT !.phase = "out", !.arc = NoMutex])
    BY <1>11 DEF Cancel
  <2>2. /\ [Top(t) EXCEPT !.phase = "out", !.arc = NoMutex] \in Frame
        /\ [Top(t) EXCEPT !.phase = "out", !.arc = NoMutex].want = Top(t).want
    BY <1>2, <2>1, FrameUpdates
  <2> QED
    BY <2>1, <2>2 DEF StackStep
<1> QED
  BY <1>3, <1>4, <1>7, <1>8, <1>9, <1>10, <1>11 DEF Step

\* Such a step is one of AbstractLock on the calls, or none.
LEMMA CallsStep ==
    ASSUME LocksInv, LocksInv', NEW t \in Task, StackStep(t)
    PROVE  \/ CallsOf(stack'[t]) = CallsOf(stack[t])
           \/ \E S \in SUBSET Id : CallsOf(stack'[t]) = Append(CallsOf(stack[t]), S)
           \/ /\ CallsOf(stack[t]) # <<>>
              /\ CallsOf(stack'[t]) = SubSeq(CallsOf(stack[t]), 1, Len(CallsOf(stack[t])) - 1)
<1> DEFINE s == stack[t]
           r == stack'[t]
<1>1. stack \in [Task -> Seq(Frame)] /\ s \in Seq(Frame) /\ r \in Seq(Frame) /\ Len(s) \in Nat
  BY LenProperties DEF LocksInv, TypeOK
<1>2. ASSUME InLen(r) = InLen(s) + 1, \A i \in 1..InLen(s) : r[i].want = s[i].want
      PROVE  \E S \in SUBSET Id : CallsOf(r) = Append(CallsOf(s), S)
  <2>1. InLen(r) \in 1..Len(r)
    BY <1>1, <1>2, CallsOfType
  <2>2. r[InLen(r)].want \in SUBSET Id
    BY <1>1, <2>1, ElementOfSeq, FrameFields
  <2> QED
    BY <1>1, <1>2, <2>2, CallsMore
<1>3. CASE (Depth(t) > 0 => Top(t).phase = "in") /\ \E f \in Frame : Push(t, f)
  <2>1. PICK f \in Frame : Push(t, f)
    BY <1>3
  <2>2. r = Append(s, f)
    BY <1>1, <2>1 DEF Push
  <2>3. Len(r) = Len(s) + 1 /\ r[Len(s) + 1] = f /\ \A i \in 1..Len(s) : r[i] = s[i]
    BY <1>1, <2>2, AppendProperties
  <2>4. InLen(s) = Len(s)
    BY <1>1, <1>3 DEF InLen, Depth, Top
  <2> HIDE DEF s, r
  <2>5. CASE f.phase = "in"
    <3>1. InLen(r) = InLen(s) + 1
      BY <1>1, <2>3, <2>4, <2>5 DEF InLen
    <3> QED
      BY <1>2, <2>3, <2>4, <3>1 DEF s, r
  <2>6. CASE f.phase # "in"
    <3>1. InLen(r) = InLen(s)
      BY <1>1, <2>3, <2>4, <2>6 DEF InLen
    <3> QED
      BY <1>1, <2>3, <2>4, <3>1, CallsSame DEF s, r
  <2> QED
    BY <2>5, <2>6
<1>4. CASE Depth(t) > 0 /\ \E f \in Frame : f.want = Top(t).want /\ SetTop(t, f)
  <2>1. PICK f \in Frame : f.want = Top(t).want /\ SetTop(t, f)
    BY <1>4
  <2>2. r = [s EXCEPT ![Len(s)] = f]
    BY <1>1, <2>1 DEF SetTop, Depth
  <2>3. Len(s) \in 1..Len(s) /\ s[Len(s)].want = f.want
    BY <1>1, <1>4, <2>1 DEF Depth, Top
  <2>4. Len(r) = Len(s) /\ \A i \in 1..Len(s) : r[i] = IF i = Len(s) THEN f ELSE s[i]
    BY <1>1, <2>2, <2>3, ExceptSeq
  <2> HIDE DEF s, r
  <2>5. r[Len(s)] = f /\ \A i \in 1..Len(s) : r[i].want = s[i].want
    BY <2>4, <2>3
  <2>6. InLen(s) = IF s[Len(s)].phase = "in" THEN Len(s) ELSE Len(s) - 1
    BY <1>1, <2>3 DEF InLen
  <2>7. InLen(r) = IF f.phase = "in" THEN Len(s) ELSE Len(s) - 1
    <3>1. Len(r) # 0 /\ r[Len(r)] = f /\ Len(r) = Len(s)
      BY <1>1, <2>4, <2>5, <2>3
    <3> QED
      BY <3>1 DEF InLen
  <2>8. (\A i \in 1..InLen(s) : r[i].want = s[i].want) /\ (\A i \in 1..InLen(r) : r[i].want = s[i].want)
    BY <1>1, <2>5, <2>6, <2>7
  <2>9. InLen(r) = InLen(s) \/ InLen(r) = InLen(s) + 1 \/ InLen(r) + 1 = InLen(s)
    BY <1>1, <2>6, <2>7
  <2> QED
    BY <1>1, <1>2, <2>8, <2>9, CallsSame, CallsLess DEF s, r
<1>5. CASE Depth(t) > 0 /\ Top(t).phase # "in" /\ Pop(t)
  <2>1. r = SubSeq(s, 1, Len(s) - 1) /\ Len(s) > 0 /\ s[Len(s)].phase # "in"
    BY <1>1, <1>5 DEF Pop, Depth, Top
  <2>2. StackOK(s)
    BY DEF LocksInv, StacksOK
  <2> HIDE DEF s, r
  <2>3. Len(r) = Len(s) - 1 /\ \A i \in 1..(Len(s) - 1) : r[i] = s[i]
    BY <1>1, <2>1, ButLast
  <2>4. InLen(s) = Len(s) - 1
    BY <1>1, <2>1 DEF InLen
  <2>5. Len(r) # 0 => r[Len(r)].phase = "in"
    BY <1>1, <2>1, <2>2, <2>3 DEF StackOK
  <2>6. InLen(r) = InLen(s)
    BY <1>1, <2>3, <2>4, <2>5 DEF InLen
  <2> QED
    BY <1>1, <2>3, <2>4, <2>6, CallsSame DEF s, r
<1>6. CASE UNCHANGED stack
  BY <1>6
<1> QED
  BY <1>3, <1>4, <1>5, <1>6 DEF StackStep

\* The refinement mapping reads the calls off the stacks, before and after a step.
LEMMA MappedCalls ==
    /\ [t \in Task |-> [i \in 1..InCalls(t) |-> stack[t][i].want]]
         = [t \in Task |-> CallsOf(stack[t])]
    /\ [t \in Task |-> [i \in 1..InCalls(t) |-> stack[t][i].want]]'
         = [t \in Task |-> CallsOf(stack'[t])]
BY DEF InCalls, Depth, Top, CallsOf, InLen

\* A step of a task is a step of AbstractLock, or none.
LEMMA RefinesStep ==
    ASSUME LocksInv, LocksInv', [Next]_vars
    PROVE  [Abstract!Next]_([t \in Task |-> [i \in 1..InCalls(t) |-> stack[t][i].want]])
<1> DEFINE c == [t \in Task |-> CallsOf(stack[t])]
           d == [t \in Task |-> CallsOf(stack'[t])]
<1>1. CallsHeld' /\ Exclusive'
  BY InvCallsHeld, InvExclusive, PTL
<1>2. CASE UNCHANGED vars
  <2>1. c = d
    BY <1>2 DEF vars
  <2> QED
    BY <2>1, MappedCalls
<1>3. CASE Next
  <2>1. PICK t \in Task : StackStep(t)
    BY <1>3, StackStepOf DEF Next
  <2>2. \A u \in Task \ {t} : stack'[u] = stack[u]
    <3>1. \A s : stack' = [stack EXCEPT ![t] = s] => \A u \in Task \ {t} : stack'[u] = stack[u]
      BY DEF LocksInv, TypeOK
    <3> QED
      BY <2>1, <3>1 DEF StackStep, Push, SetTop, Pop
  <2>3. \A s : CallsOf(stack'[t]) = s => d = [c EXCEPT ![t] = s]
    BY <2>2
  <2>4. CASE CallsOf(stack'[t]) = CallsOf(stack[t])
    <3>1. c = d
      BY <2>2, <2>4
    <3> QED
      BY <3>1, MappedCalls
  <2>5. ASSUME NEW S \in SUBSET Id, CallsOf(stack'[t]) = Append(CallsOf(stack[t]), S)
        PROVE  Abstract!Enter(t, S)
    <3>1. d = [c EXCEPT ![t] = Append(@, S)]
      BY <2>3, <2>5
    <3>2. S \subseteq Inside(t)'
      <4>1. /\ stack[t] \in Seq(Frame) /\ stack'[t] \in Seq(Frame)
            /\ CallsOf(stack[t]) \in Seq(SUBSET Id) /\ Len(CallsOf(stack[t])) = InLen(stack[t])
            /\ InLen(stack[t]) \in Nat
        BY CallsOfType DEF LocksInv, TypeOK
      <4>2. CallsOf(stack'[t])[InLen(stack[t]) + 1] = S
            /\ Len(CallsOf(stack'[t])) = InLen(stack[t]) + 1
        BY <2>5, <4>1, AppendProperties
      <4>3. InLen(stack'[t]) = InLen(stack[t]) + 1
        BY <4>1, <4>2, CallsOfType
      <4>4. InLen(stack'[t]) \in 1..InLen(stack'[t])
        BY <4>1, <4>3
      <4>5. stack'[t][InLen(stack'[t])].want = S
        BY <4>2, <4>3, <4>4 DEF CallsOf
      <4>6. stack'[t][InLen(stack'[t])].want \subseteq Inside(t)'
        BY <1>1, <4>4 DEF CallsHeld
      <4> QED
        BY <4>5, <4>6
    <3>3. ASSUME NEW u \in Task \ {t} PROVE S \cap Abstract!Named(u) = {}
      <4>1. InCalls(u) = InLen(stack[u])
        BY DEF InCalls, InLen, Depth, Top
      <4>2. \A i \in 1..InCalls(u) : stack[u][i].want \subseteq Inside(u)
        BY <4>1, InvCallsHeld DEF CallsHeld
      <4>3. Abstract!Named(u) \subseteq Inside(u)
        BY <4>2 DEF Abstract!Named
      <4>4. Inside(u)' = Inside(u)
        BY <2>2 DEF Inside, Frames
      <4>5. Inside(t)' \cap Inside(u)' = {}
        BY <1>1 DEF Exclusive
      <4> QED
        BY <3>2, <4>3, <4>4, <4>5
    <3>4. [u \in Task |-> [i \in 1..InCalls(u) |-> stack[u][i].want]]'
             = [[u \in Task |-> [i \in 1..InCalls(u) |-> stack[u][i].want]] EXCEPT
                   ![t] = Append(@, S)]
      BY <3>1, MappedCalls
    <3> QED
      BY <3>3, <3>4 DEF Abstract!Enter
  <2>6. ASSUME CallsOf(stack[t]) # <<>>,
               CallsOf(stack'[t]) = SubSeq(CallsOf(stack[t]), 1, Len(CallsOf(stack[t])) - 1)
        PROVE  Abstract!Leave(t)
    <3>1. c[t] = CallsOf(stack[t]) /\ d = [c EXCEPT ![t] = SubSeq(@, 1, Len(@) - 1)]
      BY <2>3, <2>6
    <3> QED
      BY <2>6, <3>1, MappedCalls DEF Abstract!Leave
  <2> QED
    BY <2>1, <2>4, <2>5, <2>6, CallsStep DEF Abstract!Next
<1> QED
  BY <1>2, <1>3

\* The registry, its mutexes and their queues implement AbstractLock: a call goes
\* in only while no other task is inside one that names one of its datasets.
THEOREM ImplementsLock == Spec => ImplementsAbstractLock
<1>1. Init => Abstract!Init
  <2> SUFFICES ASSUME Init PROVE Abstract!Init
    OBVIOUS
  <2>1. \A t \in Task : InCalls(t) = 0
    BY DEF Init, InCalls, Depth
  <2>2. \A t \in Task : [i \in 1..InCalls(t) |-> stack[t][i].want] = <<>>
    BY <2>1
  <2> QED
    BY <2>2 DEF Abstract!Init
<1> QED
  BY <1>1, LocksInvariant, RefinesStep, PTL DEF Spec, ImplementsAbstractLock, Abstract!Spec

=============================================================================
