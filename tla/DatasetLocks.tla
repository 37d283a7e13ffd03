---------------------------- MODULE DatasetLocks ----------------------------
(***************************************************************************)
(* The in-process registry of per-dataset locks.                           *)
(*                                                                         *)
(* The registry maps a dataset id to a Weak reference of an async mutex.   *)
(* A task that wants a dataset resolves the id to a mutex (lock_arc, under *)
(* the map's own lock), queues on the mutex, and keeps it alive while it   *)
(* waits and while it holds it.  An entry whose mutex nobody keeps alive   *)
(* is dead: the next lock_arc of the id replaces it, and a full map drops  *)
(* the dead ones.  hold takes several ids in ascending order and opens a   *)
(* task-local scope in which the ids it took are not taken again.          *)
(*                                                                         *)
(* CognifyRuns abstracts all this to one holder per process and dataset.   *)
(***************************************************************************)
EXTENDS Naturals, Sequences, FiniteSets

CONSTANTS
    Task,
    Id,              \* dataset ids, ordered
    MaxId,           \* the largest one: ids are UUIDs, of 128 bits
    Mutex,           \* the mutex objects that may exist at one time
    PruneThreshold,  \* PRUNE_THRESHOLD, 64 in the code
    MaxDepth,        \* bound on the nesting of calls in one task
    NoTask, NoMutex  \* null values

ASSUME LocksAssumption ==
    /\ MaxId \in Nat /\ Id \subseteq 0..MaxId
    /\ PruneThreshold \in Nat
    /\ MaxDepth \in Nat \ {0}
    /\ NoTask \notin Task
    /\ NoMutex \notin Mutex

VARIABLES
    registry,  \* [Id -> Mutex]: the Weak entries, NoMutex where there is none
    owner,     \* the holder of each mutex's permit
    queue,     \* the tasks queued on each mutex, first come first served
    stack      \* the calls under way in each task, innermost last

vars == <<registry, owner, queue, stack>>

-----------------------------------------------------------------------------
Frame == [kind : {"hold", "lock", "try"},
          want : SUBSET Id,              \* the ids the call names
          take : SUBSET Id,              \* the ids still to take
          arc : Mutex \cup {NoMutex},    \* the mutex resolved for the next one
          guards : SUBSET (Id \X Mutex),
          held : SUBSET Id,              \* HELD, inside the call
          phase : {"take", "wait", "in", "out"}]

\* The registry, the permits, the queues and the calls have their types; a call
\* that is in has nothing left to take, and one that waits has a mutex.
TypeOK ==
    /\ registry \in [Id -> Mutex \cup {NoMutex}]
    /\ owner \in [Mutex -> Task \cup {NoTask}]
    /\ queue \in [Mutex -> Seq(Task)]
    /\ stack \in [Task -> Seq(Frame)]
    /\ \A t \in Task : \A i \in DOMAIN stack[t] :
           /\ stack[t][i].phase = "in" => stack[t][i].take = {}
           /\ stack[t][i].phase = "wait" => stack[t][i].arc # NoMutex

Init ==
    /\ registry = [i \in Id |-> NoMutex]
    /\ owner = [m \in Mutex |-> NoTask]
    /\ queue = [m \in Mutex |-> <<>>]
    /\ stack = [t \in Task |-> <<>>]

-----------------------------------------------------------------------------
Depth(t) == Len(stack[t])
Top(t)   == stack[t][Depth(t)]
Frames(t) == {stack[t][i] : i \in DOMAIN stack[t]}

\* A task calls only when it has no call under way or runs inside one.
CanCall(t) == Depth(t) < MaxDepth /\ (Depth(t) > 0 => Top(t).phase = "in")

\* is_held: the ids of the enclosing holds of this task.
Held(t) == IF Depth(t) = 0 THEN {} ELSE Top(t).held

Push(t, f)   == stack' = [stack EXCEPT ![t] = Append(@, f)]
SetTop(t, f) == stack' = [stack EXCEPT ![t][Depth(t)] = f]
Pop(t)       == stack' = [stack EXCEPT ![t] = SubSeq(@, 1, Depth(t) - 1)]

\* A mutex lives while a task waits for it or holds it.
Live(m) == \E t \in Task : \E f \in Frames(t) : f.arc = m \/ \E i \in Id : <<i, m>> \in f.guards

\* The next id, in ascending order.
NextId(f) == CHOOSE i \in f.take : \A j \in f.take : i <= j

\* Mutant: the ids taken are not marked for the calls inside.
EnteredUnmarked(f) == [f EXCEPT !.phase = "in"]

\* The call has all it asked for; a hold marks what it took for nested calls.
Entered(f) == [f EXCEPT !.phase = "in",
                        !.held = IF f.kind = "hold" THEN @ \cup {g[1] : g \in f.guards} ELSE @]

\* Mutant: the call goes in with the first of its locks.
TakenFirst(f) ==
    Entered([f EXCEPT !.guards = @ \cup {<<NextId(f), f.arc>>},
                      !.take = @ \ {NextId(f)},
                      !.arc = NoMutex])

\* The permit of f.arc becomes one more guard of the call.
Taken(f) ==
    LET g == [f EXCEPT !.guards = @ \cup {<<NextId(f), f.arc>>},
                       !.take = @ \ {NextId(f)},
                       !.arc = NoMutex,
                       !.phase = "take"]
    IN  IF g.take = {} THEN Entered(g) ELSE g

\* The permit of m goes to the task that has waited longest.
GiveUp(m) ==
    IF queue[m] = <<>>
      THEN owner' = [owner EXCEPT ![m] = NoTask] /\ UNCHANGED queue
      ELSE /\ owner' = [owner EXCEPT ![m] = Head(queue[m])]
           /\ queue' = [queue EXCEPT ![m] = Tail(@)]

\* The queue q after task t has left it.
Leave(q, t) ==
    IF \E n \in DOMAIN q : q[n] = t
      THEN LET n == CHOOSE n \in DOMAIN q : q[n] = t
           IN  SubSeq(q, 1, n - 1) \o SubSeq(q, n + 1, Len(q))
      ELSE q

-----------------------------------------------------------------------------
(* Calls *)

NewFrame(t, kind, S) ==
    LET f == [kind |-> kind, want |-> S, take |-> S \ Held(t), arc |-> NoMutex,
              guards |-> {}, held |-> Held(t), phase |-> "take"]
    IN  IF f.take = {} THEN Entered(f) ELSE f

\* hold, lock and try_lock: the ids the task already holds are not taken.  A
\* lock guard does not mark its id, so nothing is called under one.
Call(t, kind, S) ==
    /\ CanCall(t)
    /\ Depth(t) > 0 => Top(t).kind = "hold"
    /\ kind # "hold" => Cardinality(S) = 1
    /\ Push(t, NewFrame(t, kind, S))
    /\ UNCHANGED <<registry, owner, queue>>

\* Mutant: a pruned entry goes even when its mutex is in use.
LockArcPrunesLive(t) ==
    LET f == Top(t) IN
    /\ Depth(t) > 0
    /\ f.phase = "take" /\ f.arc = NoMutex
    /\ \/ /\ registry[NextId(f)] # NoMutex /\ Live(registry[NextId(f)])
          /\ SetTop(t, [f EXCEPT !.arc = registry[NextId(f)]])
          /\ UNCHANGED registry
       \/ /\ registry[NextId(f)] = NoMutex \/ ~Live(registry[NextId(f)])
          /\ LET full == Cardinality({i \in Id : registry[i] # NoMutex}) >= PruneThreshold
                 kept == [i \in Id |-> IF full THEN NoMutex ELSE registry[i]]
             IN  \E m \in Mutex :
                    /\ ~Live(m) /\ \A i \in Id \ {NextId(f)} : kept[i] # m
                    /\ registry' = [kept EXCEPT ![NextId(f)] = m]
                    /\ SetTop(t, [f EXCEPT !.arc = m])
    /\ UNCHANGED <<owner, queue>>

\* lock_arc: the live mutex of the id, or a new one in its place.  A map that
\* has grown to the threshold loses its dead entries first.
LockArc(t) ==
    LET f == Top(t) IN
    /\ Depth(t) > 0
    /\ f.phase = "take" /\ f.arc = NoMutex
    /\ \/ /\ registry[NextId(f)] # NoMutex /\ Live(registry[NextId(f)])
          /\ SetTop(t, [f EXCEPT !.arc = registry[NextId(f)]])
          /\ UNCHANGED registry
       \/ /\ registry[NextId(f)] = NoMutex \/ ~Live(registry[NextId(f)])
          /\ LET full == Cardinality({i \in Id : registry[i] # NoMutex}) >= PruneThreshold
                 kept == [i \in Id |-> IF full /\ registry[i] # NoMutex /\ ~Live(registry[i])
                                       THEN NoMutex ELSE registry[i]]
             IN  \E m \in Mutex :
                    /\ ~Live(m) /\ \A i \in Id \ {NextId(f)} : kept[i] # m
                    /\ registry' = [kept EXCEPT ![NextId(f)] = m]
                    /\ SetTop(t, [f EXCEPT !.arc = m])
    /\ UNCHANGED <<owner, queue>>

\* lock_owned, try_lock_owned: a free mutex is taken; otherwise the task queues,
\* and try_lock returns None.
Request(t) ==
    LET f == Top(t) IN
    /\ Depth(t) > 0
    /\ f.phase = "take" /\ f.arc # NoMutex
    /\ \/ /\ owner[f.arc] = NoTask
          /\ owner' = [owner EXCEPT ![f.arc] = t]
          /\ SetTop(t, Taken(f))
          /\ UNCHANGED queue
       \/ /\ owner[f.arc] # NoTask
          /\ f.kind = "try"
          /\ Pop(t)
          /\ UNCHANGED <<owner, queue>>
       \/ /\ owner[f.arc] # NoTask
          /\ f.kind # "try"
          /\ queue' = [queue EXCEPT ![f.arc] = Append(@, t)]
          /\ SetTop(t, [f EXCEPT !.phase = "wait"])
          /\ UNCHANGED owner
    /\ UNCHANGED registry

\* The permit has been passed to the waiting task.
Granted(t) ==
    LET f == Top(t) IN
    /\ Depth(t) > 0
    /\ f.phase = "wait" /\ owner[f.arc] = t
    /\ SetTop(t, Taken(f))
    /\ UNCHANGED <<registry, owner, queue>>

\* What runs under the locks has ended, or its future is dropped.
Finish(t) ==
    /\ Depth(t) > 0
    /\ Top(t).phase = "in"
    /\ SetTop(t, [Top(t) EXCEPT !.phase = "out"])
    /\ UNCHANGED <<registry, owner, queue>>

\* The guards are dropped one by one, and the call returns.
Release(t) ==
    LET f == Top(t) IN
    /\ Depth(t) > 0
    /\ f.phase = "out"
    /\ \/ /\ f.guards = {}
          /\ Pop(t)
          /\ UNCHANGED <<owner, queue>>
       \/ \E g \in f.guards :
              /\ \A h \in f.guards : g[1] <= h[1]
              /\ SetTop(t, [f EXCEPT !.guards = @ \ {g}])
              /\ GiveUp(g[2])
    /\ UNCHANGED registry

\* Mutant: a waiter that goes away loses the permit it was just given.
CancelLosesPermit(t) ==
    LET f == Top(t) IN
    /\ Depth(t) > 0
    /\ f.phase \in {"take", "wait"}
    /\ SetTop(t, [f EXCEPT !.phase = "out", !.arc = NoMutex])
    /\ queue' = IF f.arc = NoMutex THEN queue ELSE [queue EXCEPT ![f.arc] = Leave(@, t)]
    /\ UNCHANGED <<registry, owner>>

\* A call is dropped while it waits: it leaves the queue, and a permit that was
\* on its way is passed on.
Cancel(t) ==
    LET f == Top(t) IN
    /\ Depth(t) > 0
    /\ f.phase \in {"take", "wait"}
    /\ SetTop(t, [f EXCEPT !.phase = "out", !.arc = NoMutex])
    /\ IF f.phase = "wait" /\ owner[f.arc] = t
         THEN GiveUp(f.arc)
         ELSE /\ queue' = IF f.arc = NoMutex THEN queue
                                            ELSE [queue EXCEPT ![f.arc] = Leave(@, t)]
              /\ UNCHANGED owner
    /\ UNCHANGED registry

-----------------------------------------------------------------------------
Step(t) == LockArc(t) \/ Request(t) \/ Granted(t) \/ Finish(t) \/ Release(t)

Next ==
    \E t \in Task :
        \/ \E kind \in {"hold", "lock", "try"}, S \in (SUBSET Id) \ {{}} : Call(t, kind, S)
        \/ Step(t)
        \/ Cancel(t)

Spec == Init /\ [][Next]_vars

-----------------------------------------------------------------------------
(* Properties *)

\* The ids a task works under, by a call of its own or one it is nested in.
Inside(t) == UNION {f.want : f \in {g \in Frames(t) : g.phase = "in"}}

\* No two tasks are ever inside a call that names the same dataset, whichever
\* way they came in: by a lock, or riding on an enclosing hold.  The registry
\* may drop and remake the mutex of an id, but never while one is in use.
Exclusive ==
    \A t, u \in Task : t # u => Inside(t) \cap Inside(u) = {}

\* A permit is with a call that has it or is about to get it, or it is free and
\* nobody waits for it: no dropped call and no passed permit leaves a mutex locked
\* for ever, or a task waiting for a mutex that is free.
NoLostPermit ==
    \A m \in Mutex :
        IF owner[m] = NoTask THEN queue[m] = <<>>
        ELSE \E f \in Frames(owner[m]) :
                 (\E i \in Id : <<i, m>> \in f.guards) \/ (f.phase = "wait" /\ f.arc = m)

\* Who has the permit that a task waits for: another task, or itself by an
\* enclosing call.
Blocks(t) ==
    IF Depth(t) = 0 \/ Top(t).phase # "wait" THEN {}
    ELSE {u \in Task : \E f \in Frames(u), i \in Id : <<i, Top(t).arc>> \in f.guards}

\* Calls over overlapping sets of ids do not wait for each other in a circle:
\* hold takes its ids in ascending order, and not again those that it has.  Only
\* a call inside another one that names a dataset the outer one does not may
\* close a circle.  A task that waits for itself is a circle of its own.
NoCircularWait ==
    \A S \in (SUBSET Task) \ {{}} :
      (\A t \in S : Blocks(t) \cap S # {})
        => \E t \in S : ~(Top(t).want \subseteq Inside(t)) /\ Depth(t) > 1

\* The registry, its mutexes and their queues implement AbstractLock: the calls a
\* task is inside are those that have all their guards, or ride on an enclosing
\* hold.  That is all of its frames, but for an innermost one that is not in.
InCalls(t) == IF Depth(t) = 0 \/ Top(t).phase = "in" THEN Depth(t) ELSE Depth(t) - 1

Abstract == INSTANCE AbstractLock WITH
                calls <- [t \in Task |-> [i \in 1..InCalls(t) |-> stack[t][i].want]]

ImplementsAbstractLock == Abstract!Spec

=============================================================================
