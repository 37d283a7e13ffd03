---------------------------- MODULE AbstractLock ----------------------------
(***************************************************************************)
(* What DatasetLocks promises to its callers: a task enters a call that    *)
(* names some datasets only while no other task is inside a call that      *)
(* names one of them; a call inside another call of the task is free to    *)
(* name the same datasets again.  No registry, no mutex, no queue.         *)
(***************************************************************************)
EXTENDS Naturals, Sequences

CONSTANTS Task, Id

VARIABLE calls  \* [Task -> Seq(SUBSET Id)]: the calls a task is inside, innermost last

Named(t) == UNION {calls[t][i] : i \in DOMAIN calls[t]}

Init == calls = [t \in Task |-> <<>>]

Enter(t, S) ==
    /\ \A u \in Task \ {t} : S \cap Named(u) = {}
    /\ calls' = [calls EXCEPT ![t] = Append(@, S)]

Leave(t) ==
    /\ calls[t] # <<>>
    /\ calls' = [calls EXCEPT ![t] = SubSeq(@, 1, Len(@) - 1)]

Next == \E t \in Task : Leave(t) \/ \E S \in SUBSET Id : Enter(t, S)

Spec == Init /\ [][Next]_calls
=============================================================================
