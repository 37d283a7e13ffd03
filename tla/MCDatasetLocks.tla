--------------------------- MODULE MCDatasetLocks ---------------------------
(* Small instances of DatasetLocks. *)
EXTENDS DatasetLocks, TLC

\* Tasks and mutexes are interchangeable.
Interchangeable == Permutations(Task) \cup Permutations(Mutex)

=============================================================================
