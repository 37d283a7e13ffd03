--------------------------- MODULE MCCognifyRuns ---------------------------
(***************************************************************************)
(* Instances of CognifyRuns for TLC.  The runs differ in how many          *)
(* processes, runs and datasets there are and in the faults allowed.       *)
(***************************************************************************)
EXTENDS CognifyRuns, TLC

CONSTANT FirstData, SecondDataset

\* All items in one dataset, or all but FirstData in another one.
MCDatasetOf ==
    [d \in Data \cup Dataset |->
        CASE d \in Dataset -> d
          [] d \in Data /\ (d = FirstData \/ SecondDataset \notin Dataset) ->
                 CHOOSE ds \in Dataset : ds # SecondDataset
          [] OTHER -> SecondDataset]

\* One store that every dataset shares, the default of the program.
MCStoreOf == [ds \in Dataset |-> CHOOSE st \in Store : TRUE]

\* Within one dataset items are interchangeable; so are runs and slugs.
Interchangeable ==
    Permutations(Run) \cup Permutations(Slug) \cup Permutations(Data)

\* With several processes, these are interchangeable as well.
InterchangeableProc == Interchangeable \cup Permutations(Proc)

=============================================================================
