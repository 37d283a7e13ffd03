--------------------------- MODULE MCRunRegistry ----------------------------
(* Small instances of RunRegistry. *)
EXTENDS RunRegistry, TLC

CONSTANTS r1, r2

Calm == [aborts |-> {}, subscribes |-> {}, expires |-> {}, shutdown |-> FALSE, faults |-> 0]

\* Subscribers and a row that cannot be written; a user's abort and retention;
\* the shutdown.
MCScenarios ==
    { [Calm EXCEPT !.subscribes = {r1, r2}, !.faults = 1],
      [Calm EXCEPT !.aborts = {r1}, !.subscribes = {r1}, !.expires = {r1, r2}],
      [Calm EXCEPT !.shutdown = TRUE] }

=============================================================================
