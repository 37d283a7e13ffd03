------------------------- MODULE MCImproveSessions --------------------------
EXTENDS ImproveSessions, TLC

CONSTANTS a, b, c, d1, d2

Base == [kind |-> [x \in Call |-> "remember"], sessions |-> [x \in Call |-> {1}],
         dataset |-> [x \in Call |-> d1], files |-> FALSE, waits |-> FALSE,
         deletes |-> {}, expires |-> {}, steps |-> [s \in Session |-> 0], fails |-> FALSE]

\* Three remembers of one session; two, and anything may fail.
Turns == Base
Faults == [Base EXCEPT !.kind[c] = "none", !.fails = TRUE, !.waits = TRUE, !.steps[1] = 1]

\* Two remembers, trace steps and a deletion, with the file store; an improve,
\* while files expire.
Files == [Base EXCEPT !.kind[c] = "none", !.files = TRUE, !.steps[1] = 1, !.deletes = {1}]
Expiring == [Files EXCEPT !.kind[b] = "improve", !.steps[1] = 2, !.deletes = {}, !.expires = {1}]

\* Three improves with common sessions, into two datasets.
Explicit == [Base EXCEPT !.kind = [x \in Call |-> "improve"],
                         !.sessions = a :> {1, 2} @@ b :> {1, 2} @@ c :> {2},
                         !.dataset[b] = d2, !.steps[1] = 2]

MCScenarios == {Turns, Faults, Files, Expiring, Explicit}

=============================================================================
