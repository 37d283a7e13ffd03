--------------------------- MODULE MCDatasetItems ---------------------------
EXTENDS DatasetItems, TLC

CONSTANTS c1, c2, c3, d1, d2, i1, i2, own1, own2, shared, kind

\* Both contents have an entity in common; one has an entity of a type.
MCExtracts == (1 :> {own1, shared, kind}) @@ (2 :> {own2, shared})

Nothing == [kind |-> "none", scope |-> "item", memory |-> FALSE, ifEmpty |-> FALSE,
            ds |-> d1, item |-> i1, content |-> 1]
Add1(d, x) == [Nothing EXCEPT !.kind = "add", !.ds = d, !.content = x]
Update1(i, x) == [Nothing EXCEPT !.kind = "update", !.item = i, !.content = x]
Cognify1(d) == [Nothing EXCEPT !.kind = "cognify", !.ds = d]
ForgetItem(d, i, m, e) == [Nothing EXCEPT !.kind = "forget", !.ds = d, !.item = i,
                                          !.memory = m, !.ifEmpty = e]
ForgetAll(d, m) == [Nothing EXCEPT !.kind = "forget", !.scope = "dataset", !.ds = d, !.memory = m]
ForgetUser(m) == [Nothing EXCEPT !.kind = "forget", !.scope = "user", !.memory = m]

Old(d, x, f, m) == [ds |-> d, content |-> x, file |-> f, marked |-> m]
Case(a, b, c, r1, r2, o, f) ==
    [op |-> (c1 :> a) @@ (c2 :> b) @@ (c3 :> c), rows |-> (i1 :> r1) @@ (i2 :> r2),
     own |-> o, fails |-> f]

One == Old(d1, 1, i1, TRUE)
Two == Old(d1, 2, i2, TRUE)
Raw == Old(d1, 1, i1, FALSE)
Fork1 == Old(d1, 1, i1, TRUE)
Fork2 == Old(d2, 1, i1, TRUE)

\* Any two of these, next to a cognify of their dataset.
Pool == <<Add1(d1, 1), Update1(i1, 2), ForgetItem(d1, i1, FALSE, FALSE), ForgetItem(d1, i1, TRUE, FALSE),
          ForgetItem(d1, i2, FALSE, TRUE), ForgetAll(d1, FALSE), ForgetAll(d1, TRUE)>>
Pairs == {Case(Pool[p[1]], Pool[p[2]], Cognify1(d1), One, Two, TRUE, FALSE) :
            p \in {p \in (1..7) \X (1..7) : p[1] <= p[2]}}

\* Forgets that fail.
Failing == {Case(Pool[k], ForgetAll(d1, FALSE), Nothing, One, Two, o, TRUE) :
              k \in 1..7, o \in BOOLEAN}

\* Adds to a dataset that is not there yet, rows of two datasets that share a
\* file, an item that was never cognified, two updates of one item.
Others == {
    Case(Add1(d1, 1), Add1(d1, 1), ForgetAll(d1, FALSE), None, None, TRUE, FALSE),
    Case(Add1(d1, 1), Add1(d1, 1), Nothing, None, None, TRUE, TRUE),
    Case(ForgetAll(d1, FALSE), ForgetAll(d2, FALSE), Nothing, Fork1, Fork2, FALSE, FALSE),
    Case(ForgetUser(FALSE), ForgetAll(d2, FALSE), Add1(d2, 1), Fork1, Fork2, TRUE, FALSE),
    Case(ForgetUser(TRUE), Cognify1(d1), Cognify1(d2), Fork1, Fork2, TRUE, FALSE),
    Case(ForgetUser(FALSE), ForgetUser(FALSE), Nothing, Fork1, Fork2, FALSE, TRUE),
    Case(Add1(d1, 1), ForgetItem(d1, i1, FALSE, TRUE), Cognify1(d1), Raw, None, TRUE, FALSE),
    Case(Update1(i1, 1), Update1(i1, 2), Cognify1(d1), One, None, TRUE, FALSE)}

MCScenarios == Pairs \cup Failing \cup Others

\* An update of a document, and a cognify of its dataset.
UpdateScenarios == {Case(Update1(i1, 2), Cognify1(d1), Nothing, One, None, TRUE, FALSE)}
=============================================================================
