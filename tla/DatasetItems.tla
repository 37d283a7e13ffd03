---------------------------- MODULE DatasetItems ----------------------------
(***************************************************************************)
(* The items of datasets, and the calls that add, replace, cognify and     *)
(* forget them at the same time.                                           *)
(*                                                                         *)
(* An item is a row that names its dataset, its content and its stored     *)
(* file, and says whether it is cognified.  Its memory is the nodes in the *)
(* graph, which the ownership ledger names row by row; the types of its    *)
(* entities are recorded for the dataset as a whole, and for no item.      *)
(* Every call takes the lock of its dataset, but an add gives it back      *)
(* before it writes its row, and a cognify is handed the items listed      *)
(* before the lock.  The locks are those of DatasetLocks; a cognify run    *)
(* that fails has been rolled back by the policy of CognifyRuns, and       *)
(* leaves nothing here.                                                    *)
(*                                                                         *)
(* A stored file and a new row are named after the call that makes them:   *)
(* the id of the row is random in the code, and so is the directory a file *)
(* is stored in (its name is made of the content).                         *)
(***************************************************************************)
EXTENDS Naturals, FiniteSets

CONSTANTS
    Call,
    Dataset,
    Item,        \* the rows there are at the start, which name their files too
    Content,
    Node,
    Type,        \* the nodes that are types of entities
    Extracts,    \* [Content -> SUBSET Node]: the nodes cognify makes of a content
    Scenarios,   \* what the calls are, and the rows there are at the start
    None         \* no dataset, no call, no row, no key

Id == Item \cup Call

Row == [ds : Dataset \cup {None}, content : Content, file : Id, marked : BOOLEAN]

\* The rows there are at the start: their files are named after rows too.
FirstRow == [ds : Dataset, content : Content, file : Item, marked : BOOLEAN]

Op == [kind : {"add", "update", "cognify", "forget", "none"},
       scope : {"item", "dataset", "user"}, memory : BOOLEAN, ifEmpty : BOOLEAN,
       ds : Dataset, item : Item, content : Content]

\* The keys of the add locks: an id, or a content in a dataset.
Key == {<<i>> : i \in Item} \cup (Dataset \X Content)

ASSUME ItemsAssumption ==
    /\ None \notin Dataset \cup Id \cup Row \cup Key
    /\ Item \cap Call = {}
    \* upsert_provenance has a row for the Document node of every item.
    /\ Extracts \in [Content -> SUBSET Node]
    /\ \A x \in Content : Extracts[x] \ Type # {}
    /\ Scenarios \subseteq [op : [Call -> Op], rows : [Item -> FirstRow \cup {None}],
                           own : BOOLEAN, fails : BOOLEAN]

VARIABLES
    env,       \* the scenario
    pc,        \* where each call is
    at,        \* its registers
    result,    \* how it returned
    datasets,  \* the dataset rows
    granted,   \* the datasets whose owner has the grants
    row,       \* [Id -> Row or None]
    files,     \* the stored files
    ledger,    \* the ownership rows: dataset, item or None, node
    graph,     \* the nodes in the graph and vector stores: store, node
    holder,    \* [Dataset -> Call or None]: the dataset lock
    key,       \* [Call -> the content or id lock it holds, or None]
    replaced   \* the files a row named before it named another

locks == <<holder, key>>
rows == <<datasets, granted, row, files, replaced>>
memory == <<ledger, graph>>
vars == <<env, pc, at, result, rows, memory, locks>>

-----------------------------------------------------------------------------
Forgetting == {"resolve", "clear", "graph", "ledger", "unmark", "detach", "drop",
               "purge", "erase", "count", "unlink"}
Adding == {"store", "dataset", "grant", "content", "lookup", "refresh", "create"}
Cognifying == {"list", "filter", "read", "record", "write", "mark"}

\* The dataset in hand and those still to do; the items to work on, and as they
\* were read; the item in hand; whether the dataset goes as a whole; the job
\* that waits for the lock.
At == [ds : Dataset, left : SUBSET Dataset, todo : SUBSET Id, links : SUBSET Id,
       rows : [Id -> Row \cup {None}], id : Id, drop : BOOLEAN,
       job : {"forget", "add", "cognify"}]

\* The variables have their types; a call holds a dataset lock exactly while it
\* works under it, and a content lock exactly while it looks up and writes its row.
TypeOK ==
    /\ env \in Scenarios
    /\ pc \in [Call -> {"new", "hold", "over"} \cup Forgetting \cup Adding \cup Cognifying]
    /\ at \in [Call -> At]
    /\ result \in [Call -> {"none", "ok", "error"}]
    /\ datasets \subseteq Dataset /\ granted \subseteq Dataset
    /\ row \in [Id -> Row \cup {None}]
    /\ files \subseteq Id /\ replaced \subseteq Id
    /\ ledger \subseteq Dataset \X (Id \cup {None}) \X Node
    /\ graph \subseteq (Dataset \cup {None}) \X Node
    /\ holder \in [Dataset -> Call \cup {None}] /\ key \in [Call -> Key \cup {None}]
    /\ \A c \in Call, d \in Dataset :
         holder[d] = c <=> /\ at[c].ds = d
                           /\ pc[c] \in Forgetting \cup {"dataset", "grant"}
                                          \cup (Cognifying \ {"list"})
    /\ \A c \in Call : key[c] # None <=> pc[c] \in {"lookup", "refresh", "create"}

Present(i) == row[i] # None
Members(d) == {i \in Id : Present(i) /\ row[i].ds = d}
Referenced(f) == \E i \in Id : Present(i) /\ row[i].file = f
Files == {row[i].file : i \in {i \in Id : Present(i)}}

\* The graph a dataset is written to: its own, or the one all datasets share.
Store(d) == IF env.own THEN d ELSE None

\* The data_id of the row of node n, extracted from item i: nil for a type.
Owner(i, n) == IF n \in Type THEN None ELSE i

Owned(d) == {l[3] : l \in {l \in ledger : l[1] = d}}
OwnedBy(d, i) == {l[3] : l \in {l \in ledger : l[1] = d /\ l[2] = i}}

\* Mutant of UniqueNodes: the nodes another item shares go too.
UniqueNodesAll(d, i) == OwnedBy(d, i)

\* The nodes recorded for an item, and for nothing else in the dataset.
UniqueNodes(d, i) ==
    {n \in OwnedBy(d, i) : ~\E l \in ledger : l[1] = d /\ l[2] # i /\ l[3] = n}

-----------------------------------------------------------------------------
Goto(c, l) == pc' = [pc EXCEPT ![c] = l]

Unlocked(c) == [d \in Dataset |-> IF holder[d] = c THEN None ELSE holder[d]]

\* The call ends, and its guards are dropped.
Over(c, r) ==
    /\ Goto(c, "over")
    /\ result' = [result EXCEPT ![c] = r]
    /\ holder' = Unlocked(c)
    /\ key' = [key EXCEPT ![c] = None]

Error(c) == Over(c, "error") /\ UNCHANGED <<env, at, rows, memory>>

\* The call goes on, without the locks.
Onward(c, l, regs) ==
    /\ Goto(c, l)
    /\ at' = [at EXCEPT ![c] = regs]
    /\ holder' = Unlocked(c)
    /\ key' = [key EXCEPT ![c] = None]
    /\ UNCHANGED result

\* A step inside a call that keeps its locks.
Step(c, l) == Goto(c, l) /\ UNCHANGED <<env, result, locks>>

\* What a call starts with.  An update refuses a target that the dataset does
\* not hold before it touches anything; a forget of a user lists the datasets.
Begin(c) ==
    LET op == env.op[c]
        To(l, job) == Onward(c, l, [at[c] EXCEPT !.job = job]) /\ UNCHANGED <<env, rows, memory>>
    IN  /\ pc[c] = "new"
        /\ \/ op.kind = "add" /\ To("store", "add")
           \/ op.kind = "cognify" /\ To("list", "cognify")
           \/ op.kind = "forget" /\ op.scope # "user" /\ To("hold", "forget")
           \/ /\ op.kind = "forget" /\ op.scope = "user" /\ datasets = {}
              /\ Over(c, "ok") /\ UNCHANGED <<env, at, rows, memory>>
           \/ /\ op.kind = "forget" /\ op.scope = "user"
              /\ \E d \in datasets :
                   /\ Onward(c, "hold", [at[c] EXCEPT !.job = "forget", !.ds = d,
                                                     !.left = datasets \ {d}])
                   /\ UNCHANGED <<env, rows, memory>>
           \/ /\ op.kind = "update"
              /\ IF op.ds \in datasets /\ op.item \in Members(op.ds)
                 THEN To("hold", "forget")
                 ELSE Error(c)

\* The call waits for the lock of its dataset and takes it.
Hold(c) ==
    /\ pc[c] = "hold"
    /\ holder[at[c].ds] = None
    /\ holder' = [holder EXCEPT ![at[c].ds] = c]
    /\ Goto(c, CASE at[c].job = "forget" -> "resolve"
                 [] at[c].job = "add" -> "dataset"
                 [] at[c].job = "cognify" -> "filter")
    /\ UNCHANGED <<env, at, result, rows, memory, key>>

-----------------------------------------------------------------------------
(* Forget.                                                                 *)

ItemScope(c) == env.op[c].kind = "update" \/ env.op[c].scope = "item"
MemoryOnly(c) == env.op[c].kind = "update" \/ env.op[c].memory

\* A dataset is done: on to the next one of the user, or to the re-add of an
\* update, or the call returns.
Done(c) ==
    LET r == at[c]
    IN  \/ /\ r.left # {}
           /\ \E d \in r.left : Onward(c, "hold", [r EXCEPT !.ds = d, !.left = r.left \ {d}])
        \/ /\ r.left = {} /\ env.op[c].kind = "update"
           /\ Onward(c, "store", [r EXCEPT !.job = "add"])
        \/ /\ r.left = {} /\ env.op[c].kind # "update"
           /\ Over(c, "ok") /\ UNCHANGED at

\* The targets, looked up under the lock.  A dataset that is gone is an error,
\* or skipped by the forget of a user; an item of another dataset is refused; an
\* item without a row has nothing to detach.
Resolve(c) ==
    LET d == at[c].ds
        i == env.op[c].item
        in == Members(d)
        found == IF ~ItemScope(c) THEN in ELSE IF Present(i) THEN {i} ELSE {}
        last == env.op[c].ifEmpty /\ env.op[c].kind = "forget" /\ in = found
    IN  /\ pc[c] = "resolve"
        /\ IF d \notin datasets
           THEN IF env.op[c].kind = "forget" /\ env.op[c].scope = "user"
                THEN Done(c) /\ UNCHANGED <<env, rows, memory>>
                ELSE Error(c)
           ELSE IF ItemScope(c) /\ Present(i) /\ i \notin in
           THEN Error(c)
           ELSE /\ at' = [at EXCEPT ![c].links = found, ![c].drop = ~ItemScope(c) \/ last,
                                    ![c].todo = found]
                /\ Step(c, IF MemoryOnly(c) THEN "graph" ELSE "clear")
                /\ UNCHANGED <<rows, memory>>

Unmarked(S) == [i \in Id |-> IF i \in S THEN [row[i] EXCEPT !.marked = FALSE] ELSE row[i]]

\* Phase 0: the markers of the whole dataset are cleared, for one item too.
Clear(c) ==
    /\ pc[c] = "clear"
    /\ row' = IF at[c].drop \/ at[c].links # {} THEN Unmarked(Members(at[c].ds)) ELSE row
    /\ Step(c, "graph")
    /\ UNCHANGED <<at, datasets, granted, files, replaced, memory>>

\* Mutant of CleanGraph: the ledger goes before the graph.
CleanGraphAfter(c) ==
    /\ pc[c] = "graph"
    /\ ledger' = {l \in ledger : l[1] # at[c].ds \/ (~at[c].drop /\ l[2] \notin at[c].links)}
    /\ Step(c, "ledger")
    /\ UNCHANGED <<at, rows, graph>>

\* Phase 1: the nodes go from the graph; the databases of the dataset as a
\* whole, if it has its own.
CleanGraph(c) ==
    LET d == at[c].ds
        gone == IF at[c].drop THEN IF env.own THEN Node ELSE Owned(d)
                ELSE UNION {UniqueNodes(d, i) : i \in at[c].links}
    IN  /\ pc[c] = "graph"
        /\ graph' = graph \ ({Store(d)} \X gone)
        /\ Step(c, "ledger")
        /\ UNCHANGED <<at, rows, ledger>>

\* The ledger goes last, so that a retry finds the same nodes.
CleanLedger(c) ==
    LET d == at[c].ds
    IN  /\ pc[c] = "ledger"
        /\ ledger' = {l \in ledger : l[1] # d \/ (~at[c].drop /\ l[2] \notin at[c].links)}
        /\ Step(c, IF MemoryOnly(c) THEN "unmark" ELSE "detach")
        /\ UNCHANGED <<at, rows, graph>>

\* Mutant of Unmark: a memory-only forget leaves the markers.
UnmarkNothing(c) == pc[c] = "unmark" /\ Done(c) /\ UNCHANGED <<env, rows, memory>>

\* A memory-only forget ends with the markers, of the item or of the dataset.
Unmark(c) ==
    /\ pc[c] = "unmark"
    /\ row' = Unmarked(IF ItemScope(c) THEN {i \in at[c].links : Present(i)} ELSE Members(at[c].ds))
    /\ Done(c)
    /\ UNCHANGED <<env, datasets, granted, files, replaced, memory>>

\* Phase 2: the rows are detached one by one.
Detach(c) ==
    /\ pc[c] = "detach"
    /\ UNCHANGED <<datasets, granted, files, replaced, memory>>
    /\ \/ \E i \in at[c].todo :
            /\ row' = IF i \in Members(at[c].ds) THEN [row EXCEPT ![i].ds = None] ELSE row
            /\ at' = [at EXCEPT ![c].todo = @ \ {i}]
            /\ Step(c, "detach")
       \/ /\ at[c].todo = {}
          /\ Step(c, "drop")
          /\ UNCHANGED <<row, at>>

\* The dataset row goes, and by its foreign key what is left of the ledger.
DropDataset(c) ==
    LET d == at[c].ds
    IN  /\ pc[c] = "drop"
        /\ IF at[c].drop
           THEN datasets' = datasets \ {d} /\ ledger' = {l \in ledger : l[1] # d}
           ELSE UNCHANGED <<datasets, ledger>>
        /\ at' = [at EXCEPT ![c].todo = IF ItemScope(c) THEN {env.op[c].item} ELSE at[c].links]
        /\ Step(c, "purge")
        /\ UNCHANGED <<granted, row, files, replaced, graph>>

\* The next candidate: one that is linked to a dataset again is left alone, one
\* that is gone has no file to look at.
Purge(c) ==
    /\ pc[c] = "purge"
    /\ \/ \E i \in at[c].todo :
            LET goes == Present(i) /\ row[i].ds = None
            IN  /\ at' = [at EXCEPT ![c].todo = @ \ {i}, ![c].id = i, ![c].rows = row]
                /\ Step(c, IF goes THEN "erase" ELSE "purge")
       \/ at[c].todo = {} /\ Done(c) /\ UNCHANGED env
    /\ UNCHANGED <<rows, memory>>

\* The row goes before its file is counted.
Erase(c) ==
    /\ pc[c] = "erase"
    /\ row' = [row EXCEPT ![at[c].id] = None]
    /\ Step(c, "count")
    /\ UNCHANGED <<at, datasets, granted, files, replaced, memory>>

FileInHand(c) == at[c].rows[at[c].id].file

\* Mutant of CountReferences: the other rows are counted before the row is deleted.
CountReferencesEarly(c) ==
    LET read == at[c].rows
        others == {i \in Id \ {at[c].id} : read[i] # None}
    IN  /\ pc[c] = "count"
        /\ Step(c, IF \E i \in others : read[i].file = FileInHand(c) THEN "purge" ELSE "unlink")
        /\ UNCHANGED <<at, rows, memory>>

\* Mutant of CountReferences: the file goes with the first row that names it.
CountReferencesNot(c) == pc[c] = "count" /\ Step(c, "unlink") /\ UNCHANGED <<at, rows, memory>>

\* A file that another row names stays.
CountReferences(c) ==
    /\ pc[c] = "count"
    /\ Step(c, IF Referenced(FileInHand(c)) THEN "purge" ELSE "unlink")
    /\ UNCHANGED <<at, rows, memory>>

Unlink(c) ==
    /\ pc[c] = "unlink"
    /\ files' = files \ {FileInHand(c)}
    /\ Step(c, "purge")
    /\ UNCHANGED <<at, datasets, granted, row, replaced, memory>>

\* A step of a forget fails: the forget stops where it is.
ForgetFails(c) ==
    /\ env.fails
    /\ pc[c] \in Forgetting
    /\ Error(c)

Forget(c) ==
    \/ Resolve(c) \/ Clear(c) \/ CleanGraph(c) \/ CleanLedger(c) \/ Unmark(c) \/ Detach(c)
    \/ DropDataset(c) \/ Purge(c) \/ Erase(c) \/ CountReferences(c) \/ Unlink(c)
    \/ ForgetFails(c)

-----------------------------------------------------------------------------
(* Add.                                                                    *)

\* The input is stored, under no lock.
StoreFile(c) ==
    /\ pc[c] = "store"
    /\ files' = files \cup {c}
    /\ Goto(c, "hold")
    /\ UNCHANGED <<env, at, result, datasets, granted, row, replaced, memory, locks>>

\* Mutant of FindDataset: the lock is given back before the grant.
FindDatasetUnlocks(c) ==
    LET d == at[c].ds
    IN  /\ pc[c] = "dataset"
        /\ UNCHANGED <<env, granted, row, files, replaced, memory>>
        /\ \/ d \in datasets /\ Onward(c, "content", at[c]) /\ UNCHANGED datasets
           \/ d \notin datasets /\ datasets' = datasets \cup {d} /\ Onward(c, "grant", at[c])

\* The dataset is found, or created; by id it is only found.
FindDataset(c) ==
    LET d == at[c].ds
    IN  /\ pc[c] = "dataset"
        /\ UNCHANGED <<env, granted, row, files, replaced, memory>>
        /\ \/ d \in datasets /\ Onward(c, "content", at[c]) /\ UNCHANGED datasets
           \/ /\ d \notin datasets /\ env.op[c].kind = "update"
              /\ Over(c, "error") /\ UNCHANGED <<at, datasets>>
           \/ /\ d \notin datasets /\ env.op[c].kind = "add"
              /\ datasets' = datasets \cup {d}
              /\ Goto(c, "grant")
              /\ UNCHANGED <<at, result, locks>>

\* A grant that fails leaves the new dataset behind without it.
Grant(c) ==
    /\ pc[c] = "grant"
    /\ \/ /\ granted' = granted \cup {at[c].ds}
          /\ Onward(c, "content", at[c])
          /\ UNCHANGED <<env, datasets, row, files, replaced, memory>>
       \/ env.fails /\ Error(c)

\* Mutant of LockKey: a call waits for nobody.
LockKeyPerCall(c) == <<c>>

\* An update locks the id, an add the content in the dataset.
LockKey(c) == IF env.op[c].kind = "update" THEN <<env.op[c].item>>
                                           ELSE <<at[c].ds, env.op[c].content>>

LockContent(c) ==
    /\ pc[c] = "content"
    /\ \A o \in Call : key[o] # LockKey(c)
    /\ key' = [key EXCEPT ![c] = LockKey(c)]
    /\ Goto(c, "lookup")
    /\ UNCHANGED <<env, at, result, rows, memory, holder>>

\* The row an add or an update goes to.
Lookup(c) ==
    LET op == env.op[c]
        same == {i \in Members(at[c].ds) : row[i].content = op.content}
        hits == IF op.kind = "add" THEN same ELSE {i \in {op.item} : Present(i)}
        new == IF op.kind = "add" THEN c ELSE op.item
        Use(i, l) == /\ at' = [at EXCEPT ![c].id = i, ![c].rows = row]
                     /\ Step(c, l)
                     /\ UNCHANGED <<rows, memory>>
    IN  /\ pc[c] = "lookup"
        /\ \/ hits = {} /\ Use(new, "create")
           \/ \E i \in hits : IF i \in Members(at[c].ds) THEN Use(i, "refresh") ELSE Error(c)

\* After its row an add is over; an update goes on to cognify the dataset.
Written(c) ==
    \/ env.op[c].kind = "add" /\ Over(c, "ok") /\ UNCHANGED at
    \/ env.op[c].kind = "update" /\ Onward(c, "list", [at[c] EXCEPT !.job = "cognify"])

\* An add rewrites the columns it knows; an update writes back the whole row as
\* it was read, without its marker if the content changed.
Refresh(c) ==
    LET i == at[c].id
        read == at[c].rows[i]
        op == env.op[c]
        pinned == [read EXCEPT !.content = op.content, !.file = c,
                               !.marked = @ /\ read.content = op.content]
    IN  /\ pc[c] = "refresh"
        /\ IF ~Present(i)
           THEN Error(c)
           ELSE /\ row' = [row EXCEPT ![i] = IF op.kind = "add" THEN [@ EXCEPT !.file = c]
                                                                ELSE pinned]
                /\ replaced' = replaced \cup {row[i].file}
                /\ Written(c)
                /\ UNCHANGED <<env, datasets, granted, files, memory>>

CreateRow(c) ==
    /\ pc[c] = "create"
    /\ row' = [row EXCEPT ![at[c].id] = [ds |-> at[c].ds, content |-> env.op[c].content,
                                         file |-> c, marked |-> FALSE]]
    /\ Written(c)
    /\ UNCHANGED <<env, datasets, granted, files, replaced, memory>>

Add(c) ==
    \/ StoreFile(c) \/ FindDataset(c) \/ Grant(c) \/ LockContent(c) \/ Lookup(c)
    \/ Refresh(c) \/ CreateRow(c)

-----------------------------------------------------------------------------
(* Cognify.                                                                *)

\* The caller lists the items, and then waits for the lock.
List(c) ==
    /\ pc[c] = "list"
    /\ at' = [at EXCEPT ![c].rows = row, ![c].todo = Members(at[c].ds)]
    /\ Step(c, "hold")
    /\ UNCHANGED <<rows, memory>>

\* The items that are marked by now are skipped.
Filter(c) ==
    LET todo == {i \in at[c].todo : ~(Present(i) /\ row[i].marked)}
    IN  /\ pc[c] = "filter"
        /\ IF todo = {} THEN Over(c, "ok") /\ UNCHANGED <<env, at>>
                        ELSE /\ at' = [at EXCEPT ![c].todo = todo]
                             /\ Step(c, "read")
        /\ UNCHANGED <<rows, memory>>

\* Mutant of Read: an item whose file is gone is taken from elsewhere.
ReadAnyway(c) ==
    /\ pc[c] = "read"
    /\ IF at[c].ds \in datasets THEN Step(c, "record") /\ UNCHANGED <<at, rows, memory>>
                                ELSE Error(c)

\* The files the listed rows name are read.  A file that is gone fails the run
\* (the default scope, WholeRun, has no survivors), and so does a dataset that is
\* gone, which the ledger's foreign key needs.
Read(c) ==
    LET readable == /\ at[c].ds \in datasets
                    /\ \A i \in at[c].todo : at[c].rows[i].file \in files
    IN  /\ pc[c] = "read"
        /\ \/ readable /\ Step(c, "record") /\ UNCHANGED <<at, rows, memory>>
           \/ (~readable \/ env.fails) /\ Error(c)

Extracted(c, i) == Extracts[at[c].rows[i].content]

\* The ledger is written before the graph.
RecordLedger(c) ==
    /\ pc[c] = "record"
    /\ ledger' = ledger \cup UNION {{<<at[c].ds, Owner(i, n), n>> : n \in Extracted(c, i)} : i \in at[c].todo}
    /\ Step(c, "write")
    /\ UNCHANGED <<at, rows, graph>>
    /\ Step(c, "write")
    /\ UNCHANGED <<at, rows, graph>>

\* Mutant of WriteGraph: the lock is given back before the markers are written.
WriteGraphUnlocks(c) ==
    /\ pc[c] = "write"
    /\ graph' = graph \cup ({Store(at[c].ds)} \X UNION {Extracted(c, i) : i \in at[c].todo})
    /\ Onward(c, "mark", at[c])
    /\ UNCHANGED <<env, rows, ledger>>

WriteGraph(c) ==
    /\ pc[c] = "write"
    /\ graph' = graph \cup ({Store(at[c].ds)} \X UNION {Extracted(c, i) : i \in at[c].todo})
    /\ Step(c, "mark")
    /\ UNCHANGED <<at, rows, ledger>>

\* The rows that are still there are marked.
MarkComplete(c) ==
    /\ pc[c] = "mark"
    /\ row' = [i \in Id |-> IF i \in at[c].todo /\ Present(i)
                            THEN [row[i] EXCEPT !.marked = TRUE] ELSE row[i]]
    /\ Over(c, "ok")
    /\ UNCHANGED <<env, at, datasets, granted, files, replaced, memory>>

Cognify(c) ==
    \/ List(c) \/ Filter(c) \/ Read(c) \/ RecordLedger(c) \/ WriteGraph(c) \/ MarkComplete(c)

-----------------------------------------------------------------------------
\* The rows there are at the start are cognified, or just added.
Init ==
    /\ env \in Scenarios
    /\ pc = [c \in Call |-> IF env.op[c].kind = "none" THEN "over" ELSE "new"]
    /\ row = [i \in Id |-> IF i \in Item THEN env.rows[i] ELSE None]
    /\ at = [c \in Call |-> [ds |-> env.op[c].ds, left |-> {}, todo |-> {}, links |-> {},
                             rows |-> row, id |-> c, drop |-> FALSE, job |-> "add"]]
    /\ result = [c \in Call |-> "none"]
    /\ datasets = {row[i].ds : i \in {i \in Id : Present(i)}}
    /\ granted = datasets
    /\ files = Files
    /\ ledger = UNION {{<<row[i].ds, Owner(i, n), n>> : n \in Extracts[row[i].content]} :
                         i \in {i \in Item : Present(i) /\ row[i].marked}}
    /\ graph = {<<Store(l[1]), l[3]>> : l \in ledger}
    /\ holder = [d \in Dataset |-> None]
    /\ key = [c \in Call |-> None]
    /\ replaced = {}

AllOver == \A c \in Call : pc[c] = "over"

Next ==
    \/ \E c \in Call : Begin(c) \/ Hold(c) \/ Forget(c) \/ Add(c) \/ Cognify(c)
    \/ AllOver /\ UNCHANGED vars

Spec == Init /\ [][Next]_vars

-----------------------------------------------------------------------------
(* Properties.                                                             *)

Failed == \E c \in Call : result[c] = "error"

\* Every node in a graph is named by a ledger row of that graph, so whatever
\* step of a forget fails, a retry still finds what is left ("the ledger goes
\* last so that a failed graph or vector step leaves it in place for a retry").
LedgerCoversGraph ==
    \A a \in graph : \E l \in ledger : Store(l[1]) = a[1] /\ l[3] = a[2]

\* Call c is an update of item i.
Updates(c, i) == env.op[c].kind = "update" /\ env.op[c].item = i

\* No update finds the content it brings: the updates of i bring contents that
\* differ from the first one and from each other.
AllNew(i) ==
    \A c \in Call : Updates(c, i) =>
        /\ env.op[c].content # env.rows[i].content
        /\ \A o \in Call \ {c} : Updates(o, i) => env.op[o].content # env.op[c].content

\* An item marked as cognified has its memory: a marker that outlived it would
\* keep every later cognify away.  A memory-only forget clears the markers after
\* the memory, so a failure between them breaks this, and so does an update with
\* the content the item has: it writes back the marker it has read.  A graph that
\* datasets share is the matter of CognifyRuns.
MarkedBacked ==
    \A i \in Id :
      (/\ Present(i) /\ row[i].marked /\ row[i].ds # None /\ AllNew(i)
       /\ env.own /\ ~env.fails /\ holder[row[i].ds] = None)
        => /\ OwnedBy(row[i].ds, i) # {}
           /\ {row[i].ds} \X OwnedBy(row[i].ds, i) \subseteq graph

\* No row names a file that a delete has removed, also when the rows of two
\* datasets share it.
NoDanglingFile == \A i \in Id : Present(i) => row[i].file \in files

\* Concurrent adds of one content to a dataset make one row of it: the lookup
\* and the write of the row are one step to the others.  Only an update may give
\* a row the content of another one.
OneRowPerContent ==
    (/\ \A c \in Call : env.op[c].kind # "update"
     /\ \A i, j \in Item : (/\ env.rows[i] # None /\ env.rows[j] # None
                            /\ env.rows[i].ds = env.rows[j].ds
                            /\ env.rows[i].content = env.rows[j].content) => i = j)
      => \A d \in Dataset : \A i, j \in Members(d) : row[i].content = row[j].content => i = j

\* A file does not outlive the rows that named it: of two deletes at the same
\* time, one removes the file that their rows shared.  Files that a re-add or an
\* update replaced stay behind.
FilesFollowRows ==
    (AllOver /\ ~Failed) => \A f \in files \cap Item : Referenced(f) \/ f \in replaced

\* A dataset that others can find has its grants, unless granting failed: the
\* lock is kept from the creation to the grant.
SeenIsGranted ==
    \A d \in datasets : holder[d] = None /\ ~env.fails => d \in granted

\* The files of item i are its own, and none of them was replaced: they go with
\* the row.  No forget looks for the item in another dataset, where it would purge
\* the row that a forget under the lock of the right one has detached.
FilesGo(i) ==
    /\ \A j \in Item \ {i} : env.rows[j] # None => env.rows[j].file # env.rows[i].file
    /\ \A f \in replaced : f # env.rows[i].file /\ (f \in Call => ~Updates(f, i))
    /\ \A c \in Call : env.op[c].kind = "forget" /\ env.op[c].scope = "item" /\ env.op[c].item = i
                         => env.op[c].ds = env.rows[i].ds

\* No memory of an item that is gone: a cognify that listed an item before it
\* was forgotten does not bring its nodes back.  It is stopped only by the file
\* that it cannot read.
MemoryHasRow ==
    \A l \in ledger :
      l[2] \in Item /\ FilesGo(l[2]) /\ ~env.fails => l[2] \in Members(l[1])

\* A forget that returns has removed all that is recorded for what it was asked
\* to forget, for a dataset or for an item with a row.  The graph of the dataset
\* has exactly what is still recorded: the nodes of the other items, and the types
\* of entities, which an item's forget leaves there even when no other item has
\* them; only the forget of the dataset takes them.
ForgetLeavesNothing ==
    [][\A c \in Call, d \in Dataset :
         (/\ env.op[c].kind = "forget" /\ d = at[c].ds /\ pc[c] \in Forgetting \ {"resolve"}
          /\ pc'[c] \in {"over", "hold"} /\ result'[c] # "error"
          /\ env.own /\ ~env.fails)
           => /\ IF ItemScope(c) THEN at[c].links # {} => OwnedBy(d, env.op[c].item)' = {}
                                 ELSE Owned(d)' = {}
              /\ {n \in Node : <<d, n>> \in graph'} = Owned(d)']_vars

\* "The dataset is cognified: the replaced document and any other item not yet
\* cognified": when an update returns, the memory of the item is that of the
\* new content (the types of its entities are recorded for the dataset).
UpdateTakesEffect ==
    [][\A c \in Call :
         (env.op[c].kind = "update" /\ pc[c] # "over" /\ result'[c] = "ok")
           => OwnedBy(at[c].ds, env.op[c].item)' = Extracts[env.op[c].content] \ Type]_vars
=============================================================================
