------------------------- MODULE DatasetItemsProofs -------------------------
(***************************************************************************)
(* Theorems about DatasetItems, for any number of calls, datasets, items   *)
(* and contents, and any mix of adds, updates, cognifies and forgets, with *)
(* or without failures: the types, that the ledger covers the graph, that  *)
(* no row names a removed file and no file outlives its rows, that a       *)
(* content has one row, and that a dataset others see has its grants; and, *)
(* when no step fails, that a forget removes the memory it was asked to    *)
(* remove, that a marked item has its memory, and that no memory outlives  *)
(* the row of its item.                                                    *)
(***************************************************************************)
EXTENDS DatasetItems, TLAPS

(* The inductive invariants *)

Places == {"new", "hold", "over"} \cup Forgetting \cup Adding \cup Cognifying

\* Where a call has the lock of its dataset, and where it has its add lock.
Locked == Forgetting \cup {"dataset", "grant"} \cup (Cognifying \ {"list"})
Keyed == {"lookup", "refresh", "create"}

\* What call c is in order with: at place p, with the registers r, the add lock k,
\* the operation op and the result x.  It is where its job is, and its job is one of
\* its kind; the rows it works on were there when it read them; a forget that does
\* not drop the dataset has one item.
CallOK(c, p, r, k, op, x) ==
    /\ p \in Forgetting => r.job = "forget"
    /\ p \in Adding => r.job = "add"
    /\ p \in Cognifying => r.job = "cognify"
    /\ p \notin {"new", "over"} => op.kind \in {r.job, "update"}
    /\ x = "error" => p = "over"
    /\ p \in {"erase", "count", "unlink", "refresh"} => r.rows[r.id] # None
    /\ p \in Cognifying \ {"list"} \/ (p = "hold" /\ r.job = "cognify")
         => \A i \in r.todo : r.rows[i] # None
    /\ ~r.drop => \A i, j \in r.links : i = j
    /\ p = "create" => r.id = IF op.kind = "add" THEN c ELSE op.item
    /\ k # None => k = IF op.kind = "update" THEN <<op.item>> ELSE <<r.ds, op.content>>

\* No two calls have the same add lock.
KeysApart == \A c, o \in Call : c # o /\ key[c] # None => key[c] # key[o]

CallsOK == \A c \in Call : CallOK(c, pc[c], at[c], key[c], env.op[c], result[c])

StateInv == TypeOK /\ CallsOK /\ KeysApart

\* The forget c is about to delete the ledger row l.
Doomed(c, l) ==
    /\ pc[c] = "ledger"
    /\ l[1] = at[c].ds
    /\ at[c].drop \/ l[2] \in at[c].links

\* Every node in a graph has a ledger row that no forget is about to delete.  A
\* cognify has its ledger rows before it writes the graph; a forget that drops a
\* dataset has none left once it has deleted them.
LedgerInv ==
    /\ \A c \in Call : pc[c] \in {"unmark", "detach", "drop"} /\ at[c].drop
                         => \A l \in ledger : l[1] # at[c].ds
    /\ \A c \in Call : pc[c] = "write"
                         => \A i \in at[c].todo : \A n \in Extracted(c, i) : <<at[c].ds, Owner(i, n), n>> \in ledger
    /\ \A a \in graph : \E l \in ledger :
         Store(l[1]) = a[1] /\ l[3] = a[2] /\ \A c \in Call : ~Doomed(c, l)

\* A call that may still write its row.
Unwritten(c) == \/ pc[c] \in {"new"} \cup Forgetting \cup Adding
                \/ pc[c] = "hold" /\ at[c].job # "cognify"

\* The file of a call is named by no row and in no forget's hand until the call has
\* written its row, and it is there from the moment it is stored; the file that a
\* forget is about to remove is named by no row.
FilesInv ==
    /\ \A c \in Call : Unwritten(c) =>
         /\ \A i \in Id : Present(i) => row[i].file # c
         /\ \A o \in Call : pc[o] \in {"erase", "count", "unlink"} => FileInHand(o) # c
    /\ \A c \in Call : pc[c] \in Adding \ {"store"} \/ (pc[c] = "hold" /\ at[c].job = "add")
                         => c \in files
    /\ \A o \in Call : pc[o] = "unlink" => ~Referenced(FileInHand(o))
    /\ NoDanglingFile

\* A file that was there at the start is named by a row, was replaced, or is in
\* the hand of a forget that will look at it again after its row is gone.
FollowInv ==
    /\ \A c \in Call : pc[c] = "create" => ~Present(at[c].id)
    /\ \A c \in Call : row[c] # None => ~Unwritten(c)
    /\ \A o \in Call : pc[o] = "erase" /\ Present(at[o].id)
                         => row[at[o].id].file = FileInHand(o) \/ row[at[o].id].file \in Call
    /\ ~Failed => \A f \in files \cap Item :
         \/ Referenced(f) \/ f \in replaced
         \/ \E o \in Call : pc[o] \in {"count", "unlink"} /\ FileInHand(o) = f

\* A dataset without its grants is about to get them.
SeenInv ==
    ~env.fails => \A d \in datasets : d \in granted \/ \E c \in Call : pc[c] = "grant" /\ at[c].ds = d

\* The premise of OneRowPerContent.
OnlyAdds ==
    /\ \A c \in Call : env.op[c].kind # "update"
    /\ \A i, j \in Item : (/\ env.rows[i] # None /\ env.rows[j] # None
                           /\ env.rows[i].ds = env.rows[j].ds
                           /\ env.rows[i].content = env.rows[j].content) => i = j

\* The content that a call is about to create a row of has none.
ContentInv ==
    OnlyAdds =>
      /\ \A d \in Dataset : \A i, j \in Members(d) : row[i].content = row[j].content => i = j
      /\ \A c \in Call : pc[c] = "create"
           => \A i \in Members(at[c].ds) : row[i].content # env.op[c].content

-----------------------------------------------------------------------------
(* Types and records *)

\* What the parts of TypeOK say of the calls, and of what they share.
Control ==
    /\ env \in Scenarios
    /\ pc \in [Call -> Places]
    /\ at \in [Call -> At]
    /\ result \in [Call -> {"none", "ok", "error"}]
    /\ holder \in [Dataset -> Call \cup {None}]
    /\ key \in [Call -> Key \cup {None}]
    /\ \A c \in Call, d \in Dataset : holder[d] = c <=> at[c].ds = d /\ pc[c] \in Locked
    /\ \A c \in Call : key[c] # None <=> pc[c] \in Keyed

Data ==
    /\ datasets \subseteq Dataset /\ granted \subseteq Dataset
    /\ row \in [Id -> Row \cup {None}]
    /\ files \subseteq Id /\ replaced \subseteq Id
    /\ ledger \subseteq Dataset \X (Id \cup {None}) \X Node
    /\ graph \subseteq (Dataset \cup {None}) \X Node

LEMMA TypeParts == TypeOK <=> Control /\ Data
BY DEF TypeOK, Control, Data, Places, Locked, Keyed

\* The fields of a scenario, an operation, a row and a call's registers.
LEMMA ScenarioFields ==
    ASSUME NEW e \in Scenarios
    PROVE  /\ e.op \in [Call -> Op]
           /\ e.rows \in [Item -> FirstRow \cup {None}]
           /\ e.own \in BOOLEAN /\ e.fails \in BOOLEAN
BY ItemsAssumption

LEMMA OpFields ==
    ASSUME NEW o \in Op
    PROVE  /\ o.kind \in {"add", "update", "cognify", "forget", "none"}
           /\ o.scope \in {"item", "dataset", "user"}
           /\ o.memory \in BOOLEAN /\ o.ifEmpty \in BOOLEAN
           /\ o.ds \in Dataset /\ o.item \in Item /\ o.content \in Content
BY DEF Op

LEMMA RowFields ==
    ASSUME NEW r \in Row
    PROVE  /\ r.ds \in Dataset \cup {None} /\ r.content \in Content
           /\ r.file \in Id /\ r.marked \in BOOLEAN
BY DEF Row

LEMMA AtFields ==
    ASSUME NEW r \in At
    PROVE  /\ r.ds \in Dataset /\ r.left \in SUBSET Dataset
           /\ r.todo \in SUBSET Id /\ r.links \in SUBSET Id
           /\ r.rows \in [Id -> Row \cup {None}] /\ r.id \in Id
           /\ r.drop \in BOOLEAN /\ r.job \in {"forget", "add", "cognify"}
BY DEF At

\* None is no row, no dataset, no id and no key; an item is no call.
LEMMA Apart ==
    /\ None \notin Row /\ None \notin Dataset /\ None \notin Id /\ None \notin Key
    /\ Item \subseteq Id /\ Call \subseteq Id /\ None \notin Call /\ Item \cap Call = {}
BY ItemsAssumption DEF Id

\* The updates of a row.
LEMMA RowUpdates ==
    ASSUME NEW r \in Row
    PROVE  /\ \A m \in BOOLEAN : /\ [r EXCEPT !.marked = m] \in Row
                                 /\ [r EXCEPT !.marked = m].ds = r.ds
                                 /\ [r EXCEPT !.marked = m].content = r.content
                                 /\ [r EXCEPT !.marked = m].file = r.file
                                 /\ [r EXCEPT !.marked = m].marked = m
           /\ /\ [r EXCEPT !.ds = None] \in Row /\ [r EXCEPT !.ds = None].ds = None
              /\ [r EXCEPT !.ds = None].content = r.content /\ [r EXCEPT !.ds = None].file = r.file
              /\ [r EXCEPT !.ds = None].marked = r.marked
           /\ \A f \in Id : /\ [r EXCEPT !.file = f] \in Row /\ [r EXCEPT !.file = f].ds = r.ds
                            /\ [r EXCEPT !.file = f].content = r.content
                            /\ [r EXCEPT !.file = f].marked = r.marked
                            /\ [r EXCEPT !.file = f].file = f
           /\ \A x \in Content, f \in Id, m \in BOOLEAN :
                 LET n == [r EXCEPT !.content = x, !.file = f, !.marked = m]
                 IN  n \in Row /\ n.ds = r.ds /\ n.content = x /\ n.file = f /\ n.marked = m
BY DEF Row

\* The updates of a call's registers.
LEMMA AtUpdates ==
    ASSUME NEW r \in At
    PROVE  /\ \A j \in {"forget", "add", "cognify"} : [r EXCEPT !.job = j] \in At
           /\ \A d \in Dataset, L \in SUBSET Dataset : [r EXCEPT !.ds = d, !.left = L] \in At
           /\ \A d \in Dataset, L \in SUBSET Dataset, j \in {"forget", "add", "cognify"} :
                 [r EXCEPT !.job = j, !.ds = d, !.left = L] \in At
           /\ \A S \in SUBSET Id, b \in BOOLEAN :
                 [r EXCEPT !.links = S, !.drop = b, !.todo = S] \in At
           /\ \A S \in SUBSET Id : [r EXCEPT !.todo = S] \in At
           /\ \A S \in SUBSET Id, i \in Id, f \in [Id -> Row \cup {None}] :
                 /\ [r EXCEPT !.todo = S, !.id = i, !.rows = f] \in At
                 /\ [r EXCEPT !.id = i, !.rows = f] \in At
                 /\ [r EXCEPT !.rows = f, !.todo = S] \in At
BY DEF At

-----------------------------------------------------------------------------
(* The moves of a call *)

\* The call goes to l with the registers r: it keeps its locks, it drops them, or
\* it ends with the result x.
Moves(c, l, r) ==
    /\ pc' = [pc EXCEPT ![c] = l]
    /\ at' = [at EXCEPT ![c] = r]
    /\ UNCHANGED env

Keeps(c, l, r) == Moves(c, l, r) /\ UNCHANGED <<result, holder, key>>

Leaves(c, l, r) ==
    /\ Moves(c, l, r)
    /\ holder' = Unlocked(c) /\ key' = [key EXCEPT ![c] = None]
    /\ UNCHANGED result

Ends(c, x) ==
    /\ Moves(c, "over", at[c])
    /\ holder' = Unlocked(c) /\ key' = [key EXCEPT ![c] = None]
    /\ result' = [result EXCEPT ![c] = x]

\* The other calls stay where they are.
Stay(c) ==
    /\ UNCHANGED env
    /\ \A o \in Call \ {c} : /\ pc'[o] = pc[o] /\ at'[o] = at[o]
                             /\ key'[o] = key[o] /\ result'[o] = result[o]

LEMMA MovesType ==
    ASSUME StateInv, NEW c \in Call, NEW l \in Places, NEW r \in At, Moves(c, l, r)
    PROVE  /\ pc' \in [Call -> Places] /\ at' \in [Call -> At]
           /\ pc'[c] = l /\ at'[c] = r
           /\ \A o \in Call \ {c} : pc'[o] = pc[o] /\ at'[o] = at[o]
           /\ env' = env
BY TypeParts DEF StateInv, Control, Moves

\* The registers of a call, its operation and its place.
LEMMA CallFacts ==
    ASSUME StateInv, NEW c \in Call
    PROVE  /\ at[c] \in At /\ env.op[c] \in Op /\ pc[c] \in Places
           /\ at = [at EXCEPT ![c] = at[c]]
           /\ CallOK(c, pc[c], at[c], key[c], env.op[c], result[c])
BY TypeParts, ScenarioFields DEF StateInv, Control, CallsOK

\* Such moves keep the state in order.
LEMMA KeepsOK ==
    ASSUME StateInv, NEW c \in Call, NEW l \in Places, NEW r \in At, Keeps(c, l, r),
           pc[c] \in Locked <=> l \in Locked, pc[c] \in Keyed <=> l \in Keyed, r.ds = at[c].ds,
           CallOK(c, l, r, key[c], env.op[c], result[c]), Data'
    PROVE  StateInv' /\ Stay(c)
<1>1. Control
  BY TypeParts DEF StateInv
<1>2. /\ pc' \in [Call -> Places] /\ at' \in [Call -> At] /\ pc'[c] = l /\ at'[c] = r
      /\ \A o \in Call \ {c} : pc'[o] = pc[o] /\ at'[o] = at[o]
      /\ UNCHANGED <<env, result, holder, key>>
  BY MovesType DEF Keeps, Moves
<1>3. \A o \in Call, d \in Dataset : holder'[d] = o <=> at'[o].ds = d /\ pc'[o] \in Locked
  BY <1>1, <1>2 DEF Control
<1>4. \A o \in Call : key'[o] # None <=> pc'[o] \in Keyed
  BY <1>1, <1>2 DEF Control
<1>5. Control'
  BY <1>1, <1>2, <1>3, <1>4 DEF Control
<1>6. TypeOK'
  BY <1>5, TypeParts, PTL
<1>7. CallsOK'
  BY <1>2 DEF StateInv, CallsOK
<1>8. KeysApart'
  BY <1>2 DEF StateInv, KeysApart
<1> QED
  BY <1>2, <1>6, <1>7, <1>8 DEF StateInv, Stay

LEMMA UnlockedOK ==
    ASSUME StateInv, NEW c \in Call, NEW l \in Places, NEW r \in At, Moves(c, l, r),
           l \notin Locked, l \notin Keyed,
           holder' = Unlocked(c), key' = [key EXCEPT ![c] = None],
           NEW x \in {"none", "ok", "error"}, result' = [result EXCEPT ![c] = x],
           CallOK(c, l, r, None, env.op[c], x), Data'
    PROVE  StateInv' /\ Stay(c)
<1>1. Control
  BY TypeParts DEF StateInv
<1>2. /\ pc' \in [Call -> Places] /\ at' \in [Call -> At] /\ pc'[c] = l /\ at'[c] = r
      /\ \A o \in Call \ {c} : pc'[o] = pc[o] /\ at'[o] = at[o]
      /\ UNCHANGED env
  BY MovesType DEF Moves
<1>3. /\ holder' \in [Dataset -> Call \cup {None}]
      /\ \A d \in Dataset : holder'[d] = IF holder[d] = c THEN None ELSE holder[d]
  BY <1>1 DEF Control, Unlocked
<1>4. /\ key' \in [Call -> Key \cup {None}] /\ key'[c] = None
      /\ \A o \in Call \ {c} : key'[o] = key[o]
  BY <1>1 DEF Control
<1>5. /\ result' \in [Call -> {"none", "ok", "error"}] /\ result'[c] = x
      /\ \A o \in Call \ {c} : result'[o] = result[o]
  BY <1>1 DEF Control
<1>6. ASSUME NEW o \in Call, NEW d \in Dataset
      PROVE  holder'[d] = o <=> at'[o].ds = d /\ pc'[o] \in Locked
  <2>1. CASE o = c
    BY <1>2, <1>3, <2>1, Apart
  <2>2. CASE o # c
    <3>1. holder'[d] = o <=> holder[d] = o
      BY <1>3, <2>2, Apart
    <3> QED
      BY <1>1, <1>2, <2>2, <3>1 DEF Control
  <2> QED
    BY <2>1, <2>2
<1>7. \A o \in Call : key'[o] # None <=> pc'[o] \in Keyed
  BY <1>1, <1>2, <1>4 DEF Control
<1>8. Control'
  BY <1>1, <1>2, <1>3, <1>4, <1>5, <1>6, <1>7 DEF Control
<1>9. TypeOK'
  BY <1>8, TypeParts, PTL
<1>10. CallsOK'
  BY <1>2, <1>4, <1>5 DEF StateInv, CallsOK
<1>11. KeysApart'
  BY <1>4 DEF StateInv, KeysApart
<1> QED
  BY <1>2, <1>4, <1>5, <1>9, <1>10, <1>11 DEF StateInv, Stay

LEMMA LeavesOK ==
    ASSUME StateInv, NEW c \in Call, NEW l \in Places, NEW r \in At, Leaves(c, l, r),
           l \notin Locked, l \notin Keyed, CallOK(c, l, r, None, env.op[c], result[c]), Data'
    PROVE  StateInv' /\ Stay(c)
<1>1. result[c] \in {"none", "ok", "error"} /\ result' = [result EXCEPT ![c] = result[c]]
  BY TypeParts DEF StateInv, Control, Leaves
<1> QED
  BY <1>1, UnlockedOK DEF Leaves

LEMMA EndsOK ==
    ASSUME StateInv, NEW c \in Call, NEW x \in {"ok", "error"}, Ends(c, x), Data'
    PROVE  StateInv' /\ Stay(c)
<1>1. at[c] \in At /\ CallOK(c, pc[c], at[c], key[c], env.op[c], result[c])
  BY CallFacts
<1>2. CallOK(c, "over", at[c], None, env.op[c], x)
  BY <1>1 DEF CallOK, Forgetting, Adding, Cognifying
<1>3. "over" \in Places /\ "over" \notin Locked /\ "over" \notin Keyed
  BY DEF Places, Locked, Keyed, Forgetting, Cognifying
<1> QED
  BY <1>1, <1>2, <1>3, UnlockedOK DEF Ends

\* The moves as the actions write them.
LEMMA MoveForms ==
    ASSUME StateInv, NEW c \in Call, UNCHANGED env
    PROVE  /\ \A x : Over(c, x) /\ UNCHANGED at => Ends(c, x)
           /\ \A l, r : Onward(c, l, r) => Leaves(c, l, r)
           /\ \A l, r : Step(c, l) /\ at' = [at EXCEPT ![c] = r] => Keeps(c, l, r)
           /\ \A l : Step(c, l) /\ UNCHANGED at => Keeps(c, l, at[c])
<1>1. at = [at EXCEPT ![c] = at[c]]
  BY CallFacts
<1> QED
  BY <1>1 DEF Over, Onward, Step, Goto, Ends, Leaves, Keeps, Moves, locks

LEMMA DataStays ==
    ASSUME StateInv, UNCHANGED <<rows, memory>>
    PROVE  Data'
BY TypeParts DEF StateInv, Data, rows, memory

LEMMA RowsStay ==
    ASSUME StateInv, row' \in [Id -> Row \cup {None}],
           UNCHANGED <<datasets, granted, files, replaced, memory>>
    PROVE  Data'
BY TypeParts DEF StateInv, Data, memory

LEMMA ErrorOK ==
    ASSUME StateInv, NEW c \in Call, Error(c)
    PROVE  StateInv' /\ Stay(c) /\ pc'[c] = "over" /\ result'[c] = "error"
<1>1. Ends(c, "error") /\ UNCHANGED <<rows, memory>>
  BY MoveForms DEF Error
<1>2. StateInv' /\ Stay(c)
  BY <1>1, DataStays, EndsOK
<1>3. pc'[c] = "over" /\ result'[c] = "error"
  BY <1>1, TypeParts DEF Ends, Moves, StateInv, Control
<1> QED
  BY <1>2, <1>3

LEMMA BeginOK ==
    ASSUME StateInv, NEW c \in Call, Begin(c)
    PROVE  StateInv' /\ Stay(c)
<1> DEFINE op == env.op[c]
<1>1. /\ at[c] \in At /\ op \in Op /\ pc[c] = "new"
      /\ CallOK(c, pc[c], at[c], key[c], op, result[c])
  BY CallFacts DEF Begin
<1>2. CASE Error(c)
  BY <1>2, ErrorOK
<1>3. CASE Over(c, "ok") /\ UNCHANGED <<env, at, rows, memory>>
  BY <1>3, MoveForms, DataStays, EndsOK
<1>4. ASSUME NEW l, NEW j,
             Onward(c, l, [at[c] EXCEPT !.job = j]), UNCHANGED <<env, rows, memory>>,
             \/ op.kind = "add" /\ l = "store" /\ j = "add"
             \/ op.kind = "cognify" /\ l = "list" /\ j = "cognify"
             \/ op.kind \in {"forget", "update"} /\ l = "hold" /\ j = "forget"
      PROVE  StateInv' /\ Stay(c)
  <2> DEFINE r == [at[c] EXCEPT !.job = j]
  <2>1. Leaves(c, l, r) /\ Data'
    BY <1>4, MoveForms, DataStays
  <2>2. r \in At /\ r.job = j /\ r.drop = at[c].drop /\ r.links = at[c].links
    BY <1>1, <1>4 DEF At
  <2> HIDE DEF r
  <2>3. CallOK(c, l, r, None, op, result[c])
    BY <1>1, <1>4, <2>2 DEF CallOK, Forgetting, Adding, Cognifying
  <2>4. l \in Places /\ l \notin Locked /\ l \notin Keyed
    BY <1>4 DEF Places, Locked, Keyed, Forgetting, Adding, Cognifying
  <2> QED
    BY <2>1, <2>2, <2>3, <2>4, LeavesOK
<1>5. ASSUME NEW d \in datasets, op.kind = "forget",
             Onward(c, "hold", [at[c] EXCEPT !.job = "forget", !.ds = d, !.left = datasets \ {d}]),
             UNCHANGED <<env, rows, memory>>
      PROVE  StateInv' /\ Stay(c)
  <2> DEFINE r == [at[c] EXCEPT !.job = "forget", !.ds = d, !.left = datasets \ {d}]
  <2>1. Leaves(c, "hold", r) /\ Data'
    BY <1>5, MoveForms, DataStays
  <2>2. d \in Dataset /\ datasets \ {d} \in SUBSET Dataset
    BY TypeParts DEF StateInv, Data
  <2>3. r \in At /\ r.job = "forget" /\ r.drop = at[c].drop /\ r.links = at[c].links
    BY <1>1, <2>2 DEF At
  <2> HIDE DEF r
  <2>4. CallOK(c, "hold", r, None, op, result[c])
    BY <1>1, <1>5, <2>3 DEF CallOK, Forgetting, Adding, Cognifying
  <2>5. "hold" \in Places /\ "hold" \notin Locked /\ "hold" \notin Keyed
    BY DEF Places, Locked, Keyed, Forgetting, Adding, Cognifying
  <2> QED
    BY <2>1, <2>3, <2>4, <2>5, LeavesOK
<1> QED
  BY <1>2, <1>3, <1>4, <1>5 DEF Begin

LEMMA HoldOK ==
    ASSUME StateInv, NEW c \in Call, Hold(c)
    PROVE  StateInv' /\ Stay(c)
<1> DEFINE d == at[c].ds
           l == CASE at[c].job = "forget" -> "resolve"
                  [] at[c].job = "add" -> "dataset"
                  [] at[c].job = "cognify" -> "filter"
<1>1. /\ at[c] \in At /\ pc[c] = "hold" /\ CallOK(c, "hold", at[c], key[c], env.op[c], result[c])
      /\ Control /\ at = [at EXCEPT ![c] = at[c]]
  BY CallFacts, TypeParts DEF Hold, StateInv
<1>2. d \in Dataset /\ at[c].job \in {"forget", "add", "cognify"}
  BY <1>1, AtFields
<1>3. l \in {"resolve", "dataset", "filter"}
  BY <1>2
<1>4. /\ pc' = [pc EXCEPT ![c] = l] /\ holder[d] = None /\ holder' = [holder EXCEPT ![d] = c]
      /\ UNCHANGED <<env, at, result, rows, memory, key>>
  BY DEF Hold, Goto
<1>5. CallOK(c, l, at[c], key[c], env.op[c], result[c])
  <2>1. /\ at[c].job = "forget" => l = "resolve"
        /\ at[c].job = "add" => l = "dataset"
        /\ at[c].job = "cognify" => l = "filter"
    OBVIOUS
  <2> HIDE DEF l
  <2> QED
    BY <1>1, <1>2, <1>3, <2>1 DEF CallOK, Forgetting, Adding, Cognifying
<1>6. l \in Places /\ l \in Locked /\ l \notin Keyed /\ "hold" \notin Locked /\ "hold" \notin Keyed
  <2> HIDE DEF l
  <2> QED
    BY <1>3 DEF Places, Locked, Keyed, Forgetting, Adding, Cognifying
<1> HIDE DEF l
<1>7. pc' \in [Call -> Places] /\ pc'[c] = l /\ \A o \in Call \ {c} : pc'[o] = pc[o]
  BY <1>1, <1>4, <1>6 DEF Control
<1>8. /\ holder' \in [Dataset -> Call \cup {None}] /\ holder'[d] = c
      /\ \A e \in Dataset \ {d} : holder'[e] = holder[e]
  BY <1>1, <1>2, <1>4 DEF Control
<1>9. ASSUME NEW o \in Call, NEW e \in Dataset
      PROVE  holder'[e] = o <=> at'[o].ds = e /\ pc'[o] \in Locked
  <2>1. holder[e] = o <=> at[o].ds = e /\ pc[o] \in Locked
    BY <1>1 DEF Control
  <2>2. CASE o = c
    BY <1>1, <1>4, <1>6, <1>7, <1>8, <2>1, <2>2
  <2>3. CASE o # c
    BY <1>4, <1>7, <1>8, <2>1, <2>3, Apart
  <2> QED
    BY <2>2, <2>3
<1>10. \A o \in Call : key'[o] # None <=> pc'[o] \in Keyed
  BY <1>1, <1>4, <1>6, <1>7 DEF Control
<1>11. Control'
  <2>1. /\ env' \in Scenarios /\ at' \in [Call -> At] /\ key' \in [Call -> Key \cup {None}]
        /\ result' \in [Call -> {"none", "ok", "error"}]
    BY <1>1, <1>4 DEF Control
  <2> QED
    BY <1>7, <1>8, <1>9, <1>10, <2>1 DEF Control
<1>12. TypeOK'
  <2>1. Data'
    BY <1>4, DataStays
  <2> QED
    BY <1>11, <2>1, TypeParts, PTL
<1>13. CallsOK'
  BY <1>4, <1>5, <1>7 DEF StateInv, CallsOK
<1>14. KeysApart'
  BY <1>4 DEF StateInv, KeysApart
<1> QED
  BY <1>4, <1>7, <1>12, <1>13, <1>14 DEF StateInv, Stay

\* A forget is done with a dataset.
LEMMA DoneOK ==
    ASSUME StateInv, NEW c \in Call, pc[c] \in Forgetting, Done(c), UNCHANGED env, Data'
    PROVE  StateInv' /\ Stay(c) /\ pc'[c] \in {"hold", "store", "over"}
           /\ (pc'[c] = "hold" => at'[c].job = "forget")
<1>1. /\ at[c] \in At /\ env.op[c] \in Op
      /\ CallOK(c, pc[c], at[c], key[c], env.op[c], result[c])
  BY CallFacts
<1>2. /\ at[c].job = "forget" /\ env.op[c].kind \in {"forget", "update"} /\ result[c] # "error"
  BY <1>1 DEF CallOK, Forgetting
<1>3. /\ {"hold", "store", "over"} \subseteq Places
      /\ \A l \in {"hold", "store"} : l \notin Locked /\ l \notin Keyed
  BY DEF Places, Locked, Keyed, Forgetting, Adding, Cognifying
<1>4. ASSUME NEW e \in at[c].left,
             Onward(c, "hold", [at[c] EXCEPT !.ds = e, !.left = at[c].left \ {e}])
      PROVE  StateInv' /\ Stay(c) /\ pc'[c] = "hold" /\ at'[c].job = "forget"
  <2> DEFINE r == [at[c] EXCEPT !.ds = e, !.left = at[c].left \ {e}]
  <2>1. Leaves(c, "hold", r)
    BY <1>4, MoveForms
  <2>2. e \in Dataset /\ at[c].left \ {e} \in SUBSET Dataset
    BY <1>1, AtFields
  <2>3. r \in At /\ r.job = at[c].job /\ r.drop = at[c].drop /\ r.links = at[c].links
    BY <1>1, <2>2 DEF At
  <2> HIDE DEF r
  <2>4. CallOK(c, "hold", r, None, env.op[c], result[c])
    BY <1>1, <1>2, <2>3 DEF CallOK, Forgetting, Adding, Cognifying
  <2>5. pc'[c] = "hold" /\ at'[c] = r
    BY <1>3, <2>1, <2>3, MovesType DEF Leaves
  <2> QED
    BY <1>2, <1>3, <2>1, <2>3, <2>4, <2>5, LeavesOK
<1>5. ASSUME env.op[c].kind = "update", Onward(c, "store", [at[c] EXCEPT !.job = "add"])
      PROVE  StateInv' /\ Stay(c) /\ pc'[c] = "store"
  <2> DEFINE r == [at[c] EXCEPT !.job = "add"]
  <2>1. Leaves(c, "store", r)
    BY <1>5, MoveForms
  <2>2. r \in At /\ r.job = "add" /\ r.drop = at[c].drop /\ r.links = at[c].links
    BY <1>1 DEF At
  <2> HIDE DEF r
  <2>3. CallOK(c, "store", r, None, env.op[c], result[c])
    BY <1>1, <1>2, <1>5, <2>2 DEF CallOK, Forgetting, Adding, Cognifying
  <2>4. pc'[c] = "store"
    BY <1>3, <2>1, <2>2, MovesType DEF Leaves
  <2> QED
    BY <1>3, <2>1, <2>2, <2>3, <2>4, LeavesOK
<1>6. ASSUME Over(c, "ok"), UNCHANGED at
      PROVE  StateInv' /\ Stay(c) /\ pc'[c] = "over"
  <2>1. Ends(c, "ok")
    BY <1>6, MoveForms
  <2>2. pc'[c] = "over"
    BY <1>1, <1>3, <2>1, MovesType DEF Ends
  <2> QED
    BY <2>1, <2>2, EndsOK
<1> QED
  BY <1>4, <1>5, <1>6 DEF Done

\* A step from one phase of a forget to another.
LEMMA ForgetStep ==
    ASSUME StateInv, NEW c \in Call, pc[c] \in Forgetting, NEW l \in Forgetting, NEW r \in At,
           Step(c, l), at' = [at EXCEPT ![c] = r],
           r.ds = at[c].ds, r.job = at[c].job, ~r.drop => \A i, j \in r.links : i = j,
           l \in {"erase", "count", "unlink"} => r.rows[r.id] # None, Data'
    PROVE  StateInv' /\ Stay(c) /\ pc'[c] = l /\ at'[c] = r
<1>1. UNCHANGED env
  BY DEF Step
<1>2. Keeps(c, l, r)
  BY <1>1, MoveForms
<1>3. CallOK(c, pc[c], at[c], key[c], env.op[c], result[c]) /\ Control
  BY CallFacts, TypeParts DEF StateInv
<1>4. /\ l \in Places /\ l \in Locked /\ l \notin Keyed /\ pc[c] \in Locked /\ pc[c] \notin Keyed
      /\ l \notin Adding /\ l \notin Cognifying /\ l \notin {"new", "over", "hold", "refresh", "create"}
  BY DEF Places, Locked, Keyed, Forgetting, Adding, Cognifying
<1>5. key[c] = None
  BY <1>3, <1>4 DEF Control
<1>6. pc[c] \notin {"new", "over"}
  BY DEF Forgetting
<1>7. CallOK(c, l, r, key[c], env.op[c], result[c])
  BY <1>3, <1>4, <1>5, <1>6 DEF CallOK
<1>8. pc'[c] = l /\ at'[c] = r
  BY <1>2, <1>4, MovesType DEF Keeps
<1> QED
  BY <1>2, <1>4, <1>7, <1>8, KeepsOK

\* The rows as the steps of a call leave them.
LEMMA MembersOf ==
    ASSUME StateInv
    PROVE  /\ \A d : Members(d) \subseteq Id
           /\ \A d : \A i \in Members(d) : Present(i) /\ row[i] \in Row /\ row[i].ds = d
           /\ \A i \in Id : Present(i) => row[i] \in Row
           /\ \A i \in Id : \A d : i \in Members(d) <=> Present(i) /\ row[i].ds = d
BY TypeParts DEF StateInv, Data, Members, Present

LEMMA UnmarkedRows ==
    ASSUME StateInv, NEW S, \A i \in S : i \in Id /\ Present(i)
    PROVE  /\ Unmarked(S) \in [Id -> Row \cup {None}]
           /\ \A i \in Id : /\ Unmarked(S)[i] = None <=> row[i] = None
                            /\ Present(i) => /\ Unmarked(S)[i].ds = row[i].ds
                                             /\ Unmarked(S)[i].content = row[i].content
                                             /\ Unmarked(S)[i].file = row[i].file
                                             /\ i \in S => Unmarked(S)[i].marked = FALSE
                                             /\ i \notin S => Unmarked(S)[i].marked = row[i].marked
<1>1. row \in [Id -> Row \cup {None}] /\ \A i \in Id : Present(i) => row[i] \in Row
  BY MembersOf, TypeParts DEF StateInv, Data
<1>2. \A i \in Id : Unmarked(S)[i] = IF i \in S THEN [row[i] EXCEPT !.marked = FALSE] ELSE row[i]
  BY DEF Unmarked
<1>3. \A i \in S : [row[i] EXCEPT !.marked = FALSE] \in Row /\ row[i] \in Row /\ row[i] # None
  BY <1>1, RowUpdates DEF Present
<1>4. Unmarked(S) \in [Id -> Row \cup {None}]
  BY <1>1, <1>3 DEF Unmarked
<1>5. ASSUME NEW i \in Id
      PROVE  /\ Unmarked(S)[i] = None <=> row[i] = None
             /\ Present(i) => /\ Unmarked(S)[i].ds = row[i].ds
                              /\ Unmarked(S)[i].content = row[i].content
                              /\ Unmarked(S)[i].file = row[i].file
                              /\ i \in S => Unmarked(S)[i].marked = FALSE
                              /\ i \notin S => Unmarked(S)[i].marked = row[i].marked
  <2>1. CASE i \in S
    <3> DEFINE n == [row[i] EXCEPT !.marked = FALSE]
    <3>1. Unmarked(S)[i] = n /\ row[i] \in Row /\ row[i] # None
      BY <1>2, <1>3, <2>1
    <3>2. n \in Row /\ n.ds = row[i].ds /\ n.content = row[i].content /\ n.file = row[i].file /\ n.marked = FALSE
      BY <3>1, RowUpdates
    <3> HIDE DEF n
    <3> QED
      BY <2>1, <3>1, <3>2, Apart
  <2>2. CASE i \notin S
    BY <1>2, <2>2
  <2> QED
    BY <2>1, <2>2
<1> QED
  BY <1>4, <1>5

LEMMA ResolveOK ==
    ASSUME StateInv, NEW c \in Call, Resolve(c)
    PROVE  /\ StateInv' /\ Stay(c) /\ UNCHANGED <<rows, memory>>
           /\ pc'[c] \in {"over", "hold", "store", "graph", "clear"}
           /\ pc'[c] = "hold" => at'[c].job = "forget"
           /\ pc'[c] = "over" /\ env.op[c].scope # "user" => result'[c] = "error"
<1>1. /\ at[c] \in At /\ env.op[c] \in Op /\ pc[c] = "resolve" /\ pc[c] \in Forgetting
  BY CallFacts DEF Resolve, Forgetting
<1>2. CASE Error(c)
  BY <1>2, ErrorOK DEF Error
<1>3. CASE env.op[c].scope = "user" /\ Done(c) /\ UNCHANGED <<env, rows, memory>>
  <2>1. Data'
    BY <1>3, DataStays
  <2> QED
    BY <1>1, <1>3, <2>1, DoneOK
<1>4. ASSUME NEW S \in SUBSET Id, NEW b \in BOOLEAN, NEW l \in {"graph", "clear"},
             ~b => \A i, j \in S : i = j,
             at' = [at EXCEPT ![c].links = S, ![c].drop = b, ![c].todo = S],
             Step(c, l), UNCHANGED <<rows, memory>>
      PROVE  StateInv' /\ Stay(c) /\ pc'[c] \in {"graph", "clear"}
  <2> DEFINE r == [at[c] EXCEPT !.links = S, !.drop = b, !.todo = S]
  <2>1. at' = [at EXCEPT ![c] = r]
    BY <1>4, TypeParts DEF StateInv, Control
  <2>2. r \in At /\ r.ds = at[c].ds /\ r.job = at[c].job /\ r.drop = b /\ r.links = S
    BY <1>1 DEF At
  <2> HIDE DEF r
  <2>3. Data' /\ l \in Forgetting /\ l \notin {"erase", "count", "unlink"}
    BY <1>4, DataStays DEF Forgetting
  <2>4. ~r.drop => \A i, j \in r.links : i = j
    BY <1>4, <2>2, Zenon
  <2>5. pc[c] \in Forgetting /\ r \in At /\ r.ds = at[c].ds /\ r.job = at[c].job /\ Step(c, l)
    BY <1>1, <1>4, <2>2
  <2>6. StateInv' /\ Stay(c) /\ pc'[c] = l
    BY ONLY StateInv, c \in Call, <2>1, <2>3, <2>4, <2>5, ForgetStep
  <2> QED
    BY <2>6
<1>5. CASE ~(at[c].ds \notin datasets) /\ ~(ItemScope(c) /\ Present(env.op[c].item) /\ env.op[c].item \notin Members(at[c].ds))
  <2> DEFINE i == env.op[c].item
             in == Members(at[c].ds)
             found == IF ~ItemScope(c) THEN in ELSE IF Present(i) THEN {i} ELSE {}
             last == env.op[c].ifEmpty /\ env.op[c].kind = "forget" /\ in = found
             b == ~ItemScope(c) \/ last
             l == IF MemoryOnly(c) THEN "graph" ELSE "clear"
  <2>1. found \in SUBSET Id /\ b \in BOOLEAN /\ l \in {"graph", "clear"}
    <3>1. i \in Id /\ in \in SUBSET Id
      <4>1. env.op[c].item \in Item
        BY <1>1, OpFields
      <4>2. Members(at[c].ds) \subseteq Id
        BY MembersOf
      <4> QED
        BY <4>1, <4>2, Apart
    <3>2. found \in SUBSET Id
      BY <3>1
    <3>3. b \in BOOLEAN
      OBVIOUS
    <3>4. l \in {"graph", "clear"}
      OBVIOUS
    <3> QED
      BY <3>2, <3>3, <3>4
  <2>2. ~b => \A x, y \in found : x = y
    OBVIOUS
  <2>3. /\ at' = [at EXCEPT ![c].links = found, ![c].drop = b, ![c].todo = found]
        /\ Step(c, l) /\ UNCHANGED <<rows, memory>>
    BY <1>5 DEF Resolve
  <2> HIDE DEF found, b, l
  <2>4. StateInv' /\ Stay(c) /\ pc'[c] \in {"graph", "clear"}
    BY <1>4, <2>1, <2>2, <2>3
  <2> QED
    BY <2>3, <2>4
<1> QED
  BY <1>2, <1>3, <1>5 DEF Resolve

\* A step of a forget that leaves its registers alone.
LEMMA ForgetStays ==
    ASSUME StateInv, NEW c \in Call, pc[c] \in Forgetting, NEW l \in Forgetting,
           Step(c, l), UNCHANGED at,
           l \in {"erase", "count", "unlink"} => pc[c] \in {"erase", "count", "unlink"}, Data'
    PROVE  StateInv' /\ Stay(c) /\ pc'[c] = l /\ at'[c] = at[c]
<1>1. /\ at[c] \in At /\ at' = [at EXCEPT ![c] = at[c]]
      /\ CallOK(c, pc[c], at[c], key[c], env.op[c], result[c])
  BY CallFacts
<1>2. /\ ~at[c].drop => \A i, j \in at[c].links : i = j
      /\ l \in {"erase", "count", "unlink"} => at[c].rows[at[c].id] # None
  BY <1>1 DEF CallOK
<1> QED
  BY <1>1, <1>2, ForgetStep

LEMMA ClearOK ==
    ASSUME StateInv, NEW c \in Call, Clear(c)
    PROVE  /\ StateInv' /\ Stay(c) /\ pc'[c] = "graph" /\ at'[c] = at[c]
           /\ UNCHANGED <<datasets, granted, files, replaced, memory>>
           /\ \A i \in Id : row'[i] = None <=> row[i] = None
           /\ \A i \in Id : row[i] # None => /\ row'[i].ds = row[i].ds
                                             /\ row'[i].content = row[i].content
                                             /\ row'[i].file = row[i].file
<1> DEFINE S == Members(at[c].ds)
<1>1. /\ pc[c] \in Forgetting /\ Step(c, "graph") /\ "graph" \in Forgetting
      /\ UNCHANGED <<at, datasets, granted, files, replaced, memory>>
      /\ row' = Unmarked(S) \/ row' = row
  BY DEF Clear, Forgetting
<1>2. \A i \in S : i \in Id /\ Present(i)
  BY MembersOf
<1>3. row \in [Id -> Row \cup {None}]
  BY TypeParts DEF StateInv, Data
<1> HIDE DEF S
<1>4. /\ row' \in [Id -> Row \cup {None}]
      /\ \A i \in Id : row'[i] = None <=> row[i] = None
      /\ \A i \in Id : row[i] # None => /\ row'[i].ds = row[i].ds
                                        /\ row'[i].content = row[i].content
                                        /\ row'[i].file = row[i].file
  <2>1. CASE row' = Unmarked(S)
    BY <1>2, <2>1, UnmarkedRows DEF Present
  <2>2. CASE row' = row
    BY <1>3, <2>2
  <2> QED
    BY <1>1, <2>1, <2>2
<1>5. Data'
  BY <1>1, <1>4, RowsStay
<1> QED
  BY <1>1, <1>4, <1>5, ForgetStays

LEMMA CleanGraphOK ==
    ASSUME StateInv, NEW c \in Call, CleanGraph(c)
    PROVE  StateInv' /\ Stay(c) /\ pc'[c] = "ledger" /\ at'[c] = at[c]
<1>1. /\ pc[c] \in Forgetting /\ Step(c, "ledger") /\ "ledger" \in Forgetting
      /\ graph' \subseteq graph /\ UNCHANGED <<at, rows, ledger>>
  BY DEF CleanGraph, Forgetting
<1>2. Data'
  BY <1>1, TypeParts DEF StateInv, Data, rows
<1> QED
  BY <1>1, <1>2, ForgetStays

LEMMA CleanLedgerOK ==
    ASSUME StateInv, NEW c \in Call, CleanLedger(c)
    PROVE  StateInv' /\ Stay(c) /\ pc'[c] \in {"unmark", "detach"} /\ at'[c] = at[c]
<1>1. /\ pc[c] \in Forgetting /\ ledger' \subseteq ledger /\ UNCHANGED <<at, rows, graph>>
  BY DEF CleanLedger, Forgetting
<1>2. PICK l \in {"unmark", "detach"} : Step(c, l)
  BY DEF CleanLedger
<1>3. l \in Forgetting /\ l \notin {"erase", "count", "unlink"}
  BY DEF Forgetting
<1>4. Data'
  BY <1>1, TypeParts DEF StateInv, Data, rows
<1> QED
  BY <1>1, <1>2, <1>3, <1>4, ForgetStays

LEMMA UnmarkOK ==
    ASSUME StateInv, NEW c \in Call, Unmark(c)
    PROVE  /\ StateInv' /\ Stay(c) /\ pc'[c] \in {"hold", "store", "over"}
           /\ pc'[c] = "hold" => at'[c].job = "forget"
           /\ UNCHANGED <<datasets, granted, files, replaced, memory>>
           /\ \A i \in Id : row'[i] = None <=> row[i] = None
           /\ \A i \in Id : row[i] # None => /\ row'[i].ds = row[i].ds
                                             /\ row'[i].content = row[i].content
                                             /\ row'[i].file = row[i].file
<1> DEFINE S == IF ItemScope(c) THEN {i \in at[c].links : Present(i)} ELSE Members(at[c].ds)
<1>1. /\ pc[c] \in Forgetting /\ Done(c) /\ UNCHANGED env
      /\ UNCHANGED <<datasets, granted, files, replaced, memory>>
      /\ row' = Unmarked(S)
  BY DEF Unmark, Forgetting
<1>2. \A i \in S : i \in Id /\ Present(i)
  <2>1. at[c].links \in SUBSET Id
    BY CallFacts, AtFields
  <2>2. \A i \in Members(at[c].ds) : i \in Id /\ Present(i)
    BY MembersOf
  <2> QED
    BY <2>1, <2>2
<1> HIDE DEF S
<1>4. /\ row' \in [Id -> Row \cup {None}]
      /\ \A i \in Id : row'[i] = None <=> row[i] = None
      /\ \A i \in Id : row[i] # None => /\ row'[i].ds = row[i].ds
                                        /\ row'[i].content = row[i].content
                                        /\ row'[i].file = row[i].file
  BY <1>1, <1>2, UnmarkedRows DEF Present
<1>5. Data'
  BY <1>1, <1>4, RowsStay
<1> QED
  BY <1>1, <1>4, <1>5, DoneOK

\* Detaching item i: the row, if it is of the dataset, is of none.
LEMMA DetachOK ==
    ASSUME StateInv, NEW c \in Call, Detach(c)
    PROVE  /\ StateInv' /\ Stay(c) /\ pc'[c] \in {"detach", "drop"}
           /\ at'[c].ds = at[c].ds /\ at'[c].drop = at[c].drop /\ at'[c].links = at[c].links
           /\ UNCHANGED <<datasets, granted, files, replaced, memory>>
           /\ \A i \in Id : row'[i] = None <=> row[i] = None
           /\ \A i \in Id : row[i] # None => /\ row'[i].ds \in {row[i].ds, None}
                                             /\ row'[i].content = row[i].content
                                             /\ row'[i].file = row[i].file
<1>1. /\ pc[c] \in Forgetting /\ UNCHANGED <<datasets, granted, files, replaced, memory>>
      /\ pc[c] = "detach"
  BY DEF Detach, Forgetting
<1>2. /\ at[c] \in At /\ CallOK(c, pc[c], at[c], key[c], env.op[c], result[c]) /\ Control
      /\ row \in [Id -> Row \cup {None}]
  BY CallFacts, TypeParts DEF StateInv, Data
<1>3. CASE Step(c, "drop") /\ UNCHANGED <<row, at>>
  <2>1. Data' /\ "drop" \in Forgetting
    BY <1>1, <1>2, <1>3, RowsStay DEF Forgetting
  <2> QED
    BY <1>1, <1>3, <2>1, ForgetStays
<1>4. ASSUME NEW i \in at[c].todo,
             row' = IF i \in Members(at[c].ds) THEN [row EXCEPT ![i].ds = None] ELSE row,
             at' = [at EXCEPT ![c].todo = @ \ {i}], Step(c, "detach")
      PROVE  /\ StateInv' /\ Stay(c) /\ pc'[c] \in {"detach", "drop"}
             /\ at'[c].ds = at[c].ds /\ at'[c].drop = at[c].drop /\ at'[c].links = at[c].links
             /\ row' \in [Id -> Row \cup {None}]
             /\ \A j \in Id : row'[j] = None <=> row[j] = None
             /\ \A j \in Id : row[j] # None => /\ row'[j].ds \in {row[j].ds, None}
                                               /\ row'[j].content = row[j].content
                                               /\ row'[j].file = row[j].file
  <2>1. /\ row' \in [Id -> Row \cup {None}]
        /\ \A j \in Id : row'[j] = None <=> row[j] = None
        /\ \A j \in Id : row[j] # None => /\ row'[j].ds \in {row[j].ds, None}
                                          /\ row'[j].content = row[j].content
                                          /\ row'[j].file = row[j].file
    <3>1. CASE i \in Members(at[c].ds)
      <4> DEFINE n == [row[i] EXCEPT !.ds = None]
      <4>1. i \in Id /\ row[i] \in Row /\ row[i] # None
        BY <3>1, MembersOf DEF Present
      <4>2. row' = [row EXCEPT ![i] = n]
        BY <1>2, <1>4, <3>1, <4>1
      <4>3. n \in Row /\ n.ds = None /\ n.content = row[i].content /\ n.file = row[i].file
        BY <4>1, RowUpdates
      <4> HIDE DEF n
      <4> QED
        BY <1>2, <4>1, <4>2, <4>3, Apart
    <3>2. CASE i \notin Members(at[c].ds)
      BY <1>2, <1>4, <3>2
    <3> QED
      BY <3>1, <3>2
  <2> DEFINE r == [at[c] EXCEPT !.todo = at[c].todo \ {i}]
  <2>2. at' = [at EXCEPT ![c] = r]
    BY <1>2, <1>4 DEF Control
  <2>3. at[c].todo \ {i} \in SUBSET Id
    BY <1>2, AtFields
  <2>4. /\ r \in At /\ r.ds = at[c].ds /\ r.job = at[c].job /\ r.drop = at[c].drop
        /\ r.links = at[c].links
    BY <1>2, <2>3 DEF At
  <2> HIDE DEF r
  <2>5. ~r.drop => \A j, k \in r.links : j = k
    BY <1>2, <2>4 DEF CallOK
  <2>6. Data' /\ "detach" \in Forgetting
    BY <1>1, <2>1, RowsStay DEF Forgetting
  <2>7. StateInv' /\ Stay(c) /\ pc'[c] = "detach" /\ at'[c] = r
    BY <1>1, <1>4, <2>2, <2>4, <2>5, <2>6, ForgetStep
  <2> QED
    BY <2>1, <2>4, <2>7
<1> QED
  BY <1>1, <1>3, <1>4 DEF Detach

LEMMA DropDatasetOK ==
    ASSUME StateInv, NEW c \in Call, DropDataset(c)
    PROVE  /\ StateInv' /\ Stay(c) /\ pc'[c] = "purge"
           /\ datasets' \subseteq datasets /\ ledger' \subseteq ledger
           /\ UNCHANGED <<granted, row, files, replaced, graph>>
<1>1. /\ pc[c] \in Forgetting /\ "purge" \in Forgetting /\ Step(c, "purge")
      /\ UNCHANGED <<granted, row, files, replaced, graph>>
  BY DEF DropDataset, Forgetting
<1>2. datasets' \subseteq datasets /\ ledger' \subseteq ledger
  BY DEF DropDataset
<1>3. Data'
  BY <1>1, <1>2, TypeParts DEF StateInv, Data
<1>4. /\ at[c] \in At /\ env.op[c] \in Op /\ Control
      /\ CallOK(c, pc[c], at[c], key[c], env.op[c], result[c])
  BY CallFacts, TypeParts DEF StateInv
<1> DEFINE S == IF ItemScope(c) THEN {env.op[c].item} ELSE at[c].links
           r == [at[c] EXCEPT !.todo = S]
<1>5. S \in SUBSET Id
  <2>1. env.op[c].item \in Id
    BY <1>4, OpFields, Apart
  <2>2. at[c].links \in SUBSET Id
    BY <1>4, AtFields
  <2> QED
    BY <2>1, <2>2
<1>6. at' = [at EXCEPT ![c] = r]
  BY <1>4 DEF Control, DropDataset
<1> HIDE DEF S
<1>7. r \in At /\ r.ds = at[c].ds /\ r.job = at[c].job /\ r.drop = at[c].drop /\ r.links = at[c].links
  BY <1>4, <1>5 DEF At
<1> HIDE DEF r
<1>8. ~r.drop => \A i, j \in r.links : i = j
  BY <1>4, <1>7 DEF CallOK
<1> QED
  BY <1>1, <1>2, <1>3, <1>6, <1>7, <1>8, ForgetStep

\* The next candidate of a forget, or its end.
LEMMA PurgeOK ==
    ASSUME StateInv, NEW c \in Call, Purge(c)
    PROVE  /\ StateInv' /\ Stay(c) /\ UNCHANGED <<rows, memory>>
           /\ pc'[c] \in {"purge", "erase", "hold", "store", "over"}
           /\ pc'[c] = "hold" => at'[c].job = "forget"
           /\ pc'[c] = "erase" => Present(at'[c].id) /\ at'[c].rows = row
<1>1. pc[c] \in Forgetting /\ UNCHANGED <<rows, memory>>
  BY DEF Purge, Forgetting
<1>2. Data'
  BY <1>1, DataStays
<1>3. /\ at[c] \in At /\ Control /\ row \in [Id -> Row \cup {None}]
      /\ CallOK(c, pc[c], at[c], key[c], env.op[c], result[c])
  BY CallFacts, TypeParts DEF StateInv, Data
<1>4. CASE Done(c) /\ UNCHANGED env
  BY <1>1, <1>2, <1>4, DoneOK
<1>5. ASSUME NEW i \in at[c].todo, NEW l \in {"erase", "purge"},
             at' = [at EXCEPT ![c].todo = @ \ {i}, ![c].id = i, ![c].rows = row],
             l = "erase" => Present(i), Step(c, l)
      PROVE  /\ StateInv' /\ Stay(c) /\ pc'[c] \in {"purge", "erase"}
             /\ pc'[c] = "erase" => Present(at'[c].id) /\ at'[c].rows = row
  <2> DEFINE r == [at[c] EXCEPT !.todo = at[c].todo \ {i}, !.id = i, !.rows = row]
  <2>1. at' = [at EXCEPT ![c] = r]
    BY <1>3, <1>5 DEF Control
  <2>2. i \in Id /\ at[c].todo \ {i} \in SUBSET Id
    BY <1>3, AtFields
  <2>3. /\ r \in At /\ r.ds = at[c].ds /\ r.job = at[c].job /\ r.drop = at[c].drop
        /\ r.links = at[c].links /\ r.id = i /\ r.rows = row
    BY <1>3, <2>2 DEF At
  <2> HIDE DEF r
  <2>4. ~r.drop => \A j, k \in r.links : j = k
    BY <1>3, <2>3 DEF CallOK
  <2>5. l \in Forgetting /\ l \notin {"count", "unlink"}
    BY DEF Forgetting
  <2>6. l \in {"erase", "count", "unlink"} => r.rows[r.id] # None
    BY <1>5, <2>3, <2>5 DEF Present
  <2>7. Step(c, l) /\ (l = "erase" => Present(i))
    BY <1>5
  <2>8. pc[c] \in Forgetting /\ l \in Forgetting /\ r \in At /\ Step(c, l)
    BY <1>1, <2>3, <2>5, <2>7
  <2>9. r.ds = at[c].ds /\ r.job = at[c].job
    BY <2>3
  <2>10. StateInv' /\ Stay(c) /\ pc'[c] = l /\ at'[c] = r
    BY ONLY StateInv, c \in Call, <1>2, <2>1, <2>4, <2>6, <2>8, <2>9, ForgetStep
  <2> QED
    BY <2>3, <2>7, <2>10
<1>6. CASE \E i \in at[c].todo :
             LET goes == Present(i) /\ row[i].ds = None
             IN  /\ at' = [at EXCEPT ![c].todo = @ \ {i}, ![c].id = i, ![c].rows = row]
                 /\ Step(c, IF goes THEN "erase" ELSE "purge")
  <2>1. PICK i \in at[c].todo :
             LET goes == Present(i) /\ row[i].ds = None
             IN  /\ at' = [at EXCEPT ![c].todo = @ \ {i}, ![c].id = i, ![c].rows = row]
                 /\ Step(c, IF goes THEN "erase" ELSE "purge")
    BY <1>6
  <2> DEFINE l == IF Present(i) /\ row[i].ds = None THEN "erase" ELSE "purge"
  <2>2. l \in {"erase", "purge"} /\ (l = "erase" => Present(i)) /\ Step(c, l)
    BY <2>1
  <2> HIDE DEF l
  <2>3. at' = [at EXCEPT ![c].todo = @ \ {i}, ![c].id = i, ![c].rows = row]
    BY <2>1
  <2>4. /\ StateInv' /\ Stay(c) /\ pc'[c] \in {"purge", "erase"}
        /\ pc'[c] = "erase" => Present(at'[c].id) /\ at'[c].rows = row
    BY <1>5, <2>2, <2>3
  <2> QED
    BY <1>1, <2>4
<1> QED
  BY <1>4, <1>6 DEF Purge

LEMMA EraseOK ==
    ASSUME StateInv, NEW c \in Call, Erase(c)
    PROVE  /\ StateInv' /\ Stay(c) /\ pc'[c] = "count" /\ at'[c] = at[c]
           /\ UNCHANGED <<datasets, granted, files, replaced, memory>>
           /\ row' \in [Id -> Row \cup {None}] /\ at[c].id \in Id
           /\ row'[at[c].id] = None /\ \A i \in Id \ {at[c].id} : row'[i] = row[i]
<1>1. /\ pc[c] \in Forgetting /\ pc[c] = "erase" /\ Step(c, "count") /\ "count" \in Forgetting
      /\ UNCHANGED <<at, datasets, granted, files, replaced, memory>>
      /\ row' = [row EXCEPT ![at[c].id] = None]
  BY DEF Erase, Forgetting
<1>2. row \in [Id -> Row \cup {None}] /\ at[c].id \in Id
  BY CallFacts, AtFields, TypeParts DEF StateInv, Data
<1>3. /\ row' \in [Id -> Row \cup {None}]
      /\ row'[at[c].id] = None /\ \A i \in Id \ {at[c].id} : row'[i] = row[i]
  BY <1>1, <1>2
<1>4. Data'
  BY <1>1, <1>3, RowsStay
<1> QED
  BY <1>1, <1>2, <1>3, <1>4, ForgetStays

LEMMA CountOK ==
    ASSUME StateInv, NEW c \in Call, CountReferences(c)
    PROVE  /\ StateInv' /\ Stay(c) /\ at'[c] = at[c] /\ UNCHANGED <<rows, memory>>
           /\ pc'[c] = IF Referenced(FileInHand(c)) THEN "purge" ELSE "unlink"
<1> DEFINE l == IF Referenced(FileInHand(c)) THEN "purge" ELSE "unlink"
<1>1. /\ pc[c] \in Forgetting /\ pc[c] = "count" /\ Step(c, l) /\ UNCHANGED <<at, rows, memory>>
  BY DEF CountReferences, Forgetting
<1>2. l \in {"purge", "unlink"}
  OBVIOUS
<1> HIDE DEF l
<1>3. l \in Forgetting
  BY <1>2 DEF Forgetting
<1>4. Data'
  BY <1>1, DataStays
<1>5. StateInv' /\ Stay(c) /\ pc'[c] = l /\ at'[c] = at[c]
  BY <1>1, <1>3, <1>4, ForgetStays
<1> QED
  BY <1>1, <1>5 DEF l

LEMMA UnlinkOK ==
    ASSUME StateInv, NEW c \in Call, Unlink(c)
    PROVE  /\ StateInv' /\ Stay(c) /\ at'[c] = at[c] /\ pc'[c] = "purge"
<1>1. /\ pc[c] \in Forgetting /\ Step(c, "purge") /\ "purge" \in Forgetting
      /\ files' \subseteq files /\ UNCHANGED <<at, datasets, granted, row, replaced, memory>>
  BY DEF Unlink, Forgetting
<1>2. Data'
  BY <1>1, TypeParts DEF StateInv, Data, memory
<1> QED
  BY <1>1, <1>2, ForgetStays

LEMMA ForgetFailsOK ==
    ASSUME StateInv, NEW c \in Call, ForgetFails(c)
    PROVE  StateInv' /\ Stay(c) /\ pc'[c] = "over" /\ UNCHANGED <<at, rows, memory>>
BY ErrorOK DEF ForgetFails, Error

LEMMA ForgetOK ==
    ASSUME StateInv, NEW c \in Call, Forget(c)
    PROVE  StateInv' /\ Stay(c)
BY ResolveOK, ClearOK, CleanGraphOK, CleanLedgerOK, UnmarkOK, DetachOK, DropDatasetOK,
   PurgeOK, EraseOK, CountOK, UnlinkOK, ForgetFailsOK DEF Forget

-----------------------------------------------------------------------------
(* The steps of an add and of a cognify keep the state in order *)

LEMMA StoreFileOK ==
    ASSUME StateInv, NEW c \in Call, StoreFile(c)
    PROVE  /\ StateInv' /\ Stay(c) /\ pc'[c] = "hold" /\ at'[c] = at[c] /\ at[c].job = "add"
           /\ files' = files \cup {c} /\ UNCHANGED <<datasets, granted, row, replaced, memory>>
<1>1. /\ pc[c] = "store" /\ Step(c, "hold") /\ UNCHANGED at
      /\ files' = files \cup {c} /\ UNCHANGED <<datasets, granted, row, replaced, memory>>
  BY DEF StoreFile, Step
<1>2. at[c] \in At /\ CallOK(c, "store", at[c], key[c], env.op[c], result[c])
  BY <1>1, CallFacts
<1>3. Keeps(c, "hold", at[c])
  BY <1>1, MoveForms DEF Step
<1>4. /\ "hold" \in Places /\ "hold" \notin Locked /\ "hold" \notin Keyed
      /\ "store" \notin Locked /\ "store" \notin Keyed
  BY DEF Places, Locked, Keyed, Forgetting, Adding, Cognifying
<1>5. CallOK(c, "hold", at[c], key[c], env.op[c], result[c]) /\ at[c].job = "add"
  BY <1>2 DEF CallOK, Forgetting, Adding, Cognifying
<1>6. Data'
  BY <1>1, TypeParts, Apart DEF StateInv, Data, memory
<1>7. pc'[c] = "hold" /\ at'[c] = at[c]
  BY <1>2, <1>3, <1>4, MovesType DEF Keeps
<1> QED
  BY <1>1, <1>2, <1>3, <1>4, <1>5, <1>6, <1>7, KeepsOK

\* The dataset lock is given back, and the add goes on to its content lock.
LEMMA ToContent ==
    ASSUME StateInv, NEW c \in Call, pc[c] \in {"dataset", "grant"},
           Onward(c, "content", at[c]), UNCHANGED env, Data'
    PROVE  StateInv' /\ Stay(c) /\ pc'[c] = "content" /\ at'[c] = at[c]
<1>1. at[c] \in At /\ CallOK(c, pc[c], at[c], key[c], env.op[c], result[c])
  BY CallFacts
<1>2. Leaves(c, "content", at[c])
  BY MoveForms
<1>3. "content" \in Places /\ "content" \notin Locked /\ "content" \notin Keyed
  BY DEF Places, Locked, Keyed, Forgetting, Adding, Cognifying
<1>4. CallOK(c, "content", at[c], None, env.op[c], result[c])
  BY <1>1 DEF CallOK, Forgetting, Adding, Cognifying
<1>5. pc'[c] = "content" /\ at'[c] = at[c]
  BY <1>1, <1>2, <1>3, MovesType DEF Leaves
<1> QED
  BY <1>1, <1>2, <1>3, <1>4, <1>5, LeavesOK

LEMMA FindDatasetOK ==
    ASSUME StateInv, NEW c \in Call, FindDataset(c)
    PROVE  /\ StateInv' /\ Stay(c) /\ pc'[c] \in {"content", "grant", "over"} /\ at'[c] = at[c]
           /\ pc'[c] # "grant" => datasets' = datasets
           /\ pc'[c] = "grant" => datasets' = datasets \cup {at[c].ds}
           /\ UNCHANGED <<granted, row, files, replaced, memory>>
<1>1. pc[c] = "dataset" /\ UNCHANGED <<env, granted, row, files, replaced, memory>>
  BY DEF FindDataset
<1>2. /\ at[c] \in At /\ at[c].ds \in Dataset /\ CallOK(c, "dataset", at[c], key[c], env.op[c], result[c])
      /\ Data
  BY <1>1, CallFacts, AtFields, TypeParts DEF StateInv
<1>3. CASE Onward(c, "content", at[c]) /\ UNCHANGED datasets
  <2>1. Data'
    BY <1>1, <1>2, <1>3 DEF Data, memory
  <2> QED
    BY <1>1, <1>3, <2>1, ToContent
<1>4. CASE Over(c, "error") /\ UNCHANGED <<at, datasets>>
  <2>1. Data'
    BY <1>1, <1>2, <1>4 DEF Data, memory
  <2>2. Ends(c, "error")
    BY <1>1, <1>4, MoveForms
  <2>3. pc'[c] = "over" /\ at'[c] = at[c]
    BY <1>2, <2>2, MovesType DEF Ends, Places
  <2> QED
    BY <1>1, <1>4, <2>1, <2>2, <2>3, EndsOK
<1>5. CASE datasets' = datasets \cup {at[c].ds} /\ Goto(c, "grant") /\ UNCHANGED <<at, result, locks>>
  <2>1. Data'
    BY <1>1, <1>2, <1>5 DEF Data, memory
  <2>2. Keeps(c, "grant", at[c])
    BY <1>1, <1>5, MoveForms DEF Step
  <2>3. /\ "grant" \in Places /\ "grant" \in Locked /\ "grant" \notin Keyed
        /\ "dataset" \in Locked /\ "dataset" \notin Keyed
    BY DEF Places, Locked, Keyed, Forgetting, Adding, Cognifying
  <2>4. CallOK(c, "grant", at[c], key[c], env.op[c], result[c])
    BY <1>2 DEF CallOK, Forgetting, Adding, Cognifying
  <2>5. pc'[c] = "grant" /\ at'[c] = at[c]
    BY <1>2, <2>2, <2>3, MovesType DEF Keeps
  <2> QED
    BY <1>1, <1>2, <1>5, <2>1, <2>2, <2>3, <2>4, <2>5, KeepsOK
<1> QED
  BY <1>3, <1>4, <1>5 DEF FindDataset

LEMMA GrantOK ==
    ASSUME StateInv, NEW c \in Call, Grant(c)
    PROVE  /\ StateInv' /\ Stay(c) /\ pc'[c] \in {"content", "over"} /\ at'[c] = at[c]
           /\ UNCHANGED <<datasets, row, files, replaced, memory>>
           /\ granted' = granted \cup {at[c].ds} \/ (env.fails /\ granted' = granted)
<1>1. pc[c] = "grant" /\ at[c] \in At /\ at[c].ds \in Dataset /\ Data
  BY CallFacts, AtFields, TypeParts DEF StateInv, Grant
<1>2. CASE env.fails /\ Error(c)
  BY <1>2, ErrorOK DEF Error, rows
<1>3. CASE /\ granted' = granted \cup {at[c].ds} /\ Onward(c, "content", at[c])
           /\ UNCHANGED <<env, datasets, row, files, replaced, memory>>
  <2>1. Data'
    BY <1>1, <1>3 DEF Data, memory
  <2> QED
    BY <1>1, <1>3, <2>1, ToContent
<1> QED
  BY <1>2, <1>3 DEF Grant

\* The add lock is taken: no other call has it.
LEMMA LockContentOK ==
    ASSUME StateInv, NEW c \in Call, LockContent(c)
    PROVE  StateInv' /\ Stay(c) /\ pc'[c] = "lookup" /\ at'[c] = at[c]
<1> DEFINE k == LockKey(c)
<1>1. /\ at[c] \in At /\ env.op[c] \in Op /\ pc[c] = "content" /\ Control
      /\ CallOK(c, "content", at[c], key[c], env.op[c], result[c])
  BY CallFacts, TypeParts DEF LockContent, StateInv
<1>2. /\ \A o \in Call : key[o] # k
      /\ key' = [key EXCEPT ![c] = k] /\ pc' = [pc EXCEPT ![c] = "lookup"]
      /\ UNCHANGED <<env, at, result, rows, memory, holder>>
  BY DEF LockContent, Goto
<1>3. k \in Key /\ k # None
  BY <1>1, AtFields, OpFields, Apart DEF LockKey, Key
<1>4. /\ "lookup" \in Places /\ "lookup" \notin Locked /\ "lookup" \in Keyed
      /\ "content" \notin Locked /\ "content" \notin Keyed
  BY DEF Places, Locked, Keyed, Forgetting, Adding, Cognifying
<1>5. CallOK(c, "lookup", at[c], k, env.op[c], result[c])
  BY <1>1 DEF CallOK, Forgetting, Adding, Cognifying, LockKey
<1> HIDE DEF k
<1>6. pc' \in [Call -> Places] /\ pc'[c] = "lookup" /\ \A o \in Call \ {c} : pc'[o] = pc[o]
  BY <1>1, <1>2, <1>4 DEF Control
<1>7. key' \in [Call -> Key \cup {None}] /\ key'[c] = k /\ \A o \in Call \ {c} : key'[o] = key[o]
  BY <1>1, <1>2, <1>3 DEF Control
<1>8. \A o \in Call, e \in Dataset : holder'[e] = o <=> at'[o].ds = e /\ pc'[o] \in Locked
  BY <1>1, <1>2, <1>4, <1>6 DEF Control
<1>9. \A o \in Call : key'[o] # None <=> pc'[o] \in Keyed
  BY <1>1, <1>3, <1>4, <1>6, <1>7 DEF Control
<1>10. Control'
  <2>1. /\ env' \in Scenarios /\ at' \in [Call -> At] /\ holder' \in [Dataset -> Call \cup {None}]
        /\ result' \in [Call -> {"none", "ok", "error"}]
    BY <1>1, <1>2 DEF Control
  <2> QED
    BY <1>6, <1>7, <1>8, <1>9, <2>1 DEF Control
<1>11. TypeOK'
  <2>1. Data'
    BY <1>2, DataStays
  <2> QED
    BY <1>10, <2>1, TypeParts, PTL
<1>12. CallsOK'
  BY <1>2, <1>5, <1>6, <1>7 DEF StateInv, CallsOK
<1>13. KeysApart'
  BY <1>2, <1>3, <1>7 DEF StateInv, KeysApart
<1> QED
  BY <1>2, <1>6, <1>7, <1>11, <1>12, <1>13 DEF StateInv, Stay

\* The row to go to: what is there already, or a new one if nothing is.
LEMMA LookupOK ==
    ASSUME StateInv, NEW c \in Call, Lookup(c)
    PROVE  /\ StateInv' /\ Stay(c) /\ pc'[c] \in {"create", "refresh", "over"}
           /\ at'[c].ds = at[c].ds /\ UNCHANGED <<rows, memory>>
           /\ pc'[c] = "create" /\ env.op[c].kind = "add" =>
                /\ at'[c].id = c
                /\ \A i \in Members(at[c].ds) : row[i].content # env.op[c].content
           /\ pc'[c] = "create" /\ env.op[c].kind # "add" =>
                at'[c].id = env.op[c].item /\ ~Present(env.op[c].item)
<1> DEFINE op == env.op[c]
           same == {i \in Members(at[c].ds) : row[i].content = op.content}
           hits == IF op.kind = "add" THEN same ELSE {i \in {op.item} : Present(i)}
           new == IF op.kind = "add" THEN c ELSE op.item
<1>1. /\ at[c] \in At /\ op \in Op /\ op.item \in Id /\ pc[c] = "lookup" /\ Control
      /\ CallOK(c, "lookup", at[c], key[c], op, result[c])
      /\ row \in [Id -> Row \cup {None}]
  BY CallFacts, OpFields, Apart, TypeParts DEF Lookup, StateInv, Data
<1>2. CASE Error(c)
  BY <1>1, <1>2, ErrorOK DEF Error
<1>3. ASSUME NEW i \in Id, NEW l \in {"create", "refresh"},
             at' = [at EXCEPT ![c].id = i, ![c].rows = row], Step(c, l), UNCHANGED <<rows, memory>>,
             l = "create" => i = new, l = "refresh" => Present(i)
      PROVE  StateInv' /\ Stay(c) /\ pc'[c] = l /\ at'[c].ds = at[c].ds /\ at'[c].id = i
  <2> DEFINE r == [at[c] EXCEPT !.id = i, !.rows = row]
  <2>1. at' = [at EXCEPT ![c] = r]
    BY <1>1, <1>3 DEF Control
  <2>2. /\ r \in At /\ r.ds = at[c].ds /\ r.job = at[c].job /\ r.drop = at[c].drop
        /\ r.links = at[c].links /\ r.id = i /\ r.rows = row
    BY <1>1 DEF At
  <2> HIDE DEF r
  <2>3. Keeps(c, l, r) /\ Data'
    BY <1>3, <2>1, MoveForms, DataStays DEF Step
  <2>4. /\ l \in Places /\ l \notin Locked /\ l \in Keyed /\ "lookup" \notin Locked /\ "lookup" \in Keyed
    BY DEF Places, Locked, Keyed, Forgetting, Adding, Cognifying
  <2>5. CallOK(c, l, r, key[c], op, result[c])
    BY <1>1, <1>3, <2>2 DEF CallOK, Forgetting, Adding, Cognifying, Present
  <2>6. pc'[c] = l /\ at'[c] = r
    BY <2>2, <2>3, <2>4, MovesType DEF Keeps
  <2> QED
    BY <1>1, <2>2, <2>3, <2>4, <2>5, <2>6, KeepsOK
<1>4. CASE /\ hits = {}
           /\ at' = [at EXCEPT ![c].id = new, ![c].rows = row]
           /\ Step(c, "create") /\ UNCHANGED <<rows, memory>>
  <2>1. new \in Id
    BY <1>1, Apart
  <2>2. /\ op.kind = "add" => \A i \in Members(at[c].ds) : row[i].content # op.content
        /\ op.kind # "add" => ~Present(op.item)
    BY <1>4
  <2> HIDE DEF new
  <2>3. StateInv' /\ Stay(c) /\ pc'[c] = "create" /\ at'[c].ds = at[c].ds /\ at'[c].id = new
    BY <1>3, <1>4, <2>1
  <2> QED
    BY <1>4, <2>2, <2>3 DEF new
<1>5. ASSUME NEW i \in hits, i \in Members(at[c].ds),
             at' = [at EXCEPT ![c].id = i, ![c].rows = row],
             Step(c, "refresh"), UNCHANGED <<rows, memory>>
      PROVE  StateInv' /\ Stay(c) /\ pc'[c] = "refresh" /\ at'[c].ds = at[c].ds
  <2>1. i \in Id /\ Present(i)
    BY <1>5, MembersOf
  <2> QED
    BY <1>3, <1>5, <2>1
<1>6. CASE \E i \in hits : IF i \in Members(at[c].ds)
                           THEN /\ at' = [at EXCEPT ![c].id = i, ![c].rows = row]
                                /\ Step(c, "refresh") /\ UNCHANGED <<rows, memory>>
                           ELSE Error(c)
  <2> HIDE DEF hits
  <2> QED
    BY <1>2, <1>5, <1>6
<1> QED
  BY <1>4, <1>6 DEF Lookup

LEMMA WrittenOK ==
    ASSUME StateInv, NEW c \in Call, pc[c] \in {"refresh", "create"}, Written(c),
           UNCHANGED env, Data'
    PROVE  StateInv' /\ Stay(c) /\ pc'[c] \in {"list", "over"}
<1>1. at[c] \in At /\ CallOK(c, pc[c], at[c], key[c], env.op[c], result[c])
  BY CallFacts
<1>2. CASE Over(c, "ok") /\ UNCHANGED at
  <2>1. Ends(c, "ok")
    BY <1>2, MoveForms
  <2>2. pc'[c] = "over"
    BY <1>1, <2>1, MovesType DEF Ends, Places
  <2> QED
    BY <2>1, <2>2, EndsOK
<1>3. CASE env.op[c].kind = "update" /\ Onward(c, "list", [at[c] EXCEPT !.job = "cognify"])
  <2> DEFINE r == [at[c] EXCEPT !.job = "cognify"]
  <2>1. Leaves(c, "list", r)
    BY <1>3, MoveForms
  <2>2. r \in At /\ r.job = "cognify" /\ r.drop = at[c].drop /\ r.links = at[c].links
    BY <1>1 DEF At
  <2> HIDE DEF r
  <2>3. "list" \in Places /\ "list" \notin Locked /\ "list" \notin Keyed
    BY DEF Places, Locked, Keyed, Forgetting, Adding, Cognifying
  <2>4. CallOK(c, "list", r, None, env.op[c], result[c])
    BY <1>1, <1>3, <2>2 DEF CallOK, Forgetting, Adding, Cognifying
  <2>5. pc'[c] = "list"
    BY <2>1, <2>2, <2>3, MovesType DEF Leaves
  <2> QED
    BY <2>1, <2>2, <2>3, <2>4, <2>5, LeavesOK
<1> QED
  BY <1>2, <1>3 DEF Written

\* A row is refreshed: it names the file of the call, and an add leaves the rest.
LEMMA RefreshOK ==
    ASSUME StateInv, NEW c \in Call, Refresh(c)
    PROVE  /\ StateInv' /\ Stay(c) /\ pc'[c] \in {"list", "over"} /\ at[c].id \in Id
           /\ UNCHANGED <<datasets, granted, files, memory>>
           /\ \/ Error(c) /\ UNCHANGED <<row, replaced>>
              \/ /\ Present(at[c].id) /\ replaced' = replaced \cup {row[at[c].id].file}
                 /\ row'[at[c].id] \in Row /\ row'[at[c].id].file = c
                 /\ env.op[c].kind = "add" =>
                      /\ row'[at[c].id].ds = row[at[c].id].ds
                      /\ row'[at[c].id].content = row[at[c].id].content
                 /\ \A j \in Id \ {at[c].id} : row'[j] = row[j]
<1> DEFINE i == at[c].id
           read == at[c].rows[i]
           op == env.op[c]
           p == [read EXCEPT !.content = op.content, !.file = c,
                             !.marked = read.marked /\ read.content = op.content]
           q == [row[i] EXCEPT !.file = c]
           n == IF op.kind = "add" THEN q ELSE p
<1>1. /\ at[c] \in At /\ op \in Op /\ pc[c] = "refresh" /\ Data
      /\ CallOK(c, "refresh", at[c], key[c], op, result[c])
  BY CallFacts, TypeParts DEF Refresh, StateInv
<1>2. /\ i \in Id /\ read \in Row /\ op.content \in Content /\ row \in [Id -> Row \cup {None}]
  BY <1>1, AtFields, OpFields DEF CallOK, Data
<1>3. CASE ~Present(i) /\ Error(c)
  BY <1>2, <1>3, ErrorOK DEF Error, rows
<1>4. CASE /\ Present(i) /\ row' = [row EXCEPT ![i] = n]
           /\ replaced' = replaced \cup {row[i].file} /\ Written(c)
           /\ UNCHANGED <<env, datasets, granted, files, memory>>
  <2>1. row[i] \in Row /\ c \in Id
    BY <1>2, <1>4, Apart DEF Present
  <2>2. \A r \in Row, x \in Content, m \in BOOLEAN :
           LET w == [r EXCEPT !.content = x, !.file = c, !.marked = m] IN w \in Row /\ w.file = c
    BY <2>1 DEF Row
  <2>3. p \in Row /\ p.file = c
    <3>1. (read.marked /\ read.content = op.content) \in BOOLEAN
      BY <1>2, RowFields
    <3>2. PICK m \in BOOLEAN : m = (read.marked /\ read.content = op.content)
      BY ONLY <3>1
    <3>3. p = [read EXCEPT !.content = op.content, !.file = c, !.marked = m]
      BY <3>2
    <3> HIDE DEF p
    <3> QED
      BY <1>2, <2>2, <3>3
  <2>4. q \in Row /\ q.file = c /\ q.ds = row[i].ds /\ q.content = row[i].content
    BY <2>1 DEF Row
  <2> HIDE DEF p, q
  <2>5. n \in Row /\ n.file = c /\ (op.kind = "add" => n.ds = row[i].ds /\ n.content = row[i].content)
    BY <2>3, <2>4
  <2> HIDE DEF n, read, op
  <2>6. row' \in [Id -> Row \cup {None}] /\ row'[i] = n /\ \A j \in Id \ {i} : row'[j] = row[j]
    BY <1>2, <1>4, <2>5
  <2>7. row[i].file \in Id
    BY <2>1, RowFields
  <2>8. Data'
    BY <1>1, <1>4, <2>6, <2>7 DEF Data, memory
  <2>9. StateInv' /\ Stay(c) /\ pc'[c] \in {"list", "over"}
    BY <1>1, <1>4, <2>8, WrittenOK
  <2> QED
    BY <1>2, <1>4, <2>5, <2>6, <2>9 DEF op
<1> QED
  BY <1>3, <1>4 DEF Refresh

LEMMA CreateRowOK ==
    ASSUME StateInv, NEW c \in Call, CreateRow(c)
    PROVE  /\ StateInv' /\ Stay(c) /\ pc'[c] \in {"list", "over"} /\ at[c].id \in Id
           /\ UNCHANGED <<datasets, granted, files, replaced, memory>>
           /\ row'[at[c].id] \in Row /\ row'[at[c].id].file = c
           /\ row'[at[c].id].ds = at[c].ds /\ row'[at[c].id].content = env.op[c].content
           /\ \A j \in Id \ {at[c].id} : row'[j] = row[j]
<1> DEFINE n == [ds |-> at[c].ds, content |-> env.op[c].content, file |-> c, marked |-> FALSE]
<1>1. /\ at[c] \in At /\ env.op[c] \in Op /\ pc[c] = "create" /\ Data
  BY CallFacts, TypeParts DEF CreateRow, StateInv
<1>2. /\ at[c].id \in Id /\ at[c].ds \in Dataset /\ env.op[c].content \in Content /\ c \in Id
      /\ row \in [Id -> Row \cup {None}]
  BY <1>1, AtFields, OpFields, Apart DEF Data
<1>3. /\ row' = [row EXCEPT ![at[c].id] = n] /\ Written(c)
      /\ UNCHANGED <<env, datasets, granted, files, replaced, memory>>
  BY DEF CreateRow
<1>4. n \in Row /\ n.file = c /\ n.ds = at[c].ds /\ n.content = env.op[c].content
  BY <1>2 DEF Row
<1> HIDE DEF n
<1>5. /\ row' \in [Id -> Row \cup {None}] /\ row'[at[c].id] = n
      /\ \A j \in Id \ {at[c].id} : row'[j] = row[j]
  BY <1>2, <1>3, <1>4
<1>6. Data'
  BY <1>3, <1>5, RowsStay
<1>7. StateInv' /\ Stay(c) /\ pc'[c] \in {"list", "over"}
  BY <1>1, <1>3, <1>6, WrittenOK
<1> QED
  BY <1>2, <1>3, <1>4, <1>5, <1>7

LEMMA AddOK ==
    ASSUME StateInv, NEW c \in Call, Add(c)
    PROVE  StateInv' /\ Stay(c)
BY StoreFileOK, FindDatasetOK, GrantOK, LockContentOK, LookupOK, RefreshOK, CreateRowOK DEF Add

LEMMA ListOK ==
    ASSUME StateInv, NEW c \in Call, List(c)
    PROVE  /\ StateInv' /\ Stay(c) /\ pc'[c] = "hold" /\ at'[c].job = "cognify"
           /\ UNCHANGED <<rows, memory>>
<1> DEFINE S == Members(at[c].ds)
           r == [at[c] EXCEPT !.rows = row, !.todo = S]
<1>1. /\ at[c] \in At /\ pc[c] = "list" /\ Control /\ row \in [Id -> Row \cup {None}]
      /\ CallOK(c, "list", at[c], key[c], env.op[c], result[c])
  BY CallFacts, TypeParts DEF List, StateInv, Data
<1>2. at' = [at EXCEPT ![c] = r]
  BY <1>1 DEF List, Control
<1>3. S \in SUBSET Id /\ \A i \in S : row[i] # None
  BY MembersOf DEF Present
<1> HIDE DEF S
<1>4. /\ r \in At /\ r.ds = at[c].ds /\ r.job = at[c].job /\ r.drop = at[c].drop
      /\ r.links = at[c].links /\ r.todo = S /\ r.rows = row
  BY <1>1, <1>3 DEF At
<1> HIDE DEF r
<1>5. Step(c, "hold") /\ UNCHANGED <<rows, memory>>
  BY DEF List
<1>6. Keeps(c, "hold", r) /\ Data'
  BY <1>2, <1>5, MoveForms, DataStays DEF Step
<1>7. /\ "hold" \in Places /\ "hold" \notin Locked /\ "hold" \notin Keyed
      /\ "list" \notin Locked /\ "list" \notin Keyed
  BY DEF Places, Locked, Keyed, Forgetting, Adding, Cognifying
<1>8. CallOK(c, "hold", r, key[c], env.op[c], result[c]) /\ r.job = "cognify"
  BY <1>1, <1>3, <1>4 DEF CallOK, Forgetting, Adding, Cognifying
<1>9. pc'[c] = "hold" /\ at'[c] = r
  BY <1>4, <1>6, <1>7, MovesType DEF Keeps
<1> QED
  BY <1>1, <1>4, <1>5, <1>6, <1>7, <1>8, <1>9, KeepsOK

\* A step from one phase of a cognify to another.
LEMMA CognifyStep ==
    ASSUME StateInv, NEW c \in Call, pc[c] \in Cognifying \ {"list"},
           NEW l \in Cognifying \ {"list"}, NEW S \in SUBSET at[c].todo,
           Step(c, l), at' = [at EXCEPT ![c] = [at[c] EXCEPT !.todo = S]], Data'
    PROVE  /\ StateInv' /\ Stay(c) /\ pc'[c] = l /\ at'[c].ds = at[c].ds /\ at'[c].todo = S
           /\ at'[c].rows = at[c].rows
<1> DEFINE r == [at[c] EXCEPT !.todo = S]
<1>1. /\ at[c] \in At /\ CallOK(c, pc[c], at[c], key[c], env.op[c], result[c])
  BY CallFacts
<1>2. S \in SUBSET Id
  BY <1>1, AtFields
<1>3. /\ r \in At /\ r.ds = at[c].ds /\ r.job = at[c].job /\ r.drop = at[c].drop
      /\ r.links = at[c].links /\ r.todo = S /\ r.rows = at[c].rows
  BY <1>1, <1>2 DEF At
<1>4. at' = [at EXCEPT ![c] = r]
  OBVIOUS
<1> HIDE DEF r
<1>5. Keeps(c, l, r)
  BY <1>4, MoveForms DEF Step
<1>6. /\ l \in Places /\ l \in Locked /\ l \notin Keyed /\ pc[c] \in Locked /\ pc[c] \notin Keyed
      /\ l \in {"filter", "read", "record", "write", "mark"}
      /\ pc[c] \in {"filter", "read", "record", "write", "mark"}
  BY DEF Places, Locked, Keyed, Forgetting, Adding, Cognifying
<1>7. /\ at[c].job = "cognify" /\ env.op[c].kind \in {at[c].job, "update"} /\ result[c] # "error"
      /\ \A i \in at[c].todo : at[c].rows[i] # None
      /\ ~at[c].drop => \A i, j \in at[c].links : i = j
      /\ key[c] # None => key[c] = IF env.op[c].kind = "update" THEN <<env.op[c].item>>
                                   ELSE <<at[c].ds, env.op[c].content>>
  BY <1>1, <1>6 DEF CallOK, Cognifying
<1>8. l \notin Forgetting /\ l \notin Adding
  BY <1>6 DEF Forgetting, Adding
<1>9. CallOK(c, l, r, key[c], env.op[c], result[c])
  BY <1>3, <1>6, <1>7, <1>8 DEF CallOK
<1>10. pc'[c] = l /\ at'[c] = r
  BY <1>3, <1>5, <1>6, MovesType DEF Keeps
<1> QED
  BY <1>3, <1>5, <1>6, <1>9, <1>10, KeepsOK

LEMMA CognifyStays ==
    ASSUME StateInv, NEW c \in Call, pc[c] \in Cognifying \ {"list"},
           NEW l \in Cognifying \ {"list"}, Step(c, l), UNCHANGED at, Data'
    PROVE  StateInv' /\ Stay(c) /\ pc'[c] = l /\ at'[c] = at[c]
<1>1. /\ at[c] \in At /\ at' = [at EXCEPT ![c] = at[c]]
  BY CallFacts
<1>2. [at[c] EXCEPT !.todo = at[c].todo] = at[c]
  BY <1>1 DEF At
<1>3. at' = [at EXCEPT ![c] = [at[c] EXCEPT !.todo = at[c].todo]]
  BY <1>1, <1>2
<1>4. StateInv' /\ Stay(c) /\ pc'[c] = l
  BY <1>3, CognifyStep
<1> QED
  BY <1>4

LEMMA FilterOK ==
    ASSUME StateInv, NEW c \in Call, Filter(c)
    PROVE  StateInv' /\ Stay(c) /\ pc'[c] \in {"read", "over"} /\ UNCHANGED <<rows, memory>>
<1> DEFINE S == {i \in at[c].todo : ~(Present(i) /\ row[i].marked)}
<1>1. /\ at[c] \in At /\ Control /\ pc[c] \in Cognifying \ {"list"} /\ UNCHANGED <<rows, memory>>
      /\ "read" \in Cognifying \ {"list"}
  BY CallFacts, TypeParts DEF StateInv, Filter, Cognifying
<1>2. Data'
  BY <1>1, DataStays
<1>3. CASE Over(c, "ok") /\ UNCHANGED <<env, at>>
  <2>1. Ends(c, "ok")
    BY <1>3, MoveForms
  <2>2. pc'[c] = "over"
    BY <1>1, <2>1, MovesType DEF Ends, Places
  <2> QED
    BY <1>1, <1>2, <2>1, <2>2, EndsOK
<1>4. CASE at' = [at EXCEPT ![c].todo = S] /\ Step(c, "read")
  <2>1. S \in SUBSET at[c].todo
    OBVIOUS
  <2> HIDE DEF S
  <2>2. at' = [at EXCEPT ![c] = [at[c] EXCEPT !.todo = S]]
    BY <1>1, <1>4 DEF Control
  <2>3. StateInv' /\ Stay(c) /\ pc'[c] = "read"
    BY <1>1, <1>2, <1>4, <2>1, <2>2, CognifyStep
  <2> QED
    BY <1>1, <2>3
<1> QED
  BY <1>3, <1>4 DEF Filter

LEMMA ReadOK ==
    ASSUME StateInv, NEW c \in Call, Read(c)
    PROVE  /\ StateInv' /\ Stay(c) /\ pc'[c] \in {"record", "over"} /\ at'[c] = at[c]
           /\ UNCHANGED <<rows, memory>>
<1>1. pc[c] \in Cognifying \ {"list"} /\ "record" \in Cognifying \ {"list"}
  BY DEF Read, Cognifying
<1>2. CASE Step(c, "record") /\ UNCHANGED <<at, rows, memory>>
  <2>1. Data'
    BY <1>2, DataStays
  <2> QED
    BY <1>1, <1>2, <2>1, CognifyStays
<1>3. CASE Error(c)
  BY <1>3, ErrorOK DEF Error
<1> QED
  BY <1>2, <1>3 DEF Read

\* What a cognify makes of the items it has read is nodes.
LEMMA ExtractedNodes ==
    ASSUME StateInv, NEW c \in Call, pc[c] \in Cognifying \ {"list"}, NEW i \in at[c].todo
    PROVE  Extracted(c, i) \in SUBSET Node
<1>1. /\ at[c] \in At /\ CallOK(c, pc[c], at[c], key[c], env.op[c], result[c])
  BY CallFacts
<1>2. i \in Id /\ at[c].rows \in [Id -> Row \cup {None}] /\ at[c].rows[i] # None
  BY <1>1, AtFields DEF CallOK
<1>3. at[c].rows[i].content \in Content
  BY <1>2, RowFields
<1> QED
  BY <1>3, ItemsAssumption DEF Extracted

\* The ledger row l is of what cognify c makes of the items in its hand.
Records(c, l) == \E i \in at[c].todo : \E n \in Extracted(c, i) : l = <<at[c].ds, Owner(i, n), n>>

\* A row of an item is of one in its hand.
LEMMA RecordsOwn ==
    ASSUME NEW c, NEW l, Records(c, l), l[2] # None
    PROVE  l[2] \in at[c].todo
BY DEF Records, Owner

\* The rows that a cognify adds to the ledger.
LEMMA RecordedRows ==
    ASSUME NEW c \in Call, RecordLedger(c)
    PROVE  /\ ledger \subseteq ledger'
           /\ \A i \in at[c].todo : \A n \in Extracted(c, i) : <<at[c].ds, Owner(i, n), n>> \in ledger'
           /\ \A l \in ledger' : l \notin ledger => Records(c, l) /\ l[1] = at[c].ds
<1> DEFINE new(i) == {<<at[c].ds, Owner(i, n), n>> : n \in Extracted(c, i)}
<1>1. ledger' = ledger \cup UNION {new(i) : i \in at[c].todo}
  BY DEF RecordLedger
<1>2. ASSUME NEW i \in at[c].todo, NEW n \in Extracted(c, i)
      PROVE  <<at[c].ds, Owner(i, n), n>> \in ledger'
  <2>1. <<at[c].ds, Owner(i, n), n>> \in new(i)
    OBVIOUS
  <2> HIDE DEF new
  <2> QED
    BY <1>1, <2>1
<1>3. ASSUME NEW l \in ledger', l \notin ledger
      PROVE  Records(c, l) /\ l[1] = at[c].ds
  <2>1. PICK i \in at[c].todo : l \in new(i)
    <3> HIDE DEF new
    <3> QED
      BY <1>1, <1>3
  <2> QED
    BY <2>1 DEF Records
<1> QED
  <2> HIDE DEF new
  <2> QED
    BY <1>1, <1>2, <1>3

LEMMA RecordLedgerOK ==
    ASSUME StateInv, NEW c \in Call, RecordLedger(c)
    PROVE  StateInv' /\ Stay(c) /\ pc'[c] = "write" /\ at'[c] = at[c]
<1>1. /\ pc[c] \in Cognifying \ {"list"} /\ "write" \in Cognifying \ {"list"} /\ Step(c, "write")
      /\ UNCHANGED <<at, rows, graph>>
  BY DEF RecordLedger, Cognifying
<1>2. at[c].ds \in Dataset /\ at[c].todo \in SUBSET Id /\ Data
  BY CallFacts, AtFields, TypeParts DEF StateInv
<1>3. Data'
  <2>1. ASSUME NEW i \in at[c].todo, NEW n \in Extracted(c, i)
        PROVE  <<at[c].ds, Owner(i, n), n>> \in Dataset \X (Id \cup {None}) \X Node
    <3>1. n \in Node /\ i \in Id
      BY <1>1, <1>2, <2>1, ExtractedNodes
    <3>2. Owner(i, n) \in Id \cup {None}
      BY <3>1 DEF Owner
    <3> QED
      BY <1>2, <3>1, <3>2
  <2>2. ledger' \subseteq Dataset \X (Id \cup {None}) \X Node
    BY <1>2, <2>1, RecordedRows DEF Data, Records
  <2> QED
    BY <1>1, <1>2, <2>2 DEF Data, rows
<1> QED
  BY <1>1, <1>3, CognifyStays

LEMMA WriteGraphOK ==
    ASSUME StateInv, NEW c \in Call, WriteGraph(c)
    PROVE  StateInv' /\ Stay(c) /\ pc'[c] = "mark" /\ at'[c] = at[c]
<1> DEFINE N == UNION {Extracted(c, i) : i \in at[c].todo}
<1>1. /\ pc[c] \in Cognifying \ {"list"} /\ "mark" \in Cognifying \ {"list"} /\ Step(c, "mark")
      /\ UNCHANGED <<at, rows, ledger>>
      /\ graph' = graph \cup ({Store(at[c].ds)} \X N)
  BY DEF WriteGraph, Cognifying
<1>2. at[c].ds \in Dataset /\ Data
  BY CallFacts, AtFields, TypeParts DEF StateInv
<1>3. N \subseteq Node
  BY <1>1, ExtractedNodes
<1>4. Store(at[c].ds) \in Dataset \cup {None}
  BY <1>2 DEF Store
<1> HIDE DEF N
<1>5. graph' \subseteq (Dataset \cup {None}) \X Node
  BY <1>1, <1>2, <1>3, <1>4 DEF Data
<1>6. Data'
  BY <1>1, <1>2, <1>5 DEF Data, rows
<1> QED
  BY <1>1, <1>6, CognifyStays

LEMMA MarkCompleteOK ==
    ASSUME StateInv, NEW c \in Call, MarkComplete(c)
    PROVE  /\ StateInv' /\ Stay(c) /\ pc'[c] = "over"
           /\ UNCHANGED <<datasets, granted, files, replaced, memory>>
           /\ \A i \in Id : row'[i] = None <=> row[i] = None
           /\ \A i \in Id : row[i] # None => /\ row'[i].ds = row[i].ds
                                             /\ row'[i].content = row[i].content
                                             /\ row'[i].file = row[i].file
<1>1. /\ at[c] \in At /\ row \in [Id -> Row \cup {None}]
      /\ UNCHANGED <<env, at, datasets, granted, files, replaced, memory>> /\ Over(c, "ok")
      /\ row' = [i \in Id |-> IF i \in at[c].todo /\ Present(i)
                              THEN [row[i] EXCEPT !.marked = TRUE] ELSE row[i]]
  BY CallFacts, TypeParts DEF StateInv, Data, MarkComplete
<1>2. ASSUME NEW i \in Id
      PROVE  /\ row'[i] \in Row \cup {None}
             /\ row'[i] = None <=> row[i] = None
             /\ row[i] # None => /\ row'[i].ds = row[i].ds /\ row'[i].content = row[i].content
                                 /\ row'[i].file = row[i].file
  <2> DEFINE n == [row[i] EXCEPT !.marked = TRUE]
  <2>1. row'[i] = IF i \in at[c].todo /\ Present(i) THEN n ELSE row[i]
    BY <1>1
  <2>2. row[i] # None => /\ n \in Row /\ n.ds = row[i].ds /\ n.content = row[i].content
                         /\ n.file = row[i].file
    <3>1. CASE row[i] # None
      <4>1. row[i] \in Row
        BY <1>1, <3>1
      <4> QED
        BY <4>1 DEF Row
    <3> QED
      BY <3>1
  <2> HIDE DEF n
  <2> QED
    BY <1>1, <2>1, <2>2, Apart DEF Present
<1>3. row' \in [Id -> Row \cup {None}]
  <2>1. row' = [i \in Id |-> row'[i]]
    BY <1>1
  <2> QED
    BY <1>2, <2>1
<1>4. Data'
  BY <1>1, <1>3, RowsStay
<1>5. Ends(c, "ok")
  BY <1>1, MoveForms
<1>6. pc'[c] = "over"
  BY <1>1, <1>5, MovesType DEF Ends, Places
<1> QED
  BY <1>1, <1>2, <1>4, <1>5, <1>6, EndsOK

LEMMA CognifyOK ==
    ASSUME StateInv, NEW c \in Call, Cognify(c)
    PROVE  StateInv' /\ Stay(c)
BY ListOK, FilterOK, ReadOK, RecordLedgerOK, WriteGraphOK, MarkCompleteOK DEF Cognify

-----------------------------------------------------------------------------
(* The types *)

\* The rows and the operations at the start.
LEMMA StartRows ==
    ASSUME Init
    PROVE  /\ env \in Scenarios /\ row \in [Id -> Row \cup {None}]
           /\ \A c \in Call : env.op[c] \in Op /\ env.op[c].ds \in Dataset
           /\ \A i \in Id : Present(i) => i \in Item /\ row[i] = env.rows[i] /\ row[i] \in FirstRow
           /\ \A i \in Item : row[i] = env.rows[i]
<1>1. /\ env \in Scenarios /\ row = [i \in Id |-> IF i \in Item THEN env.rows[i] ELSE None]
  BY DEF Init
<1>2. env.op \in [Call -> Op] /\ env.rows \in [Item -> FirstRow \cup {None}]
  BY <1>1, ScenarioFields
<1>3. FirstRow \subseteq Row
  BY Apart DEF FirstRow, Row
<1>4. \A i \in Id : row[i] = IF i \in Item THEN env.rows[i] ELSE None
  BY <1>1
<1>5. row \in [Id -> Row \cup {None}]
  BY <1>1, <1>2, <1>3
<1>6. \A i \in Item : i \in Id /\ env.rows[i] \in FirstRow \cup {None}
  BY <1>2, Apart
<1>7. \A c \in Call : env.op[c] \in Op /\ env.op[c].ds \in Dataset
  BY <1>2, OpFields
<1> QED
  BY <1>1, <1>4, <1>5, <1>6, <1>7 DEF Present

LEMMA FirstRowFields ==
    ASSUME NEW r \in FirstRow
    PROVE  /\ r.ds \in Dataset /\ r.content \in Content /\ r.file \in Item /\ r.marked \in BOOLEAN
           /\ r \in Row
BY Apart DEF FirstRow, Row

\* The ledger at the start: the rows of the marked items, and their types'.
LEMMA FirstLedger ==
    ASSUME Init
    PROVE  /\ \A i \in Item : \A n \in Extracts[row[i].content] :
                Present(i) /\ row[i].marked => <<row[i].ds, Owner(i, n), n>> \in ledger
           /\ \A l \in ledger : \E i \in Item : \E n \in Extracts[row[i].content] :
                Present(i) /\ row[i].marked /\ l = <<row[i].ds, Owner(i, n), n>>
<1> DEFINE of(i) == {<<row[i].ds, Owner(i, n), n>> : n \in Extracts[row[i].content]}
<1>1. ledger = UNION {of(i) : i \in {i \in Item : Present(i) /\ row[i].marked}}
  BY DEF Init
<1>2. ASSUME NEW i \in Item, NEW n \in Extracts[row[i].content], Present(i), row[i].marked
      PROVE  <<row[i].ds, Owner(i, n), n>> \in ledger
  <2>1. <<row[i].ds, Owner(i, n), n>> \in of(i)
    OBVIOUS
  <2> HIDE DEF of
  <2> QED
    BY <1>1, <1>2, <2>1
<1>3. ASSUME NEW l \in ledger
      PROVE  \E i \in Item : \E n \in Extracts[row[i].content] :
                Present(i) /\ row[i].marked /\ l = <<row[i].ds, Owner(i, n), n>>
  <2>1. PICK i \in Item : Present(i) /\ row[i].marked /\ l \in of(i)
    <3> HIDE DEF of
    <3> QED
      BY <1>1
  <2> QED
    BY <2>1
<1> QED
  <2> HIDE DEF of
  <2> QED
    BY <1>2, <1>3

LEMMA StateInit == Init => StateInv
<1> SUFFICES ASSUME Init PROVE StateInv
  OBVIOUS
<1> USE StartRows
<1>1. \A c \in Call : pc[c] = (IF env.op[c].kind = "none" THEN "over" ELSE "new")
  BY DEF Init
<1>2. "new" \in Places /\ "over" \in Places /\ pc \in [Call -> Places]
  BY DEF Init, Places
<1> DEFINE A(c) == [ds |-> env.op[c].ds, left |-> {}, todo |-> {}, links |-> {},
                    rows |-> row, id |-> c, drop |-> FALSE, job |-> "add"]
<1>3. ASSUME NEW c \in Call
      PROVE  /\ A(c) \in At /\ A(c).drop = FALSE /\ A(c).links = {}
             /\ at[c] = A(c) /\ result[c] = "none" /\ key[c] = None
  <2>1. /\ A(c).drop = FALSE /\ A(c).links = {}
        /\ at[c] = A(c) /\ result[c] = "none" /\ key[c] = None
    BY DEF Init
  <2>2. c \in Id /\ env.op[c].ds \in Dataset /\ row \in [Id -> Row \cup {None}]
    BY Apart
  <2>3. A(c) \in At
    BY <2>2 DEF At
  <2> QED
    BY <2>1, <2>3
<1>4. at = [c \in Call |-> A(c)]
  BY DEF Init
<1> HIDE DEF A
<1>5. at \in [Call -> At]
  BY <1>3, <1>4
<1>6. /\ "new" \notin Locked /\ "over" \notin Locked /\ "new" \notin Keyed /\ "over" \notin Keyed
  BY DEF Locked, Keyed, Forgetting, Cognifying
<1>7. Control
  <2>1. \A c \in Call, d \in Dataset : holder[d] = c <=> at[c].ds = d /\ pc[c] \in Locked
    <3>1. \A d \in Dataset : holder[d] = None
      BY DEF Init
    <3> QED
      BY <1>1, <1>6, <3>1, Apart
  <2>2. \A c \in Call : key[c] # None <=> pc[c] \in Keyed
    BY <1>1, <1>3, <1>6
  <2>3. /\ result \in [Call -> {"none", "ok", "error"}] /\ holder \in [Dataset -> Call \cup {None}]
        /\ key \in [Call -> Key \cup {None}]
    BY DEF Init
  <2> QED
    BY <1>2, <1>5, <2>1, <2>2, <2>3 DEF Control
<1>8. Data
  <2>1. \A i \in Id : Present(i) => row[i].ds \in Dataset /\ row[i].file \in Id
    BY FirstRowFields, Apart
  <2>2. datasets \subseteq Dataset /\ granted \subseteq Dataset /\ files \subseteq Id /\ replaced \subseteq Id
    BY <2>1 DEF Init, Files
  <2>3. ledger \subseteq Dataset \X (Id \cup {None}) \X Node
    <3>1. ASSUME NEW i \in Item, Present(i), NEW n \in Extracts[row[i].content]
          PROVE  <<row[i].ds, Owner(i, n), n>> \in Dataset \X (Id \cup {None}) \X Node
      <4>1. i \in Id /\ row[i].ds \in Dataset /\ row[i].content \in Content
        BY <3>1, FirstRowFields, Apart
      <4>2. n \in Node /\ Owner(i, n) \in Id \cup {None}
        BY <4>1, ItemsAssumption DEF Owner
      <4> QED
        BY <4>1, <4>2
    <3> QED
      BY <3>1, FirstLedger
  <2>4. graph \subseteq (Dataset \cup {None}) \X Node
    <3>1. graph = {<<Store(l[1]), l[3]>> : l \in ledger}
      BY DEF Init
    <3>2. \A l \in ledger : l[1] \in Dataset /\ l[3] \in Node
      BY <2>3
    <3>3. \A l \in ledger : Store(l[1]) \in Dataset \cup {None}
      BY <3>2 DEF Store
    <3> QED
      BY <3>1, <3>2, <3>3
  <2> QED
    BY <2>2, <2>3, <2>4 DEF Data
<1>9. CallsOK
  <2>1. ASSUME NEW c \in Call
        PROVE  CallOK(c, pc[c], at[c], key[c], env.op[c], result[c])
    <3>1. pc[c] \in {"new", "over"} /\ at[c].drop = FALSE /\ at[c].links = {}
          /\ result[c] = "none" /\ key[c] = None
      BY <1>1, <1>3
    <3> QED
      BY <3>1 DEF CallOK, Forgetting, Adding, Cognifying
  <2> QED
    BY <2>1 DEF CallsOK
<1>10. KeysApart
  BY <1>3 DEF KeysApart
<1> QED
  BY <1>7, <1>8, <1>9, <1>10, TypeParts DEF StateInv

\* A step of the system is a step of one call, or leaves everything as it is.
Act(c) == Begin(c) \/ Hold(c) \/ Forget(c) \/ Add(c) \/ Cognify(c)

LEMMA Steps == [Next]_vars => (\E c \in Call : Act(c)) \/ UNCHANGED vars
BY DEF Next, Act

LEMMA ActOK ==
    ASSUME StateInv, NEW c \in Call, Act(c)
    PROVE  StateInv' /\ Stay(c)
BY BeginOK, HoldOK, ForgetOK, AddOK, CognifyOK DEF Act

LEMMA StateStep == StateInv /\ [Next]_vars => StateInv'
<1> SUFFICES ASSUME StateInv, [Next]_vars PROVE StateInv'
  OBVIOUS
<1>1. CASE \E c \in Call : Act(c)
  BY <1>1, ActOK
<1>2. CASE UNCHANGED vars
  <2>1. TypeOK'
    BY <1>2 DEF StateInv, TypeOK, vars, rows, memory, locks
  <2>2. CallsOK' /\ KeysApart'
    BY <1>2 DEF StateInv, CallsOK, KeysApart, vars, locks
  <2> QED
    BY <2>1, <2>2 DEF StateInv
<1> QED
  BY <1>1, <1>2, Steps

LEMMA StateInvariant == Spec => []StateInv
BY StateInit, StateStep, PTL DEF Spec

\* The variables have their types; a call holds the lock of its dataset exactly
\* where the code works under it, and an add its content lock.
THEOREM ItemsTypeCorrect == Spec => []TypeOK
<1>1. StateInv => TypeOK
  BY DEF StateInv
<1> QED
  BY <1>1, StateInvariant, PTL

\* Where a call goes from its start, and from its wait.
LEMMA BeginTo ==
    ASSUME StateInv, NEW c \in Call, Begin(c)
    PROVE  /\ pc'[c] \in {"store", "list", "hold", "over"} /\ UNCHANGED <<rows, memory>>
           /\ pc'[c] = "hold" => at'[c].job = "forget"
<1>1. at[c] \in At /\ pc \in [Call -> Places] /\ at \in [Call -> At]
  BY CallFacts, TypeParts DEF StateInv, Control
<1>2. \A l, r : Goto(c, l) /\ at' = [at EXCEPT ![c] = r] => pc'[c] = l /\ at'[c] = r
  BY <1>1 DEF Goto
<1>3. \A l : Goto(c, l) => pc'[c] = l
  BY <1>1 DEF Goto
<1>4. ASSUME NEW l \in {"store", "list", "hold"}, NEW j \in {"forget", "add", "cognify"},
             Onward(c, l, [at[c] EXCEPT !.job = j]), UNCHANGED <<env, rows, memory>>,
             l = "hold" => j = "forget"
      PROVE  /\ pc'[c] \in {"store", "list", "hold", "over"} /\ UNCHANGED <<rows, memory>>
             /\ pc'[c] = "hold" => at'[c].job = "forget"
  <2>1. pc'[c] = l /\ at'[c] = [at[c] EXCEPT !.job = j]
    BY <1>2, <1>4 DEF Onward
  <2>2. [at[c] EXCEPT !.job = j].job = j
    BY <1>1 DEF At
  <2> QED
    BY <1>4, <2>1, <2>2
<1>5. ASSUME NEW d \in datasets,
             Onward(c, "hold", [at[c] EXCEPT !.job = "forget", !.ds = d, !.left = datasets \ {d}]),
             UNCHANGED <<env, rows, memory>>
      PROVE  /\ pc'[c] \in {"store", "list", "hold", "over"} /\ UNCHANGED <<rows, memory>>
             /\ pc'[c] = "hold" => at'[c].job = "forget"
  <2> DEFINE r == [at[c] EXCEPT !.job = "forget", !.ds = d, !.left = datasets \ {d}]
  <2>1. r.job = "forget"
    BY <1>1 DEF At
  <2> HIDE DEF r
  <2>2. pc'[c] = "hold" /\ at'[c] = r
    BY <1>2, <1>5 DEF Onward, r
  <2> QED
    BY <1>5, <2>1, <2>2
<1>6. CASE \E x : Over(c, x) /\ UNCHANGED <<env, at, rows, memory>>
  BY <1>3, <1>6 DEF Over
<1> QED
  BY <1>4, <1>5, <1>6 DEF Begin, Error

LEMMA HoldTo ==
    ASSUME StateInv, NEW c \in Call, Hold(c)
    PROVE  /\ pc'[c] \in {"resolve", "dataset", "filter"} /\ at'[c] = at[c]
           /\ pc[c] = "hold" /\ UNCHANGED <<rows, memory>>
<1>1. pc \in [Call -> Places] /\ at[c].job \in {"forget", "add", "cognify"}
  BY CallFacts, AtFields, TypeParts DEF StateInv, Control
<1> QED
  BY <1>1 DEF Hold, Goto

\* Two calls that work under a dataset lock work on two datasets.
LEMMA LocksApart ==
    ASSUME StateInv, NEW c \in Call, NEW o \in Call, c # o, pc[c] \in Locked, pc[o] \in Locked
    PROVE  at[c].ds # at[o].ds
BY CallFacts, AtFields, TypeParts DEF StateInv, Control

-----------------------------------------------------------------------------
(* The ledger covers the graph *)

\* A step that leaves the memory alone and goes to no place LedgerInv speaks of.
Quiet(c) ==
    /\ UNCHANGED memory
    /\ pc'[c] \notin {"write", "ledger"}
    /\ pc'[c] \in {"unmark", "detach", "drop"} =>
         /\ pc[c] \in {"unmark", "detach", "drop"}
         /\ at'[c].ds = at[c].ds /\ at'[c].drop = at[c].drop

LEMMA QuietLedger ==
    ASSUME LedgerInv, NEW c \in Call, Stay(c), Quiet(c)
    PROVE  LedgerInv'
<1>1. UNCHANGED <<env, ledger, graph>> /\ \A o \in Call \ {c} : pc'[o] = pc[o] /\ at'[o] = at[o]
  BY DEF Stay, Quiet, memory
<1>2. ASSUME NEW o \in Call, pc'[o] \in {"unmark", "detach", "drop"}, at'[o].drop
      PROVE  \A l \in ledger' : l[1] # at'[o].ds
  BY <1>1, <1>2 DEF LedgerInv, Quiet
<1>3. ASSUME NEW o \in Call, pc'[o] = "write", NEW i \in at'[o].todo, NEW n \in Extracted(o, i)'
      PROVE  <<at'[o].ds, Owner(i, n), n>> \in ledger'
  BY <1>1, <1>3 DEF LedgerInv, Quiet, Extracted
<1>4. ASSUME NEW a \in graph'
      PROVE  \E l \in ledger' : Store(l[1])' = a[1] /\ l[3] = a[2] /\ \A o \in Call : ~Doomed(o, l)'
  <2>1. PICK l \in ledger : Store(l[1]) = a[1] /\ l[3] = a[2] /\ \A o \in Call : ~Doomed(o, l)
    BY <1>1, <1>4 DEF LedgerInv
  <2>2. Store(l[1])' = Store(l[1])
    BY <1>1 DEF Store
  <2>3. ASSUME NEW o \in Call
        PROVE  ~Doomed(o, l)'
    <3>1. CASE o = c
      BY <3>1 DEF Doomed, Quiet
    <3>2. CASE o # c
      BY <1>1, <2>1, <3>2 DEF Doomed
    <3> QED
      BY <3>1, <3>2
  <2> QED
    BY <1>1, <2>1, <2>2, <2>3
<1> QED
  BY <1>2, <1>3, <1>4 DEF LedgerInv

LEMMA CleanGraphLedger ==
    ASSUME StateInv, LedgerInv, NEW c \in Call, CleanGraph(c)
    PROVE  LedgerInv'
<1> DEFINE d == at[c].ds
           gone == IF at[c].drop THEN IF env.own THEN Node ELSE Owned(d)
                   ELSE UNION {UniqueNodes(d, i) : i \in at[c].links}
<1>1. /\ pc[c] = "graph" /\ pc'[c] = "ledger" /\ at'[c] = at[c] /\ Stay(c)
      /\ graph' = graph \ ({Store(d)} \X gone) /\ UNCHANGED <<env, ledger>>
  BY CleanGraphOK DEF CleanGraph, Step
<1>2. \A o \in Call \ {c} : pc'[o] = pc[o] /\ at'[o] = at[o]
  BY <1>1 DEF Stay
<1>3. /\ ledger \subseteq Dataset \X (Id \cup {None}) \X Node /\ graph \subseteq (Dataset \cup {None}) \X Node
      /\ CallOK(c, pc[c], at[c], key[c], env.op[c], result[c])
  BY CallFacts, TypeParts DEF StateInv, Data
<1>4. ASSUME NEW o \in Call, o # c, pc[o] = "ledger"
      PROVE  at[o].ds # d
  BY <1>1, <1>4, LocksApart DEF Locked, Forgetting
<1>5. ASSUME NEW o \in Call, pc'[o] \in {"unmark", "detach", "drop"}, at'[o].drop
      PROVE  \A l \in ledger' : l[1] # at'[o].ds
  BY <1>1, <1>2, <1>5 DEF LedgerInv
<1>6. ASSUME NEW o \in Call, pc'[o] = "write", NEW i \in at'[o].todo, NEW n \in Extracted(o, i)'
      PROVE  <<at'[o].ds, Owner(i, n), n>> \in ledger'
  BY <1>1, <1>2, <1>6 DEF LedgerInv, Extracted
<1>7. ASSUME NEW a \in graph'
      PROVE  \E l \in ledger' : Store(l[1])' = a[1] /\ l[3] = a[2] /\ \A o \in Call : ~Doomed(o, l)'
  <2>1. a \in graph /\ a = <<a[1], a[2]>> /\ ~(a[1] = Store(d) /\ a[2] \in gone)
    BY <1>1, <1>3, <1>7
  <2>2. PICK l \in ledger : Store(l[1]) = a[1] /\ l[3] = a[2] /\ \A o \in Call : ~Doomed(o, l)
    BY <2>1 DEF LedgerInv
  <2>3. \A x : Store(x)' = Store(x)
    BY <1>1 DEF Store
  <2>4. CASE ~(l[1] = d /\ (at[c].drop \/ l[2] \in at[c].links))
    <3>1. ASSUME NEW o \in Call
          PROVE  ~Doomed(o, l)'
      BY <1>1, <1>2, <2>2, <2>4 DEF Doomed
    <3> QED
      BY <1>1, <2>2, <2>3, <3>1
  <2>5. CASE l[1] = d /\ at[c].drop
    <3>1. l[3] \in Owned(d) /\ l[3] \in Node
      BY <1>3, <2>5 DEF Owned
    <3>2. l[3] \in gone
      BY <2>5, <3>1
    <3> QED
      BY <2>1, <2>2, <2>5, <3>2
  <2>6. CASE l[1] = d /\ ~at[c].drop /\ l[2] \in at[c].links
    <3>1. l[3] \notin UniqueNodes(d, l[2])
      BY <2>1, <2>2, <2>6
    <3>2. l[3] \in OwnedBy(d, l[2])
      BY <2>6 DEF OwnedBy
    <3>3. PICK k \in ledger : k[1] = d /\ k[2] # l[2] /\ k[3] = l[3]
      BY <3>1, <3>2 DEF UniqueNodes
    <3>4. k[2] \notin at[c].links
      BY <1>3, <2>6, <3>3 DEF CallOK
    <3>5. ASSUME NEW o \in Call
          PROVE  ~Doomed(o, k)'
      BY <1>1, <1>2, <1>4, <2>6, <3>3, <3>4 DEF Doomed
    <3> QED
      BY <1>1, <2>2, <2>3, <2>6, <3>3, <3>5
  <2> QED
    BY <2>4, <2>5, <2>6
<1> QED
  BY <1>5, <1>6, <1>7 DEF LedgerInv

LEMMA CleanLedgerLedger ==
    ASSUME StateInv, LedgerInv, NEW c \in Call, CleanLedger(c)
    PROVE  LedgerInv'
<1> DEFINE d == at[c].ds
<1>1. /\ pc[c] = "ledger" /\ pc'[c] \in {"unmark", "detach"} /\ at'[c] = at[c] /\ Stay(c)
      /\ ledger' = {l \in ledger : l[1] # d \/ (~at[c].drop /\ l[2] \notin at[c].links)}
      /\ UNCHANGED <<env, graph>>
  BY CleanLedgerOK DEF CleanLedger, Step
<1>2. \A o \in Call \ {c} : pc'[o] = pc[o] /\ at'[o] = at[o]
  BY <1>1 DEF Stay
<1>3. ASSUME NEW o \in Call, o # c, pc[o] = "write"
      PROVE  at[o].ds # d
  BY <1>1, <1>3, LocksApart DEF Locked, Forgetting, Cognifying
<1>4. ASSUME NEW o \in Call, pc'[o] \in {"unmark", "detach", "drop"}, at'[o].drop
      PROVE  \A l \in ledger' : l[1] # at'[o].ds
  <2>1. CASE o = c
    BY <1>1, <1>4, <2>1
  <2>2. CASE o # c
    BY <1>1, <1>2, <1>4, <2>2 DEF LedgerInv
  <2> QED
    BY <2>1, <2>2
<1>5. ASSUME NEW o \in Call, pc'[o] = "write", NEW i \in at'[o].todo, NEW n \in Extracted(o, i)'
      PROVE  <<at'[o].ds, Owner(i, n), n>> \in ledger'
  <2>1. o # c /\ pc[o] = "write" /\ at'[o] = at[o] /\ at[o].ds # d
    BY <1>1, <1>2, <1>3, <1>5
  <2>2. <<at[o].ds, Owner(i, n), n>> \in ledger
    BY <1>5, <2>1 DEF LedgerInv, Extracted
  <2> QED
    BY <1>1, <2>1, <2>2
<1>6. ASSUME NEW a \in graph'
      PROVE  \E l \in ledger' : Store(l[1])' = a[1] /\ l[3] = a[2] /\ \A o \in Call : ~Doomed(o, l)'
  <2>1. PICK l \in ledger : Store(l[1]) = a[1] /\ l[3] = a[2] /\ \A o \in Call : ~Doomed(o, l)
    BY <1>1, <1>6 DEF LedgerInv
  <2>2. Store(l[1])' = Store(l[1])
    BY <1>1 DEF Store
  <2>3. l \in ledger'
    BY <1>1, <2>1 DEF Doomed
  <2>4. \A o \in Call : ~Doomed(o, l)'
    BY <1>1, <1>2, <2>1 DEF Doomed
  <2> QED
    BY <2>1, <2>2, <2>3, <2>4
<1> QED
  BY <1>4, <1>5, <1>6 DEF LedgerInv

\* A dataset that goes has no ledger rows left for its foreign key to take.
LEMMA DropDatasetQuiet ==
    ASSUME StateInv, LedgerInv, NEW c \in Call, DropDataset(c)
    PROVE  Quiet(c)
<1>1. pc[c] = "drop" /\ pc'[c] = "purge" /\ UNCHANGED graph
  BY DropDatasetOK DEF DropDataset
<1>2. ledger' = ledger
  <2>1. CASE at[c].drop
    <3>1. \A l \in ledger : l[1] # at[c].ds
      BY <1>1, <2>1 DEF LedgerInv
    <3> QED
      BY <2>1, <3>1 DEF DropDataset
  <2>2. CASE ~at[c].drop
    BY <2>2 DEF DropDataset
  <2> QED
    BY <2>1, <2>2
<1> QED
  BY <1>1, <1>2 DEF Quiet, memory

LEMMA RecordLedgerLedger ==
    ASSUME StateInv, LedgerInv, NEW c \in Call, RecordLedger(c)
    PROVE  LedgerInv'
<1> DEFINE d == at[c].ds
<1>1. /\ pc[c] = "record" /\ pc'[c] = "write" /\ at'[c] = at[c] /\ Stay(c)
      /\ UNCHANGED <<env, graph>>
  BY RecordLedgerOK DEF RecordLedger, Step
<1>2. \A o \in Call \ {c} : pc'[o] = pc[o] /\ at'[o] = at[o]
  BY <1>1 DEF Stay
<1>3. ASSUME NEW o \in Call, o # c, pc[o] \in {"unmark", "detach", "drop"}
      PROVE  at[o].ds # d
  BY <1>1, <1>3, LocksApart DEF Locked, Forgetting, Cognifying
<1>4. ASSUME NEW o \in Call, pc'[o] \in {"unmark", "detach", "drop"}, at'[o].drop
      PROVE  \A l \in ledger' : l[1] # at'[o].ds
  <2>1. o # c /\ pc'[o] = pc[o] /\ at'[o] = at[o] /\ at[o].ds # d
    BY <1>1, <1>2, <1>3, <1>4
  <2>2. \A l \in ledger : l[1] # at[o].ds
    BY <1>4, <2>1 DEF LedgerInv
  <2>3. \A l \in ledger' : l \in ledger \/ l[1] = d
    BY RecordedRows
  <2> QED
    BY <2>1, <2>2, <2>3
<1>5. ASSUME NEW o \in Call, pc'[o] = "write", NEW i \in at'[o].todo, NEW n \in Extracted(o, i)'
      PROVE  <<at'[o].ds, Owner(i, n), n>> \in ledger'
  <2>1. CASE o = c
    <3>1. i \in at[c].todo /\ n \in Extracted(c, i)
      BY <1>1, <1>5, <2>1 DEF Extracted
    <3> QED
      BY <1>1, <2>1, <3>1, RecordedRows
  <2>2. CASE o # c
    BY <1>1, <1>2, <1>5, <2>2, RecordedRows DEF LedgerInv, Extracted
  <2> QED
    BY <2>1, <2>2
<1>6. ASSUME NEW a \in graph'
      PROVE  \E l \in ledger' : Store(l[1])' = a[1] /\ l[3] = a[2] /\ \A o \in Call : ~Doomed(o, l)'
  <2>1. PICK l \in ledger : Store(l[1]) = a[1] /\ l[3] = a[2] /\ \A o \in Call : ~Doomed(o, l)
    BY <1>1, <1>6 DEF LedgerInv
  <2>2. Store(l[1])' = Store(l[1]) /\ l \in ledger'
    BY <1>1, RecordedRows DEF Store
  <2>3. \A o \in Call : ~Doomed(o, l)'
    BY <1>1, <1>2, <2>1 DEF Doomed
  <2> QED
    BY <2>1, <2>2, <2>3
<1> QED
  BY <1>4, <1>5, <1>6 DEF LedgerInv

LEMMA WriteGraphLedger ==
    ASSUME StateInv, LedgerInv, NEW c \in Call, WriteGraph(c)
    PROVE  LedgerInv'
<1> DEFINE d == at[c].ds
           N == UNION {Extracted(c, i) : i \in at[c].todo}
<1>1. /\ pc[c] = "write" /\ pc'[c] = "mark" /\ at'[c] = at[c] /\ Stay(c)
      /\ graph' = graph \cup ({Store(d)} \X N) /\ UNCHANGED <<env, ledger>>
  BY WriteGraphOK DEF WriteGraph, Step
<1>2. \A o \in Call \ {c} : pc'[o] = pc[o] /\ at'[o] = at[o]
  BY <1>1 DEF Stay
<1>3. ASSUME NEW o \in Call, pc'[o] \in {"unmark", "detach", "drop"}, at'[o].drop
      PROVE  \A l \in ledger' : l[1] # at'[o].ds
  BY <1>1, <1>2, <1>3 DEF LedgerInv
<1>4. ASSUME NEW o \in Call, pc'[o] = "write", NEW i \in at'[o].todo, NEW n \in Extracted(o, i)'
      PROVE  <<at'[o].ds, Owner(i, n), n>> \in ledger'
  BY <1>1, <1>2, <1>4 DEF LedgerInv, Extracted
<1>5. ASSUME NEW a \in graph'
      PROVE  \E l \in ledger' : Store(l[1])' = a[1] /\ l[3] = a[2] /\ \A o \in Call : ~Doomed(o, l)'
  <2>1. \A x : Store(x)' = Store(x)
    BY <1>1 DEF Store
  <2>2. CASE a \in graph
    <3>1. PICK l \in ledger : Store(l[1]) = a[1] /\ l[3] = a[2] /\ \A o \in Call : ~Doomed(o, l)
      BY <2>2 DEF LedgerInv
    <3>2. \A o \in Call : ~Doomed(o, l)'
      BY <1>1, <1>2, <3>1 DEF Doomed
    <3> QED
      BY <1>1, <2>1, <3>1, <3>2
  <2>3. CASE a \in {Store(d)} \X N
    <3>1. a[1] = Store(d) /\ a[2] \in N
      BY <2>3
    <3>2. PICK i \in at[c].todo : a[2] \in Extracted(c, i)
      BY <3>1
    <3>3. <<d, Owner(i, a[2]), a[2]>> \in ledger
      BY <1>1, <3>2 DEF LedgerInv
    <3>4. ASSUME NEW o \in Call
          PROVE  ~Doomed(o, <<d, Owner(i, a[2]), a[2]>>)'
      <4>1. pc'[o] = "ledger" => o # c /\ pc[o] = "ledger" /\ at'[o].ds # d
        BY <1>1, <1>2, LocksApart DEF Locked, Forgetting, Cognifying
      <4> QED
        BY <1>1, <1>2, <4>1 DEF Doomed
    <3> QED
      BY <1>1, <2>1, <3>1, <3>3, <3>4
  <2> QED
    BY <1>1, <1>5, <2>2, <2>3
<1> QED
  BY <1>3, <1>4, <1>5 DEF LedgerInv

\* The steps that leave the memory alone.
LEMMA QuietSteps ==
    ASSUME StateInv, LedgerInv, NEW c \in Call, Act(c),
           ~CleanGraph(c), ~CleanLedger(c), ~RecordLedger(c), ~WriteGraph(c)
    PROVE  Quiet(c)
<1>1. CASE Begin(c)
  BY <1>1, BeginTo DEF Quiet
<1>2. CASE Hold(c)
  BY <1>2, HoldTo DEF Quiet
<1>3. CASE Resolve(c)
  BY <1>3, ResolveOK DEF Quiet
<1>4. CASE Clear(c)
  BY <1>4, ClearOK DEF Quiet
<1>5. CASE Unmark(c)
  BY <1>5, UnmarkOK DEF Quiet
<1>6. CASE Detach(c)
  <2>1. pc[c] = "detach"
    BY <1>6 DEF Detach
  <2> QED
    BY <1>6, <2>1, DetachOK DEF Quiet
<1>7. CASE DropDataset(c)
  BY <1>7, DropDatasetQuiet
<1>8. CASE Purge(c)
  BY <1>8, PurgeOK DEF Quiet
<1>9. CASE Erase(c)
  BY <1>9, EraseOK DEF Quiet
<1>10. CASE CountReferences(c)
  BY <1>10, CountOK DEF Quiet
<1>11. CASE Unlink(c)
  BY <1>11, UnlinkOK DEF Quiet, Unlink
<1>12. CASE ForgetFails(c)
  BY <1>12, ForgetFailsOK DEF Quiet
<1>13. CASE Add(c)
  <2>1. CASE StoreFile(c)
    BY <2>1, StoreFileOK DEF Quiet
  <2>2. CASE FindDataset(c)
    BY <2>2, FindDatasetOK DEF Quiet
  <2>3. CASE Grant(c)
    BY <2>3, GrantOK DEF Quiet
  <2>4. CASE LockContent(c)
    BY <2>4, LockContentOK DEF Quiet, LockContent
  <2>5. CASE Lookup(c)
    BY <2>5, LookupOK DEF Quiet
  <2>6. CASE Refresh(c)
    BY <2>6, RefreshOK DEF Quiet
  <2>7. CASE CreateRow(c)
    BY <2>7, CreateRowOK DEF Quiet
  <2> QED
    BY <1>13, <2>1, <2>2, <2>3, <2>4, <2>5, <2>6, <2>7 DEF Add
<1>14. CASE List(c)
  BY <1>14, ListOK DEF Quiet
<1>15. CASE Filter(c)
  BY <1>15, FilterOK DEF Quiet
<1>16. CASE Read(c)
  BY <1>16, ReadOK DEF Quiet
<1>17. CASE MarkComplete(c)
  BY <1>17, MarkCompleteOK DEF Quiet
<1> QED
  BY <1>1, <1>2, <1>3, <1>4, <1>5, <1>6, <1>7, <1>8, <1>9, <1>10, <1>11, <1>12, <1>13, <1>14,
     <1>15, <1>16, <1>17 DEF Act, Forget, Cognify

LEMMA LedgerInit == Init => LedgerInv
<1> SUFFICES ASSUME Init PROVE LedgerInv
  OBVIOUS
<1>1. \A c \in Call : pc[c] \in {"new", "over"}
  BY DEF Init
<1>2. \A a \in graph : \E l \in ledger : Store(l[1]) = a[1] /\ l[3] = a[2]
  <2>1. graph = {<<Store(l[1]), l[3]>> : l \in ledger}
    BY DEF Init
  <2> QED
    BY <2>1
<1> QED
  BY <1>1, <1>2 DEF LedgerInv, Doomed

LEMMA LedgerStep == StateInv /\ LedgerInv /\ [Next]_vars => LedgerInv'
<1> SUFFICES ASSUME StateInv, LedgerInv, [Next]_vars PROVE LedgerInv'
  OBVIOUS
<1>1. ASSUME NEW c \in Call, Act(c)
      PROVE  LedgerInv'
  BY <1>1, ActOK, QuietSteps, QuietLedger, CleanGraphLedger, CleanLedgerLedger,
     RecordLedgerLedger, WriteGraphLedger
<1>2. CASE UNCHANGED vars
  BY <1>2 DEF vars, memory, rows, LedgerInv, Doomed, Extracted, Store
<1> QED
  BY <1>1, <1>2, Steps

\* Whatever step of a forget or a cognify fails, and whatever other calls run, every
\* node in a graph is named by a ledger row, so a retry of the delete finds it: the
\* graph is cleaned before the ledger, and written after it.
THEOREM LedgerAlwaysCovers == Spec => []LedgerCoversGraph
<1>1. LedgerInv => LedgerCoversGraph
  BY DEF LedgerInv, LedgerCoversGraph
<1>2. Spec => []LedgerInv
  BY LedgerInit, LedgerStep, StateInvariant, PTL DEF Spec
<1> QED
  BY <1>1, <1>2, PTL

-----------------------------------------------------------------------------
(* A dataset that others see has its grants *)

\* What a step does to the datasets and the grants.
Finds(c) ==
    \/ pc[c] # "grant" /\ granted' = granted /\ datasets' \subseteq datasets
    \/ /\ pc[c] # "grant" /\ pc'[c] = "grant" /\ at'[c].ds = at[c].ds
       /\ granted' = granted /\ datasets' = datasets \cup {at[c].ds}
    \/ pc[c] = "grant" /\ datasets' = datasets /\ granted' = granted \cup {at[c].ds}
    \/ env.fails

LEMMA FindSteps ==
    ASSUME StateInv, NEW c \in Call, Act(c)
    PROVE  Finds(c)
<1>1. CASE Begin(c)
  BY <1>1, BeginTo DEF Finds, Begin, rows
<1>2. CASE Hold(c)
  BY <1>2, HoldTo DEF Finds, rows
<1>3. CASE Forget(c)
  <2>1. pc[c] # "grant" \/ env.fails
    BY <1>3 DEF Forget, Resolve, Clear, CleanGraph, CleanLedger, Unmark, Detach, DropDataset,
                Purge, Erase, CountReferences, Unlink, ForgetFails
  <2>2. granted' = granted /\ datasets' \subseteq datasets
    BY <1>3, ResolveOK, ClearOK, UnmarkOK, DetachOK, DropDatasetOK, PurgeOK, EraseOK, CountOK,
       ForgetFailsOK DEF Forget, CleanGraph, CleanLedger, Unlink, rows
  <2> QED
    BY <2>1, <2>2 DEF Finds
<1>4. CASE FindDataset(c)
  BY <1>4, FindDatasetOK DEF Finds, FindDataset
<1>5. CASE Grant(c)
  BY <1>5, GrantOK DEF Finds, Grant
<1>6. CASE StoreFile(c) \/ LockContent(c) \/ Lookup(c) \/ Refresh(c) \/ CreateRow(c)
  BY <1>6, StoreFileOK, LookupOK, RefreshOK, CreateRowOK
     DEF Finds, StoreFile, LockContent, Lookup, Refresh, CreateRow, rows
<1>7. CASE Cognify(c)
  BY <1>7, ListOK, FilterOK, ReadOK, MarkCompleteOK
     DEF Finds, Cognify, List, Filter, Read, RecordLedger, WriteGraph, MarkComplete, rows
<1> QED
  BY <1>1, <1>2, <1>3, <1>4, <1>5, <1>6, <1>7 DEF Act, Add

LEMMA SeenStep == StateInv /\ SeenInv /\ [Next]_vars => SeenInv'
<1> SUFFICES ASSUME StateInv, SeenInv, [Next]_vars PROVE SeenInv'
  OBVIOUS
<1>1. ASSUME NEW c \in Call, Act(c)
      PROVE  SeenInv'
  <2>1. Finds(c) /\ env' = env /\ \A o \in Call \ {c} : pc'[o] = pc[o] /\ at'[o] = at[o]
    BY <1>1, FindSteps, ActOK DEF Stay
  <2>2. ASSUME ~env.fails, NEW d \in datasets'
        PROVE  d \in granted' \/ \E o \in Call : pc'[o] = "grant" /\ at'[o].ds = d
    <3>1. CASE d \in datasets
      <4>1. d \in granted \/ \E o \in Call : pc[o] = "grant" /\ at[o].ds = d
        BY <2>2, <3>1 DEF SeenInv
      <4> QED
        BY <2>1, <2>2, <4>1 DEF Finds
    <3>2. CASE d \notin datasets
      BY <2>1, <2>2, <3>2 DEF Finds
    <3> QED
      BY <3>1, <3>2
  <2> QED
    BY <2>1, <2>2 DEF SeenInv
<1>2. CASE UNCHANGED vars
  BY <1>2 DEF vars, rows, SeenInv
<1> QED
  BY <1>1, <1>2, Steps

\* A dataset whose lock nobody holds has its grants, unless granting can fail: an
\* add keeps the lock from the creation of the dataset to the grant.
THEOREM SeenAreGranted == Spec => []SeenIsGranted
<1>1. Init => SeenInv
  BY DEF Init, SeenInv
<1>2. StateInv /\ SeenInv => SeenIsGranted
  <2> SUFFICES ASSUME StateInv, SeenInv, NEW d \in datasets, holder[d] = None, ~env.fails
               PROVE  d \in granted
    BY DEF SeenIsGranted
  <2>1. d \in Dataset /\ Control
    BY TypeParts DEF StateInv, Data
  <2>2. ASSUME NEW c \in Call, pc[c] = "grant", at[c].ds = d
        PROVE  FALSE
    <3>1. holder[d] = c
      BY <2>1, <2>2 DEF Control, Locked
    <3> QED
      BY <3>1, Apart
  <2> QED
    BY <2>2 DEF SeenInv
<1> QED
  BY <1>1, <1>2, SeenStep, StateInvariant, PTL DEF Spec

-----------------------------------------------------------------------------
(* A content has one row *)

\* No row is new, none moves to another dataset, and none changes its content.
Shrinks ==
    \A i \in Id : row'[i] # None => /\ row[i] # None /\ row'[i].content = row[i].content
                                    /\ row'[i].ds \in {row[i].ds, None}

LEMMA ShrinkSteps ==
    ASSUME StateInv, NEW c \in Call, Act(c), env.op[c].kind # "update", ~CreateRow(c)
    PROVE  Shrinks /\ (pc'[c] = "create" => Lookup(c))
<1>1. (UNCHANGED rows => Shrinks) /\ (UNCHANGED row => Shrinks)
  BY DEF Shrinks, rows
<1>2. CASE Begin(c)
  BY <1>1, <1>2, BeginTo
<1>3. CASE Hold(c)
  BY <1>1, <1>3, HoldTo
<1>4. CASE Resolve(c) \/ Purge(c) \/ CountReferences(c) \/ ForgetFails(c)
  <2>1. CASE CountReferences(c)
    BY <1>1, <2>1, CountOK
  <2> QED
    BY <1>1, <1>4, <2>1, ResolveOK, PurgeOK, ForgetFailsOK
<1>5. CASE CleanGraph(c) \/ CleanLedger(c)
  BY <1>1, <1>5, CleanGraphOK, CleanLedgerOK DEF CleanGraph, CleanLedger
<1>6. CASE DropDataset(c) \/ Unlink(c)
  BY <1>1, <1>6, DropDatasetOK, UnlinkOK DEF Unlink
<1>7. CASE Clear(c)
  BY <1>7, ClearOK DEF Shrinks
<1>8. CASE Unmark(c)
  BY <1>8, UnmarkOK DEF Shrinks
<1>9. CASE Detach(c)
  BY <1>9, DetachOK DEF Shrinks
<1>10. CASE Erase(c)
  BY <1>10, EraseOK DEF Shrinks
<1>11. CASE StoreFile(c)
  BY <1>1, <1>11, StoreFileOK
<1>12. CASE FindDataset(c)
  BY <1>1, <1>12, FindDatasetOK
<1>13. CASE Grant(c)
  BY <1>1, <1>13, GrantOK
<1>14. CASE LockContent(c)
  BY <1>1, <1>14, LockContentOK DEF LockContent
<1>15. CASE Lookup(c)
  BY <1>1, <1>15, LookupOK
<1>16. CASE Refresh(c)
  <2>1. env.op[c].kind = "add"
    <3>1. CallOK(c, "refresh", at[c], key[c], env.op[c], result[c])
      BY <1>16, CallFacts DEF Refresh
    <3> QED
      BY <3>1 DEF CallOK, Adding
  <2> QED
    BY <1>1, <1>16, <2>1, RefreshOK DEF Shrinks, Present
<1>17. CASE List(c) \/ Filter(c) \/ Read(c)
  BY <1>1, <1>17, ListOK, FilterOK, ReadOK
<1>18. CASE RecordLedger(c) \/ WriteGraph(c)
  BY <1>1, <1>18, RecordLedgerOK, WriteGraphOK DEF RecordLedger, WriteGraph
<1>19. CASE MarkComplete(c)
  BY <1>19, MarkCompleteOK DEF Shrinks
<1> QED
  BY <1>2, <1>3, <1>4, <1>5, <1>6, <1>7, <1>8, <1>9, <1>10, <1>11, <1>12, <1>13, <1>14, <1>15,
     <1>16, <1>17, <1>18, <1>19 DEF Act, Forget, Add, Cognify

LEMMA ShrinkMembers ==
    ASSUME Shrinks, NEW d \in Dataset, NEW i \in Members(d)'
    PROVE  i \in Members(d) /\ row'[i].content = row[i].content
BY Apart DEF Shrinks, Members, Present

\* The call that creates a row is an add with its content lock, and the row is named
\* after it; no other call is about to create a row of that content.
LEMMA Creating ==
    ASSUME StateInv, NEW c \in Call, pc[c] = "create", env.op[c].kind # "update"
    PROVE  /\ at[c].id = c /\ at[c].ds \in Dataset
           /\ \A o \in Call : (/\ o # c /\ pc[o] = "create" /\ env.op[o].kind # "update"
                               /\ at[o].ds = at[c].ds)
                                 => env.op[o].content # env.op[c].content
<1>1. Control /\ KeysApart
  BY TypeParts DEF StateInv
<1>2. ASSUME NEW o \in Call, pc[o] = "create", env.op[o].kind # "update"
      PROVE  key[o] = <<at[o].ds, env.op[o].content>> /\ key[o] # None /\ env.op[o].kind = "add"
  <2>1. CallOK(o, "create", at[o], key[o], env.op[o], result[o])
    BY <1>2, CallFacts
  <2>2. key[o] # None
    BY <1>1, <1>2 DEF Control, Keyed
  <2> QED
    BY <1>2, <2>1, <2>2 DEF CallOK, Adding
<1>3. at[c].id = c
  <2>1. CallOK(c, "create", at[c], key[c], env.op[c], result[c])
    BY CallFacts
  <2> QED
    BY <1>2, <2>1 DEF CallOK
<1>4. at[c].ds \in Dataset
  BY CallFacts, AtFields
<1>5. ASSUME NEW o \in Call, o # c, pc[o] = "create", env.op[o].kind # "update",
             at[o].ds = at[c].ds, env.op[o].content = env.op[c].content
      PROVE  FALSE
  <2>1. key[c] = key[o] /\ key[c] # None
    BY <1>2, <1>5
  <2> QED
    BY <1>1, <1>5, <2>1 DEF KeysApart
<1> QED
  BY <1>3, <1>4, <1>5

LEMMA ContentStep == StateInv /\ ContentInv /\ [Next]_vars => ContentInv'
<1> SUFFICES ASSUME StateInv, ContentInv, [Next]_vars, OnlyAdds'
             PROVE  /\ \A d \in Dataset : \A i, j \in Members(d)' :
                         row'[i].content = row'[j].content => i = j
                    /\ \A o \in Call : pc'[o] = "create"
                         => \A i \in Id : row'[i] # None /\ row'[i].ds = at'[o].ds
                                            => row'[i].content # env'.op[o].content
  BY DEF ContentInv, Members, Present
<1>1. CASE UNCHANGED vars
  BY <1>1 DEF vars, rows, ContentInv, OnlyAdds, Members, Present
<1>2. ASSUME NEW c \in Call, Act(c)
      PROVE  /\ \A d \in Dataset : \A i, j \in Members(d)' :
                  row'[i].content = row'[j].content => i = j
             /\ \A o \in Call : pc'[o] = "create"
                  => \A i \in Id : row'[i] # None /\ row'[i].ds = at'[o].ds
                                     => row'[i].content # env'.op[o].content
  <2>1. env' = env /\ Stay(c) /\ StateInv' /\ \A o \in Call \ {c} : pc'[o] = pc[o] /\ at'[o] = at[o]
    BY <1>2, ActOK DEF Stay
  <2>2. OnlyAdds /\ \A o \in Call : env.op[o].kind # "update"
    BY <2>1 DEF OnlyAdds
  <2>3. /\ \A d \in Dataset : \A i, j \in Members(d) : row[i].content = row[j].content => i = j
        /\ \A o \in Call : pc[o] = "create"
             => \A i \in Members(at[o].ds) : row[i].content # env.op[o].content
    BY <2>2 DEF ContentInv
  <2>4. \A o \in Call : at[o].ds \in Dataset /\ at'[o].ds \in Dataset
    <3>1. \A o \in Call : at[o].ds \in Dataset
      BY CallFacts, AtFields
    <3>2. at' \in [Call -> At]
      BY <2>1 DEF StateInv, TypeOK
    <3> QED
      BY <3>1, <3>2, AtFields
  <2>5. CASE ~CreateRow(c)
    <3>1. Shrinks /\ (pc'[c] = "create" => Lookup(c))
      BY <1>2, <2>2, <2>5, ShrinkSteps
    <3>2. ASSUME NEW d \in Dataset, NEW i \in Members(d)', NEW j \in Members(d)',
                 row'[i].content = row'[j].content
          PROVE  i = j
      BY <2>3, <3>1, <3>2, ShrinkMembers
    <3>3. ASSUME NEW o \in Call, pc'[o] = "create", NEW i \in Id, row'[i] # None, row'[i].ds = at'[o].ds
          PROVE  row'[i].content # env'.op[o].content
      <4>1. i \in Members(at'[o].ds) /\ row'[i].content = row[i].content
        BY <2>4, <3>1, <3>3, Apart DEF Shrinks, Members, Present
      <4>2. CASE o # c
        BY <2>1, <2>3, <3>3, <4>1, <4>2
      <4>3. CASE o = c
        <5>1. Lookup(c) /\ pc[c] = "lookup"
          BY <3>1, <3>3, <4>3 DEF Lookup
        <5>2. env.op[c].kind = "add"
          <6>1. CallOK(c, "lookup", at[c], key[c], env.op[c], result[c])
            BY <5>1, CallFacts
          <6> QED
            BY <2>2, <6>1 DEF CallOK, Adding
        <5>3. /\ at'[c].ds = at[c].ds
              /\ \A k \in Members(at[c].ds) : row[k].content # env.op[c].content
          BY <3>3, <4>3, <5>1, <5>2, LookupOK
        <5> QED
          BY <2>1, <4>1, <4>3, <5>3
      <4> QED
        BY <4>2, <4>3
    <3> QED
      BY <3>2, <3>3
  <2>6. CASE CreateRow(c)
    <3> DEFINE d0 == at[c].ds
               x == env.op[c].content
    <3>1. pc[c] = "create" /\ pc'[c] # "create"
      BY <2>6, CreateRowOK DEF CreateRow
    <3>2. /\ at[c].id = c /\ c \in Id
          /\ \A o \in Call : o # c /\ pc[o] = "create" /\ at[o].ds = d0 => env.op[o].content # x
      BY <2>2, <3>1, Creating, Apart
    <3>3. /\ row'[c] # None /\ row'[c].ds = d0 /\ row'[c].content = x
          /\ \A j \in Id \ {c} : row'[j] = row[j]
      BY <2>6, <3>2, CreateRowOK, Apart
    <3>4. ASSUME NEW d, NEW j \in Members(d)'
          PROVE  IF j = c THEN d = d0 /\ row'[j].content = x
                          ELSE j \in Members(d) /\ row'[j].content = row[j].content
      BY <3>3 DEF Members, Present
    <3>5. ASSUME NEW d \in Dataset, NEW i \in Members(d)', NEW j \in Members(d)',
                 row'[i].content = row'[j].content
          PROVE  i = j
      <4>1. CASE i # c /\ j # c
        BY <2>3, <3>4, <3>5, <4>1
      <4>2. CASE i = c /\ j # c
        BY <2>3, <3>1, <3>4, <3>5, <4>2
      <4>3. CASE i # c /\ j = c
        BY <2>3, <3>1, <3>4, <3>5, <4>3
      <4> QED
        BY <4>1, <4>2, <4>3
    <3>6. ASSUME NEW o \in Call, pc'[o] = "create", NEW i \in Id, row'[i] # None, row'[i].ds = at'[o].ds
          PROVE  row'[i].content # env'.op[o].content
      <4>1. o # c /\ pc[o] = "create" /\ at'[o] = at[o] /\ env'.op[o] = env.op[o]
        BY <2>1, <3>1, <3>6
      <4>2. CASE i = c
        BY <3>2, <3>3, <3>6, <4>1, <4>2
      <4>3. CASE i # c
        <5>1. i \in Members(at[o].ds) /\ row'[i].content = row[i].content
          BY <3>3, <3>6, <4>1, <4>3 DEF Members, Present
        <5> QED
          BY <2>3, <4>1, <5>1
      <4> QED
        BY <4>2, <4>3
    <3> QED
      BY <3>5, <3>6
  <2> QED
    BY <2>5, <2>6
<1> QED
  BY <1>1, <1>2, Steps

LEMMA ContentInit == Init => ContentInv
<1> SUFFICES ASSUME Init, OnlyAdds
             PROVE  /\ \A d \in Dataset : \A i, j \in Members(d) : row[i].content = row[j].content => i = j
                    /\ \A c \in Call : pc[c] = "create"
                         => \A i \in Members(at[c].ds) : row[i].content # env.op[c].content
  BY DEF ContentInv
<1>1. \A c \in Call : pc[c] # "create"
  BY DEF Init
<1>2. ASSUME NEW d \in Dataset, NEW i \in Members(d), NEW j \in Members(d),
             row[i].content = row[j].content
      PROVE  i = j
  <2>1. /\ i \in Item /\ row[i] = env.rows[i] /\ row[i] # None /\ row[i].ds = d
        /\ j \in Item /\ row[j] = env.rows[j] /\ row[j] # None /\ row[j].ds = d
    BY StartRows DEF Members, Present
  <2> QED
    BY <1>2, <2>1 DEF OnlyAdds
<1> QED
  BY <1>1, <1>2

\* Any number of concurrent adds of one content to a dataset make one row of it,
\* whatever forgets and cognifies run beside them.
THEOREM ContentHasOneRow == Spec => []OneRowPerContent
<1>1. ContentInv => OneRowPerContent
  BY DEF ContentInv, OneRowPerContent, OnlyAdds
<1> QED
  BY <1>1, ContentInit, ContentStep, StateInvariant, PTL DEF Spec

-----------------------------------------------------------------------------
(* No row names a removed file *)

Purging == {"erase", "count", "unlink"}

\* A call that has its file and may still write its row.
Stored(c) == pc[c] \in Adding \ {"store"} \/ (pc[c] = "hold" /\ at[c].job = "add")

\* What a step does to the files and to the rows that name them: a row keeps its file,
\* or it takes the file of the call, which is there and which no row had.
FilesMove(c) ==
    /\ \A i \in Id : row'[i] # None =>
         \/ row[i] # None /\ row'[i].file = row[i].file
         \/ row'[i].file = c /\ Stored(c) /\ ~Unwritten(c)'
    /\ Unwritten(c)' => Unwritten(c)
    /\ files \subseteq files'
    /\ Stored(c)' => c \in files'
    /\ pc'[c] \in Purging => \/ pc[c] \in Purging /\ at'[c] = at[c]
                             \/ /\ at'[c].rows = row /\ at'[c].id \in Id /\ row[at'[c].id] # None
    /\ pc'[c] = "unlink" => UNCHANGED row /\ at'[c] = at[c] /\ ~Referenced(FileInHand(c))

LEMMA StoredUnwritten ==
    ASSUME StateInv, NEW c \in Call, Stored(c)
    PROVE  Unwritten(c)
BY DEF Stored, Unwritten, Adding

LEMMA FilesMoved ==
    ASSUME StateInv, FilesInv, NEW c \in Call, Stay(c), FilesMove(c)
    PROVE  FilesInv'
<1>1. \A o \in Call \ {c} : pc'[o] = pc[o] /\ at'[o] = at[o]
  BY DEF Stay
<1>2. \A o \in Call \ {c} : (Unwritten(o)' <=> Unwritten(o)) /\ (Stored(o)' <=> Stored(o))
                            /\ FileInHand(o)' = FileInHand(o)
  BY <1>1 DEF Unwritten, Stored, FileInHand
<1>3. /\ \A o \in Call : Unwritten(o) => \A i \in Id : row[i] # None => row[i].file # o
      /\ \A o, p \in Call : Unwritten(o) /\ pc[p] \in Purging => FileInHand(p) # o
      /\ \A o \in Call : Stored(o) => o \in files
      /\ \A o \in Call : pc[o] = "unlink" => \A i \in Id : row[i] # None => row[i].file # FileInHand(o)
      /\ \A i \in Id : row[i] # None => row[i].file \in files
  BY DEF FilesInv, Stored, Present, Referenced, NoDanglingFile, Purging
<1>4. ASSUME NEW o \in Call, Unwritten(o)', NEW i \in Id, row'[i] # None
      PROVE  row'[i].file # o
  <2>1. Unwritten(o)
    BY <1>2, <1>4 DEF FilesMove
  <2>2. CASE row[i] # None /\ row'[i].file = row[i].file
    BY <1>3, <2>1, <2>2
  <2>3. CASE row'[i].file = c /\ ~Unwritten(c)'
    BY <1>4, <2>3
  <2> QED
    BY <1>4, <2>2, <2>3 DEF FilesMove
<1>5. ASSUME NEW o \in Call, Unwritten(o)', NEW p \in Call, pc'[p] \in Purging
      PROVE  FileInHand(p)' # o
  <2>1. Unwritten(o)
    BY <1>2, <1>5 DEF FilesMove
  <2>2. CASE p # c
    BY <1>1, <1>2, <1>3, <1>5, <2>1, <2>2
  <2>3. CASE p = c /\ pc[c] \in Purging /\ at'[c] = at[c]
    BY <1>3, <2>1, <2>3 DEF FileInHand
  <2>4. CASE p = c /\ at'[c].rows = row /\ at'[c].id \in Id /\ row[at'[c].id] # None
    BY <1>3, <2>1, <2>4 DEF FileInHand
  <2> QED
    BY <1>5, <2>2, <2>3, <2>4 DEF FilesMove
<1>6. ASSUME NEW o \in Call, Stored(o)'
      PROVE  o \in files'
  BY <1>2, <1>3, <1>6 DEF FilesMove
<1>7. ASSUME NEW o \in Call, pc'[o] = "unlink", NEW i \in Id, row'[i] # None
      PROVE  row'[i].file # FileInHand(o)'
  <2>1. CASE o = c
    BY <1>7, <2>1 DEF FilesMove, Referenced, Present, FileInHand
  <2>2. CASE o # c
    <3>1. pc[o] = "unlink" /\ FileInHand(o)' = FileInHand(o)
      BY <1>1, <1>2, <1>7, <2>2
    <3>2. Stored(c) => FileInHand(o) # c
      BY <1>3, <3>1, StoredUnwritten DEF Purging
    <3> QED
      BY <1>3, <1>7, <3>1, <3>2 DEF FilesMove
  <2> QED
    BY <2>1, <2>2
<1>8. ASSUME NEW i \in Id, row'[i] # None
      PROVE  row'[i].file \in files'
  BY <1>3, <1>8 DEF FilesMove
<1> QED
  BY <1>4, <1>5, <1>6, <1>7, <1>8
     DEF FilesInv, Stored, Present, Referenced, NoDanglingFile, Purging

\* A file that is removed is named by no row, and is not one that a call has stored.
LEMMA UnlinkFiles ==
    ASSUME StateInv, FilesInv, NEW c \in Call, Unlink(c)
    PROVE  FilesInv'
<1> DEFINE f == FileInHand(c)
<1>1. /\ pc[c] = "unlink" /\ pc'[c] = "purge" /\ files' = files \ {f} /\ UNCHANGED row /\ Stay(c)
  BY UnlinkOK DEF Unlink
<1>2. \A o \in Call \ {c} : pc'[o] = pc[o] /\ at'[o] = at[o]
  BY <1>1 DEF Stay
<1>3. \A o \in Call \ {c} : (Unwritten(o)' <=> Unwritten(o)) /\ (Stored(o)' <=> Stored(o))
                            /\ FileInHand(o)' = FileInHand(o)
  BY <1>2 DEF Unwritten, Stored, FileInHand
<1>4. Unwritten(c) /\ ~Stored(c)'
  BY <1>1 DEF Unwritten, Stored, Forgetting, Adding
<1>5. /\ \A o \in Call : Unwritten(o) => \A i \in Id : row[i] # None => row[i].file # o
      /\ \A o, p \in Call : Unwritten(o) /\ pc[p] \in Purging => FileInHand(p) # o
      /\ \A o \in Call : Stored(o) => o \in files
      /\ \A o \in Call : pc[o] = "unlink" => \A i \in Id : row[i] # None => row[i].file # FileInHand(o)
      /\ \A i \in Id : row[i] # None => row[i].file \in files
  BY DEF FilesInv, Stored, Present, Referenced, NoDanglingFile, Purging
<1>6. ASSUME NEW o \in Call, Unwritten(o)'
      PROVE  /\ \A i \in Id : row'[i] # None => row'[i].file # o
             /\ \A p \in Call : pc'[p] \in Purging => FileInHand(p)' # o
  <2>1. Unwritten(o)
    BY <1>3, <1>4, <1>6
  <2>2. \A p \in Call : pc'[p] \in Purging => p # c /\ pc[p] \in Purging
    BY <1>1, <1>2 DEF Purging
  <2> QED
    BY <1>1, <1>3, <1>5, <2>1, <2>2
<1>7. ASSUME NEW o \in Call, Stored(o)'
      PROVE  o \in files'
  <2>1. o # c /\ Stored(o) /\ Unwritten(o)
    BY <1>3, <1>4, <1>7, StoredUnwritten
  <2>2. f # o
    BY <1>1, <1>5, <2>1 DEF Purging
  <2> QED
    BY <1>1, <1>5, <2>1, <2>2
<1>8. ASSUME NEW o \in Call, pc'[o] = "unlink", NEW i \in Id, row'[i] # None
      PROVE  row'[i].file # FileInHand(o)'
  <2>1. o # c /\ pc[o] = "unlink"
    BY <1>1, <1>2, <1>8
  <2> QED
    BY <1>1, <1>3, <1>5, <1>8, <2>1
<1>9. ASSUME NEW i \in Id, row'[i] # None
      PROVE  row'[i].file \in files'
  BY <1>1, <1>5, <1>9
<1> QED
  BY <1>6, <1>7, <1>8, <1>9 DEF FilesInv, Stored, Present, Referenced, NoDanglingFile, Purging

\* The other steps.
LEMMA FilesSteps ==
    ASSUME StateInv, FilesInv, NEW c \in Call, Act(c), ~Unlink(c)
    PROVE  FilesMove(c)
<1> DEFINE Kept == \A i \in Id : row'[i] # None => row[i] # None /\ row'[i].file = row[i].file
<1>1. (UNCHANGED rows => Kept) /\ (UNCHANGED row => Kept) /\ (UNCHANGED rows => files' = files)
  BY DEF rows
<1>2. Stored(c) => c \in files
  BY DEF FilesInv, Stored
<1>3. CallOK(c, pc'[c], at'[c], key'[c], env'.op[c], result'[c])
  <2>1. StateInv'
    BY ActOK
  <2> QED
    BY <2>1 DEF StateInv, CallsOK
<1> HIDE DEF Kept
<1>4. ASSUME Kept, files \subseteq files', Unwritten(c)' => Unwritten(c), Stored(c)' => c \in files',
             pc'[c] \notin Purging
      PROVE  FilesMove(c)
  BY <1>4 DEF FilesMove, Kept, Purging
<1>5. CASE Begin(c)
  <2>1. pc[c] = "new" /\ Unwritten(c)
    BY <1>5 DEF Begin, Unwritten
  <2>2. ~Stored(c)' /\ pc'[c] \notin Purging
    BY <1>5, BeginTo DEF Stored, Adding, Purging
  <2> QED
    BY <1>1, <1>4, <1>5, <2>1, <2>2, BeginTo
<1>6. CASE Hold(c)
  <2>1. /\ pc[c] = "hold" /\ pc'[c] \in {"resolve", "dataset", "filter"} /\ at'[c] = at[c]
        /\ UNCHANGED rows
    BY <1>6, HoldTo
  <2>2. /\ pc'[c] = "resolve" => at[c].job = "forget"
        /\ pc'[c] = "dataset" => at[c].job = "add"
    BY <1>3, <2>1 DEF CallOK, Forgetting, Adding
  <2>3. Unwritten(c)' => Unwritten(c)
    BY <2>1, <2>2 DEF Unwritten, Forgetting, Adding
  <2>4. Stored(c)' => Stored(c)
    BY <2>1, <2>2 DEF Stored, Adding
  <2> QED
    BY <1>1, <1>2, <1>4, <2>1, <2>3, <2>4 DEF Purging
<1>7. CASE Forget(c)
  <2>1. pc[c] \in Forgetting /\ Unwritten(c)
    <3>1. pc[c] \in Forgetting
      BY <1>7 DEF Forget, Resolve, Clear, CleanGraph, CleanLedger, Unmark, Detach, DropDataset,
                  Purge, Erase, CountReferences, Unlink, ForgetFails, Forgetting
    <3> QED
      BY <3>1 DEF Unwritten
  <2>2. CASE Purge(c)
    <3>1. ~Stored(c)' /\ pc'[c] \notin {"count", "unlink"} /\ UNCHANGED rows
      BY <2>2, PurgeOK DEF Stored, Adding
    <3>2. pc'[c] = "erase" => /\ at'[c].rows = row /\ at'[c].id \in Id /\ row[at'[c].id] # None
      <4>1. at'[c] \in At
        BY ActOK DEF StateInv, TypeOK
      <4> QED
        BY <2>2, <4>1, PurgeOK, AtFields DEF Present
    <3> QED
      BY <1>1, <2>1, <3>1, <3>2 DEF FilesMove, Kept, Purging
  <2>3. CASE Erase(c)
    BY <2>1, <2>3, EraseOK DEF FilesMove, Stored, Adding, Purging, Erase
  <2>4. CASE CountReferences(c)
    <3>1. pc'[c] \in {"purge", "unlink"} /\ UNCHANGED rows /\ at'[c] = at[c] /\ pc[c] = "count"
      BY <2>4, CountOK DEF CountReferences
    <3>2. pc'[c] = "unlink" => ~Referenced(FileInHand(c))
      BY <2>4, CountOK
    <3> QED
      BY <1>1, <2>1, <3>1, <3>2 DEF FilesMove, Stored, Adding, Purging, Kept, rows
  <2>5. CASE Resolve(c) \/ ForgetFails(c)
    <3>1. pc'[c] \notin Purging /\ ~Stored(c)' /\ UNCHANGED rows
      BY <2>5, ResolveOK, ForgetFailsOK DEF Purging, Stored, Adding
    <3> QED
      BY <1>1, <1>4, <2>1, <3>1
  <2>6. CASE Clear(c)
    BY <1>4, <2>1, <2>6, ClearOK DEF Kept, Stored, Adding, Purging
  <2>7. CASE CleanGraph(c) \/ CleanLedger(c)
    <3>1. pc'[c] \notin Purging /\ ~Stored(c)' /\ UNCHANGED rows
      BY <2>7, CleanGraphOK, CleanLedgerOK DEF CleanGraph, CleanLedger, Purging, Stored, Adding
    <3> QED
      BY <1>1, <1>4, <2>1, <3>1
  <2>8. CASE Unmark(c)
    BY <1>4, <2>1, <2>8, UnmarkOK DEF Kept, Stored, Adding, Purging
  <2>9. CASE Detach(c)
    BY <1>4, <2>1, <2>9, DetachOK DEF Kept, Stored, Adding, Purging
  <2>10. CASE DropDataset(c)
    BY <1>1, <1>4, <2>1, <2>10, DropDatasetOK DEF Stored, Adding, Purging
  <2> QED
    BY <1>7, <2>2, <2>3, <2>4, <2>5, <2>6, <2>7, <2>8, <2>9, <2>10 DEF Forget
<1>8. CASE Add(c)
  <2>1. pc[c] \in Adding /\ Unwritten(c) /\ (pc[c] # "store" => Stored(c))
    <3>1. pc[c] \in Adding
      BY <1>8 DEF Add, StoreFile, FindDataset, Grant, LockContent, Lookup, Refresh, CreateRow, Adding
    <3> QED
      BY <3>1 DEF Unwritten, Stored
  <2>2. CASE StoreFile(c)
    BY <1>1, <1>4, <2>1, <2>2, StoreFileOK DEF Purging
  <2>3. CASE FindDataset(c)
    BY <1>1, <1>2, <1>4, <2>1, <2>3, FindDatasetOK DEF Purging, FindDataset
  <2>4. CASE Grant(c)
    BY <1>1, <1>2, <1>4, <2>1, <2>4, GrantOK DEF Purging, Grant
  <2>5. CASE LockContent(c)
    BY <1>1, <1>2, <1>4, <2>1, <2>5, LockContentOK DEF Purging, LockContent
  <2>6. CASE Lookup(c)
    BY <1>1, <1>2, <1>4, <2>1, <2>6, LookupOK DEF Purging, Lookup
  <2>7. CASE Refresh(c) \/ CreateRow(c)
    <3>1. pc'[c] \in {"list", "over"} /\ files' = files /\ at[c].id \in Id /\ Stored(c)
      BY <2>1, <2>7, RefreshOK, CreateRowOK DEF Refresh, CreateRow
    <3>2. ~Unwritten(c)' /\ ~Stored(c)' /\ pc'[c] \notin Purging
      BY <3>1 DEF Unwritten, Stored, Forgetting, Adding, Purging
    <3>3. \A i \in Id : row'[i] # None => \/ row[i] # None /\ row'[i].file = row[i].file
                                          \/ row'[i].file = c
      BY <2>7, RefreshOK, CreateRowOK
    <3> QED
      BY <3>1, <3>2, <3>3 DEF FilesMove, Purging
  <2> QED
    BY <1>8, <2>2, <2>3, <2>4, <2>5, <2>6, <2>7 DEF Add
<1>9. CASE Cognify(c)
  <2>1. CASE List(c)
    <3>1. ~Unwritten(c)' /\ ~Stored(c)' /\ pc'[c] \notin Purging
      BY <2>1, ListOK DEF Unwritten, Stored, Forgetting, Adding, Purging
    <3> QED
      BY <1>1, <1>4, <2>1, <3>1, ListOK
  <2>2. CASE Filter(c) \/ Read(c) \/ RecordLedger(c) \/ WriteGraph(c)
    <3>1. pc'[c] \in {"read", "record", "write", "mark", "over"} /\ UNCHANGED rows
      BY <2>2, FilterOK, ReadOK, RecordLedgerOK, WriteGraphOK DEF RecordLedger, WriteGraph
    <3>2. ~Unwritten(c)' /\ ~Stored(c)' /\ pc'[c] \notin Purging
      BY <3>1 DEF Unwritten, Stored, Forgetting, Adding, Purging
    <3> QED
      BY <1>1, <1>4, <3>1, <3>2
  <2>3. CASE MarkComplete(c)
    <3>1. ~Unwritten(c)' /\ ~Stored(c)' /\ pc'[c] \notin Purging
      BY <2>3, MarkCompleteOK DEF Unwritten, Stored, Forgetting, Adding, Purging
    <3> QED
      BY <1>4, <2>3, <3>1, MarkCompleteOK DEF Kept
  <2> QED
    BY <1>9, <2>1, <2>2, <2>3 DEF Cognify
<1> QED
  BY <1>5, <1>6, <1>7, <1>8, <1>9 DEF Act

LEMMA FilesInit == Init => FilesInv
<1> SUFFICES ASSUME Init PROVE FilesInv
  OBVIOUS
<1>1. \A c \in Call : pc[c] \in {"new", "over"}
  BY DEF Init
<1>2. \A i \in Id : Present(i) => row[i].file \in Item /\ row[i].file \in files
  <2>1. \A i \in Id : Present(i) => row[i].file \in Item
    BY StartRows, FirstRowFields
  <2>2. \A i \in Id : Present(i) => row[i].file \in files
    BY DEF Init, Files
  <2> QED
    BY <2>1, <2>2
<1> QED
  BY <1>1, <1>2, Apart DEF FilesInv, NoDanglingFile, Adding

LEMMA FilesStep == StateInv /\ FilesInv /\ [Next]_vars => FilesInv'
<1> SUFFICES ASSUME StateInv, FilesInv, [Next]_vars PROVE FilesInv'
  OBVIOUS
<1>1. ASSUME NEW c \in Call, Act(c)
      PROVE  FilesInv'
  BY <1>1, ActOK, FilesSteps, FilesMoved, UnlinkFiles
<1>2. CASE UNCHANGED vars
  BY <1>2 DEF vars, rows, FilesInv, Unwritten, Present, Referenced, FileInHand, NoDanglingFile
<1> QED
  BY <1>1, <1>2, Steps

LEMMA FilesInvariant == Spec => []FilesInv
BY FilesInit, FilesStep, StateInvariant, PTL DEF Spec

\* No row ever names a file that a delete has removed: a delete counts the rows that
\* name the file after its own row is gone, and the file of an add or an update is
\* nobody else's until its row is written.
THEOREM RowsHaveFiles == Spec => []NoDanglingFile
<1>1. FilesInv => NoDanglingFile
  BY DEF FilesInv
<1> QED
  BY <1>1, FilesInvariant, PTL

-----------------------------------------------------------------------------
(* No file outlives its rows *)

\* A call that has returned takes no step, so a failure stays.
LEMMA ActorNotOver ==
    ASSUME StateInv, NEW c \in Call, Act(c)
    PROVE  pc[c] # "over" /\ (Failed => Failed')
<1>1. pc[c] # "over"
  BY DEF Act, Begin, Hold, Forget, Resolve, Clear, CleanGraph, CleanLedger, Unmark, Detach,
         DropDataset, Purge, Erase, CountReferences, Unlink, ForgetFails, Forgetting, Add,
         StoreFile, FindDataset, Grant, LockContent, Lookup, Refresh, CreateRow, Cognify,
         List, Filter, Read, RecordLedger, WriteGraph, MarkComplete
<1>2. result[c] # "error"
  <2>1. CallOK(c, pc[c], at[c], key[c], env.op[c], result[c])
    BY CallFacts
  <2> QED
    BY <1>1, <2>1 DEF CallOK
<1>3. \A o \in Call \ {c} : result'[o] = result[o]
  BY ActOK DEF Stay
<1> QED
  BY <1>1, <1>2, <1>3 DEF Failed

\* A step that changes no row but for its marker and its dataset.
Calm(c) ==
    /\ \A i \in Id : /\ row'[i] = None <=> row[i] = None
                     /\ row[i] # None => row'[i].file = row[i].file
    /\ replaced' = replaced
    /\ files' \subseteq files \cup {c}
    /\ Unwritten(c)' => Unwritten(c)
    /\ pc'[c] = "create" => row[at'[c].id] = None
    /\ pc'[c] = "erase" => at'[c].rows = row
    /\ pc[c] \in {"count", "unlink"} =>
         \/ Failed'
         \/ FileInHand(c) \notin files'
         \/ Referenced(FileInHand(c))
         \/ pc'[c] \in {"count", "unlink"} /\ FileInHand(c)' = FileInHand(c)

LEMMA CalmFollow ==
    ASSUME StateInv, StateInv', FollowInv, NEW c \in Call, Stay(c), Calm(c), Failed => Failed'
    PROVE  FollowInv'
<1>1. \A o \in Call \ {c} : pc'[o] = pc[o] /\ at'[o] = at[o]
  BY DEF Stay
<1>2. \A o \in Call \ {c} : (Unwritten(o)' <=> Unwritten(o)) /\ FileInHand(o)' = FileInHand(o)
  BY <1>1 DEF Unwritten, FileInHand
<1>3. \A o \in Call : at'[o].id \in Id /\ o \in Id
  <2>1. at' \in [Call -> At]
    BY DEF StateInv, TypeOK
  <2> QED
    BY <2>1, AtFields, Apart
<1>4. ASSUME NEW o \in Call, pc'[o] = "create"
      PROVE  row'[at'[o].id] = None
  BY <1>1, <1>3, <1>4 DEF Calm, FollowInv, Present
<1>5. ASSUME NEW o \in Call, row'[o] # None
      PROVE  ~Unwritten(o)'
  BY <1>2, <1>3, <1>5 DEF Calm, FollowInv
<1>6. ASSUME NEW o \in Call, pc'[o] = "erase", row'[at'[o].id] # None
      PROVE  row'[at'[o].id].file = FileInHand(o)' \/ row'[at'[o].id].file \in Call
  <2>1. CASE o = c
    BY <1>3, <1>6, <2>1 DEF Calm, FileInHand
  <2>2. CASE o # c
    <3>1. pc[o] = "erase" /\ at'[o] = at[o] /\ row[at[o].id] # None
      BY <1>1, <1>3, <1>6, <2>2 DEF Calm
    <3>2. row[at[o].id].file = FileInHand(o) \/ row[at[o].id].file \in Call
      BY <3>1 DEF FollowInv, Present
    <3> QED
      BY <1>2, <1>3, <2>2, <3>1, <3>2 DEF Calm
  <2> QED
    BY <2>1, <2>2
<1>7. ASSUME ~Failed', NEW f \in files' \cap Item
      PROVE  \/ Referenced(f)' \/ f \in replaced'
             \/ \E o \in Call : pc'[o] \in {"count", "unlink"} /\ FileInHand(o)' = f
  <2>1. f \in files \cap Item
    BY Apart DEF Calm
  <2>2. Referenced(f) => Referenced(f)'
    BY DEF Calm, Referenced, Present
  <2>3. \/ Referenced(f) \/ f \in replaced
        \/ \E o \in Call : pc[o] \in {"count", "unlink"} /\ FileInHand(o) = f
    BY <1>7, <2>1 DEF FollowInv
  <2>4. ASSUME NEW o \in Call, pc[o] \in {"count", "unlink"}, FileInHand(o) = f
        PROVE  Referenced(f)' \/ \E p \in Call : pc'[p] \in {"count", "unlink"} /\ FileInHand(p)' = f
    <3>1. CASE o = c
      BY <1>7, <2>2, <2>4, <3>1 DEF Calm
    <3>2. CASE o # c
      BY <1>1, <1>2, <2>4, <3>2
    <3> QED
      BY <3>1, <3>2
  <2> QED
    BY <2>2, <2>3, <2>4 DEF Calm
<1> QED
  BY <1>4, <1>5, <1>6, <1>7 DEF FollowInv, Present

\* A row goes: the forget that deletes it has its file in hand.
LEMMA EraseFollow ==
    ASSUME StateInv, FollowInv, NEW c \in Call, Erase(c), Failed => Failed'
    PROVE  FollowInv'
<1> DEFINE e == at[c].id
<1>1. /\ pc[c] = "erase" /\ pc'[c] = "count" /\ at'[c] = at[c] /\ Stay(c) /\ StateInv'
      /\ UNCHANGED <<files, replaced>> /\ e \in Id
      /\ row'[e] = None /\ \A i \in Id \ {e} : row'[i] = row[i]
  BY EraseOK DEF Erase
<1>2. \A o \in Call \ {c} : pc'[o] = pc[o] /\ at'[o] = at[o]
  BY <1>1 DEF Stay
<1>3. \A o \in Call : FileInHand(o)' = FileInHand(o) /\ at'[o].id = at[o].id
  BY <1>1, <1>2 DEF FileInHand
<1>4. \A o \in Call : Unwritten(o)' => Unwritten(o)
  BY <1>1, <1>2 DEF Unwritten, Forgetting
<1>5. \A o \in Call : at[o].id \in Id /\ o \in Id
  BY CallFacts, AtFields, Apart
<1>6. ASSUME NEW o \in Call, pc'[o] = "create"
      PROVE  row'[at'[o].id] = None
  BY <1>1, <1>2, <1>3, <1>5, <1>6 DEF FollowInv, Present
<1>7. ASSUME NEW o \in Call, row'[o] # None
      PROVE  ~Unwritten(o)'
  BY <1>1, <1>4, <1>5, <1>7 DEF FollowInv
<1>8. ASSUME NEW o \in Call, pc'[o] = "erase", row'[at'[o].id] # None
      PROVE  row'[at'[o].id].file = FileInHand(o)' \/ row'[at'[o].id].file \in Call
  BY <1>1, <1>2, <1>3, <1>5, <1>8 DEF FollowInv, Present
<1>9. ASSUME ~Failed', NEW f \in files' \cap Item
      PROVE  \/ Referenced(f)' \/ f \in replaced'
             \/ \E o \in Call : pc'[o] \in {"count", "unlink"} /\ FileInHand(o)' = f
  <2>1. \/ Referenced(f) \/ f \in replaced
        \/ \E o \in Call : pc[o] \in {"count", "unlink"} /\ FileInHand(o) = f
    BY <1>1, <1>9 DEF FollowInv
  <2>2. CASE f \in replaced
    BY <1>1, <2>2
  <2>3. CASE \E o \in Call : pc[o] \in {"count", "unlink"} /\ FileInHand(o) = f
    BY <1>1, <1>2, <1>3, <2>3
  <2>4. ASSUME NEW i \in Id, row[i] # None, row[i].file = f
        PROVE  \/ Referenced(f)'
               \/ \E o \in Call : pc'[o] \in {"count", "unlink"} /\ FileInHand(o)' = f
    <3>1. CASE i # e
      BY <1>1, <2>4, <3>1 DEF Referenced, Present
    <3>2. CASE i = e
      <4>1. FileInHand(c) = f
        BY <1>1, <2>4, <3>2, Apart DEF FollowInv, Present
      <4> QED
        BY <1>1, <1>3, <4>1
    <3> QED
      BY <3>1, <3>2
  <2> QED
    BY <2>1, <2>2, <2>3, <2>4 DEF Referenced, Present
<1> QED
  BY <1>6, <1>7, <1>8, <1>9 DEF FollowInv, Present

\* Two calls that create a row create two rows: the row of an add is named after the
\* call, and two updates of one row wait for each other.
LEMMA CreatorsApart ==
    ASSUME StateInv, NEW c \in Call, pc[c] = "create"
    PROVE  /\ at[c].id \in Call => at[c].id = c
           /\ \A o \in Call : o # c /\ pc[o] = "create" => at[o].id # at[c].id
<1>1. ASSUME NEW o \in Call, pc[o] = "create"
      PROVE  \/ at[o].id = o
             \/ at[o].id \in Item /\ key[o] = <<at[o].id>> /\ key[o] # None
  <2>1. CallOK(o, "create", at[o], key[o], env.op[o], result[o]) /\ env.op[o].item \in Item
    BY <1>1, CallFacts, OpFields
  <2>2. key[o] # None
    BY <1>1, TypeParts DEF StateInv, Control, Keyed
  <2> QED
    BY <2>1, <2>2 DEF CallOK, Adding
<1>2. ASSUME NEW o \in Call, o # c, pc[o] = "create", at[o].id = at[c].id
      PROVE  FALSE
  <2>1. at[c].id \in Item /\ key[c] = <<at[c].id>> /\ key[c] # None /\ key[o] = <<at[o].id>>
    BY <1>1, <1>2, Apart
  <2> QED
    BY <1>2, <2>1 DEF StateInv, KeysApart
<1> QED
  BY <1>1, <1>2, Apart

\* A row is written: the file it named is among the replaced ones.
LEMMA WriteFollow ==
    ASSUME StateInv, FollowInv, NEW c \in Call, Stay(c), Failed => Failed', NEW e \in Id,
           pc'[c] \in {"list", "over"}, pc[c] \in {"refresh", "create"}, UNCHANGED files,
           row'[e] # None, row'[e].file = c, \A i \in Id \ {e} : row'[i] = row[i],
           replaced \subseteq replaced', row[e] # None => row[e].file \in replaced',
           row[e] = None => /\ e \in Call => e = c
                            /\ \A o \in Call : o # c /\ pc[o] = "create" => at[o].id # e
    PROVE  FollowInv'
<1>1. \A o \in Call \ {c} : pc'[o] = pc[o] /\ at'[o] = at[o]
  BY DEF Stay
<1>2. \A o \in Call \ {c} : (Unwritten(o)' <=> Unwritten(o)) /\ FileInHand(o)' = FileInHand(o)
  BY <1>1 DEF Unwritten, FileInHand
<1>3. ~Unwritten(c)'
  BY DEF Unwritten, Forgetting, Adding
<1>4. \A o \in Call : at[o].id \in Id /\ o \in Id
  BY CallFacts, AtFields, Apart
<1>5. ASSUME NEW o \in Call, pc'[o] = "create"
      PROVE  row'[at'[o].id] = None
  <2>1. o # c /\ pc[o] = "create" /\ at'[o] = at[o]
    BY <1>1, <1>5
  <2>2. row[at[o].id] = None
    BY <2>1 DEF FollowInv, Present
  <2> QED
    BY <1>4, <2>1, <2>2
<1>6. ASSUME NEW o \in Call, row'[o] # None
      PROVE  ~Unwritten(o)'
  BY <1>2, <1>3, <1>4, <1>6 DEF FollowInv
<1>7. ASSUME NEW o \in Call, pc'[o] = "erase", row'[at'[o].id] # None
      PROVE  row'[at'[o].id].file = FileInHand(o)' \/ row'[at'[o].id].file \in Call
  <2>1. o # c /\ pc[o] = "erase" /\ at'[o] = at[o] /\ FileInHand(o)' = FileInHand(o)
    BY <1>1, <1>2, <1>7
  <2>2. CASE at[o].id = e
    BY <2>1, <2>2
  <2>3. CASE at[o].id # e
    BY <1>4, <1>7, <2>1, <2>3 DEF FollowInv, Present
  <2> QED
    BY <2>2, <2>3
<1>8. ASSUME ~Failed', NEW f \in files' \cap Item
      PROVE  \/ Referenced(f)' \/ f \in replaced'
             \/ \E o \in Call : pc'[o] \in {"count", "unlink"} /\ FileInHand(o)' = f
  <2>1. \/ Referenced(f) \/ f \in replaced
        \/ \E o \in Call : pc[o] \in {"count", "unlink"} /\ FileInHand(o) = f
    BY <1>8 DEF FollowInv
  <2>2. CASE \E o \in Call : pc[o] \in {"count", "unlink"} /\ FileInHand(o) = f
    BY <1>1, <1>2, <2>2
  <2>3. Referenced(f) => Referenced(f)' \/ f \in replaced'
    BY DEF Referenced, Present
  <2> QED
    BY <2>1, <2>2, <2>3
<1> QED
  BY <1>5, <1>6, <1>7, <1>8 DEF FollowInv, Present

LEMMA RefreshFollow ==
    ASSUME StateInv, FollowInv, NEW c \in Call, Refresh(c), ~Error(c), Failed => Failed'
    PROVE  FollowInv'
<1>1. /\ pc[c] = "refresh" /\ Stay(c) /\ pc'[c] \in {"list", "over"} /\ at[c].id \in Id
      /\ UNCHANGED files /\ Present(at[c].id) /\ replaced' = replaced \cup {row[at[c].id].file}
      /\ row'[at[c].id] \in Row /\ row'[at[c].id].file = c
      /\ \A j \in Id \ {at[c].id} : row'[j] = row[j]
  BY RefreshOK DEF Refresh
<1> QED
  BY <1>1, WriteFollow, Apart DEF Present

LEMMA CreateFollow ==
    ASSUME StateInv, FollowInv, NEW c \in Call, CreateRow(c), Failed => Failed'
    PROVE  FollowInv'
<1>1. /\ pc[c] = "create" /\ Stay(c) /\ pc'[c] \in {"list", "over"} /\ at[c].id \in Id
      /\ UNCHANGED <<files, replaced>> /\ row'[at[c].id] \in Row /\ row'[at[c].id].file = c
      /\ \A j \in Id \ {at[c].id} : row'[j] = row[j]
  BY CreateRowOK DEF CreateRow
<1>2. row[at[c].id] = None
  BY <1>1 DEF FollowInv, Present
<1>3. /\ at[c].id \in Call => at[c].id = c
      /\ \A o \in Call : o # c /\ pc[o] = "create" => at[o].id # at[c].id
  BY <1>1, CreatorsApart
<1> QED
  BY <1>1, <1>2, <1>3, WriteFollow, Apart

\* The other steps.
LEMMA CalmSteps ==
    ASSUME StateInv, FilesInv, FollowInv, NEW c \in Call, Act(c),
           ~Erase(c), ~CreateRow(c), ~(Refresh(c) /\ ~Error(c))
    PROVE  Calm(c)
<1> DEFINE Same == /\ replaced' = replaced
                   /\ \A i \in Id : /\ row'[i] = None <=> row[i] = None
                                    /\ row[i] # None => row'[i].file = row[i].file
<1>1. (UNCHANGED rows => Same) /\ (UNCHANGED <<row, replaced>> => Same)
      /\ (UNCHANGED rows => files' = files)
  BY DEF rows
<1>2. Unwritten(c)' => Unwritten(c)
  <2>1. CASE Unlink(c)
    BY <2>1 DEF Unlink, Unwritten, Forgetting
  <2>2. CASE ~Unlink(c)
    BY <2>2, FilesSteps DEF FilesMove
  <2> QED
    BY <2>1, <2>2
<1> HIDE DEF Same
<1>3. ASSUME Same, files' \subseteq files \cup {c}, pc'[c] \notin {"create", "erase"},
             pc[c] \notin {"count", "unlink"}
      PROVE  Calm(c)
  BY <1>2, <1>3 DEF Calm, Same
<1>4. CASE Begin(c)
  <2>1. pc[c] = "new"
    BY <1>4 DEF Begin
  <2> QED
    BY <1>1, <1>3, <1>4, <2>1, BeginTo
<1>5. CASE Hold(c)
  BY <1>1, <1>3, <1>5, HoldTo
<1>6. CASE Forget(c)
  <2>1. CASE Resolve(c)
    BY <1>1, <1>3, <2>1, ResolveOK DEF Resolve
  <2>2. CASE Clear(c)
    BY <1>3, <2>2, ClearOK DEF Same, Clear
  <2>3. CASE CleanGraph(c) \/ CleanLedger(c)
    BY <1>1, <1>3, <2>3, CleanGraphOK, CleanLedgerOK DEF CleanGraph, CleanLedger
  <2>4. CASE Unmark(c)
    BY <1>3, <2>4, UnmarkOK DEF Same, Unmark
  <2>5. CASE Detach(c)
    BY <1>3, <2>5, DetachOK DEF Same, Detach
  <2>6. CASE DropDataset(c)
    BY <1>1, <1>3, <2>6, DropDatasetOK DEF DropDataset
  <2>7. CASE Purge(c)
    <3>1. pc'[c] # "create" /\ pc[c] = "purge" /\ (pc'[c] = "erase" => at'[c].rows = row) /\ UNCHANGED rows
      BY <2>7, PurgeOK DEF Purge
    <3> QED
      BY <1>1, <1>2, <3>1 DEF Calm, Same
  <2>8. CASE CountReferences(c)
    <3>1. /\ pc[c] = "count" /\ at'[c] = at[c] /\ UNCHANGED rows
          /\ pc'[c] = IF Referenced(FileInHand(c)) THEN "purge" ELSE "unlink"
      BY <2>8, CountOK DEF CountReferences
    <3>2. FileInHand(c)' = FileInHand(c)
      BY <3>1 DEF FileInHand
    <3> QED
      BY <1>1, <1>2, <3>1, <3>2 DEF Calm, Same
  <2>9. CASE Unlink(c)
    <3>1. /\ pc'[c] = "purge" /\ files' = files \ {FileInHand(c)} /\ UNCHANGED <<row, replaced>>
      BY <2>9, UnlinkOK DEF Unlink
    <3> QED
      BY <1>1, <1>2, <3>1 DEF Calm, Same
  <2>10. CASE ForgetFails(c)
    <3>1. Failed' /\ UNCHANGED rows /\ pc'[c] = "over"
      BY <2>10, ErrorOK DEF ForgetFails, Error, Failed
    <3> QED
      BY <1>1, <1>2, <3>1 DEF Calm, Same
  <2> QED
    BY <1>6, <2>1, <2>2, <2>3, <2>4, <2>5, <2>6, <2>7, <2>8, <2>9, <2>10 DEF Forget
<1>7. CASE Add(c)
  <2>1. CASE StoreFile(c)
    BY <1>1, <1>3, <2>1, StoreFileOK DEF StoreFile
  <2>2. CASE FindDataset(c)
    BY <1>1, <1>3, <2>2, FindDatasetOK DEF FindDataset
  <2>3. CASE Grant(c)
    BY <1>1, <1>3, <2>3, GrantOK DEF Grant
  <2>4. CASE LockContent(c)
    BY <1>1, <1>3, <2>4, LockContentOK DEF LockContent
  <2>5. CASE Lookup(c)
    <3>1. pc[c] = "lookup" /\ UNCHANGED rows /\ pc'[c] # "erase"
      BY <2>5, LookupOK DEF Lookup
    <3>2. row[c] = None
      BY <3>1 DEF FollowInv, Unwritten, Adding
    <3>3. pc'[c] = "create" => row[at'[c].id] = None
      BY <2>5, <3>2, LookupOK DEF Present
    <3> QED
      BY <1>1, <1>2, <3>1, <3>3 DEF Calm, Same
  <2>6. CASE Refresh(c) /\ Error(c)
    BY <1>1, <1>3, <2>6, ErrorOK DEF Refresh, Error
  <2> QED
    BY <1>7, <2>1, <2>2, <2>3, <2>4, <2>5, <2>6 DEF Add
<1>8. CASE Cognify(c)
  <2>1. CASE List(c)
    BY <1>1, <1>3, <2>1, ListOK DEF List
  <2>2. CASE Filter(c)
    BY <1>1, <1>3, <2>2, FilterOK DEF Filter
  <2>3. CASE Read(c)
    BY <1>1, <1>3, <2>3, ReadOK DEF Read
  <2>4. CASE RecordLedger(c)
    BY <1>1, <1>3, <2>4, RecordLedgerOK DEF RecordLedger
  <2>5. CASE WriteGraph(c)
    BY <1>1, <1>3, <2>5, WriteGraphOK DEF WriteGraph
  <2>6. CASE MarkComplete(c)
    BY <1>3, <2>6, MarkCompleteOK DEF Same, MarkComplete
  <2> QED
    BY <1>8, <2>1, <2>2, <2>3, <2>4, <2>5, <2>6 DEF Cognify
<1> QED
  BY <1>4, <1>5, <1>6, <1>7, <1>8 DEF Act

LEMMA FollowStep == StateInv /\ FilesInv /\ FollowInv /\ [Next]_vars => FollowInv'
<1> SUFFICES ASSUME StateInv, FilesInv, FollowInv, [Next]_vars PROVE FollowInv'
  OBVIOUS
<1>1. ASSUME NEW c \in Call, Act(c)
      PROVE  FollowInv'
  <2>1. StateInv' /\ Stay(c) /\ (Failed => Failed')
    BY <1>1, ActOK, ActorNotOver
  <2> QED
    BY <1>1, <2>1, CalmSteps, CalmFollow, EraseFollow, CreateFollow, RefreshFollow
<1>2. CASE UNCHANGED vars
  BY <1>2 DEF vars, rows, FollowInv, Unwritten, Present, Referenced, FileInHand, Failed
<1> QED
  BY <1>1, <1>2, Steps

LEMMA FollowInit == Init => FollowInv
<1> SUFFICES ASSUME Init PROVE FollowInv
  OBVIOUS
<1>1. \A c \in Call : pc[c] \in {"new", "over"}
  BY DEF Init
<1>2. \A c \in Call : row[c] = None
  BY StartRows, Apart DEF Present
<1>3. \A f \in files : Referenced(f)
  BY DEF Init, Files, Referenced
<1> QED
  BY <1>1, <1>2, <1>3 DEF FollowInv

\* When all calls have returned and none failed, a file that was there at the start
\* is named by a row, or some re-add or update replaced it: of two deletes whose rows
\* shared a file, one removes it.
THEOREM FilesGoWithRows == Spec => []FilesFollowRows
<1>1. FollowInv => FilesFollowRows
  BY DEF FollowInv, FilesFollowRows, AllOver
<1> QED
  BY <1>1, FollowInit, FollowStep, FilesInvariant, StateInvariant, PTL DEF Spec

-----------------------------------------------------------------------------
(* Where the steps lead, and with which registers *)

LEMMA AtMoved ==
    ASSUME StateInv, NEW c \in Call, NEW r, at' = [at EXCEPT ![c] = r]
    PROVE  at'[c] = r
BY TypeParts DEF StateInv, Control

LEMMA Went ==
    ASSUME StateInv, NEW c \in Call, NEW l, Goto(c, l)
    PROVE  pc'[c] = l
BY TypeParts DEF StateInv, Control, Goto

LEMMA DoneTo ==
    ASSUME StateInv, NEW c \in Call, Done(c)
    PROVE  /\ pc'[c] \in {"hold", "store", "over"}
           /\ pc'[c] = "hold" => at[c].left # {} /\ at'[c].left \subseteq at[c].left
           /\ pc'[c] = "store" => /\ at[c].left = {} /\ env.op[c].kind = "update"
                                  /\ at'[c].ds = at[c].ds /\ at'[c].left = {} /\ at'[c].job = "add"
           /\ pc'[c] = "over" => at[c].left = {} /\ env.op[c].kind # "update" /\ at'[c] = at[c]
<1>1. at[c] \in At
  BY CallFacts
<1>2. ASSUME NEW d \in at[c].left, Onward(c, "hold", [at[c] EXCEPT !.ds = d, !.left = at[c].left \ {d}])
      PROVE  pc'[c] = "hold" /\ at'[c].left \subseteq at[c].left
  <2> DEFINE r == [at[c] EXCEPT !.ds = d, !.left = at[c].left \ {d}]
  <2>1. r.left = at[c].left \ {d}
    BY <1>1 DEF At
  <2> HIDE DEF r
  <2>2. pc'[c] = "hold" /\ at'[c] = r
    BY <1>2, AtMoved, Went DEF Onward, r
  <2> QED
    BY <2>1, <2>2
<1>3. ASSUME Onward(c, "store", [at[c] EXCEPT !.job = "add"])
      PROVE  pc'[c] = "store" /\ at'[c].ds = at[c].ds /\ at'[c].left = at[c].left /\ at'[c].job = "add"
  <2> DEFINE r == [at[c] EXCEPT !.job = "add"]
  <2>1. r.ds = at[c].ds /\ r.left = at[c].left /\ r.job = "add"
    BY <1>1 DEF At
  <2> HIDE DEF r
  <2>2. pc'[c] = "store" /\ at'[c] = r
    BY <1>3, AtMoved, Went DEF Onward, r
  <2> QED
    BY <2>1, <2>2
<1>4. ASSUME Over(c, "ok"), UNCHANGED at
      PROVE  pc'[c] = "over" /\ at'[c] = at[c]
  BY <1>4, Went DEF Over
<1> QED
  BY <1>2, <1>3, <1>4 DEF Done

\* The items a forget looks up.
Found(c) ==
    IF ~ItemScope(c) THEN Members(at[c].ds)
    ELSE {i \in {env.op[c].item} : Present(i)}

LEMMA ResolveTo ==
    ASSUME StateInv, NEW c \in Call, Resolve(c)
    PROVE  /\ pc[c] = "resolve"
           /\ pc'[c] \in {"hold", "over"} \/ pc'[c] = IF MemoryOnly(c) THEN "graph" ELSE "clear"
           /\ pc'[c] = "hold" => at[c].left # {} /\ at'[c].left \subseteq at[c].left
           /\ pc'[c] = "over" => at'[c] = at[c]
           /\ pc'[c] \notin {"hold", "over"} =>
                /\ at'[c].ds = at[c].ds /\ at'[c].left = at[c].left
                /\ at'[c].links = Found(c) /\ at'[c].todo = Found(c)
                /\ Found(c) \subseteq Members(at[c].ds)
                /\ ~ItemScope(c) => at'[c].drop
                /\ ItemScope(c) /\ at'[c].drop => Members(at[c].ds) \subseteq Found(c)
<1> DEFINE i == env.op[c].item
           in == Members(at[c].ds)
           found == IF ~ItemScope(c) THEN in ELSE IF Present(i) THEN {i} ELSE {}
           last == env.op[c].ifEmpty /\ env.op[c].kind = "forget" /\ in = found
           b == ~ItemScope(c) \/ last
           l == IF MemoryOnly(c) THEN "graph" ELSE "clear"
<1>1. at[c] \in At /\ pc[c] = "resolve" /\ at \in [Call -> At] /\ l \in {"graph", "clear"}
  BY CallFacts, TypeParts DEF Resolve, StateInv, Control
<1>2. CASE Error(c)
  BY <1>1, <1>2, ErrorOK DEF Error
<1>3. CASE env.op[c].kind = "forget" /\ Done(c)
  BY <1>1, <1>3, DoneTo
<1>4. CASE /\ ~(ItemScope(c) /\ Present(i) /\ i \notin in)
           /\ at' = [at EXCEPT ![c].links = found, ![c].drop = b, ![c].todo = found]
           /\ Step(c, l)
  <2>1. found = Found(c)
    BY DEF Found
  <2>2. Found(c) \subseteq in
    BY <1>4 DEF Found
  <2>3. b \in BOOLEAN /\ (~ItemScope(c) => b) /\ (ItemScope(c) /\ b => in \subseteq Found(c))
    BY <2>1
  <2> DEFINE r == [at[c] EXCEPT !.links = found, !.drop = b, !.todo = found]
  <2>4. at' = [at EXCEPT ![c] = r]
    BY <1>1, <1>4
  <2> HIDE DEF found, b
  <2>5. r.links = found /\ r.todo = found /\ r.drop = b /\ r.ds = at[c].ds /\ r.left = at[c].left
    BY <1>1 DEF At
  <2> HIDE DEF r
  <2>6. at'[c] = r /\ pc'[c] = l
    BY <1>4, <2>4, AtMoved, Went DEF Step
  <2> QED
    BY <1>1, <2>1, <2>2, <2>3, <2>5, <2>6
<1> QED
  BY <1>2, <1>3, <1>4 DEF Resolve

LEMMA UnmarkTo ==
    ASSUME StateInv, NEW c \in Call, Unmark(c)
    PROVE  /\ pc[c] = "unmark" /\ Done(c)
           /\ \A i \in Id : row[i] # None =>
                row'[i].marked = (row[i].marked /\ ~IF ItemScope(c) THEN i \in at[c].links ELSE i \in Members(at[c].ds))
<1> DEFINE S == IF ItemScope(c) THEN {i \in at[c].links : Present(i)} ELSE Members(at[c].ds)
<1>1. pc[c] = "unmark" /\ Done(c) /\ row' = Unmarked(S)
  BY DEF Unmark
<1>2. at[c].links \subseteq Id
  BY CallFacts, AtFields
<1>3. \A i \in S : i \in Id /\ Present(i)
  BY <1>2, MembersOf
<1>4. \A i \in Id : Present(i) => /\ i \in S => Unmarked(S)[i].marked = FALSE
                                  /\ i \notin S => Unmarked(S)[i].marked = row[i].marked
  <2> HIDE DEF S
  <2> QED
    BY <1>3, UnmarkedRows
<1>5. \A i \in Id : Present(i) => (i \in S <=> IF ItemScope(c) THEN i \in at[c].links ELSE i \in Members(at[c].ds))
  OBVIOUS
<1>6. \A i \in Id : Present(i) => row[i].marked \in BOOLEAN
  BY MembersOf, RowFields
<1> HIDE DEF S
<1> QED
  BY <1>1, <1>4, <1>5, <1>6 DEF Present

LEMMA ClearTo ==
    ASSUME StateInv, NEW c \in Call, Clear(c)
    PROVE  /\ pc[c] = "clear"
           /\ \A i \in Id : row[i] # None => /\ row'[i].marked => row[i].marked
                                             /\ i \in Members(at[c].ds) /\ (at[c].drop \/ at[c].links # {}) => ~row'[i].marked
<1> DEFINE S == Members(at[c].ds)
<1>1. pc[c] = "clear" /\ row' = IF at[c].drop \/ at[c].links # {} THEN Unmarked(S) ELSE row
  BY DEF Clear
<1>2. \A i \in S : i \in Id /\ Present(i)
  BY MembersOf
<1> HIDE DEF S
<1>3. \A i \in Id : Present(i) => /\ i \in S => Unmarked(S)[i].marked = FALSE
                                  /\ i \notin S => Unmarked(S)[i].marked = row[i].marked
  BY <1>2, UnmarkedRows
<1> QED
  BY <1>1, <1>3 DEF Present, S

LEMMA DetachTo ==
    ASSUME StateInv, NEW c \in Call, Detach(c)
    PROVE  /\ pc[c] = "detach" /\ at'[c].left = at[c].left
           /\ \/ pc'[c] = "drop" /\ at[c].todo = {} /\ at'[c] = at[c] /\ UNCHANGED row
              \/ /\ pc'[c] = "detach"
                 /\ \E i \in at[c].todo :
                      /\ at'[c].todo = at[c].todo \ {i} /\ i \in Id
                      /\ \A j \in Id \ {i} : row'[j] = row[j]
                      /\ row[i] # None => /\ row'[i].marked = row[i].marked
                                          /\ i \in Members(at[c].ds) => row'[i].ds = None
                                          /\ i \notin Members(at[c].ds) => row'[i].ds = row[i].ds
<1>1. /\ at[c] \in At /\ row \in [Id -> Row \cup {None}] /\ at \in [Call -> At] /\ pc[c] = "detach"
  BY CallFacts, TypeParts DEF StateInv, Data, Control, Detach
<1>2. CASE at[c].todo = {} /\ Step(c, "drop") /\ UNCHANGED <<row, at>>
  BY <1>1, <1>2, Went DEF Step
<1>3. ASSUME NEW i \in at[c].todo,
             row' = IF i \in Members(at[c].ds) THEN [row EXCEPT ![i].ds = None] ELSE row,
             at' = [at EXCEPT ![c].todo = @ \ {i}], Step(c, "detach")
      PROVE  /\ pc'[c] = "detach" /\ at'[c].left = at[c].left
             /\ at'[c].todo = at[c].todo \ {i} /\ i \in Id
             /\ \A j \in Id \ {i} : row'[j] = row[j]
             /\ row[i] # None => /\ row'[i].marked = row[i].marked
                                 /\ i \in Members(at[c].ds) => row'[i].ds = None
                                 /\ i \notin Members(at[c].ds) => row'[i].ds = row[i].ds
  <2>1. i \in Id
    BY <1>1, AtFields
  <2>2. CASE i \in Members(at[c].ds)
    <3> DEFINE n == [row[i] EXCEPT !.ds = None]
    <3>1. row[i] \in Row /\ row' = [row EXCEPT ![i] = n]
      BY <1>1, <1>3, <2>2, MembersOf
    <3>2. n.ds = None /\ n.marked = row[i].marked
      BY <3>1, RowUpdates
    <3> HIDE DEF n
    <3>3. row'[i] = n /\ \A j \in Id \ {i} : row'[j] = row[j]
      BY <1>1, <2>1, <3>1
    <3>4. pc'[c] = "detach"
      BY <1>3, Went DEF Step
    <3>5. at'[c].left = at[c].left /\ at'[c].todo = at[c].todo \ {i}
      BY <1>1, <1>3 DEF At
    <3> QED
      BY <2>1, <2>2, <3>2, <3>3, <3>4, <3>5
  <2>3. CASE i \notin Members(at[c].ds)
    <3>1. pc'[c] = "detach"
      BY <1>3, Went DEF Step
    <3>2. at'[c].left = at[c].left /\ at'[c].todo = at[c].todo \ {i}
      BY <1>1, <1>3 DEF At
    <3> QED
      BY <1>3, <2>1, <2>3, <3>1, <3>2
  <2> QED
    BY <2>2, <2>3
<1>4. CASE \E i \in at[c].todo :
             /\ row' = IF i \in Members(at[c].ds) THEN [row EXCEPT ![i].ds = None] ELSE row
             /\ at' = [at EXCEPT ![c].todo = @ \ {i}] /\ Step(c, "detach")
  <2>1. PICK i \in at[c].todo :
             /\ row' = IF i \in Members(at[c].ds) THEN [row EXCEPT ![i].ds = None] ELSE row
             /\ at' = [at EXCEPT ![c].todo = @ \ {i}] /\ Step(c, "detach")
    BY <1>4
  <2> QED
    BY <1>1, <1>3, <2>1
<1> QED
  BY <1>2, <1>4 DEF Detach

LEMMA DropDatasetTo ==
    ASSUME StateInv, NEW c \in Call, DropDataset(c)
    PROVE  /\ pc[c] = "drop" /\ pc'[c] = "purge"
           /\ at'[c].ds = at[c].ds /\ at'[c].left = at[c].left /\ at'[c].links = at[c].links
           /\ at'[c].drop = at[c].drop
           /\ at'[c].todo = IF ItemScope(c) THEN {env.op[c].item} ELSE at[c].links
           /\ ledger' = IF at[c].drop THEN {l \in ledger : l[1] # at[c].ds} ELSE ledger
<1> DEFINE S == IF ItemScope(c) THEN {env.op[c].item} ELSE at[c].links
           r == [at[c] EXCEPT !.todo = S]
<1>1. at[c] \in At /\ at \in [Call -> At] /\ Goto(c, "purge") /\ pc[c] = "drop"
  BY CallFacts, TypeParts DEF StateInv, Control, DropDataset, Step
<1>2. at' = [at EXCEPT ![c] = r]
  BY <1>1 DEF DropDataset
<1> HIDE DEF S
<1>3. r.ds = at[c].ds /\ r.left = at[c].left /\ r.links = at[c].links /\ r.drop = at[c].drop /\ r.todo = S
  BY <1>1 DEF At
<1> HIDE DEF r
<1>4. at'[c] = r /\ pc'[c] = "purge"
  BY <1>1, <1>2, AtMoved, Went
<1>5. ledger' = IF at[c].drop THEN {l \in ledger : l[1] # at[c].ds} ELSE ledger
  BY DEF DropDataset
<1> QED
  BY <1>1, <1>3, <1>4, <1>5 DEF S

LEMMA PurgeTo ==
    ASSUME StateInv, NEW c \in Call, Purge(c)
    PROVE  /\ pc[c] = "purge"
           /\ \/ at[c].todo = {} /\ Done(c)
              \/ /\ at'[c].id \in at[c].todo /\ at'[c].todo = at[c].todo \ {at'[c].id}
                 /\ at'[c].rows = row /\ at'[c].ds = at[c].ds /\ at'[c].left = at[c].left
                 /\ at'[c].links = at[c].links /\ at'[c].drop = at[c].drop
                 /\ pc'[c] = IF Present(at'[c].id) /\ row[at'[c].id].ds = None THEN "erase" ELSE "purge"
<1>1. at[c] \in At /\ at \in [Call -> At] /\ pc[c] = "purge"
  BY CallFacts, TypeParts DEF StateInv, Control, Purge
<1>2. ASSUME NEW i \in at[c].todo, at' = [at EXCEPT ![c].todo = @ \ {i}, ![c].id = i, ![c].rows = row],
             Step(c, IF Present(i) /\ row[i].ds = None THEN "erase" ELSE "purge")
      PROVE  /\ at'[c].id \in at[c].todo /\ at'[c].todo = at[c].todo \ {at'[c].id}
             /\ at'[c].rows = row /\ at'[c].ds = at[c].ds /\ at'[c].left = at[c].left
             /\ at'[c].links = at[c].links /\ at'[c].drop = at[c].drop
             /\ pc'[c] = IF Present(at'[c].id) /\ row[at'[c].id].ds = None THEN "erase" ELSE "purge"
  <2> DEFINE r == [at[c] EXCEPT !.todo = at[c].todo \ {i}, !.id = i, !.rows = row]
  <2>1. at' = [at EXCEPT ![c] = r]
    BY <1>1, <1>2
  <2>2. /\ r.todo = at[c].todo \ {i} /\ r.id = i /\ r.rows = row /\ r.ds = at[c].ds
        /\ r.left = at[c].left /\ r.links = at[c].links /\ r.drop = at[c].drop
    BY <1>1 DEF At
  <2> HIDE DEF r
  <2>3. at'[c] = r /\ pc'[c] = IF Present(i) /\ row[i].ds = None THEN "erase" ELSE "purge"
    BY <1>2, <2>1, AtMoved, Went DEF Step
  <2> QED
    BY <2>2, <2>3
<1>3. CASE \E i \in at[c].todo :
             /\ at' = [at EXCEPT ![c].todo = @ \ {i}, ![c].id = i, ![c].rows = row]
             /\ Step(c, IF Present(i) /\ row[i].ds = None THEN "erase" ELSE "purge")
  BY <1>1, <1>2, <1>3
<1> QED
  BY <1>1, <1>3 DEF Purge

LEMMA LookupTo ==
    ASSUME StateInv, NEW c \in Call, Lookup(c)
    PROVE  /\ pc[c] = "lookup" /\ at'[c].left = at[c].left
           /\ pc'[c] = "over" => at'[c] = at[c]
           /\ pc'[c] # "over" => at'[c].rows = row
           /\ pc'[c] = "refresh" => /\ at'[c].id \in Members(at[c].ds)
                                    /\ env.op[c].kind # "add" => at'[c].id = env.op[c].item
<1> DEFINE op == env.op[c]
           same == {i \in Members(at[c].ds) : row[i].content = op.content}
           hits == IF op.kind = "add" THEN same ELSE {i \in {op.item} : Present(i)}
           new == IF op.kind = "add" THEN c ELSE op.item
<1>1. at[c] \in At /\ at \in [Call -> At] /\ pc[c] = "lookup"
  BY CallFacts, TypeParts DEF StateInv, Control, Lookup
<1>2. CASE Error(c)
  BY <1>1, <1>2, ErrorOK DEF Error
<1>3. ASSUME NEW i, NEW l, at' = [at EXCEPT ![c].id = i, ![c].rows = row], Step(c, l)
      PROVE  pc'[c] = l /\ at'[c].left = at[c].left /\ at'[c].id = i /\ at'[c].rows = row
  <2> DEFINE r == [at[c] EXCEPT !.id = i, !.rows = row]
  <2>1. at' = [at EXCEPT ![c] = r]
    BY <1>1, <1>3
  <2>2. r.id = i /\ r.rows = row /\ r.left = at[c].left
    BY <1>1 DEF At
  <2> HIDE DEF r
  <2>3. at'[c] = r /\ pc'[c] = l
    BY <1>3, <2>1, AtMoved, Went DEF Step
  <2> QED
    BY <2>2, <2>3
<1>4. CASE at' = [at EXCEPT ![c].id = new, ![c].rows = row] /\ Step(c, "create")
  <2> HIDE DEF new
  <2>1. pc'[c] = "create" /\ at'[c].left = at[c].left /\ at'[c].rows = row
    BY <1>3, <1>4
  <2> QED
    BY <1>1, <2>1
<1>5. ASSUME NEW i \in hits, i \in Members(at[c].ds),
             at' = [at EXCEPT ![c].id = i, ![c].rows = row], Step(c, "refresh")
      PROVE  /\ pc'[c] = "refresh" /\ at'[c].left = at[c].left /\ at'[c].rows = row
             /\ at'[c].id \in Members(at[c].ds) /\ (op.kind # "add" => at'[c].id = op.item)
  <2>1. op.kind # "add" => i = op.item
    OBVIOUS
  <2> HIDE DEF hits
  <2> QED
    BY <1>3, <1>5, <2>1
<1>6. CASE \E i \in hits : IF i \in Members(at[c].ds)
                           THEN at' = [at EXCEPT ![c].id = i, ![c].rows = row] /\ Step(c, "refresh")
                           ELSE Error(c)
  <2> HIDE DEF hits
  <2> QED
    BY <1>1, <1>2, <1>5, <1>6
<1> QED
  BY <1>4, <1>6 DEF Lookup

LEMMA WrittenTo ==
    ASSUME StateInv, NEW c \in Call, Written(c)
    PROVE  /\ pc'[c] \in {"list", "over"} /\ at'[c].ds = at[c].ds /\ at'[c].left = at[c].left
           /\ pc'[c] = "list" => env.op[c].kind = "update"
           /\ pc'[c] = "over" => env.op[c].kind = "add" /\ at'[c] = at[c]
<1>1. at[c] \in At
  BY CallFacts
<1>2. CASE env.op[c].kind = "add" /\ Over(c, "ok") /\ UNCHANGED at
  BY <1>2, Went DEF Over
<1>3. CASE env.op[c].kind = "update" /\ Onward(c, "list", [at[c] EXCEPT !.job = "cognify"])
  <2> DEFINE r == [at[c] EXCEPT !.job = "cognify"]
  <2>1. r.ds = at[c].ds /\ r.left = at[c].left
    BY <1>1 DEF At
  <2> HIDE DEF r
  <2>2. at'[c] = r /\ pc'[c] = "list"
    BY <1>3, AtMoved, Went DEF Onward, r
  <2> QED
    BY <1>3, <2>1, <2>2
<1> QED
  BY <1>2, <1>3 DEF Written

LEMMA RefreshTo ==
    ASSUME StateInv, NEW c \in Call, Refresh(c), ~Error(c)
    PROVE  /\ pc[c] = "refresh" /\ Written(c) /\ at[c].id \in Id /\ Present(at[c].id)
           /\ at[c].rows[at[c].id] \in Row
           /\ row'[at[c].id].file = c
           /\ env.op[c].kind = "add" =>
                /\ row'[at[c].id].ds = row[at[c].id].ds
                /\ row'[at[c].id].content = row[at[c].id].content
                /\ row'[at[c].id].marked = row[at[c].id].marked
           /\ env.op[c].kind # "add" =>
                LET read == at[c].rows[at[c].id]
                IN  /\ row'[at[c].id].ds = read.ds
                    /\ row'[at[c].id].content = env.op[c].content
                    /\ row'[at[c].id].marked => read.content = env.op[c].content
<1> DEFINE i == at[c].id
           read == at[c].rows[i]
           op == env.op[c]
           p == [read EXCEPT !.content = op.content, !.file = c,
                             !.marked = read.marked /\ read.content = op.content]
           q == [row[i] EXCEPT !.file = c]
           n == IF op.kind = "add" THEN q ELSE p
<1>1. /\ at[c] \in At /\ op \in Op /\ pc[c] = "refresh" /\ Data
      /\ CallOK(c, "refresh", at[c], key[c], op, result[c])
  BY CallFacts, TypeParts DEF Refresh, StateInv
<1>2. /\ i \in Id /\ read \in Row /\ op.content \in Content /\ row \in [Id -> Row \cup {None}]
  BY <1>1, AtFields, OpFields DEF CallOK, Data
<1>3. Present(i) /\ row' = [row EXCEPT ![i] = n] /\ Written(c)
  BY DEF Refresh
<1>4. row[i] \in Row /\ c \in Id
  BY <1>2, <1>3, Apart DEF Present
<1>5. q.file = c /\ q.ds = row[i].ds /\ q.content = row[i].content /\ q.marked = row[i].marked
  BY <1>4 DEF Row
<1>6. p.file = c /\ p.ds = read.ds /\ p.content = op.content /\ (p.marked => read.content = op.content)
  <2>1. (read.marked /\ read.content = op.content) \in BOOLEAN
    BY <1>2, RowFields
  <2>2. PICK m \in BOOLEAN : m = (read.marked /\ read.content = op.content)
    BY ONLY <2>1
  <2>3. p = [read EXCEPT !.content = op.content, !.file = c, !.marked = m]
    BY <2>2
  <2>4. m => read.content = op.content
    BY <2>2
  <2> HIDE DEF p
  <2>5. p.file = c /\ p.ds = read.ds /\ p.content = op.content /\ p.marked = m
    BY <1>2, <1>4, <2>3 DEF Row
  <2> QED
    BY <2>4, <2>5
<1> HIDE DEF p, q
<1>7. row'[i] = n
  BY <1>2, <1>3
<1> QED
  BY <1>1, <1>2, <1>3, <1>5, <1>6, <1>7

LEMMA CreateRowTo ==
    ASSUME StateInv, NEW c \in Call, CreateRow(c)
    PROVE  /\ pc[c] = "create" /\ Written(c) /\ row'[at[c].id].marked = FALSE
           /\ at[c].id = IF env.op[c].kind = "add" THEN c ELSE env.op[c].item
<1>1. at[c] \in At /\ pc[c] = "create" /\ CallOK(c, pc[c], at[c], key[c], env.op[c], result[c])
  BY CallFacts DEF CreateRow
<1>2. at[c].id \in Id /\ row \in [Id -> Row \cup {None}]
  BY <1>1, AtFields, TypeParts DEF StateInv, Data
<1> QED
  BY <1>1, <1>2 DEF CreateRow, CallOK

LEMMA ListTo ==
    ASSUME StateInv, NEW c \in Call, List(c)
    PROVE  /\ pc[c] = "list" /\ at'[c].ds = at[c].ds /\ at'[c].left = at[c].left
           /\ at'[c].rows = row /\ at'[c].todo = Members(at[c].ds)
<1> DEFINE S == Members(at[c].ds)
           r == [at[c] EXCEPT !.rows = row, !.todo = S]
<1>1. at[c] \in At /\ at \in [Call -> At] /\ pc[c] = "list"
  BY CallFacts, TypeParts DEF StateInv, Control, List
<1>2. at' = [at EXCEPT ![c] = r]
  BY <1>1 DEF List
<1> HIDE DEF S
<1>3. r.ds = at[c].ds /\ r.left = at[c].left /\ r.rows = row /\ r.todo = S
  BY <1>1 DEF At
<1> HIDE DEF r
<1> QED
  BY <1>1, <1>2, <1>3, AtMoved DEF S

LEMMA FilterTo ==
    ASSUME StateInv, NEW c \in Call, Filter(c)
    PROVE  /\ pc[c] = "filter" /\ at'[c].ds = at[c].ds /\ at'[c].left = at[c].left
           /\ at'[c].rows = at[c].rows /\ at'[c].todo \subseteq at[c].todo
<1> DEFINE S == {i \in at[c].todo : ~(Present(i) /\ row[i].marked)}
           r == [at[c] EXCEPT !.todo = S]
<1>1. at[c] \in At /\ at \in [Call -> At] /\ pc[c] = "filter"
  BY CallFacts, TypeParts DEF StateInv, Control, Filter
<1>2. UNCHANGED at \/ at' = [at EXCEPT ![c] = r]
  BY <1>1 DEF Filter
<1>3. S \subseteq at[c].todo
  OBVIOUS
<1> HIDE DEF S
<1>4. r.ds = at[c].ds /\ r.left = at[c].left /\ r.rows = at[c].rows /\ r.todo = S
  BY <1>1 DEF At
<1> HIDE DEF r
<1> QED
  BY <1>1, <1>2, <1>3, <1>4, AtMoved

LEMMA MarkCompleteTo ==
    ASSUME StateInv, NEW c \in Call, MarkComplete(c)
    PROVE  /\ pc[c] = "mark" /\ at'[c] = at[c]
           /\ \A i \in Id : row[i] # None /\ row'[i].marked
                             => row[i].marked \/ i \in at[c].todo
<1>1. /\ pc[c] = "mark" /\ UNCHANGED at /\ row \in [Id -> Row \cup {None}]
      /\ row' = [i \in Id |-> IF i \in at[c].todo /\ Present(i)
                              THEN [row[i] EXCEPT !.marked = TRUE] ELSE row[i]]
  BY TypeParts DEF StateInv, Data, MarkComplete
<1>2. \A i \in Id : i \notin at[c].todo => row'[i] = row[i]
  BY <1>1
<1> QED
  BY <1>1, <1>2

\* How a call begins.
LEMMA BeginWith ==
    ASSUME StateInv, NEW c \in Call, Begin(c)
    PROVE  /\ pc[c] = "new"
           /\ pc'[c] = "over" => at'[c] = at[c]
           /\ pc'[c] = "store" => env.op[c].kind = "add"
           /\ pc'[c] = "list" => env.op[c].kind = "cognify"
           /\ env.op[c].kind = "update" /\ pc'[c] # "over" =>
                env.op[c].item \in Members(env.op[c].ds)
           /\ ~(env.op[c].kind = "forget" /\ env.op[c].scope = "user") =>
                at'[c].ds = at[c].ds /\ at'[c].left = at[c].left
<1>1. at[c] \in At /\ pc[c] = "new"
  BY CallFacts DEF Begin
<1>2. ASSUME NEW l, NEW j, Onward(c, l, [at[c] EXCEPT !.job = j])
      PROVE  pc'[c] = l /\ at'[c].ds = at[c].ds /\ at'[c].left = at[c].left
  <2> DEFINE r == [at[c] EXCEPT !.job = j]
  <2>1. r.ds = at[c].ds /\ r.left = at[c].left
    BY <1>1 DEF At
  <2> HIDE DEF r
  <2>2. pc'[c] = l /\ at'[c] = r
    BY <1>2, AtMoved, Went DEF Onward, r
  <2> QED
    BY <2>1, <2>2
<1>3. ASSUME NEW x, Over(c, x), UNCHANGED at
      PROVE  pc'[c] = "over" /\ at'[c] = at[c]
  BY <1>3, Went DEF Over
<1>4. ASSUME NEW r, Onward(c, "hold", r)
      PROVE  pc'[c] = "hold"
  BY <1>4, Went DEF Onward
<1>5. CASE env.op[c].kind = "add" /\ Onward(c, "store", [at[c] EXCEPT !.job = "add"])
  <2>1. pc'[c] = "store" /\ at'[c].ds = at[c].ds /\ at'[c].left = at[c].left
    BY <1>2, <1>5
  <2> QED
    BY <1>1, <1>5, <2>1
<1>6. CASE env.op[c].kind = "cognify" /\ Onward(c, "list", [at[c] EXCEPT !.job = "cognify"])
  <2>1. pc'[c] = "list" /\ at'[c].ds = at[c].ds /\ at'[c].left = at[c].left
    BY <1>2, <1>6
  <2> QED
    BY <1>1, <1>6, <2>1
<1>7. CASE env.op[c].kind = "forget" /\ Onward(c, "hold", [at[c] EXCEPT !.job = "forget"])
  <2>1. pc'[c] = "hold" /\ at'[c].ds = at[c].ds /\ at'[c].left = at[c].left
    BY <1>2, <1>7
  <2> QED
    BY <1>1, <1>7, <2>1
<1>8. CASE /\ env.op[c].kind = "forget" /\ env.op[c].scope = "user"
           /\ \/ Over(c, "ok") /\ UNCHANGED at
              \/ \E r : Onward(c, "hold", r)
  BY <1>1, <1>3, <1>4, <1>8
<1>9. CASE /\ env.op[c].kind = "update" /\ env.op[c].item \in Members(env.op[c].ds)
           /\ Onward(c, "hold", [at[c] EXCEPT !.job = "forget"])
  <2>1. pc'[c] = "hold" /\ at'[c].ds = at[c].ds /\ at'[c].left = at[c].left
    BY <1>2, <1>9
  <2> QED
    BY <1>1, <1>9, <2>1
<1>10. CASE env.op[c].kind = "update" /\ Error(c)
  BY <1>1, <1>3, <1>10 DEF Error
<1> QED
  BY <1>5, <1>6, <1>7, <1>8, <1>9, <1>10 DEF Begin

\* Which step leaves a place, and which one comes to it.
LEMMA Departs ==
    ASSUME NEW c \in Call, Act(c)
    PROVE  /\ pc[c] = "graph" => CleanGraph(c) \/ ForgetFails(c)
           /\ pc[c] = "ledger" => CleanLedger(c) \/ ForgetFails(c)
           /\ pc[c] = "unmark" => Unmark(c) \/ ForgetFails(c)
           /\ pc[c] = "detach" => Detach(c) \/ ForgetFails(c)
           /\ pc[c] = "drop" => DropDataset(c) \/ ForgetFails(c)
           /\ pc[c] = "purge" => Purge(c) \/ ForgetFails(c)
           /\ pc[c] = "erase" => Erase(c) \/ ForgetFails(c)
           /\ pc[c] = "count" => CountReferences(c) \/ ForgetFails(c)
           /\ pc[c] = "unlink" => Unlink(c) \/ ForgetFails(c)
           /\ pc[c] = "write" => WriteGraph(c)
           /\ pc[c] = "mark" => MarkComplete(c)
           /\ ForgetFails(c) => env.fails
<1>1. ForgetFails(c) => env.fails /\ pc[c] \in Forgetting
  BY DEF ForgetFails
<1>2. /\ Begin(c) => pc[c] = "new"
      /\ Hold(c) => pc[c] = "hold"
      /\ Resolve(c) => pc[c] = "resolve"
      /\ Clear(c) => pc[c] = "clear"
      /\ CleanGraph(c) => pc[c] = "graph"
      /\ CleanLedger(c) => pc[c] = "ledger"
      /\ Unmark(c) => pc[c] = "unmark"
      /\ Detach(c) => pc[c] = "detach"
      /\ DropDataset(c) => pc[c] = "drop"
      /\ Purge(c) => pc[c] = "purge"
      /\ Erase(c) => pc[c] = "erase"
      /\ CountReferences(c) => pc[c] = "count"
      /\ Unlink(c) => pc[c] = "unlink"
  BY DEF Begin, Hold, Resolve, Clear, CleanGraph, CleanLedger, Unmark, Detach, DropDataset, Purge,
         Erase, CountReferences, Unlink
<1>3. Add(c) => pc[c] \in Adding
  BY DEF Add, StoreFile, FindDataset, Grant, LockContent, Lookup, Refresh, CreateRow, Adding
<1>4. /\ List(c) => pc[c] = "list"
      /\ Filter(c) => pc[c] = "filter"
      /\ Read(c) => pc[c] = "read"
      /\ RecordLedger(c) => pc[c] = "record"
      /\ WriteGraph(c) => pc[c] = "write"
      /\ MarkComplete(c) => pc[c] = "mark"
  BY DEF List, Filter, Read, RecordLedger, WriteGraph, MarkComplete
<1> QED
  BY <1>1, <1>2, <1>3, <1>4 DEF Act, Forget, Cognify, Forgetting, Adding

LEMMA Arrives ==
    ASSUME StateInv, NEW c \in Call, Act(c)
    PROVE  /\ pc'[c] = "resolve" => Hold(c)
           /\ pc'[c] = "clear" => Resolve(c)
           /\ pc'[c] = "graph" => Resolve(c) \/ Clear(c)
           /\ pc'[c] = "ledger" => CleanGraph(c)
           /\ pc'[c] = "unmark" => CleanLedger(c)
           /\ pc'[c] = "detach" => CleanLedger(c) \/ Detach(c)
           /\ pc'[c] = "drop" => Detach(c)
           /\ pc'[c] = "purge" => DropDataset(c) \/ Purge(c) \/ CountReferences(c) \/ Unlink(c)
           /\ pc'[c] = "erase" => Purge(c)
           /\ pc'[c] = "count" => Erase(c)
           /\ pc'[c] = "unlink" => CountReferences(c)
           /\ pc'[c] \in {"refresh", "create"} => Lookup(c)
           /\ pc'[c] = "hold" /\ at'[c].job = "cognify" => List(c)
           /\ pc'[c] = "filter" => Hold(c)
           /\ pc'[c] = "read" => Filter(c)
           /\ pc'[c] = "record" => Read(c)
           /\ pc'[c] = "write" => RecordLedger(c)
           /\ pc'[c] = "mark" => WriteGraph(c)
           /\ pc'[c] # "new"
<1>1. CASE Begin(c)
  BY <1>1, BeginTo
<1>2. CASE Hold(c)
  BY <1>2, HoldTo
<1>3. CASE Forget(c)
  <2>1. CASE Resolve(c)
    BY <2>1, ResolveOK
  <2>2. CASE Clear(c)
    BY <2>2, ClearOK
  <2>3. CASE CleanGraph(c)
    BY <2>3, CleanGraphOK
  <2>4. CASE CleanLedger(c)
    BY <2>4, CleanLedgerOK
  <2>5. CASE Unmark(c)
    BY <2>5, UnmarkOK
  <2>6. CASE Detach(c)
    BY <2>6, DetachOK
  <2>7. CASE DropDataset(c)
    BY <2>7, DropDatasetOK
  <2>8. CASE Purge(c)
    BY <2>8, PurgeOK
  <2>9. CASE Erase(c)
    BY <2>9, EraseOK
  <2>10. CASE CountReferences(c)
    BY <2>10, CountOK
  <2>11. CASE Unlink(c)
    BY <2>11, UnlinkOK
  <2>12. CASE ForgetFails(c)
    BY <2>12, ForgetFailsOK
  <2> QED
    BY <1>3, <2>1, <2>2, <2>3, <2>4, <2>5, <2>6, <2>7, <2>8, <2>9, <2>10, <2>11, <2>12 DEF Forget
<1>4. CASE Add(c)
  <2>1. CASE StoreFile(c)
    BY <2>1, StoreFileOK
  <2>2. CASE FindDataset(c)
    BY <2>2, FindDatasetOK
  <2>3. CASE Grant(c)
    BY <2>3, GrantOK
  <2>4. CASE LockContent(c)
    BY <2>4, LockContentOK
  <2>5. CASE Lookup(c)
    BY <2>5, LookupOK
  <2>6. CASE Refresh(c)
    BY <2>6, RefreshOK
  <2>7. CASE CreateRow(c)
    BY <2>7, CreateRowOK
  <2> QED
    BY <1>4, <2>1, <2>2, <2>3, <2>4, <2>5, <2>6, <2>7 DEF Add
<1>5. CASE Cognify(c)
  <2>1. CASE List(c)
    BY <2>1, ListOK
  <2>2. CASE Filter(c)
    BY <2>2, FilterOK
  <2>3. CASE Read(c)
    BY <2>3, ReadOK
  <2>4. CASE RecordLedger(c)
    BY <2>4, RecordLedgerOK
  <2>5. CASE WriteGraph(c)
    BY <2>5, WriteGraphOK
  <2>6. CASE MarkComplete(c)
    BY <2>6, MarkCompleteOK
  <2> QED
    BY <1>5, <2>1, <2>2, <2>3, <2>4, <2>5, <2>6 DEF Cognify
<1> QED
  BY <1>1, <1>2, <1>3, <1>4, <1>5 DEF Act

\* A forget keeps its dataset and its targets from one phase to the next.
LEMMA TargetsKept ==
    ASSUME StateInv, NEW c \in Call, Act(c), pc'[c] \in Forgetting \ {"resolve"}, ~Resolve(c)
    PROVE  /\ pc[c] \in Forgetting \ {"resolve"} /\ at'[c].ds = at[c].ds
           /\ at'[c].links = at[c].links /\ at'[c].drop = at[c].drop
<1> DEFINE Kept == at'[c].ds = at[c].ds /\ at'[c].links = at[c].links /\ at'[c].drop = at[c].drop
<1>1. Clear(c) \/ CleanGraph(c) \/ CleanLedger(c) \/ Erase(c) \/ CountReferences(c) \/ Unlink(c) => Kept
  BY ClearOK, CleanGraphOK, CleanLedgerOK, EraseOK, CountOK, UnlinkOK
<1>2. Detach(c) => Kept
  BY DetachOK
<1>3. DropDataset(c) => Kept
  BY DropDatasetTo
<1>4. Purge(c) => Kept
  <2> SUFFICES ASSUME Purge(c) PROVE Kept
    OBVIOUS
  <2>1. CASE Done(c)
    BY <2>1, DoneTo DEF Forgetting
  <2> QED
    BY <2>1, PurgeTo
<1>5. \/ Clear(c) \/ CleanGraph(c) \/ CleanLedger(c) \/ Erase(c) \/ CountReferences(c) \/ Unlink(c)
      \/ Detach(c) \/ DropDataset(c) \/ Purge(c)
  BY Arrives DEF Forgetting
<1>6. pc[c] \in Forgetting \ {"resolve"}
  BY <1>5 DEF Clear, CleanGraph, CleanLedger, Erase, CountReferences, Unlink, Detach, DropDataset,
              Purge, Forgetting
<1> QED
  BY <1>1, <1>2, <1>3, <1>4, <1>5, <1>6

-----------------------------------------------------------------------------
(* A forget removes the memory of its targets, and no other *)

\* The places of a forget that has deleted its ledger rows.
Cleaned == {"unmark", "detach", "drop", "purge", "erase", "count", "unlink"}

\* A forget of an item has no other target, and a forget of a dataset has all; its
\* targets have no ledger row once it has deleted them.
TargetsInv ==
    \A c \in Call :
      /\ pc[c] \in Forgetting \ {"resolve"} =>
           IF ItemScope(c) THEN at[c].links \subseteq {env.op[c].item} ELSE at[c].drop
      /\ pc[c] \in Cleaned =>
           \A l \in ledger : l[1] = at[c].ds => ~at[c].drop /\ l[2] \notin at[c].links

\* A ledger row has its node in the graph, or a cognify is about to write the node,
\* or a forget is about to delete the row.
InGraph(l) ==
    \/ <<l[1], l[3]>> \in graph
    \/ \E c \in Call : pc[c] = "write" /\ Records(c, l)
    \/ \E c \in Call : Doomed(c, l)

\* When every dataset has its own graph and nothing fails, the graph has what the
\* ledger names, and what a cognify is about to mark has its ledger rows.
GraphInv ==
    env.own /\ ~env.fails =>
      /\ \A l \in ledger : InGraph(l)
      /\ \A c \in Call : pc[c] = "mark"
           => \A i \in at[c].todo : \A n \in Extracted(c, i) : <<at[c].ds, Owner(i, n), n>> \in ledger

\* What a step may do to the ledger.
LEMMA LedgerMoves ==
    ASSUME StateInv, LedgerInv, NEW c \in Call, Act(c)
    PROVE  /\ \A l \in ledger' : l \in ledger \/ (/\ RecordLedger(c) /\ pc[c] = "record"
                                                  /\ Records(c, l) /\ l[1] = at[c].ds)
           /\ \A l \in ledger : l \in ledger' \/ (/\ CleanLedger(c) /\ pc[c] = "ledger" /\ l[1] = at[c].ds
                                                  /\ at[c].drop \/ l[2] \in at[c].links)
<1>1. CASE CleanGraph(c) \/ WriteGraph(c)
  BY <1>1 DEF CleanGraph, WriteGraph
<1>2. CASE RecordLedger(c)
  BY <1>2, RecordedRows DEF RecordLedger
<1>3. CASE CleanLedger(c)
  BY <1>3 DEF CleanLedger
<1>4. CASE Quiet(c)
  BY <1>4 DEF Quiet, memory
<1> QED
  BY <1>1, <1>2, <1>3, <1>4, QuietSteps

LEMMA TargetsStep ==
    ASSUME StateInv, LedgerInv, TargetsInv, NEW c \in Call, Act(c)
    PROVE  TargetsInv'
<1>1. Stay(c) /\ UNCHANGED env /\ \A o \in Call \ {c} : pc'[o] = pc[o] /\ at'[o] = at[o]
  BY ActOK DEF Stay
<1>2. \A o \in Call : (ItemScope(o)' <=> ItemScope(o))
  BY <1>1 DEF ItemScope
<1>3. ASSUME NEW o \in Call \ {c}
      PROVE  /\ pc'[o] \in Forgetting \ {"resolve"} =>
                  IF ItemScope(o)' THEN at'[o].links \subseteq {env'.op[o].item} ELSE at'[o].drop
             /\ pc'[o] \in Cleaned =>
                  \A l \in ledger' : l[1] = at'[o].ds => ~at'[o].drop /\ l[2] \notin at'[o].links
  <2>1. /\ pc[o] \in Forgetting \ {"resolve"} =>
             IF ItemScope(o) THEN at[o].links \subseteq {env.op[o].item} ELSE at[o].drop
        /\ pc[o] \in Cleaned =>
             \A l \in ledger : l[1] = at[o].ds => ~at[o].drop /\ l[2] \notin at[o].links
    BY DEF TargetsInv
  <2>2. ASSUME pc[o] \in Cleaned, NEW l \in ledger', l[1] = at[o].ds
        PROVE  l \in ledger
    <3>1. pc[o] \in Locked
      BY <2>2 DEF Cleaned, Locked, Forgetting
    <3>2. "record" \in Locked
      BY DEF Locked, Cognifying
    <3>3. pc[c] = "record" => at[c].ds # at[o].ds
      BY <3>1, <3>2, LocksApart
    <3> QED
      BY <2>2, <3>3, LedgerMoves
  <2> QED
    BY <1>1, <1>2, <2>1, <2>2
<1>4. ASSUME pc'[c] \in Forgetting \ {"resolve"}
      PROVE  IF ItemScope(c)' THEN at'[c].links \subseteq {env'.op[c].item} ELSE at'[c].drop
  <2>1. CASE Resolve(c)
    <3>1. /\ at'[c].links = Found(c) /\ (~ItemScope(c) => at'[c].drop)
      BY <1>4, <2>1, ResolveTo DEF Forgetting
    <3> QED
      BY <1>1, <1>2, <3>1 DEF Found
  <2>2. CASE ~Resolve(c)
    BY <1>1, <1>2, <1>4, <2>2, TargetsKept DEF TargetsInv
  <2> QED
    BY <2>1, <2>2
<1>5. ASSUME pc'[c] \in Cleaned, NEW l \in ledger', l[1] = at'[c].ds
      PROVE  ~at'[c].drop /\ l[2] \notin at'[c].links
  <2>1. ~Resolve(c)
    BY <1>5, ResolveOK DEF Cleaned
  <2>2. pc'[c] \in Forgetting \ {"resolve"}
    BY <1>5 DEF Cleaned, Forgetting
  <2>3. at'[c].ds = at[c].ds /\ at'[c].links = at[c].links /\ at'[c].drop = at[c].drop
    BY <2>1, <2>2, TargetsKept
  <2>4. CASE CleanLedger(c)
    BY <1>5, <2>3, <2>4 DEF CleanLedger
  <2>5. CASE ~CleanLedger(c)
    <3>1. pc[c] \in Cleaned
      <4>1. \/ Detach(c) \/ DropDataset(c) \/ Purge(c) \/ CountReferences(c) \/ Unlink(c) \/ Erase(c)
        BY <1>5, <2>5, Arrives DEF Cleaned
      <4> QED
        BY <4>1 DEF Detach, DropDataset, Purge, CountReferences, Unlink, Erase, Cleaned
    <3>2. l \in ledger
      BY <3>1, LedgerMoves DEF Cleaned
    <3> QED
      BY <1>5, <2>3, <3>1, <3>2 DEF TargetsInv
  <2> QED
    BY <2>4, <2>5
<1> QED
  BY <1>3, <1>4, <1>5 DEF TargetsInv

LEMMA TargetsInvariant == Spec => [](StateInv /\ LedgerInv /\ TargetsInv)
<1>1. Init => TargetsInv
  <2> SUFFICES ASSUME Init PROVE TargetsInv
    OBVIOUS
  <2>1. \A c \in Call : pc[c] \in {"new", "over"}
    BY DEF Init
  <2> QED
    BY <2>1 DEF TargetsInv, Forgetting, Cleaned
<1>2. StateInv /\ LedgerInv /\ TargetsInv /\ [Next]_vars => TargetsInv'
  <2> SUFFICES ASSUME StateInv, LedgerInv, TargetsInv, [Next]_vars PROVE TargetsInv'
    OBVIOUS
  <2>1. CASE UNCHANGED vars
    BY <2>1 DEF vars, rows, memory, TargetsInv, ItemScope
  <2> QED
    BY <2>1, Steps, TargetsStep
<1> QED
  BY <1>1, <1>2, LedgerInit, LedgerStep, StateInvariant, PTL DEF Spec

LEMMA GraphStep ==
    ASSUME StateInv, LedgerInv, GraphInv, NEW c \in Call, Act(c)
    PROVE  GraphInv'
<1>1. UNCHANGED env /\ \A o \in Call \ {c} : pc'[o] = pc[o] /\ at'[o] = at[o]
  BY ActOK DEF Stay
<1> SUFFICES ASSUME env.own, ~env.fails
             PROVE  /\ \A l \in ledger' : InGraph(l)'
                    /\ \A o \in Call : pc'[o] = "mark"
                         => \A i \in at'[o].todo : \A n \in Extracted(o, i)' : <<at'[o].ds, Owner(i, n), n>> \in ledger'
  BY <1>1 DEF GraphInv
<1>2. ~ForgetFails(c)
  BY Departs
<1>3. ledger \subseteq Dataset \X (Id \cup {None}) \X Node
  BY TypeParts DEF StateInv, Data
<1>4. /\ \A o \in Call \ {c} : \A i : Extracted(o, i)' = Extracted(o, i)
      /\ \A o \in Call \ {c} : \A l : Records(o, l) => Records(o, l)'
  BY <1>1 DEF Extracted, Records
<1>5. ASSUME NEW l \in ledger'
      PROVE  InGraph(l)'
  <2>1. CASE l \notin ledger
    <3>1. RecordLedger(c) /\ Records(c, l)
      BY <2>1, LedgerMoves
    <3>2. pc'[c] = "write" /\ at'[c] = at[c]
      BY <3>1, RecordLedgerOK
    <3>3. Records(c, l)'
      BY <3>1, <3>2 DEF Extracted, Records
    <3> QED
      BY <3>2, <3>3 DEF InGraph
  <2>2. CASE l \in ledger
    <3>1. InGraph(l)
      BY <2>2 DEF GraphInv
    <3>2. CASE <<l[1], l[3]>> \in graph
      <4>1. CASE CleanGraph(c)
        <5> DEFINE d == at[c].ds
                   gone == IF at[c].drop THEN IF env.own THEN Node ELSE Owned(d)
                           ELSE UNION {UniqueNodes(d, i) : i \in at[c].links}
        <5>1. /\ graph' = graph \ ({Store(d)} \X gone) /\ Store(d) = d
              /\ pc'[c] = "ledger" /\ at'[c] = at[c]
          BY <4>1, CleanGraphOK DEF CleanGraph, Store
        <5>2. CASE l[1] = d /\ l[3] \in gone
          <6>1. at[c].drop \/ l[2] \in at[c].links
            <7>1. CASE ~at[c].drop
              <8>1. PICK i \in at[c].links : l[3] \in UniqueNodes(d, i)
                BY <5>2, <7>1
              <8>2. l[2] = i
                BY <2>2, <5>2, <8>1 DEF UniqueNodes
              <8> QED
                BY <8>1, <8>2
            <7> QED
              BY <7>1
          <6>2. Doomed(c, l)'
            BY <5>1, <5>2, <6>1 DEF Doomed
          <6> QED
            BY <6>2 DEF InGraph
        <5>3. CASE ~(l[1] = d /\ l[3] \in gone)
          <6> HIDE DEF gone, d
          <6>1. <<l[1], l[3]>> \in graph'
            BY <3>2, <5>1, <5>3
          <6> QED
            BY <6>1 DEF InGraph
        <5> QED
          BY <5>2, <5>3
      <4>2. CASE ~CleanGraph(c)
        <5>1. graph \subseteq graph'
          BY <4>2, QuietSteps DEF Quiet, memory, CleanLedger, RecordLedger, WriteGraph
        <5> QED
          BY <3>2, <5>1 DEF InGraph
      <4> QED
        BY <4>1, <4>2
    <3>3. ASSUME NEW o \in Call, pc[o] = "write", Records(o, l)
          PROVE  InGraph(l)'
      <4>1. CASE o # c
        BY <1>1, <1>4, <3>3, <4>1 DEF InGraph
      <4>2. CASE o = c
        <5>1. WriteGraph(c)
          BY <3>3, <4>2, Departs
        <5>2. l[1] = at[c].ds /\ \E i \in at[c].todo : l[3] \in Extracted(c, i)
          BY <3>3, <4>2 DEF Records
        <5>3. graph' = graph \cup ({l[1]} \X UNION {Extracted(c, i) : i \in at[c].todo})
          BY <5>1, <5>2 DEF WriteGraph, Store
        <5>4. <<l[1], l[3]>> \in graph'
          BY <5>2, <5>3
        <5> QED
          BY <5>4 DEF InGraph
      <4> QED
        BY <4>1, <4>2
    <3>4. ASSUME NEW o \in Call, Doomed(o, l)
          PROVE  InGraph(l)'
      <4>1. CASE o # c
        BY <1>1, <3>4, <4>1 DEF InGraph, Doomed
      <4>2. CASE o = c
        <5>1. CleanLedger(c)
          BY <1>2, <3>4, <4>2, Departs DEF Doomed
        <5>2. l \notin ledger'
          BY <3>4, <4>2, <5>1 DEF CleanLedger, Doomed
        <5> QED
          BY <1>5, <5>2
      <4> QED
        BY <4>1, <4>2
    <3> QED
      BY <3>1, <3>2, <3>3, <3>4 DEF InGraph
  <2> QED
    BY <2>1, <2>2
<1>6. ASSUME NEW o \in Call, pc'[o] = "mark", NEW i \in at'[o].todo, NEW n \in Extracted(o, i)'
      PROVE  <<at'[o].ds, Owner(i, n), n>> \in ledger'
  <2>1. CASE o = c
    <3>1. WriteGraph(c)
      BY <1>6, <2>1, Arrives
    <3>2. pc[c] = "write" /\ at'[c] = at[c] /\ ledger' = ledger
      BY <3>1, WriteGraphOK DEF WriteGraph
    <3>3. i \in at[c].todo /\ n \in Extracted(c, i)
      BY <1>6, <2>1, <3>2 DEF Extracted
    <3> QED
      BY <2>1, <3>2, <3>3 DEF LedgerInv
  <2>2. CASE o # c
    <3>1. pc[o] = "mark" /\ at'[o] = at[o] /\ n \in Extracted(o, i)
      BY <1>1, <1>4, <1>6, <2>2
    <3>2. <<at[o].ds, Owner(i, n), n>> \in ledger
      BY <1>6, <3>1 DEF GraphInv
    <3>3. "mark" \in Locked /\ "ledger" \in Locked
      BY DEF Locked, Forgetting, Cognifying
    <3>4. pc[c] = "ledger" => at[c].ds # at[o].ds
      BY <2>2, <3>1, <3>3, LocksApart
    <3> QED
      BY <3>1, <3>2, <3>4, LedgerMoves
  <2> QED
    BY <2>1, <2>2
<1> QED
  BY <1>5, <1>6

LEMMA GraphInvariant == Spec => []GraphInv
<1>1. Init => GraphInv
  <2> SUFFICES ASSUME Init, env.own PROVE GraphInv
    BY DEF GraphInv
  <2>1. \A c \in Call : pc[c] \in {"new", "over"}
    BY DEF Init
  <2>2. \A l \in ledger : <<l[1], l[3]>> \in graph
    BY DEF Init, Store
  <2> QED
    BY <2>1, <2>2 DEF GraphInv, InGraph
<1>2. StateInv /\ LedgerInv /\ GraphInv /\ [Next]_vars => GraphInv'
  <2> SUFFICES ASSUME StateInv, LedgerInv, GraphInv, [Next]_vars PROVE GraphInv'
    OBVIOUS
  <2>1. CASE UNCHANGED vars
    BY <2>1 DEF vars, rows, memory, GraphInv, InGraph, Doomed, Extracted, Records
  <2> QED
    BY <2>1, Steps, GraphStep
<1> QED
  BY <1>1, <1>2, TargetsInvariant, PTL DEF Spec

\* With a graph for each dataset and nothing failing, a forget that returns has
\* removed what is recorded for its dataset, or for its item if that had a row, and
\* the graph of the dataset is left with exactly the nodes that the ledger still
\* names: the nodes that other items share stay, and after the forget of an item so
\* do the types, which are recorded for no item, whatever other calls do meanwhile.
THEOREM ForgetRemovesMemory == Spec => ForgetLeavesNothing
<1> DEFINE A == \A c \in Call, d \in Dataset :
                  (/\ env.op[c].kind = "forget" /\ d = at[c].ds /\ pc[c] \in Forgetting \ {"resolve"}
                   /\ pc'[c] \in {"over", "hold"} /\ result'[c] # "error"
                   /\ env.own /\ ~env.fails)
                    => /\ IF ItemScope(c) THEN at[c].links # {} => OwnedBy(d, env.op[c].item)' = {}
                                          ELSE Owned(d)' = {}
                       /\ {n \in Node : <<d, n>> \in graph'} = Owned(d)'
<1>1. StateInv /\ LedgerInv /\ TargetsInv /\ GraphInv /\ [Next]_vars => [A]_vars
  <2> SUFFICES ASSUME StateInv, LedgerInv, TargetsInv, GraphInv, [Next]_vars,
                      NEW c \in Call, NEW d \in Dataset,
                      env.op[c].kind = "forget", d = at[c].ds, pc[c] \in Forgetting \ {"resolve"},
                      pc'[c] \in {"over", "hold"}, env.own, ~env.fails
               PROVE  /\ IF ItemScope(c) THEN at[c].links # {} => OwnedBy(d, env.op[c].item)' = {}
                                         ELSE Owned(d)' = {}
                      /\ {n \in Node : <<d, n>> \in graph'} = Owned(d)'
    OBVIOUS
  <2>1. Act(c)
    <3>1. pc'[c] # pc[c]
      BY DEF Forgetting
    <3>2. PICK a \in Call : Act(a)
      BY <3>1, Steps DEF vars
    <3>3. a = c
      BY <3>1, <3>2, ActOK DEF Stay
    <3> QED
      BY <3>2, <3>3
  <2>2. Unmark(c) \/ Purge(c)
    <3>1. \/ Clear(c) \/ CleanGraph(c) \/ CleanLedger(c) \/ Unmark(c) \/ Detach(c) \/ DropDataset(c)
          \/ Purge(c) \/ Erase(c) \/ CountReferences(c) \/ Unlink(c)
      <4>1. pc[c] = "clear" => Clear(c)
        BY <2>1 DEF Act, Begin, Hold, Forget, Resolve, CleanGraph, CleanLedger, Unmark, Detach,
           DropDataset, Purge, Erase, CountReferences, Unlink, ForgetFails, Add, StoreFile, FindDataset,
           Grant, LockContent, Lookup, Refresh, CreateRow, Cognify, List, Filter, Read, RecordLedger,
           WriteGraph, MarkComplete
      <4> QED
        BY <2>1, <4>1, Departs DEF Forgetting
    <3> QED
      BY <3>1, ClearOK, CleanGraphOK, CleanLedgerOK, DetachOK, DropDatasetOK, EraseOK, CountOK, UnlinkOK
  <2>3. pc[c] \in Cleaned /\ pc[c] \in Locked /\ UNCHANGED <<ledger, graph>>
    BY <2>2, UnmarkOK, PurgeOK DEF Unmark, Purge, Cleaned, Locked, Forgetting, memory
  <2>4. /\ \A l \in ledger : l[1] = d => ~at[c].drop /\ l[2] \notin at[c].links
        /\ IF ItemScope(c) THEN at[c].links \subseteq {env.op[c].item} ELSE at[c].drop
    BY <2>3 DEF TargetsInv
  <2>5. /\ Owned(d)' = {l[3] : l \in {l \in ledger : l[1] = d}}
        /\ \A i : OwnedBy(d, i)' = {l[3] : l \in {l \in ledger : l[1] = d /\ l[2] = i}}
    BY <2>3 DEF Owned, OwnedBy
  <2>6. IF ItemScope(c) THEN at[c].links # {} => OwnedBy(d, env.op[c].item)' = {}
                        ELSE Owned(d)' = {}
    <3>1. CASE ItemScope(c)
      <4>1. at[c].links # {} => env.op[c].item \in at[c].links
        BY <2>4, <3>1
      <4>2. at[c].links # {} => ~\E l \in ledger : l[1] = d /\ l[2] = env.op[c].item
        BY <2>4, <4>1
      <4>3. OwnedBy(d, env.op[c].item)' = {l[3] : l \in {l \in ledger : l[1] = d /\ l[2] = env'.op[c].item}}
        BY <2>3 DEF OwnedBy
      <4>4. env' = env
        BY <2>1, ActOK DEF Stay
      <4> QED
        BY <3>1, <4>2, <4>3, <4>4
    <3>2. CASE ~ItemScope(c)
      BY <2>4, <2>5, <3>2
    <3> QED
      BY <3>1, <3>2
  <2>7. \A o \in Call : pc[o] \in {"write", "ledger"} => at[o].ds # d
    <3>1. "write" \in Locked /\ "ledger" \in Locked
      BY DEF Locked, Forgetting, Cognifying
    <3>2. pc[c] \notin {"write", "ledger"}
      BY <2>3 DEF Cleaned
    <3> QED
      BY <2>3, <3>1, <3>2, LocksApart
  <2>8. ASSUME NEW n \in Node, <<d, n>> \in graph
        PROVE  n \in Owned(d)'
    <3>1. PICK l \in ledger : Store(l[1]) = d /\ l[3] = n
      BY <2>8 DEF LedgerInv
    <3>2. l[1] = d
      BY <3>1 DEF Store
    <3> QED
      BY <2>5, <3>1, <3>2
  <2>9. ASSUME NEW l \in ledger, l[1] = d
        PROVE  l[3] \in Node /\ <<d, l[3]>> \in graph
    <3>1. InGraph(l)
      BY DEF GraphInv
    <3>2. <<d, l[3]>> \in graph
      BY <2>7, <2>9, <3>1 DEF InGraph, Doomed, Records
    <3>3. ledger \subseteq Dataset \X (Id \cup {None}) \X Node
      BY TypeParts DEF StateInv, Data
    <3> QED
      BY <3>2, <3>3
  <2>10. {n \in Node : <<d, n>> \in graph'} = Owned(d)'
    BY <2>3, <2>5, <2>8, <2>9
  <2> QED
    BY <2>6, <2>10
<1>2. ForgetLeavesNothing <=> [][A]_vars
  BY DEF ForgetLeavesNothing
<1> QED
  BY <1>1, <1>2, TargetsInvariant, GraphInvariant, PTL DEF Spec

-----------------------------------------------------------------------------
(* The items do not move *)

\* What a step does to the row of i: it leaves it there, an add or an update rewrites
\* it, or an add or an update creates it.
RowKept(c, i) ==
    /\ row[i] # None
    /\ row'[i].ds \in {row[i].ds, None} /\ row'[i].content = row[i].content
    /\ row'[i].file = row[i].file
    /\ row'[i].marked => row[i].marked \/ (MarkComplete(c) /\ i \in at[c].todo)

RowReadded(c, i) ==
    /\ Refresh(c) /\ pc[c] = "refresh" /\ i = at[c].id /\ env.op[c].kind = "add" /\ row[i] # None
    /\ row'[i].ds = row[i].ds /\ row'[i].content = row[i].content
    /\ row'[i].marked = row[i].marked /\ row'[i].file = c

RowUpdated(c, i) ==
    /\ Refresh(c) /\ pc[c] = "refresh" /\ i = at[c].id /\ env.op[c].kind = "update" /\ row[i] # None
    /\ row'[i].ds = at[c].rows[i].ds /\ row'[i].content = env.op[c].content
    /\ row'[i].marked => at[c].rows[i].content = env.op[c].content
    /\ row'[i].file = c

RowCreated(c, i) ==
    /\ CreateRow(c) /\ pc[c] = "create"
    /\ env.op[c].kind \in {"add", "update"}
    /\ i = IF env.op[c].kind = "add" THEN c ELSE env.op[c].item
    /\ row'[i].ds = at[c].ds /\ row'[i].content = env.op[c].content
    /\ row'[i].marked = FALSE /\ row'[i].file = c

LEMMA AddKinds ==
    ASSUME StateInv, NEW c \in Call, pc[c] \in Adding
    PROVE  env.op[c].kind \in {"add", "update"}
<1>1. CallOK(c, pc[c], at[c], key[c], env.op[c], result[c])
  BY CallFacts
<1> QED
  BY <1>1 DEF CallOK, Adding

LEMMA RowSteps ==
    ASSUME StateInv, NEW c \in Call, Act(c), NEW i \in Id, row'[i] # None
    PROVE  RowKept(c, i) \/ RowReadded(c, i) \/ RowUpdated(c, i) \/ RowCreated(c, i)
<1>1. ASSUME row'[i] = row[i]
      PROVE  RowKept(c, i)
  BY <1>1 DEF RowKept
<1>2. UNCHANGED row => RowKept(c, i)
  BY <1>1
<1>3. UNCHANGED rows => RowKept(c, i)
  BY <1>2 DEF rows
<1>4. CASE Begin(c)
  BY <1>3, <1>4, BeginTo
<1>5. CASE Hold(c)
  BY <1>3, <1>5, HoldTo
<1>6. CASE Forget(c)
  <2>1. CASE Resolve(c)
    BY <1>3, <2>1, ResolveOK
  <2>2. CASE Clear(c)
    BY <2>2, ClearOK, ClearTo DEF RowKept
  <2>3. CASE CleanGraph(c) \/ CleanLedger(c)
    BY <1>3, <2>3 DEF CleanGraph, CleanLedger
  <2>4. CASE Unmark(c)
    BY <2>4, UnmarkOK, UnmarkTo DEF RowKept
  <2>5. CASE Detach(c)
    <3>1. row[i] # None
      BY <2>5, DetachOK
    <3>2. row'[i].marked = row[i].marked
      BY <2>5, <3>1, DetachTo
    <3> QED
      BY <2>5, <3>1, <3>2, DetachOK DEF RowKept
  <2>6. CASE DropDataset(c)
    BY <1>2, <2>6, DropDatasetOK
  <2>7. CASE Purge(c)
    BY <1>3, <2>7, PurgeOK
  <2>8. CASE Erase(c)
    BY <1>1, <2>8, EraseOK
  <2>9. CASE CountReferences(c)
    BY <1>3, <2>9, CountOK
  <2>10. CASE Unlink(c)
    BY <1>2, <2>10 DEF Unlink
  <2>11. CASE ForgetFails(c)
    BY <1>3, <2>11, ForgetFailsOK
  <2> QED
    BY <1>6, <2>1, <2>2, <2>3, <2>4, <2>5, <2>6, <2>7, <2>8, <2>9, <2>10, <2>11 DEF Forget
<1>7. CASE Add(c)
  <2>1. CASE StoreFile(c) \/ FindDataset(c) \/ Grant(c)
    BY <1>2, <2>1, StoreFileOK, FindDatasetOK, GrantOK
  <2>2. CASE LockContent(c)
    BY <1>3, <2>2 DEF LockContent
  <2>3. CASE Lookup(c)
    BY <1>3, <2>3, LookupOK
  <2>4. CASE Refresh(c)
    <3>1. CASE Error(c)
      BY <1>3, <3>1 DEF Error
    <3>2. CASE ~Error(c) /\ i # at[c].id
      BY <1>1, <2>4, <3>2, RefreshOK
    <3>3. CASE ~Error(c) /\ i = at[c].id
      <4>1. env.op[c].kind \in {"add", "update"}
        BY <2>4, AddKinds DEF Refresh, Adding
      <4> QED
        BY <2>4, <3>3, <4>1, RefreshTo DEF RowReadded, RowUpdated, Present
    <3> QED
      BY <3>1, <3>2, <3>3
  <2>5. CASE CreateRow(c)
    <3>1. env.op[c].kind \in {"add", "update"}
      BY <2>5, AddKinds DEF CreateRow, Adding
    <3>2. CASE i # at[c].id
      BY <1>1, <2>5, <3>2, CreateRowOK
    <3>3. CASE i = at[c].id
      BY <2>5, <3>1, <3>3, CreateRowTo, CreateRowOK DEF RowCreated
    <3> QED
      BY <3>2, <3>3
  <2> QED
    BY <1>7, <2>1, <2>2, <2>3, <2>4, <2>5 DEF Add
<1>8. CASE Cognify(c)
  <2>1. CASE List(c) \/ Filter(c) \/ Read(c)
    BY <1>3, <2>1, ListOK, FilterOK, ReadOK
  <2>2. CASE RecordLedger(c) \/ WriteGraph(c)
    BY <1>3, <2>2 DEF RecordLedger, WriteGraph
  <2>3. CASE MarkComplete(c)
    BY <2>3, MarkCompleteOK, MarkCompleteTo DEF RowKept
  <2> QED
    BY <1>8, <2>1, <2>2, <2>3 DEF Cognify
<1> QED
  BY <1>4, <1>5, <1>6, <1>7, <1>8 DEF Act

\* The dataset of an item: the one it was in at the start, or is added to.
Home(i) == IF i \in Item THEN env.rows[i].ds ELSE env.op[i].ds
Known(i) == i \in Item => env.rows[i] # None

\* The cognify c has its list of items.
Listed(c) == pc[c] \in Cognifying \ {"list"} \/ (pc[c] = "hold" /\ at[c].job = "cognify")

\* A call works on items whose home is its dataset.
HomeCall(c) ==
    /\ ~(env.op[c].kind = "forget" /\ env.op[c].scope = "user") =>
         at[c].ds = env.op[c].ds /\ at[c].left = {}
    /\ env.op[c].kind = "update" /\ pc[c] \notin {"new", "over"} =>
         Known(env.op[c].item) /\ Home(env.op[c].item) = env.op[c].ds
    /\ pc[c] = "refresh" => /\ at[c].rows[at[c].id].ds = at[c].ds
                            /\ env.op[c].kind = "update" => at[c].id = env.op[c].item
    /\ Listed(c) => \A i \in at[c].todo : Known(i) /\ Home(i) = at[c].ds
    /\ pc[c] \in Forgetting \ {"resolve"} => \A i \in at[c].links : Known(i) /\ Home(i) = at[c].ds
    /\ pc[c] \in {"clear", "graph", "ledger", "detach"} => at[c].todo \subseteq at[c].links
    /\ pc[c] \in {"clear", "detach", "drop", "purge", "erase", "count", "unlink"} => ~MemoryOnly(c)
    /\ pc[c] = "unmark" => MemoryOnly(c)

\* A row is in its home or in no dataset, and names its first file or that of a call
\* that wrote it.
HomeRow(i) ==
    row[i] # None =>
      /\ Known(i) /\ row[i].ds \in {Home(i), None}
      /\ row[i].file \in Item => i \in Item /\ row[i].file = env.rows[i].file
      /\ row[i].file \in Call /\ env.op[row[i].file].kind = "update" => env.op[row[i].file].item = i

HomeInv == (\A c \in Call : HomeCall(c)) /\ \A i \in Id : HomeRow(i)

LEMMA HomeMembers ==
    ASSUME StateInv, HomeInv, NEW d \in Dataset, NEW i \in Members(d)
    PROVE  i \in Id /\ Known(i) /\ Home(i) = d
BY MembersOf, Apart DEF HomeInv, HomeRow, Present

LEMMA HomeRowStep ==
    ASSUME StateInv, HomeInv, NEW c \in Call, Act(c), NEW i \in Id
    PROVE  HomeRow(i)'
<1>1. UNCHANGED env
  BY ActOK DEF Stay
<1>2. Home(i)' = Home(i) /\ (Known(i)' <=> Known(i))
  BY <1>1 DEF Home, Known
<1> SUFFICES ASSUME row'[i] # None PROVE HomeRow(i)'
  BY DEF HomeRow
<1>3. HomeCall(c) /\ HomeRow(i)
  BY DEF HomeInv
<1>4. CASE RowKept(c, i)
  BY <1>1, <1>2, <1>3, <1>4 DEF RowKept, HomeRow
<1>5. CASE RowReadded(c, i)
  BY <1>1, <1>2, <1>3, <1>5, Apart DEF RowReadded, HomeRow
<1>6. c \notin Item
  BY Apart
<1>7. CASE RowUpdated(c, i)
  <2>1. /\ i = env.op[c].item /\ row'[i].ds = env.op[c].ds /\ row'[i].file = c
    BY <1>3, <1>7 DEF RowUpdated, HomeCall
  <2>2. Known(i) /\ Home(i) = env.op[c].ds
    BY <1>3, <1>7, <2>1 DEF RowUpdated, HomeCall
  <2> QED
    BY <1>1, <1>2, <1>6, <2>1, <2>2 DEF HomeRow
<1>8. CASE RowCreated(c, i)
  <2>1. row'[i].ds = env.op[c].ds /\ row'[i].file = c
    BY <1>3, <1>8 DEF RowCreated, HomeCall
  <2>2. CASE env.op[c].kind = "add"
    <3>1. i = c
      BY <1>8, <2>2 DEF RowCreated
    <3>2. Known(i) /\ Home(i) = env.op[c].ds
      BY <1>6, <3>1 DEF Known, Home
    <3> QED
      BY <1>1, <1>2, <1>6, <2>1, <2>2, <3>2 DEF HomeRow
  <2>3. CASE env.op[c].kind = "update"
    <3>1. i = env.op[c].item /\ pc[c] \notin {"new", "over"}
      BY <1>8, <2>3 DEF RowCreated
    <3>2. Known(i) /\ Home(i) = env.op[c].ds
      BY <1>3, <2>3, <3>1 DEF HomeCall
    <3> QED
      BY <1>1, <1>2, <1>6, <2>1, <3>1, <3>2 DEF HomeRow
  <2> QED
    BY <1>8, <2>2, <2>3 DEF RowCreated
<1> QED
  BY <1>4, <1>5, <1>7, <1>8, RowSteps

\* A call that is not the forget of a user keeps its dataset.
LEMMA DatasetKept ==
    ASSUME StateInv, NEW c \in Call, Act(c), at[c].left = {},
           ~(env.op[c].kind = "forget" /\ env.op[c].scope = "user")
    PROVE  at'[c].ds = at[c].ds /\ at'[c].left = at[c].left
<1> DEFINE Kept == at'[c].ds = at[c].ds /\ at'[c].left = at[c].left
<1>1. (at'[c] = at[c] => Kept) /\ (UNCHANGED at => Kept)
  OBVIOUS
<1>2. Done(c) => Kept
  BY DoneTo
<1>3. Written(c) => Kept
  BY WrittenTo
<1>4. (Begin(c) => Kept) /\ (Hold(c) => Kept)
  BY BeginWith, HoldTo
<1>5. CASE Forget(c)
  <2>1. Resolve(c) => Kept
    BY ResolveTo
  <2>2. Clear(c) \/ CleanGraph(c) \/ CleanLedger(c) \/ Erase(c) \/ CountReferences(c) \/ Unlink(c) => Kept
    BY <1>1, ClearOK, CleanGraphOK, CleanLedgerOK, EraseOK, CountOK, UnlinkOK
  <2>3. Unmark(c) => Kept
    BY <1>2, UnmarkTo
  <2>4. Detach(c) => Kept
    BY DetachOK, DetachTo
  <2>5. DropDataset(c) => Kept
    BY DropDatasetTo
  <2>6. Purge(c) => Kept
    BY <1>2, PurgeTo
  <2>7. ForgetFails(c) => Kept
    BY <1>1, ForgetFailsOK
  <2> QED
    BY <1>5, <2>1, <2>2, <2>3, <2>4, <2>5, <2>6, <2>7 DEF Forget
<1>6. CASE Add(c)
  <2>1. StoreFile(c) \/ FindDataset(c) \/ Grant(c) \/ LockContent(c) => Kept
    BY <1>1, StoreFileOK, FindDatasetOK, GrantOK, LockContentOK
  <2>2. Lookup(c) => Kept
    BY LookupOK, LookupTo
  <2>3. Refresh(c) => Kept
    BY <1>1, <1>3 DEF Refresh, Error
  <2>4. CreateRow(c) => Kept
    BY <1>3 DEF CreateRow
  <2> QED
    BY <1>6, <2>1, <2>2, <2>3, <2>4 DEF Add
<1>7. CASE Cognify(c)
  <2>1. Read(c) \/ RecordLedger(c) \/ WriteGraph(c) \/ MarkComplete(c) => Kept
    BY <1>1, ReadOK, RecordLedgerOK, WriteGraphOK, MarkCompleteTo
  <2>2. List(c) \/ Filter(c) => Kept
    BY ListTo, FilterTo
  <2> QED
    BY <1>7, <2>1, <2>2 DEF Cognify
<1> QED
  BY <1>4, <1>5, <1>6, <1>7 DEF Act

\* A cognify works on no more items than it has listed.
LEMMA ListedKept ==
    ASSUME StateInv, NEW c \in Call, Act(c), Listed(c)', ~List(c)
    PROVE  /\ Listed(c) /\ at'[c].ds = at[c].ds /\ at'[c].todo \subseteq at[c].todo
           /\ at'[c].rows = at[c].rows
<1>1. Hold(c) \/ Filter(c) \/ Read(c) \/ RecordLedger(c) \/ WriteGraph(c)
  BY Arrives DEF Listed, Cognifying
<1>2. CASE Hold(c)
  <2>1. at'[c] = at[c] /\ pc[c] = "hold" /\ pc'[c] = "filter"
    BY <1>2, HoldTo DEF Listed, Cognifying
  <2>2. StateInv'
    BY ActOK
  <2>3. at'[c].job = "cognify"
    <3>1. CallsOK'
      BY <2>2 DEF StateInv
    <3> QED
      BY <2>1, <3>1 DEF CallsOK, CallOK, Cognifying
  <2> QED
    BY <2>1, <2>3 DEF Listed
<1>3. CASE Filter(c)
  BY <1>3, FilterTo DEF Listed, Cognifying
<1>4. CASE Read(c) \/ RecordLedger(c) \/ WriteGraph(c)
  BY <1>4, ReadOK, RecordLedgerOK, WriteGraphOK DEF Listed, Cognifying, Read, RecordLedger, WriteGraph
<1> QED
  BY <1>1, <1>2, <1>3, <1>4

LEMMA HomeActor ==
    ASSUME StateInv, HomeInv, NEW c \in Call, Act(c)
    PROVE  HomeCall(c)'
<1>1. UNCHANGED env /\ HomeCall(c) /\ pc[c] # "over" /\ at[c].ds \in Dataset /\ env.op[c].ds \in Dataset
  BY ActOK, ActorNotOver, CallFacts, AtFields, OpFields DEF Stay, HomeInv
<1>2. \A i : Home(i)' = Home(i) /\ (Known(i)' <=> Known(i))
  BY <1>1 DEF Home, Known
<1>3. (MemoryOnly(c)' <=> MemoryOnly(c)) /\ (ItemScope(c)' <=> ItemScope(c))
  BY <1>1 DEF MemoryOnly, ItemScope
<1>4. ~(env.op[c].kind = "forget" /\ env.op[c].scope = "user") =>
         at'[c].ds = env.op[c].ds /\ at'[c].left = {}
  BY <1>1, DatasetKept DEF HomeCall
<1>5. env.op[c].kind = "update" /\ pc'[c] \notin {"new", "over"} =>
         Known(env.op[c].item) /\ Home(env.op[c].item) = env.op[c].ds
  <2>1. CASE pc[c] = "new"
    <3>1. Begin(c)
      BY <2>1 DEF Act, Begin, Hold, Forget, Resolve, Clear, CleanGraph, CleanLedger, Unmark, Detach,
           DropDataset, Purge, Erase, CountReferences, Unlink, ForgetFails, Forgetting, Add, StoreFile,
           FindDataset, Grant, LockContent, Lookup, Refresh, CreateRow, Cognify, List, Filter, Read,
           RecordLedger, WriteGraph, MarkComplete
    <3> QED
      BY <1>1, <3>1, BeginWith, HomeMembers
  <2>2. CASE pc[c] # "new"
    BY <1>1, <2>2 DEF HomeCall
  <2> QED
    BY <2>1, <2>2
<1>6. pc'[c] = "refresh" => /\ at'[c].rows[at'[c].id].ds = at'[c].ds
                            /\ env.op[c].kind = "update" => at'[c].id = env.op[c].item
  <2> SUFFICES ASSUME pc'[c] = "refresh"
               PROVE  /\ at'[c].rows[at'[c].id].ds = at'[c].ds
                      /\ env.op[c].kind = "update" => at'[c].id = env.op[c].item
    OBVIOUS
  <2>1. Lookup(c)
    BY Arrives
  <2>2. /\ at'[c].ds = at[c].ds /\ at'[c].rows = row /\ at'[c].id \in Members(at[c].ds)
        /\ env.op[c].kind # "add" => at'[c].id = env.op[c].item
    BY <2>1, LookupOK, LookupTo
  <2> QED
    BY <2>2, MembersOf
<1>7. Listed(c)' => \A i \in at'[c].todo : Known(i) /\ Home(i) = at'[c].ds
  <2>1. CASE List(c)
    BY <1>1, <2>1, ListTo, HomeMembers
  <2>2. CASE ~List(c)
    BY <1>1, <2>2, ListedKept DEF HomeCall
  <2> QED
    BY <2>1, <2>2
<1>8. pc'[c] \in Forgetting \ {"resolve"} => \A i \in at'[c].links : Known(i) /\ Home(i) = at'[c].ds
  <2>1. CASE Resolve(c)
    BY <1>1, <2>1, ResolveTo, HomeMembers DEF Forgetting
  <2>2. CASE ~Resolve(c)
    BY <1>1, <2>2, TargetsKept DEF HomeCall
  <2> QED
    BY <2>1, <2>2
<1>9. pc'[c] \in {"clear", "graph", "ledger", "detach"} => at'[c].todo \subseteq at'[c].links
  <2>1. CASE Resolve(c)
    BY <2>1, ResolveTo
  <2>2. CASE Clear(c) \/ CleanGraph(c) \/ CleanLedger(c)
    BY <1>1, <2>2, ClearOK, CleanGraphOK, CleanLedgerOK DEF HomeCall, Clear, CleanGraph, CleanLedger
  <2>3. CASE Detach(c)
    BY <1>1, <2>3, DetachOK, DetachTo DEF HomeCall
  <2> QED
    BY <2>1, <2>2, <2>3, Arrives
<1>10. /\ pc'[c] \in {"clear", "detach", "drop", "purge", "erase", "count", "unlink"} => ~MemoryOnly(c)
       /\ pc'[c] = "unmark" => MemoryOnly(c)
  <2>1. CASE Resolve(c)
    BY <2>1, ResolveTo
  <2>2. CASE CleanLedger(c)
    <3>1. Goto(c, IF MemoryOnly(c) THEN "unmark" ELSE "detach")
      BY <2>2 DEF CleanLedger, Step
    <3> QED
      BY <3>1, Went
  <2>3. CASE /\ pc'[c] \in {"clear", "detach", "drop", "purge", "erase", "count", "unlink"}
             /\ ~Resolve(c) /\ ~CleanLedger(c)
    <3>1. Detach(c) \/ DropDataset(c) \/ Purge(c) \/ CountReferences(c) \/ Unlink(c) \/ Erase(c)
      BY <2>3, Arrives
    <3>2. pc[c] \in {"clear", "detach", "drop", "purge", "erase", "count", "unlink"}
      BY <3>1 DEF Detach, DropDataset, Purge, CountReferences, Unlink, Erase
    <3> QED
      BY <1>1, <2>3, <3>2 DEF HomeCall
  <2> QED
    BY <2>1, <2>2, <2>3, Arrives
<1> QED
  BY <1>1, <1>2, <1>3, <1>4, <1>5, <1>6, <1>7, <1>8, <1>9, <1>10 DEF HomeCall

LEMMA HomeInvariant == Spec => []HomeInv
<1>1. Init => HomeInv
  <2> SUFFICES ASSUME Init PROVE HomeInv
    OBVIOUS
  <2>1. ASSUME NEW c \in Call
        PROVE  HomeCall(c)
    <3>1. pc[c] \in {"new", "over"}
      BY DEF Init
    <3>2. at[c].ds = env.op[c].ds /\ at[c].left = {}
      BY DEF Init
    <3> QED
      BY <3>1, <3>2 DEF HomeCall, Listed, Cognifying, Forgetting
  <2>2. ASSUME NEW i \in Id, row[i] # None
        PROVE  HomeRow(i)
    <3>1. i \in Item /\ row[i] = env.rows[i] /\ row[i] \in FirstRow
      BY <2>2, StartRows DEF Present
    <3>2. row[i].file \in Item
      BY <3>1, FirstRowFields
    <3> QED
      BY <2>2, <3>1, <3>2, Apart DEF HomeRow, Known, Home
  <2>3. \A i \in Id : HomeRow(i)
    BY <2>2 DEF HomeRow
  <2> QED
    BY <2>1, <2>3 DEF HomeInv
<1>2. StateInv /\ HomeInv /\ [Next]_vars => HomeInv'
  <2> SUFFICES ASSUME StateInv, HomeInv, [Next]_vars PROVE HomeInv'
    OBVIOUS
  <2>1. CASE UNCHANGED vars
    <3>1. \A c \in Call : HomeCall(c)'
      BY <2>1 DEF vars, rows, HomeInv, HomeCall, Home, Known, Listed, MemoryOnly
    <3>2. \A i \in Id : HomeRow(i)'
      BY <2>1 DEF vars, rows, HomeInv, HomeRow, Home, Known
    <3> QED
      BY <3>1, <3>2 DEF HomeInv
  <2>2. ASSUME NEW c \in Call, Act(c)
        PROVE  HomeInv'
    <3>1. UNCHANGED env /\ \A o \in Call \ {c} : pc'[o] = pc[o] /\ at'[o] = at[o]
      BY <2>2, ActOK DEF Stay
    <3>2. \A o \in Call \ {c} : HomeCall(o)'
      BY <3>1 DEF HomeInv, HomeCall, Home, Known, Listed, MemoryOnly
    <3> QED
      BY <2>2, <3>2, HomeActor, HomeRowStep DEF HomeInv
  <2> QED
    BY <2>1, <2>2, Steps
<1> QED
  BY <1>1, <1>2, StateInvariant, PTL DEF Spec

-----------------------------------------------------------------------------
(* A marked item has its memory *)

\* The content that an update is to bring is new to the item.
NewsInv ==
    \A i \in Item : AllNew(i) => \A c \in Call : Updates(c, i) /\ Unwritten(c) =>
        /\ row[i] # None => row[i].content # env.op[c].content
        /\ pc[c] = "refresh" => at[c].rows[i].content # env.op[c].content

LEMMA UnwrittenKept ==
    ASSUME StateInv, FilesInv, NEW c \in Call, Act(c)
    PROVE  Unwritten(c)' => Unwritten(c)
<1>1. CASE Unlink(c)
  BY <1>1 DEF Unlink, Unwritten, Forgetting
<1>2. CASE ~Unlink(c)
  BY <1>2, FilesSteps DEF FilesMove
<1> QED
  BY <1>1, <1>2

LEMMA WritersDone ==
    ASSUME StateInv, NEW c \in Call, Refresh(c) \/ CreateRow(c)
    PROVE  ~Unwritten(c)'
<1>1. pc'[c] \in {"list", "over"}
  BY RefreshOK, CreateRowOK
<1> QED
  BY <1>1 DEF Unwritten, Forgetting, Adding

LEMMA NewsStep ==
    ASSUME StateInv, FilesInv, HomeInv, NewsInv, NEW c \in Call, Act(c)
    PROVE  NewsInv'
<1>1. UNCHANGED env /\ \A o \in Call \ {c} : pc'[o] = pc[o] /\ at'[o] = at[o]
  BY ActOK DEF Stay
<1>2. \A i : (AllNew(i)' <=> AllNew(i)) /\ \A o : Updates(o, i)' <=> Updates(o, i)
  BY <1>1 DEF AllNew, Updates
<1>3. SUFFICES ASSUME NEW i \in Item, AllNew(i), NEW o \in Call, Updates(o, i), Unwritten(o)'
               PROVE  /\ row'[i] # None => row'[i].content # env.op[o].content
                      /\ pc'[o] = "refresh" => at'[o].rows[i].content # env.op[o].content
  BY <1>1, <1>2 DEF NewsInv
<1>4. Unwritten(o)
  <2>1. CASE o = c
    BY <1>3, <2>1, UnwrittenKept
  <2>2. CASE o # c
    BY <1>1, <1>3, <2>2 DEF Unwritten
  <2> QED
    BY <2>1, <2>2
<1>5. /\ row[i] # None => row[i].content # env.op[o].content
      /\ pc[o] = "refresh" => at[o].rows[i].content # env.op[o].content
  BY <1>3, <1>4 DEF NewsInv
<1>6. i \in Id /\ i # c
  BY Apart
<1>7. ASSUME Updates(c, i), Refresh(c) \/ CreateRow(c), row'[i].content = env.op[c].content
      PROVE  row'[i].content # env.op[o].content
  <2>1. o # c
    BY <1>3, <1>7, WritersDone
  <2> QED
    BY <1>3, <1>7, <2>1 DEF AllNew
<1>8. row'[i] # None => row'[i].content # env.op[o].content
  <2> SUFFICES ASSUME row'[i] # None PROVE row'[i].content # env.op[o].content
    OBVIOUS
  <2>1. CASE RowKept(c, i)
    BY <1>5, <2>1 DEF RowKept
  <2>2. CASE RowReadded(c, i)
    BY <1>5, <2>2 DEF RowReadded
  <2>3. CASE RowUpdated(c, i)
    <3>1. Updates(c, i)
      BY <2>3 DEF RowUpdated, HomeInv, HomeCall, Updates
    <3> QED
      BY <1>7, <2>3, <3>1 DEF RowUpdated
  <2>4. CASE RowCreated(c, i)
    <3>1. Updates(c, i)
      BY <1>6, <2>4 DEF RowCreated, Updates
    <3> QED
      BY <1>7, <2>4, <3>1 DEF RowCreated
  <2> QED
    BY <1>6, <2>1, <2>2, <2>3, <2>4, RowSteps
<1>9. ASSUME pc'[o] = "refresh"
      PROVE  at'[o].rows[i].content # env.op[o].content
  <2>1. CASE o # c
    BY <1>1, <1>5, <1>9, <2>1
  <2>2. CASE o = c
    <3>1. Lookup(c)
      BY <1>9, <2>2, Arrives
    <3>2. at'[c].rows = row /\ at'[c].id \in Members(at[c].ds) /\ at'[c].id = i
      BY <1>3, <1>9, <2>2, <3>1, LookupTo DEF Updates
    <3>3. row[i] # None
      BY <3>2, MembersOf DEF Present
    <3> QED
      BY <1>5, <2>2, <3>2, <3>3
  <2> QED
    BY <2>1, <2>2
<1> QED
  BY <1>8, <1>9

LEMMA NewsInvariant == Spec => []NewsInv
<1>1. Init => NewsInv
  <2> SUFFICES ASSUME Init PROVE NewsInv
    OBVIOUS
  <2>1. \A c \in Call : pc[c] \in {"new", "over"}
    BY DEF Init
  <2>2. \A i \in Item : row[i] = env.rows[i]
    BY StartRows
  <2> QED
    BY <2>1, <2>2 DEF NewsInv, AllNew
<1>2. StateInv /\ FilesInv /\ HomeInv /\ NewsInv /\ [Next]_vars => NewsInv'
  <2> SUFFICES ASSUME StateInv, FilesInv, HomeInv, NewsInv, [Next]_vars PROVE NewsInv'
    OBVIOUS
  <2>1. CASE UNCHANGED vars
    BY <2>1 DEF vars, rows, NewsInv, AllNew, Updates, Unwritten
  <2> QED
    BY <2>1, Steps, NewsStep
<1> QED
  BY <1>1, <1>2, StateInvariant, FilesInvariant, HomeInvariant, PTL DEF Spec

\* The items MarkedBacked is about.
Marked(i) == row[i] # None /\ row[i].marked /\ row[i].ds # None /\ AllNew(i)

\* The memory-only forget c is about to clear the marker of i.
Unmarks(c, i) ==
    pc[c] = "unmark" /\ at[c].ds = row[i].ds /\ (ItemScope(c) => i \in at[c].links)

\* A marked item has its ledger rows, or a forget is about to clear the marker; a
\* forget that is about to delete the rows will clear the marker, or has done so.
MarksInv ==
    env.own /\ ~env.fails =>
      /\ \A i \in Id : Marked(i) =>
           (\E l \in ledger : l[1] = row[i].ds /\ l[2] = i) \/ \E c \in Call : Unmarks(c, i)
      /\ \A c \in Call : pc[c] \in {"graph", "ledger"} =>
           \A i \in Id : Marked(i) /\ row[i].ds = at[c].ds =>
             IF MemoryOnly(c) THEN ItemScope(c) /\ at[c].drop => i \in at[c].links
                              ELSE ~at[c].drop /\ i \notin at[c].links

\* Only the end of a cognify marks an item.
LEMMA MarksMove ==
    ASSUME StateInv, HomeInv, NewsInv, NEW c \in Call, Act(c), NEW i \in Id, Marked(i)'
    PROVE  /\ row[i] # None /\ row'[i].ds = row[i].ds /\ AllNew(i)
           /\ Marked(i) \/ (MarkComplete(c) /\ pc[c] = "mark" /\ i \in at[c].todo)
<1>1. UNCHANGED env
  BY ActOK DEF Stay
<1>2. row'[i] # None /\ row'[i].marked /\ row'[i].ds # None /\ AllNew(i)
  BY <1>1 DEF Marked, AllNew, Updates
<1>3. CASE RowKept(c, i)
  BY <1>2, <1>3 DEF RowKept, Marked, MarkComplete
<1>4. CASE RowReadded(c, i)
  BY <1>2, <1>4 DEF RowReadded, Marked
<1>5. CASE RowUpdated(c, i)
  <2>1. i = env.op[c].item /\ Updates(c, i) /\ Unwritten(c) /\ pc[c] = "refresh"
    BY <1>5 DEF RowUpdated, HomeInv, HomeCall, Updates, Unwritten, Adding
  <2>2. i \in Item
    BY <2>1, CallFacts, OpFields
  <2>3. at[c].rows[i].content # env.op[c].content
    BY <1>2, <2>1, <2>2 DEF NewsInv
  <2> QED
    BY <1>2, <1>5, <2>3 DEF RowUpdated
<1>6. CASE RowCreated(c, i)
  BY <1>2, <1>6 DEF RowCreated
<1> QED
  BY <1>2, <1>3, <1>4, <1>5, <1>6, RowSteps

LEMMA MarksStep ==
    ASSUME StateInv, LedgerInv, TargetsInv, GraphInv, HomeInv, NewsInv, MarksInv, NEW c \in Call, Act(c)
    PROVE  MarksInv'
<1>1. UNCHANGED env /\ \A o \in Call \ {c} : pc'[o] = pc[o] /\ at'[o] = at[o]
  BY ActOK DEF Stay
<1>2. \A o : (MemoryOnly(o)' <=> MemoryOnly(o)) /\ (ItemScope(o)' <=> ItemScope(o))
  BY <1>1 DEF MemoryOnly, ItemScope
<1> SUFFICES ASSUME env.own, ~env.fails
             PROVE  /\ \A i \in Id : Marked(i)' =>
                         (\E l \in ledger' : l[1] = row'[i].ds /\ l[2] = i) \/ \E o \in Call : Unmarks(o, i)'
                    /\ \A o \in Call : pc'[o] \in {"graph", "ledger"} =>
                         \A i \in Id : Marked(i)' /\ row'[i].ds = at'[o].ds =>
                           IF MemoryOnly(o)' THEN ItemScope(o)' /\ at'[o].drop => i \in at'[o].links
                                             ELSE ~at'[o].drop /\ i \notin at'[o].links
  BY <1>1 DEF MarksInv
<1>3. ~ForgetFails(c)
  BY Departs
<1>4. {"mark", "graph", "ledger"} \subseteq Locked
  BY DEF Locked, Forgetting, Cognifying
\* The end of a cognify marks items of its dataset, which have their ledger rows.
<1>5. ASSUME MarkComplete(c), pc[c] = "mark", NEW i \in at[c].todo, row[i] # None, row'[i].ds = row[i].ds,
             row'[i].ds # None
      PROVE  /\ row'[i].ds = at[c].ds
             /\ \E l \in ledger' : l[1] = row'[i].ds /\ l[2] = i
  <2>1. Listed(c) /\ i \in Id
    BY <1>5, CallFacts, AtFields DEF Listed, Cognifying
  <2>2. row[i].ds = at[c].ds
    BY <1>5, <2>1 DEF HomeInv, HomeCall, HomeRow
  <2>3. PICK n : n \in Extracted(c, i) /\ n \notin Type
    <3>1. at[c] \in At /\ CallOK(c, pc[c], at[c], key[c], env.op[c], result[c])
      BY CallFacts
    <3>2. at[c].rows[i] # None
      BY <1>5, <3>1 DEF CallOK, Cognifying
    <3>3. at[c].rows[i] \in Row
      BY <2>1, <3>1, <3>2, AtFields
    <3>4. at[c].rows[i].content \in Content
      BY <3>3, RowFields
    <3>5. Extracted(c, i) \ Type # {}
      BY <3>4, ItemsAssumption DEF Extracted
    <3> QED
      BY <3>5
  <2>4. <<at[c].ds, i, n>> \in ledger
    BY <1>5, <2>3 DEF GraphInv, Owner
  <2>5. ledger' = ledger
    BY <1>5, MarkCompleteOK DEF memory
  <2> QED
    BY <1>5, <2>2, <2>4, <2>5
<1>6. ASSUME NEW i \in Id, Marked(i)'
      PROVE  (\E l \in ledger' : l[1] = row'[i].ds /\ l[2] = i) \/ \E o \in Call : Unmarks(o, i)'
  <2>1. /\ row[i] # None /\ row'[i].ds = row[i].ds /\ row'[i].marked /\ row'[i].ds # None
        /\ Marked(i) \/ (MarkComplete(c) /\ pc[c] = "mark" /\ i \in at[c].todo)
    BY <1>6, MarksMove DEF Marked
  <2>2. CASE ~Marked(i)
    BY <1>5, <2>1, <2>2
  <2>3. CASE Marked(i)
    <3>1. ASSUME NEW l \in ledger, l[1] = row[i].ds, l[2] = i
          PROVE  (\E m \in ledger' : m[1] = row'[i].ds /\ m[2] = i) \/ \E o \in Call : Unmarks(o, i)'
      <4>1. CASE l \in ledger'
        BY <2>1, <3>1, <4>1
      <4>2. CASE l \notin ledger'
        <5>1. CleanLedger(c) /\ pc[c] = "ledger" /\ row[i].ds = at[c].ds /\ (at[c].drop \/ i \in at[c].links)
          BY <3>1, <4>2, LedgerMoves
        <5>2. IF MemoryOnly(c) THEN ItemScope(c) /\ at[c].drop => i \in at[c].links
                               ELSE ~at[c].drop /\ i \notin at[c].links
          BY <2>3, <5>1 DEF MarksInv
        <5>3. MemoryOnly(c) /\ (ItemScope(c) => i \in at[c].links)
          BY <5>1, <5>2
        <5>4. Goto(c, IF MemoryOnly(c) THEN "unmark" ELSE "detach") /\ at'[c] = at[c]
          BY <5>1, CleanLedgerOK DEF CleanLedger, Step
        <5>5. pc'[c] = "unmark"
          BY <5>3, <5>4, Went
        <5> QED
          BY <1>2, <2>1, <5>1, <5>3, <5>4, <5>5 DEF Unmarks
      <4> QED
        BY <4>1, <4>2
    <3>2. ASSUME NEW o \in Call, Unmarks(o, i)
          PROVE  \E p \in Call : Unmarks(p, i)'
      <4>1. CASE o # c
        BY <1>1, <1>2, <2>1, <3>2, <4>1 DEF Unmarks
      <4>2. CASE o = c
        <5>1. Unmark(c)
          BY <1>3, <3>2, <4>2, Departs DEF Unmarks
        <5>2. i \in Members(at[c].ds)
          BY <2>1, <3>2, <4>2 DEF Unmarks, Members, Present
        <5>3. ~row'[i].marked
          BY <2>1, <3>2, <4>2, <5>1, <5>2, UnmarkTo DEF Unmarks
        <5> QED
          BY <2>1, <5>3
      <4> QED
        BY <4>1, <4>2
    <3> QED
      BY <2>3, <3>1, <3>2 DEF MarksInv
  <2> QED
    BY <2>2, <2>3
<1>7. ASSUME NEW o \in Call, pc'[o] \in {"graph", "ledger"}, NEW i \in Id, Marked(i)', row'[i].ds = at'[o].ds
      PROVE  IF MemoryOnly(o) THEN ItemScope(o) /\ at'[o].drop => i \in at'[o].links
                              ELSE ~at'[o].drop /\ i \notin at'[o].links
  <2>1. /\ row[i] # None /\ row'[i].ds = row[i].ds /\ row'[i].marked /\ row'[i].ds # None
        /\ Marked(i) \/ (MarkComplete(c) /\ pc[c] = "mark" /\ i \in at[c].todo)
    BY <1>7, MarksMove DEF Marked
  <2>2. CASE o # c
    <3>1. pc[o] \in {"graph", "ledger"} /\ at'[o] = at[o]
      BY <1>1, <1>7, <2>2
    <3>2. ~Marked(i) => row'[i].ds # at[o].ds
      <4>1. pc[c] = "mark" => at[c].ds # at[o].ds
        BY <1>4, <2>2, <3>1, LocksApart
      <4> QED
        BY <1>5, <2>1, <4>1
    <3> QED
      BY <1>7, <2>1, <3>1, <3>2 DEF MarksInv
  <2>3. CASE o = c
    <3>1. i \in Members(row[i].ds)
      BY <2>1 DEF Members, Present
    <3>2. ASSUME ~MarkComplete(c), pc[c] \in {"graph", "ledger"}, at'[c] = at[c]
          PROVE  IF MemoryOnly(c) THEN ItemScope(c) /\ at[c].drop => i \in at[c].links
                                  ELSE ~at[c].drop /\ i \notin at[c].links
      BY <1>7, <2>1, <2>3, <3>2 DEF MarksInv
    <3>3. CASE Resolve(c)
      <4>1. MemoryOnly(c) /\ pc'[c] \notin {"hold", "over"}
        BY <1>7, <2>3, <3>3, ResolveTo
      <4>2. /\ at'[c].ds = at[c].ds /\ at'[c].links = Found(c)
            /\ ItemScope(c) /\ at'[c].drop => Members(at[c].ds) \subseteq Found(c)
        BY <3>3, <4>1, ResolveTo
      <4>3. i \in Members(at[c].ds)
        BY <1>7, <2>1, <2>3, <3>1, <4>2
      <4> QED
        BY <2>3, <4>1, <4>2, <4>3
    <3>4. CASE Clear(c)
      <4>1. ~MemoryOnly(c) /\ at'[c] = at[c]
        BY <3>4, ClearOK, ClearTo DEF HomeInv, HomeCall
      <4>2. ~(at[c].drop \/ at[c].links # {})
        BY <1>7, <2>1, <2>3, <3>1, <3>4, <4>1, ClearTo
      <4> QED
        BY <2>3, <4>1, <4>2
    <3>5. CASE CleanGraph(c)
      BY <2>3, <3>2, <3>5, CleanGraphOK DEF CleanGraph, MarkComplete
    <3> QED
      BY <1>7, <2>3, <3>3, <3>4, <3>5, Arrives
  <2> QED
    BY <2>2, <2>3
<1> QED
  BY <1>2, <1>6, <1>7

LEMMA MarksInvariant == Spec => []MarksInv
<1>1. Init => MarksInv
  <2> SUFFICES ASSUME Init PROVE MarksInv
    OBVIOUS
  <2>1. \A c \in Call : pc[c] \in {"new", "over"}
    BY DEF Init
  <2>2. ASSUME NEW i \in Id, Marked(i)
        PROVE  \E l \in ledger : l[1] = row[i].ds /\ l[2] = i
    <3>1. i \in Item /\ row[i] \in FirstRow /\ Present(i) /\ row[i].marked
      BY <2>2, StartRows DEF Marked, Present
    <3>2. row[i].ds \in Dataset /\ row[i].content \in Content
      BY <3>1, FirstRowFields
    <3>3. PICK n \in Extracts[row[i].content] : n \notin Type
      BY <3>2, ItemsAssumption
    <3>4. <<row[i].ds, i, n>> \in ledger
      BY <3>1, <3>3, FirstLedger DEF Owner
    <3> QED
      BY <3>4
  <2> QED
    BY <2>1, <2>2 DEF MarksInv
<1>2. (/\ StateInv /\ LedgerInv /\ TargetsInv /\ GraphInv /\ HomeInv /\ NewsInv /\ MarksInv
       /\ [Next]_vars) => MarksInv'
  <2> SUFFICES ASSUME StateInv, LedgerInv, TargetsInv, GraphInv, HomeInv, NewsInv, MarksInv, [Next]_vars
               PROVE  MarksInv'
    OBVIOUS
  <2>1. CASE UNCHANGED vars
    BY <2>1 DEF vars, rows, memory, MarksInv, Marked, Unmarks, AllNew, Updates, ItemScope, MemoryOnly
  <2> QED
    BY <2>1, Steps, MarksStep
<1> QED
  BY <1>1, <1>2, TargetsInvariant, GraphInvariant, HomeInvariant, NewsInvariant, PTL DEF Spec

\* With a graph for each dataset and nothing failing, an item that is marked as
\* cognified, in a dataset nobody is working on, has ledger rows, and all the nodes
\* they name are in the graph: neither a concurrent forget, nor a cognify that was
\* handed an old list, nor an update with a new content leaves a marker behind.
THEOREM MarksAreBacked == Spec => []MarkedBacked
<1>1. StateInv /\ GraphInv /\ MarksInv => MarkedBacked
  <2> SUFFICES ASSUME StateInv, GraphInv, MarksInv, NEW i \in Id,
                      Present(i), row[i].marked, row[i].ds # None, AllNew(i),
                      env.own, ~env.fails, holder[row[i].ds] = None
               PROVE  /\ OwnedBy(row[i].ds, i) # {}
                      /\ {row[i].ds} \X OwnedBy(row[i].ds, i) \subseteq graph
    BY DEF MarkedBacked
  <2> DEFINE d == row[i].ds
  <2>1. d \in Dataset
    BY MembersOf, RowFields
  <2>2. \A o \in Call : pc[o] \in Locked => at[o].ds # d
    BY <2>1, TypeParts, Apart DEF StateInv, Control
  <2>3. Marked(i)
    BY DEF Marked, Present
  <2>4. {"unmark", "write", "ledger"} \subseteq Locked
    BY DEF Locked, Forgetting, Cognifying
  <2>5. PICK l \in ledger : l[1] = d /\ l[2] = i
    BY <2>2, <2>3, <2>4 DEF MarksInv, Unmarks
  <2>6. OwnedBy(d, i) # {}
    BY <2>5 DEF OwnedBy
  <2>7. ASSUME NEW m \in ledger, m[1] = d
        PROVE  <<d, m[3]>> \in graph
    <3>1. InGraph(m)
      BY DEF GraphInv
    <3> QED
      BY <2>2, <2>4, <2>7, <3>1 DEF InGraph, Doomed, Records
  <2>8. \A n \in OwnedBy(d, i) : <<d, n>> \in graph
    BY <2>7 DEF OwnedBy
  <2> QED
    BY <2>6, <2>8
<1> QED
  BY <1>1, MarksInvariant, GraphInvariant, StateInvariant, PTL

-----------------------------------------------------------------------------
(* No memory of an item that is gone *)

\* A ledger row names an item of its dataset, if it names one.
LedgerHomes == \A l \in ledger : l[2] # None => Known(l[2]) /\ Home(l[2]) = l[1]

LEMMA LedgerHomesInvariant == Spec => []LedgerHomes
<1>1. Init => LedgerHomes
  <2> SUFFICES ASSUME Init, NEW l \in ledger, l[2] # None PROVE Known(l[2]) /\ Home(l[2]) = l[1]
    BY DEF LedgerHomes
  <2>1. l[2] \in Item /\ Present(l[2]) /\ row[l[2]].ds = l[1]
    BY FirstLedger DEF Owner
  <2>2. l[2] \in Item /\ row[l[2]] = env.rows[l[2]]
    BY <2>1, StartRows
  <2> QED
    BY <2>1, <2>2 DEF Known, Home, Present
<1>2. StateInv /\ LedgerInv /\ HomeInv /\ LedgerHomes /\ [Next]_vars => LedgerHomes'
  <2> SUFFICES ASSUME StateInv, LedgerInv, HomeInv, LedgerHomes, [Next]_vars PROVE LedgerHomes'
    OBVIOUS
  <2>1. CASE UNCHANGED vars
    BY <2>1 DEF vars, memory, LedgerHomes, Known, Home
  <2>2. ASSUME NEW c \in Call, Act(c)
        PROVE  LedgerHomes'
    <3>1. \A i : Home(i)' = Home(i) /\ (Known(i)' <=> Known(i))
      BY <2>2, ActOK DEF Stay, Home, Known
    <3>2. ASSUME NEW l \in ledger', l[2] # None
          PROVE  Known(l[2]) /\ Home(l[2]) = l[1]
      <4>1. CASE l \in ledger
        BY <3>2, <4>1 DEF LedgerHomes
      <4>2. CASE l \notin ledger
        <5>1. pc[c] = "record" /\ l[1] = at[c].ds /\ l[2] \in at[c].todo
          BY <2>2, <3>2, <4>2, LedgerMoves, RecordsOwn
        <5> QED
          BY <5>1 DEF HomeInv, HomeCall, Listed, Cognifying
      <4> QED
        BY <4>1, <4>2
    <3> QED
      BY <3>1, <3>2 DEF LedgerHomes
  <2> QED
    BY <2>1, <2>2, Steps
<1> QED
  BY <1>1, <1>2, TargetsInvariant, HomeInvariant, PTL DEF Spec

\* Only a forget detaches a row, and only a forget erases one.
LEMMA DetachSteps ==
    ASSUME StateInv, FilesInv, NEW c \in Call, Act(c), NEW i \in Id, RowKept(c, i),
           row'[i] # None, row'[i].ds # row[i].ds
    PROVE  Detach(c) /\ pc[c] = "detach" /\ i \in at[c].todo /\ row[i].ds = at[c].ds /\ row'[i].ds = None
<1>1. row[i] # None /\ row'[i].ds = None
  BY DEF RowKept
<1>2. ~UNCHANGED row /\ ~UNCHANGED rows
  BY DEF rows
<1>3. CASE Begin(c) \/ Hold(c)
  BY <1>2, <1>3, BeginTo, HoldTo
<1>4. CASE Forget(c)
  <2>1. CASE Detach(c)
    <3>1. PICK j \in at[c].todo : /\ \A k \in Id \ {j} : row'[k] = row[k]
                                  /\ row[j] # None => /\ j \in Members(at[c].ds) => row'[j].ds = None
                                                      /\ j \notin Members(at[c].ds) => row'[j].ds = row[j].ds
      BY <1>2, <2>1, DetachTo
    <3>2. i = j
      BY <3>1
    <3>3. i \in Members(at[c].ds)
      BY <1>1, <3>1, <3>2
    <3> QED
      BY <1>1, <2>1, <3>1, <3>2, <3>3, MembersOf, DetachTo
  <2>2. ~Resolve(c) /\ ~Purge(c) /\ ~CountReferences(c) /\ ~ForgetFails(c) /\ ~DropDataset(c)
    BY <1>2, ResolveOK, PurgeOK, CountOK, ForgetFailsOK, DropDatasetOK
  <2>3. ~CleanGraph(c) /\ ~CleanLedger(c) /\ ~Unlink(c)
    BY <1>2 DEF CleanGraph, CleanLedger, Unlink
  <2>4. ~Clear(c) /\ ~Unmark(c) /\ ~Erase(c)
    BY <1>1, ClearOK, UnmarkOK, EraseOK
  <2> QED
    BY <1>4, <2>1, <2>2, <2>3, <2>4 DEF Forget
<1>5. CASE Add(c)
  <2>1. ~StoreFile(c) /\ ~FindDataset(c) /\ ~Grant(c) /\ ~Lookup(c)
    BY <1>2, StoreFileOK, FindDatasetOK, GrantOK, LookupOK
  <2>2. ~LockContent(c)
    BY <1>2 DEF LockContent
  <2>3. CASE Refresh(c) \/ CreateRow(c)
    <3>1. row'[i] # row[i]
      OBVIOUS
    <3>2. i = at[c].id /\ row'[i].file = c /\ row[i].file = c
      BY <2>3, <3>1, RefreshOK, CreateRowOK DEF RowKept, Error, rows
    <3>3. Unwritten(c)
      BY <2>3 DEF Refresh, CreateRow, Unwritten, Adding
    <3> QED
      BY <1>1, <3>2, <3>3 DEF FilesInv, Present
  <2> QED
    BY <1>5, <2>1, <2>2, <2>3 DEF Add
<1>6. CASE Cognify(c)
  <2>1. ~List(c) /\ ~Filter(c) /\ ~Read(c)
    BY <1>2, ListOK, FilterOK, ReadOK
  <2>2. ~RecordLedger(c) /\ ~WriteGraph(c)
    BY <1>2 DEF RecordLedger, WriteGraph
  <2>3. ~MarkComplete(c)
    BY <1>1, MarkCompleteOK
  <2> QED
    BY <1>6, <2>1, <2>2, <2>3 DEF Cognify
<1> QED
  BY <1>3, <1>4, <1>5, <1>6 DEF Act

LEMMA EraseSteps ==
    ASSUME StateInv, FilesInv, FollowInv, NEW c \in Call, Act(c), NEW i \in Id,
           row[i] # None, row'[i] = None
    PROVE  Erase(c) /\ pc[c] = "erase" /\ at[c].id = i
<1>1. ~Calm(c)
  BY DEF Calm
<1>2. ~CreateRow(c)
  BY CreateRowOK, Apart
<1>3. ~(Refresh(c) /\ ~Error(c))
  BY RefreshOK, Apart
<1>4. Erase(c)
  BY <1>1, <1>2, <1>3, CalmSteps
<1> QED
  BY <1>4, EraseOK DEF Erase

\* The file f is one that only item i may name.
OwnFile(f, i) == f = env.rows[i].file \/ (f \in Call /\ Updates(f, i))

\* The forget c is about to purge item i.
Purges(c, i) ==
    /\ at[c].ds = Home(i)
    /\ \/ pc[c] \in {"detach", "drop"} /\ i \in at[c].links
       \/ pc[c] \in {"purge", "erase", "count", "unlink"} /\ i \in at[c].todo
       \/ pc[c] = "erase" /\ at[c].id = i

\* The forget c has erased the row of i and is to look at its file.
Follows(c, i) == pc[c] \in {"count", "unlink"} /\ at[c].id = i

\* A file that a cognify has listed for item i is gone, or is still that of the row,
\* or a forget under the lock of the dataset is about to remove it.
Traced(f, i) ==
    /\ OwnFile(f, i) /\ (f \in Call => ~Unwritten(f))
    /\ f \in files => \/ row[i] # None /\ row[i].file = f
                      \/ \E o \in Call : Follows(o, i) /\ FileInHand(o) = f

\* What holds of item i and call c: whoever purges i has the lock of its dataset, and
\* a cognify that is past the read of the files has items that are still there.
MemCall(c, i) ==
    /\ pc[c] \in {"purge", "erase", "count", "unlink"} /\ i \in at[c].todo => at[c].ds = Home(i)
    /\ pc[c] = "erase" /\ at[c].id = i =>
         /\ at[c].ds = Home(i)
         /\ row[i] # None /\ row[i].ds = None /\ row[i].file = FileInHand(c)
    /\ Follows(c, i) =>
         /\ at[c].ds = Home(i) /\ OwnFile(FileInHand(c), i)
         /\ row[i] # None => row[i].file # FileInHand(c)
    /\ Listed(c) /\ i \in at[c].todo => Traced(at[c].rows[i].file, i)
    /\ pc[c] = "record" /\ i \in at[c].todo => row[i] # None /\ row[i].ds = at[c].ds

MemItem(i) ==
    /\ row[i] # None => OwnFile(row[i].file, i)
    /\ row[i] # None /\ row[i].ds = None => \E c \in Call : Purges(c, i)
    /\ \A l \in ledger : l[2] = i => row[i] # None /\ row[i].ds = l[1]
    /\ \A c \in Call : MemCall(c, i)

MemInv == ~env.fails => \A i \in Item : Known(i) /\ FilesGo(i) => MemItem(i)

\* What the steps of the argument share.
Basis == /\ StateInv /\ LedgerInv /\ TargetsInv /\ FilesInv /\ FollowInv /\ HomeInv
         /\ LedgerHomes /\ ~env.fails

Settled(i) == i \in Item /\ Known(i) /\ FilesGo(i) /\ MemItem(i)

\* What a step does to the row of such an item: nobody rewrites it, or the file it
\* had would have been replaced.
Still(i) == row[i] # None /\ row'[i] # None /\ row'[i].file = row[i].file /\ row'[i].ds = row[i].ds
Absent(i) == row[i] = None /\ row'[i] = None
Detached(c, i) ==
    /\ Detach(c) /\ pc[c] = "detach" /\ i \in at[c].todo /\ row[i] # None /\ row[i].ds = at[c].ds
    /\ row'[i] # None /\ row'[i].file = row[i].file /\ row'[i].ds = None
Erased(c, i) ==
    Erase(c) /\ pc[c] = "erase" /\ at[c].id = i /\ row[i] # None /\ row'[i] = None
Reborn(c, i) ==
    /\ CreateRow(c) /\ pc[c] = "create" /\ Updates(c, i) /\ row[i] = None
    /\ row'[i] # None /\ row'[i].file = c /\ row'[i].ds = at[c].ds

LEMMA SettledRow ==
    ASSUME Basis, NEW c \in Call, Act(c), NEW i, Settled(i), FilesGo(i)'
    PROVE  Still(i) \/ Absent(i) \/ Detached(c, i) \/ Erased(c, i) \/ Reborn(c, i)
<1>1. i \in Id /\ i # c /\ i \in Item /\ MemItem(i)
  BY Apart DEF Settled
<1>2. StateInv /\ FilesInv /\ FollowInv /\ HomeInv
  BY DEF Basis
<1>3. CASE row'[i] = None
  BY <1>1, <1>2, <1>3, EraseSteps DEF Absent, Erased
<1>4. CASE row'[i] # None /\ RowKept(c, i)
  BY <1>1, <1>2, <1>4, DetachSteps DEF RowKept, Still, Detached
<1>5. ASSUME RowReadded(c, i) \/ RowUpdated(c, i)
      PROVE  FALSE
  <2>1. Refresh(c) /\ i = at[c].id /\ row'[i] # row[i] /\ row[i] # None
    <3>1. Refresh(c) /\ i = at[c].id /\ row'[i].file = c /\ row[i] # None /\ Unwritten(c)
      BY <1>5 DEF RowReadded, RowUpdated, Unwritten, Adding
    <3>2. row[i].file # c
      BY <1>1, <1>2, <3>1 DEF FilesInv, Present
    <3> QED
      BY <3>1, <3>2
  <2>2. replaced' = replaced \cup {row[i].file}
    BY <1>2, <2>1, RefreshOK
  <2>3. OwnFile(row[i].file, i)
    BY <1>1, <2>1 DEF MemItem
  <2>4. UNCHANGED env
    BY <1>2, ActOK DEF Stay
  <2> QED
    BY <2>2, <2>3, <2>4 DEF FilesGo, OwnFile, Updates
<1>6. CASE row'[i] # None /\ RowCreated(c, i)
  <2>1. Updates(c, i) /\ i = at[c].id
    BY <1>1, <1>2, <1>6, CreateRowTo DEF RowCreated, Updates
  <2>2. row[i] = None
    BY <1>2, <1>6, <2>1 DEF RowCreated, FollowInv, Present
  <2> QED
    BY <1>6, <2>1, <2>2 DEF RowCreated, Reborn
<1> QED
  BY <1>1, <1>2, <1>3, <1>4, <1>5, <1>6, RowSteps

\* The forget that purges an item goes on until the row is gone.
LEMMA PurgesKept ==
    ASSUME Basis, NEW c \in Call, Act(c), NEW i, Settled(i), Purges(c, i),
           row[i] # None, row[i].ds = None, row'[i] # None
    PROVE  Purges(c, i)'
<1>1. StateInv /\ TargetsInv /\ ~env.fails /\ i \in Id
  BY Apart DEF Basis, Settled
<1>2. ~ForgetFails(c) /\ Home(i)' = Home(i)
  BY <1>1, Departs, ActOK DEF Stay, Home
<1>3. CASE Detach(c)
  BY <1>1, <1>2, <1>3, DetachOK, DetachTo DEF Purges
<1>4. CASE DropDataset(c)
  <2>1. i \in at[c].links /\ pc[c] = "drop"
    BY <1>1, <1>4, DropDatasetTo DEF Purges
  <2>2. ItemScope(c) => i = env.op[c].item
    BY <1>1, <2>1 DEF TargetsInv, Forgetting
  <2> QED
    BY <1>1, <1>2, <1>4, <2>1, <2>2, DropDatasetTo DEF Purges
<1>5. CASE Purge(c)
  <2>1. i \in at[c].todo /\ pc[c] = "purge"
    BY <1>1, <1>5, PurgeTo DEF Purges
  <2> QED
    BY <1>1, <1>2, <1>5, <2>1, PurgeTo DEF Purges, Present
<1>6. CASE Erase(c)
  <2>1. pc[c] = "erase" /\ at'[c] = at[c] /\ pc'[c] = "count" /\ at[c].id # i
    BY <1>1, <1>6, EraseOK DEF Erase
  <2> QED
    BY <1>2, <2>1 DEF Purges
<1>7. CASE CountReferences(c)
  <2>1. pc[c] = "count" /\ at'[c] = at[c] /\ pc'[c] \in {"purge", "unlink"}
    BY <1>1, <1>7, CountOK DEF CountReferences
  <2> QED
    BY <1>2, <2>1 DEF Purges
<1>8. CASE Unlink(c)
  <2>1. pc[c] = "unlink" /\ at'[c] = at[c] /\ pc'[c] = "purge"
    BY <1>1, <1>8, UnlinkOK DEF Unlink
  <2> QED
    BY <1>2, <2>1 DEF Purges
<1> QED
  BY <1>2, <1>3, <1>4, <1>5, <1>6, <1>7, <1>8, Departs DEF Purges

LEMMA MemFacts ==
    ASSUME Basis, NEW c \in Call, Act(c), NEW i, Settled(i)
    PROVE  /\ i \in Id /\ i \in Item /\ i \notin Call /\ Home(i) \in Dataset
           /\ StateInv /\ Stay(c) /\ UNCHANGED env
           /\ Home(i)' = Home(i) /\ \A f : OwnFile(f, i)' <=> OwnFile(f, i)
<1>1. StateInv /\ i \in Item /\ Known(i)
  BY DEF Basis, Settled
<1>2. Stay(c) /\ UNCHANGED env
  BY <1>1, ActOK DEF Stay
<1>3. env.rows[i] \in FirstRow
  BY <1>1, ScenarioFields DEF StateInv, TypeOK, Known
<1>4. Home(i) \in Dataset
  BY <1>1, <1>3, FirstRowFields DEF Home
<1> QED
  BY <1>1, <1>2, <1>4, Apart DEF Home, OwnFile, Updates

LEMMA MemFile ==
    ASSUME Basis, NEW c \in Call, Act(c), NEW i, Settled(i), FilesGo(i)', row'[i] # None
    PROVE  (OwnFile(row[i].file, i))'
<1>1. row[i] # None => OwnFile(row[i].file, i)
  BY DEF Settled, MemItem
<1>2. OwnFile(row'[i].file, i)
  BY <1>1, SettledRow DEF Still, Absent, Detached, Erased, Reborn, OwnFile
<1>3. UNCHANGED env
  BY MemFacts
<1> QED
  BY <1>2, <1>3 DEF OwnFile, Updates

LEMMA MemDetached ==
    ASSUME Basis, NEW c \in Call, Act(c), NEW i, Settled(i), FilesGo(i)',
           row'[i] # None, row'[i].ds = None
    PROVE  \E o \in Call : Purges(o, i)'
<1>1. StateInv /\ HomeInv /\ i \in Id /\ Home(i)' = Home(i) /\ Stay(c)
  BY MemFacts DEF Basis
<1>2. CASE Still(i)
  <2>1. row[i] # None /\ row[i].ds = None
    BY <1>2 DEF Still
  <2>2. PICK o \in Call : Purges(o, i)
    BY <2>1 DEF Settled, MemItem
  <2>3. CASE o = c
    BY <2>1, <2>2, <2>3, PurgesKept
  <2>4. CASE o # c
    BY <1>1, <2>2, <2>4 DEF Stay, Purges
  <2> QED
    BY <2>3, <2>4
<1>3. CASE Detached(c, i)
  <2>1. pc[c] = "detach" /\ i \in at[c].todo /\ row[i] # None /\ row[i].ds = at[c].ds /\ Detach(c)
    BY <1>3 DEF Detached
  <2>2. i \in at[c].links
    BY <1>1, <2>1 DEF HomeInv, HomeCall
  <2>3. at[c].ds = Home(i)
    BY <1>1, <2>1, <2>2 DEF HomeInv, HomeCall, Forgetting
  <2>4. Purges(c, i)'
    BY <1>1, <2>1, <2>2, <2>3, DetachOK DEF Purges
  <2> QED
    BY <2>4
<1>4. CASE Reborn(c, i)
  <2>1. at[c].ds \in Dataset
    BY <1>1, CallFacts, AtFields
  <2> QED
    BY <1>4, <2>1, Apart DEF Reborn
<1> QED
  BY <1>2, <1>3, <1>4, SettledRow DEF Absent, Erased

LEMMA MemLedger ==
    ASSUME Basis, NEW c \in Call, Act(c), NEW i, Settled(i), FilesGo(i)', NEW l \in ledger', l[2] = i
    PROVE  row'[i] # None /\ row'[i].ds = l[1]
<1>1. StateInv /\ LedgerInv /\ TargetsInv /\ HomeInv /\ MemItem(i)
  BY DEF Basis, Settled
<1>2. CASE l \in ledger
  <2>1. row[i] # None /\ row[i].ds = l[1]
    BY <1>1, <1>2 DEF MemItem
  <2>2. l[1] \in Dataset
    BY <1>1, <1>2 DEF StateInv, TypeOK
  <2>3. ~Detached(c, i)
    <3> SUFFICES ASSUME Detached(c, i) PROVE FALSE
      OBVIOUS
    <3>1. pc[c] = "detach" /\ i \in at[c].todo /\ at[c].ds = l[1]
      BY <2>1 DEF Detached
    <3>2. i \in at[c].links
      BY <1>1, <3>1 DEF HomeInv, HomeCall
    <3> QED
      BY <1>1, <1>2, <3>1, <3>2 DEF TargetsInv, Cleaned
  <2>4. ~Erased(c, i)
    BY <1>1, <2>1, <2>2, Apart DEF Erased, MemItem, MemCall
  <2> QED
    BY <2>1, <2>3, <2>4, SettledRow DEF Still, Absent, Reborn
<1>3. CASE l \notin ledger
  <2>1. pc[c] = "record" /\ l[1] = at[c].ds /\ i \in at[c].todo
    <3>1. i # None
      BY Apart DEF Settled
    <3> QED
      BY <1>1, <1>3, <3>1, LedgerMoves, RecordsOwn
  <2>2. row[i] # None /\ row[i].ds = at[c].ds
    BY <1>1, <2>1 DEF MemItem, MemCall
  <2> QED
    BY <2>1, <2>2, SettledRow DEF Still, Absent, Detached, Erased, Reborn
<1> QED
  BY <1>2, <1>3

\* The call that acts: what it purges.
LEMMA MemTodo ==
    ASSUME Basis, NEW c \in Call, Act(c), NEW i, Settled(i),
           pc'[c] \in {"purge", "erase", "count", "unlink"}, i \in at'[c].todo
    PROVE  at'[c].ds = Home(i)
<1>1. StateInv /\ HomeInv /\ HomeCall(c) /\ MemCall(c, i) /\ i \in Item /\ FilesGo(i)
  BY DEF Basis, Settled, MemItem, HomeInv
<1>2. CASE DropDataset(c)
  <2>1. pc[c] = "drop" /\ at'[c].ds = at[c].ds
        /\ at'[c].todo = IF ItemScope(c) THEN {env.op[c].item} ELSE at[c].links
    BY <1>1, <1>2, DropDatasetTo
  <2>2. CASE ItemScope(c)
    <3>1. i = env.op[c].item
      BY <2>1, <2>2
    <3>2. ~MemoryOnly(c)
      BY <1>1, <2>1 DEF HomeCall
    <3>3. env.op[c].kind # "update" /\ env.op[c].scope = "item"
      BY <2>2, <3>2 DEF ItemScope, MemoryOnly
    <3>4. env.op[c].kind = "forget"
      BY <1>1, <2>1, <3>3, CallFacts DEF CallOK, Forgetting
    <3>5. at[c].ds = env.op[c].ds
      BY <1>1, <3>3 DEF HomeCall
    <3> QED
      BY <1>1, <2>1, <3>1, <3>3, <3>4, <3>5 DEF FilesGo, Home
  <2>3. CASE ~ItemScope(c)
    BY <1>1, <2>1, <2>3 DEF HomeCall, Forgetting
  <2> QED
    BY <2>2, <2>3
<1>3. CASE Purge(c)
  <2>1. ~Done(c)
    BY <1>1, DoneTo
  <2> QED
    BY <1>1, <1>3, <2>1, PurgeTo DEF MemCall
<1>4. CASE Erase(c)
  BY <1>1, <1>4, EraseOK DEF MemCall, Erase
<1>5. CASE CountReferences(c)
  BY <1>1, <1>5, CountOK DEF MemCall, CountReferences
<1>6. CASE Unlink(c)
  BY <1>1, <1>6, UnlinkOK DEF MemCall, Unlink
<1> QED
  BY <1>1, <1>2, <1>3, <1>4, <1>5, <1>6, Arrives

LEMMA MemErase ==
    ASSUME Basis, NEW c \in Call, Act(c), NEW i, Settled(i), NEW o \in Call,
           pc'[o] = "erase", at'[o].id = i, FilesGo(i)'
    PROVE  /\ at'[o].ds = Home(i)
           /\ row'[i] # None /\ row'[i].ds = None /\ row'[i].file = FileInHand(o)'
<1>1. StateInv /\ Stay(c) /\ MemItem(i) /\ i \in Id /\ Home(i) \in Dataset
  BY MemFacts DEF Settled
<1>2. CASE o = c
  <2>1. Purge(c) /\ ~Done(c)
    BY <1>1, <1>2, Arrives, DoneTo
  <2>2. /\ i \in at[c].todo /\ at'[c].rows = row /\ at'[c].ds = at[c].ds /\ pc[c] = "purge"
        /\ row[i] # None /\ row[i].ds = None /\ row' = row
    BY <1>1, <1>2, <2>1, PurgeTo, PurgeOK DEF Present, rows
  <2>3. at[c].ds = Home(i)
    BY <1>1, <2>2 DEF MemItem, MemCall
  <2> QED
    BY <1>2, <2>2, <2>3 DEF FileInHand
<1>3. CASE o # c
  <2>1. pc[o] = "erase" /\ at[o].id = i /\ at'[o] = at[o]
    BY <1>1, <1>3 DEF Stay
  <2>2. at[o].ds = Home(i) /\ row[i] # None /\ row[i].ds = None /\ row[i].file = FileInHand(o)
    BY <1>1, <2>1 DEF MemItem, MemCall
  <2>3. ~Erased(c, i)
    <3> SUFFICES ASSUME Erased(c, i) PROVE FALSE
      OBVIOUS
    <3>1. pc[c] = "erase" /\ at[c].ds = Home(i)
      BY <1>1 DEF Erased, MemItem, MemCall
    <3> QED
      BY <1>1, <1>3, <2>1, <2>2, <3>1, LocksApart DEF Locked, Forgetting
  <2>4. ~Detached(c, i)
    <3>1. at[c].ds \in Dataset
      BY <1>1, CallFacts, AtFields
    <3> QED
      BY <2>2, <3>1, Apart DEF Detached
  <2>5. Still(i)
    BY <2>2, <2>3, <2>4, SettledRow DEF Absent, Reborn
  <2> QED
    BY <2>1, <2>2, <2>5 DEF Still, FileInHand
<1> QED
  BY <1>2, <1>3

LEMMA MemFollow ==
    ASSUME Basis, NEW c \in Call, Act(c), NEW i, Settled(i), NEW o \in Call,
           Follows(o, i)', FilesGo(i)'
    PROVE  /\ at'[o].ds = Home(i) /\ (OwnFile(FileInHand(o), i))'
           /\ row'[i] # None => row'[i].file # FileInHand(o)'
<1>1. StateInv /\ FilesInv /\ Stay(c) /\ UNCHANGED env /\ MemItem(i) /\ i \in Id
  BY MemFacts DEF Settled, Basis
<1>2. pc'[o] \in {"count", "unlink"} /\ at'[o].id = i
  BY DEF Follows
<1> SUFFICES /\ at'[o].ds = Home(i) /\ OwnFile(FileInHand(o)', i)
             /\ row'[i] # None => row'[i].file # FileInHand(o)'
  BY <1>1 DEF OwnFile, Updates
<1>3. CASE o = c /\ pc'[c] = "count"
  <2>1. Erase(c) /\ at'[c] = at[c] /\ pc[c] = "erase" /\ at[c].id = i /\ row'[i] = None
    BY <1>1, <1>2, <1>3, Arrives, EraseOK DEF Erase
  <2>2. at[c].ds = Home(i) /\ row[i] # None /\ row[i].file = FileInHand(c)
    BY <1>1, <2>1 DEF MemItem, MemCall
  <2>3. OwnFile(FileInHand(c), i)
    BY <1>1, <2>2 DEF MemItem
  <2> QED
    BY <1>3, <2>1, <2>2, <2>3 DEF FileInHand
<1>4. CASE o = c /\ pc'[c] = "unlink"
  <2>1. CountReferences(c) /\ at'[c] = at[c] /\ pc[c] = "count" /\ at[c].id = i /\ row' = row
    BY <1>1, <1>2, <1>4, Arrives, CountOK DEF CountReferences, rows
  <2>2. /\ at[c].ds = Home(i) /\ OwnFile(FileInHand(c), i)
        /\ row[i] # None => row[i].file # FileInHand(c)
    BY <1>1, <2>1 DEF MemItem, MemCall, Follows
  <2> QED
    BY <1>4, <2>1, <2>2 DEF FileInHand
<1>5. CASE o # c
  <2>1. pc[o] \in {"count", "unlink"} /\ at[o].id = i /\ at'[o] = at[o]
    BY <1>1, <1>2, <1>5 DEF Stay
  <2>2. /\ at[o].ds = Home(i) /\ OwnFile(FileInHand(o), i)
        /\ row[i] # None => row[i].file # FileInHand(o)
    BY <1>1, <2>1 DEF MemItem, MemCall, Follows
  <2>3. Reborn(c, i) => FileInHand(o) # c
    BY <1>1, <2>1 DEF Reborn, FilesInv, Unwritten, Adding
  <2>4. row'[i] # None => row'[i].file # FileInHand(o)
    BY <2>2, <2>3, SettledRow DEF Still, Absent, Detached, Erased, Reborn
  <2> QED
    BY <2>1, <2>2, <2>4 DEF FileInHand
<1> QED
  BY <1>2, <1>3, <1>4, <1>5

\* Files come only from the calls that store them.
LEMMA NewFiles ==
    ASSUME StateInv, NEW c \in Call, Act(c)
    PROVE  files' \subseteq files \/ (pc[c] = "store" /\ files' = files \cup {c})
<1>1. CASE Begin(c) \/ Hold(c)
  BY <1>1, BeginTo, HoldTo DEF rows
<1>2. CASE Forget(c)
  <2>1. CASE Resolve(c) \/ Clear(c) \/ Unmark(c) \/ Detach(c) \/ DropDataset(c)
    BY <2>1, ResolveOK, ClearOK, UnmarkOK, DetachOK, DropDatasetOK DEF rows
  <2>2. CASE CleanGraph(c) \/ CleanLedger(c) \/ Unlink(c)
    BY <2>2 DEF CleanGraph, CleanLedger, Unlink, rows
  <2>3. CASE Purge(c) \/ Erase(c) \/ CountReferences(c) \/ ForgetFails(c)
    BY <2>3, PurgeOK, EraseOK, CountOK, ForgetFailsOK DEF rows
  <2> QED
    BY <1>2, <2>1, <2>2, <2>3 DEF Forget
<1>3. CASE Add(c)
  <2>1. CASE StoreFile(c)
    BY <2>1 DEF StoreFile
  <2>2. CASE FindDataset(c) \/ Grant(c) \/ LockContent(c) \/ Lookup(c)
    BY <2>2, FindDatasetOK, GrantOK, LookupOK DEF LockContent, rows
  <2>3. CASE Refresh(c) \/ CreateRow(c)
    BY <2>3, RefreshOK DEF CreateRow
  <2> QED
    BY <1>3, <2>1, <2>2, <2>3 DEF Add
<1>4. CASE Cognify(c)
  <2>1. CASE List(c) \/ Filter(c) \/ Read(c) \/ MarkComplete(c)
    BY <2>1, ListOK, FilterOK, ReadOK, MarkCompleteOK DEF rows
  <2>2. CASE RecordLedger(c) \/ WriteGraph(c)
    BY <2>2 DEF RecordLedger, WriteGraph, rows
  <2> QED
    BY <1>4, <2>1, <2>2 DEF Cognify
<1> QED
  BY <1>1, <1>2, <1>3, <1>4 DEF Act

\* A file of the item that a row names is named by the row of the item.
LEMMA NamedByOwner ==
    ASSUME Basis, NEW i, Settled(i), NEW f, OwnFile(f, i), NEW j \in Id, row[j] # None, row[j].file = f
    PROVE  j = i
<1>1. StateInv /\ HomeRow(j) /\ i \in Item /\ Known(i) /\ FilesGo(i)
  BY DEF Basis, HomeInv, Settled
<1>2. CASE f = env.rows[i].file
  <2>1. f \in Item
    BY <1>1, <1>2, ScenarioFields, FirstRowFields DEF StateInv, TypeOK, Known
  <2>2. j \in Item /\ env.rows[j] # None /\ env.rows[j].file = f
    BY <1>1, <2>1 DEF HomeRow, Known
  <2> QED
    BY <1>1, <1>2, <2>2 DEF FilesGo
<1>3. CASE f \in Call /\ Updates(f, i)
  BY <1>1, <1>3 DEF HomeRow, Updates
<1> QED
  BY <1>2, <1>3 DEF OwnFile

LEMMA TracedKept ==
    ASSUME Basis, NEW c \in Call, Act(c), NEW i, Settled(i), FilesGo(i)', NEW f, Traced(f, i)
    PROVE  /\ OwnFile(f, i) /\ (f \in Call => ~Unwritten(f)')
           /\ f \in files' => \/ row'[i] # None /\ row'[i].file = f
                              \/ \E o \in Call : Follows(o, i)' /\ FileInHand(o)' = f
<1>1. StateInv /\ FilesInv /\ Stay(c) /\ MemItem(i) /\ i \in Id /\ ~env.fails
  BY MemFacts DEF Settled, Basis
<1>2. OwnFile(f, i) /\ (f \in Call => ~Unwritten(f))
  BY DEF Traced
<1>3. f \in Call => ~Unwritten(f)'
  <2>1. f \in Call /\ f # c => (Unwritten(f)' <=> Unwritten(f))
    BY <1>1 DEF Stay, Unwritten
  <2> QED
    BY <1>1, <1>2, <2>1, UnwrittenKept
<1>4. ASSUME f \in files'
      PROVE  \/ row'[i] # None /\ row'[i].file = f
             \/ \E o \in Call : Follows(o, i)' /\ FileInHand(o)' = f
  <2>1. f \in files
    BY <1>1, <1>2, <1>4, NewFiles DEF Unwritten, Adding
  <2>2. CASE row[i] # None /\ row[i].file = f
    <3>1. CASE Erased(c, i)
      <4>1. Erase(c) /\ pc[c] = "erase" /\ at[c].id = i
        BY <3>1 DEF Erased
      <4>2. FileInHand(c) = f
        BY <1>1, <2>2, <4>1 DEF MemItem, MemCall
      <4>3. pc'[c] = "count" /\ at'[c] = at[c]
        BY <1>1, <4>1, EraseOK
      <4>4. Follows(c, i)' /\ FileInHand(c)' = f
        BY <4>1, <4>2, <4>3 DEF Follows, FileInHand
      <4> QED
        BY <4>4
    <3> QED
      BY <2>2, <3>1, SettledRow DEF Still, Absent, Detached, Reborn
  <2>3. CASE \E o \in Call : Follows(o, i) /\ FileInHand(o) = f
    <3>1. PICK o \in Call : Follows(o, i) /\ FileInHand(o) = f
      BY <2>3
    <3>2. pc[o] \in {"count", "unlink"} /\ at[o].id = i
      BY <3>1 DEF Follows
    <3>3. CASE o # c
      <4>1. Follows(o, i)' /\ FileInHand(o)' = f
        BY <1>1, <3>1, <3>2, <3>3 DEF Stay, Follows, FileInHand
      <4> QED
        BY <4>1
    <3>4. CASE o = c /\ pc[c] = "count"
      <4>1. CountReferences(c)
        BY <1>1, <3>4, Departs
      <4>2. ~Referenced(f)
        <5> SUFFICES ASSUME Referenced(f) PROVE FALSE
          OBVIOUS
        <5>1. PICK j \in Id : row[j] # None /\ row[j].file = f
          BY DEF Referenced, Present
        <5>2. j = i
          BY <1>2, <5>1, NamedByOwner
        <5> QED
          BY <1>1, <3>1, <5>1, <5>2 DEF MemItem, MemCall
      <4>3. pc'[c] = "unlink" /\ at'[c] = at[c]
        BY <1>1, <3>1, <3>4, <4>1, <4>2, CountOK
      <4>4. Follows(c, i)' /\ FileInHand(c)' = f
        BY <3>1, <3>2, <3>4, <4>3 DEF Follows, FileInHand
      <4> QED
        BY <4>4
    <3>5. CASE o = c /\ pc[c] = "unlink"
      BY <1>1, <1>4, <3>1, <3>5, Departs DEF Unlink
    <3> QED
      BY <3>2, <3>3, <3>4, <3>5
  <2> QED
    BY <2>1, <2>2, <2>3 DEF Traced
<1> QED
  BY <1>2, <1>3, <1>4

LEMMA MemListed ==
    ASSUME Basis, NEW c \in Call, Act(c), NEW i, Settled(i), NEW o \in Call,
           Listed(o)', i \in at'[o].todo, FilesGo(i)'
    PROVE  Traced(at'[o].rows[i].file, i)
<1>1. StateInv /\ FilesInv /\ Stay(c) /\ MemItem(i) /\ i \in Id
  BY MemFacts DEF Settled, Basis
<1>2. CASE o = c /\ List(c)
  <2>1. row[i] # None /\ at'[c].rows = row
    BY <1>1, <1>2, ListTo, MembersOf DEF Present
  <2>2. OwnFile(row[i].file, i)
    BY <1>1, <2>1 DEF MemItem
  <2>3. row[i].file \in Call => ~Unwritten(row[i].file)
    BY <1>1, <2>1 DEF FilesInv, Present
  <2> QED
    BY <1>2, <2>1, <2>2, <2>3 DEF Traced
<1>3. CASE o = c /\ ~List(c)
  <2>1. Listed(c) /\ i \in at[c].todo /\ at'[c].rows = at[c].rows
    BY <1>1, <1>3, ListedKept
  <2> QED
    BY <1>1, <1>3, <2>1 DEF MemItem, MemCall
<1>4. CASE o # c
  <2>1. at'[o] = at[o] /\ Listed(o)
    BY <1>1, <1>4 DEF Stay, Listed
  <2> QED
    BY <1>1, <2>1 DEF MemItem, MemCall
<1> QED
  BY <1>2, <1>3, <1>4

LEMMA MemRecord ==
    ASSUME Basis, NEW c \in Call, Act(c), NEW i, Settled(i), NEW o \in Call,
           pc'[o] = "record", i \in at'[o].todo, FilesGo(i)'
    PROVE  row'[i] # None /\ row'[i].ds = at'[o].ds
<1>1. StateInv /\ HomeInv /\ Stay(c) /\ MemItem(i) /\ i \in Id /\ Home(i) \in Dataset
  BY MemFacts DEF Settled, Basis
<1>2. CASE o = c
  <2>1. Read(c) /\ pc[c] = "read" /\ at'[c] = at[c] /\ row' = row /\ ~Error(c)
    <3>1. Read(c)
      BY <1>1, <1>2, Arrives
    <3> QED
      BY <1>1, <1>2, <3>1, ReadOK, ErrorOK DEF Read, rows
  <2>2. i \in at[c].todo /\ Listed(c) /\ at[c].rows[i].file \in files
    BY <1>2, <2>1 DEF Read, Listed, Cognifying
  <2>3. Home(i) = at[c].ds
    BY <1>1, <2>2 DEF HomeInv, HomeCall
  <2>4. Traced(at[c].rows[i].file, i)
    BY <1>1, <2>2 DEF MemItem, MemCall
  <2>5. \A k \in Call : at[k].ds = Home(i) /\ pc[k] \in Forgetting => FALSE
    BY <1>1, <2>1, <2>3, LocksApart DEF Locked, Forgetting, Cognifying
  <2>6. \A k \in Call : ~Follows(k, i)
    BY <1>1, <2>5 DEF MemItem, MemCall, Follows, Forgetting
  <2>7. \A k \in Call : ~Purges(k, i)
    BY <2>5 DEF Purges, Forgetting
  <2>8. row[i] # None
    BY <2>2, <2>4, <2>6 DEF Traced
  <2>9. row[i].ds # None
    BY <1>1, <2>7, <2>8 DEF MemItem
  <2>10. row[i].ds = Home(i)
    BY <1>1, <2>8, <2>9 DEF HomeInv, HomeRow
  <2> QED
    BY <1>2, <2>1, <2>3, <2>8, <2>10
<1>3. CASE o # c
  <2>1. pc[o] = "record" /\ at'[o] = at[o]
    BY <1>1, <1>3 DEF Stay
  <2>2. row[i] # None /\ row[i].ds = at[o].ds /\ at[o].ds \in Dataset
    BY <1>1, <2>1, CallFacts, AtFields DEF MemItem, MemCall
  <2>3. ~Detached(c, i)
    BY <1>1, <1>3, <2>1, <2>2, LocksApart DEF Detached, Locked, Forgetting, Cognifying
  <2>4. ~Erased(c, i)
    BY <1>1, <2>2, Apart DEF Erased, MemItem, MemCall
  <2>5. Still(i)
    BY <2>2, <2>3, <2>4, SettledRow DEF Absent, Reborn
  <2> QED
    BY <2>1, <2>2, <2>5 DEF Still
<1> QED
  BY <1>2, <1>3

LEMMA ReplacedGrows ==
    ASSUME StateInv, FilesInv, FollowInv, NEW c \in Call, Act(c)
    PROVE  replaced \subseteq replaced'
<1>1. CASE Erase(c) \/ CreateRow(c)
  BY <1>1 DEF Erase, CreateRow
<1>2. CASE Refresh(c) /\ ~Error(c)
  BY <1>2, RefreshOK
<1>3. CASE Calm(c)
  BY <1>3 DEF Calm
<1> QED
  BY <1>1, <1>2, <1>3, CalmSteps

LEMMA MemStep ==
    ASSUME Basis, NEW c \in Call, Act(c), NEW i, Settled(i), FilesGo(i)'
    PROVE  MemItem(i)'
<1>1. Home(i)' = Home(i) /\ Stay(c) /\ \A f : OwnFile(f, i)' <=> OwnFile(f, i)
  BY MemFacts
<1>2. (row[i] # None => OwnFile(row[i].file, i))'
  BY MemFile
<1>3. (row[i] # None /\ row[i].ds = None => \E o \in Call : Purges(o, i))'
  BY MemDetached
<1>4. (\A l \in ledger : l[2] = i => row[i] # None /\ row[i].ds = l[1])'
  BY MemLedger
<1>5. ASSUME NEW o \in Call
      PROVE  MemCall(o, i)'
  <2>1. pc'[o] \in {"purge", "erase", "count", "unlink"} /\ i \in at'[o].todo => at'[o].ds = Home(i)
    <3>1. CASE o = c
      BY <3>1, MemTodo
    <3>2. CASE o # c
      BY <1>1, <3>2 DEF Stay, Settled, MemItem, MemCall
    <3> QED
      BY <3>1, <3>2
  <2>2. pc'[o] = "erase" /\ at'[o].id = i =>
          /\ at'[o].ds = Home(i)
          /\ row'[i] # None /\ row'[i].ds = None /\ row'[i].file = FileInHand(o)'
    BY MemErase
  <2>3. Follows(o, i)' =>
          /\ at'[o].ds = Home(i) /\ (OwnFile(FileInHand(o), i))'
          /\ row'[i] # None => row'[i].file # FileInHand(o)'
    BY MemFollow
  <2>4. Listed(o)' /\ i \in at'[o].todo => (Traced(at[o].rows[i].file, i))'
    <3> SUFFICES ASSUME Listed(o)', i \in at'[o].todo PROVE (Traced(at[o].rows[i].file, i))'
      OBVIOUS
    <3>1. PICK f : f = at'[o].rows[i].file
      OBVIOUS
    <3>2. Traced(f, i)
      BY <3>1, MemListed
    <3>3. /\ OwnFile(f, i) /\ (f \in Call => ~Unwritten(f)')
          /\ f \in files' => \/ row'[i] # None /\ row'[i].file = f
                             \/ \E k \in Call : Follows(k, i)' /\ FileInHand(k)' = f
      BY <3>2, TracedKept
    <3>4. Traced(f, i)'
      BY <1>1, <3>3 DEF Traced
    <3> QED
      BY <3>1, <3>4 DEF Traced
  <2>5. pc'[o] = "record" /\ i \in at'[o].todo => row'[i] # None /\ row'[i].ds = at'[o].ds
    BY MemRecord
  <2> QED
    BY <1>1, <2>1, <2>2, <2>3, <2>4, <2>5 DEF MemCall
<1> QED
  BY <1>2, <1>3, <1>4, <1>5 DEF MemItem

LEMMA MemInit == Init => MemInv
<1> SUFFICES ASSUME Init, NEW i \in Item, Known(i) PROVE MemItem(i)
  BY DEF MemInv
<1>1. row[i] = env.rows[i] /\ row[i] # None /\ row[i] \in FirstRow
  <2>1. row[i] = env.rows[i] /\ i \in Id
    BY StartRows, Apart
  <2> QED
    BY <2>1, StartRows DEF Known, Present
<1>2. row[i].ds \in Dataset
  BY <1>1, FirstRowFields
<1>3. \A c \in Call : pc[c] \in {"new", "over"}
  BY DEF Init
<1>4. \A c \in Call : MemCall(c, i)
  BY <1>3 DEF MemCall, Follows, Listed, Cognifying
<1>5. \A l \in ledger : l[2] = i => row[i].ds = l[1]
  BY FirstLedger, Apart DEF Owner
<1> QED
  BY <1>1, <1>2, <1>4, <1>5, Apart DEF MemItem, OwnFile

LEMMA MemInvariant == Spec => [](MemInv /\ LedgerHomes)
<1>1. StateInv /\ LedgerInv /\ TargetsInv /\ FilesInv /\ FollowInv /\ HomeInv /\ LedgerHomes
        /\ MemInv /\ [Next]_vars => MemInv'
  <2> SUFFICES ASSUME StateInv, LedgerInv, TargetsInv, FilesInv, FollowInv, HomeInv, LedgerHomes,
                      MemInv, [Next]_vars
               PROVE  MemInv'
    OBVIOUS
  <2>1. CASE UNCHANGED vars
    <3>1. UNCHANGED <<env, pc, at, row, files, ledger, replaced>>
      BY <2>1 DEF vars, rows, memory
    <3>2. \A f, i : OwnFile(f, i)' <=> OwnFile(f, i)
      BY <3>1 DEF OwnFile, Updates
    <3>3. \A c, i : (Purges(c, i)' <=> Purges(c, i)) /\ (Follows(c, i)' <=> Follows(c, i))
      BY <3>1 DEF Purges, Follows, Home
    <3>4. \A c : (FileInHand(c)' = FileInHand(c)) /\ (Unwritten(c)' <=> Unwritten(c)) /\ (Listed(c)' <=> Listed(c))
      BY <3>1 DEF FileInHand, Unwritten, Listed
    <3>5. \A f, i : Traced(f, i)' <=> Traced(f, i)
      BY <3>1, <3>2, <3>3, <3>4 DEF Traced
    <3>6. \A c, i : MemCall(c, i)' <=> MemCall(c, i)
      BY <3>1, <3>2, <3>3, <3>4, <3>5 DEF MemCall, Home
    <3>7. \A i : MemItem(i)' <=> MemItem(i)
      BY <3>1, <3>2, <3>3, <3>6 DEF MemItem
    <3> QED
      BY <3>1, <3>7 DEF MemInv, Known, FilesGo, Updates
  <2>2. ASSUME NEW c \in Call, Act(c)
        PROVE  MemInv'
    <3> SUFFICES ASSUME ~env'.fails, NEW i \in Item, Known(i)', FilesGo(i)' PROVE MemItem(i)'
      BY DEF MemInv
    <3>1. UNCHANGED env
      BY <2>2, ActOK DEF Stay
    <3>2. Basis
      BY <3>1 DEF Basis
    <3>3. replaced \subseteq replaced'
      BY <2>2, ReplacedGrows
    <3>4. FilesGo(i)
      BY <3>1, <3>3 DEF FilesGo, Updates
    <3>5. Settled(i)
      BY <3>1, <3>4 DEF Settled, Known, MemInv
    <3> QED
      BY <2>2, <3>2, <3>5, MemStep
  <2> QED
    BY <2>1, <2>2, Steps
<1> QED
  BY <1>1, MemInit, TargetsInvariant, FilesInvariant, FollowInit, FollowStep, HomeInvariant,
     LedgerHomesInvariant, PTL DEF Spec

\* The memory of an item goes with its row: the ledger names an item of the start only
\* in the dataset that holds its row, whatever cognify has listed it before (MemoryHasRow;
\* delete_data and cognify of crates/delete and crates/cognify, under dataset_lock).
THEOREM MemoryGoesWithRow == Spec => []MemoryHasRow
<1>1. StateInv /\ MemInv /\ LedgerHomes => MemoryHasRow
  <2> SUFFICES ASSUME StateInv, MemInv, LedgerHomes, NEW l \in ledger, l[2] \in Item,
                      FilesGo(l[2]), ~env.fails
               PROVE  l[2] \in Members(l[1])
    BY DEF MemoryHasRow
  <2>1. Known(l[2])
    BY Apart DEF LedgerHomes
  <2>2. row[l[2]] # None /\ row[l[2]].ds = l[1]
    BY <2>1 DEF MemInv, MemItem
  <2> QED
    BY <2>2, Apart DEF Members, Present
<1> QED
  BY <1>1, StateInvariant, MemInvariant, PTL

=============================================================================
