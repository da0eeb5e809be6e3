--------------------------- MODULE TransactionPlan ---------------------------
(***************************************************************************)
(* Transactions as the native executor receives them: a list of items over *)
(* the rows of the rpmdb, and an order in which to process them.  A plan   *)
(* comes either from the native planner (repomd/transaction_native.zig) or *)
(* from a recorded run that is replayed in a fixed order                   *)
(* (client/transaction.zig, executeFixedOrder).                            *)
(*                                                                         *)
(* A package is a record [name, arch, evr, files]; evr is a number, files  *)
(* the set of paths it owns.  A transaction is a record                    *)
(*   db     the rpmdb rows it was planned against: hnum h holds db[h];     *)
(*   items  [type, pkg, hnum, priors]: hnum is the row an erase removes,   *)
(*          priors the rows [hnum, pkg] the item supersedes;               *)
(*   order  input indices in execution order;                              *)
(*   fixed  replayed from a recording rather than planned here;            *)
(*   flags  transaction flags.                                             *)
(***************************************************************************)
EXTENDS Naturals, Sequences

ItemTypes == {"install", "upgrade", "downgrade", "reinstall", "obsolete", "erase"}
Flags == {"TEST", "NODB", "JUSTDB"}

\* itemUsesPrimaryReplacement: the new package takes over one prior's row.
Replaces(item) == item.type \in {"upgrade", "downgrade", "reinstall"}

Indices(s) == 1..Len(s)
PriorHnums(item) == {item.priors[k].hnum : k \in Indices(item.priors)}

-----------------------------------------------------------------------------
(* Fixed order                                                             *)

\* fixedPriorPreferred: newer, else of the target's architecture, else the row
\* the solver saw first.
PriorPreferred(target, candidate, current) ==
    \/ candidate.pkg.evr > current.pkg.evr
    \/ /\ candidate.pkg.evr = current.pkg.evr
       /\ candidate.pkg.arch = target.arch
       /\ current.pkg.arch # target.arch
    \/ /\ candidate.pkg.evr = current.pkg.evr
       /\ (candidate.pkg.arch = target.arch) <=> (current.pkg.arch = target.arch)
       /\ candidate.hnum < current.hnum

\* fixedReplacementPrimaryIndex: the preferred prior of the package's own name,
\* the first of equals; 0 when there is none.
PrimaryIndex(item) ==
    LET same == {k \in Indices(item.priors) :
                    item.priors[k].pkg.name = item.pkg.name}
        Preferred(j, k) ==
            PriorPreferred(item.pkg, item.priors[j], item.priors[k])
    IN  IF Replaces(item) /\ same # {}
        THEN CHOOSE k \in same : \A j \in same :
                /\ ~Preferred(j, k)
                /\ Preferred(k, j) \/ k <= j
        ELSE 0

\* The primary's hnum, 0 if the item has no primary (hnums start at 1).
PrimaryHnum(item) ==
    IF PrimaryIndex(item) = 0 THEN 0 ELSE item.priors[PrimaryIndex(item)].hnum

\* copyFixedPriorsInExecutionOrder: the primary first, the others as recorded.
ExecutionOrder(item) ==
    LET p == PrimaryIndex(item)
    IN  IF p = 0 THEN item.priors
        ELSE [k \in Indices(item.priors) |->
                IF k = 1 THEN item.priors[p]
                ELSE IF k <= p THEN item.priors[k - 1] ELSE item.priors[k]]

IsPermutation(order, n) ==
    /\ Len(order) = n
    /\ \A k \in 1..n : order[k] \in 1..n
    /\ \A j, k \in 1..n : order[j] = order[k] => j = k

\* The execution position of an input index.
Position(order, i) == CHOOSE k \in Indices(order) : order[k] = i

\* validateFixedOrderInput: one item on its own ...
ValidItem(item) ==
    /\ item.type = "erase" => item.hnum # 0
    /\ Replaces(item) => PrimaryIndex(item) # 0
    /\ item.type = "obsolete" => item.priors # <<>>
    /\ item.type \in {"install", "erase"} => item.priors = <<>>
    /\ \A k \in Indices(item.priors) : item.priors[k].hnum # 0
    /\ \A j, k \in Indices(item.priors) :
          item.priors[j].hnum = item.priors[k].hnum => j = k

\* ... every prior that another item has as its primary: that item goes first ...
OwnersGoFirst(items, order) ==
    \A i, o \in Indices(items) :
        o # i /\ PrimaryHnum(items[o]) \in PriorHnums(items[i])
            => Position(order, o) < Position(order, i)

\* ... and no row erased twice, erased and superseded, or replaced twice.
RowsNotShared(items) ==
    \A i, j \in Indices(items) : i # j =>
        /\ items[i].type = "erase" =>
              /\ items[j].type = "erase" => items[j].hnum # items[i].hnum
              /\ items[i].hnum \notin PriorHnums(items[j])
        /\ PrimaryHnum(items[i]) # 0 =>
              PrimaryHnum(items[i]) # PrimaryHnum(items[j])

\* Mutant: the graph is accepted without comparing the rows of two items.
ValidateFixedOrder_Unshared(items, order) ==
    /\ IsPermutation(order, Len(items))
    /\ \A i \in Indices(items) : ValidItem(items[i])
    /\ OwnersGoFirst(items, order)

ValidateFixedOrder(items, order) ==
    /\ IsPermutation(order, Len(items))
    /\ \A i \in Indices(items) : ValidItem(items[i])
    /\ OwnersGoFirst(items, order)
    /\ RowsNotShared(items)

-----------------------------------------------------------------------------
(* The native planner                                                      *)

ErasedRows(items) ==
    {items[i].hnum : i \in {j \in Indices(items) : items[j].type = "erase"}}

SameNevra(p, q) == p.name = q.name /\ p.evr = q.evr /\ p.arch = q.arch

\* The rows an item supersedes: a reinstall every row of its own NEVRA, an
\* upgrade every row of its name and architecture, none that is erased anyway.
SelectedRows(db, items, i) ==
    {h \in Indices(db) \ ErasedRows(items) :
        \/ items[i].type = "reinstall" /\ SameNevra(db[h], items[i].pkg)
        \/ /\ items[i].type = "upgrade"
           /\ db[h].name = items[i].pkg.name /\ db[h].arch = items[i].pkg.arch}

\* parseTransaction and collectMultiplicityProblems: erases name installed rows,
\* priors are listed as the database lists them, no two items have one in common
\* and an upgrade has at most one.
Parsed(db, items) ==
    /\ \A i \in Indices(items) :
          /\ items[i].type \in {"install", "upgrade", "reinstall", "erase"}
          /\ items[i].type = "erase" =>
                items[i].hnum \in Indices(db) /\ items[i].pkg = db[items[i].hnum]
          /\ \A k \in Indices(items[i].priors) :
                items[i].priors[k].pkg = db[items[i].priors[k].hnum]
          /\ PriorHnums(items[i]) = SelectedRows(db, items, i)
          /\ \A j, k \in Indices(items[i].priors) :
                j < k => items[i].priors[j].hnum < items[i].priors[k].hnum
          /\ items[i].type = "upgrade" => Len(items[i].priors) <= 1
    /\ \A i, j \in Indices(items) : i # j =>
          /\ PriorHnums(items[i]) \cap PriorHnums(items[j]) = {}
          /\ items[i].type = "erase" /\ items[j].type = "erase" =>
                items[i].hnum # items[j].hnum

\* Mutant: additions and removals are ordered together.
NativeOrder_Mixed(items, order) == IsPermutation(order, Len(items))

\* buildNativeOrder: every added package, then every erased one; within a phase
\* as TransactionOrder finds.
NativeOrder(items, order) ==
    /\ IsPermutation(order, Len(items))
    /\ \A j, k \in Indices(order) :
          items[order[j]].type = "erase" /\ items[order[k]].type # "erase" => k < j

NativePlanned(db, items, order) == Parsed(db, items) /\ NativeOrder(items, order)

-----------------------------------------------------------------------------
(* What the plan means for the rpmdb                                       *)

\* The priors of an item in the order in which the executor visits them.
Priors(txn, i) ==
    IF txn.fixed THEN ExecutionOrder(txn.items[i]) ELSE txn.items[i].priors

ItemIds(txn) == Indices(txn.items)
AddedItems(txn) == {i \in ItemIds(txn) : txn.items[i].type # "erase"}

\* The row an item's package gets.  The rpmdb numbers rows by AUTOINCREMENT, so
\* it is one that no row of the old database had.
NewHnum(txn, i) == Len(txn.db) + i
NewHnums(txn) == {NewHnum(txn, i) : i \in AddedItems(txn)}

\* removed_hnums: every prior and every erased row.
RemovedHnums(txn) ==
    ErasedRows(txn.items) \cup UNION {PriorHnums(txn.items[i]) : i \in ItemIds(txn)}

\* primary_hnums: the first prior of every replacing item.
PrimaryHnums(txn) ==
    {Priors(txn, i)[1].hnum :
        i \in {j \in ItemIds(txn) : Replaces(txn.items[j]) /\ Priors(txn, j) # <<>>}}

\* The package of a row, old or new.
PkgOf(txn, h) ==
    IF h \in Indices(txn.db) THEN txn.db[h] ELSE txn.items[h - Len(txn.db)].pkg

\* The rows of a database on which the whole plan has been carried out.
GoalRows(txn) == (Indices(txn.db) \ RemovedHnums(txn)) \cup NewHnums(txn)
=============================================================================
