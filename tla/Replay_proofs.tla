--------------------------- MODULE Replay_proofs ---------------------------
(***************************************************************************)
(* What holds of replay for every set of recorded plans, valid or not, on  *)
(* every target.  The executor is the one that NativeExecutor_proofs is    *)
(* about, which replay calls once its own checks have passed; what is      *)
(* proved there of a step of the executor is used here of the steps that   *)
(* replay lets it take.                                                    *)
(***************************************************************************)
EXTENDS Replay, FiniteSetTheorems, TLAPS

-----------------------------------------------------------------------------
(* The executor                                                            *)

\* The transactions of plans that name existing actions and rows.
Txns ==
    {Txn(p) : p \in Plans} \cap
        [db : Seq(Exec!Packages), items : Seq(Exec!Items), order : Seq(Nat),
         fixed : BOOLEAN, flags : SUBSET Flags]

Native == INSTANCE NativeExecutor_proofs

\* They are what the executor expects.
LEMMA NativeTxns ==
    Txns \subseteq [db : Seq(Native!Packages), items : Seq(Native!Items),
                    order : Seq(Nat), fixed : BOOLEAN, flags : SUBSET Native!Flags]
  BY DEF Txns, Flags, Native!Flags, Exec!Packages, Native!Packages, Exec!Items, Native!Items,
         Exec!PlanRows, Native!PlanRows, Exec!ItemTypes, Native!ItemTypes

\* A step of the executor as replay sees it is one that the theorems about the
\* executor speak of: the two instances have the same definitions.
LEMMA ExecutorSteps == Exec!Run \/ Exec!Fail => Native!Next
<1> USE DEF Exec!viewVars, Native!viewVars, Exec!stateVars, Native!stateVars, Exec!Goto,
            Native!Goto, Exec!Finish, Native!Finish, Exec!Indices, Native!Indices
<1>1. Exec!Validate => Native!Validate
  BY DEF Exec!Validate, Native!Validate, Exec!ValidateFixedOrder, Native!ValidateFixedOrder,
         Exec!ValidItem, Native!ValidItem, Exec!Replaces, Native!Replaces, Exec!PrimaryIndex,
         Native!PrimaryIndex, Exec!PriorPreferred, Native!PriorPreferred, Exec!RowsNotShared,
         Native!RowsNotShared, Exec!PriorHnums, Native!PriorHnums, Exec!PrimaryHnum,
         Native!PrimaryHnum, Exec!OwnersGoFirst, Native!OwnersGoFirst, Exec!Position,
         Native!Position, Exec!IsPermutation, Native!IsPermutation
<1>2. Exec!Prevalidate => Native!Prevalidate
  BY DEF Exec!Prevalidate, Native!Prevalidate, Exec!PrimariesDistinct, Native!PrimariesDistinct,
         Exec!Replaces, Native!Replaces, Exec!Priors, Native!Priors, Exec!ExecutionOrder,
         Native!ExecutionOrder, Exec!PrimaryIndex, Native!PrimaryIndex, Exec!PriorPreferred,
         Native!PriorPreferred, Exec!ItemIds, Native!ItemIds, Exec!PlanMatches,
         Native!PlanMatches, Exec!RowMatches, Native!RowMatches, Exec!SameNevra, Native!SameNevra,
         Exec!PkgOf, Native!PkgOf, Exec!IsPermutation, Native!IsPermutation
<1>3. /\ Exec!RunPretrans => Native!RunPretrans
      /\ Exec!RunPre => Native!RunPre
      /\ Exec!RunPost => Native!RunPost
      /\ Exec!RunPosttrans => Native!RunPosttrans
  BY DEF Exec!RunPretrans, Native!RunPretrans, Exec!RunPre, Native!RunPre, Exec!JustDb,
         Native!JustDb, Exec!Item, Native!Item, Exec!RunPost, Native!RunPost, Exec!RunPosttrans,
         Native!RunPosttrans
<1>4. Exec!BeginInstall => Native!BeginInstall
  BY DEF Exec!BeginInstall, Native!BeginInstall, Exec!Test, Native!Test, Exec!SelectionValid,
         Native!SelectionValid, Exec!Replaces, Native!Replaces, Exec!ItemPriors,
         Native!ItemPriors, Exec!Priors, Native!Priors, Exec!ExecutionOrder,
         Native!ExecutionOrder, Exec!PrimaryIndex, Native!PrimaryIndex, Exec!PriorPreferred,
         Native!PriorPreferred, Exec!Item, Native!Item, Exec!Replacement, Native!Replacement,
         Exec!Replaceable, Native!Replaceable, Exec!PrimaryHnums, Native!PrimaryHnums,
         Exec!ItemIds, Native!ItemIds, Exec!CompleteItem, Native!CompleteItem
<1>5. Exec!WriteDb => Native!WriteDb
  BY DEF Exec!WriteDb, Native!WriteDb, Exec!ItemHnum, Native!ItemHnum, Exec!NewHnum,
         Native!NewHnum, Exec!Commit, Native!Commit, Exec!NoDb, Native!NoDb
<1>6. Exec!PassPrior => Native!PassPrior
  BY DEF Exec!PassPrior, Native!PassPrior, Exec!SkipPrior, Native!SkipPrior, Exec!PrimaryHnums,
         Native!PrimaryHnums, Exec!Replaces, Native!Replaces, Exec!Priors, Native!Priors,
         Exec!ExecutionOrder, Native!ExecutionOrder, Exec!PrimaryIndex, Native!PrimaryIndex,
         Exec!PriorPreferred, Native!PriorPreferred, Exec!ItemIds, Native!ItemIds,
         Exec!ItemPriors, Native!ItemPriors
<1>7. Exec!BeginErasePrior => Native!BeginErasePrior
  BY DEF Exec!BeginErasePrior, Native!BeginErasePrior, Exec!SkipPrior, Native!SkipPrior,
         Exec!PrimaryHnums, Native!PrimaryHnums, Exec!Replaces, Native!Replaces, Exec!Priors,
         Native!Priors, Exec!ExecutionOrder, Native!ExecutionOrder, Exec!PrimaryIndex,
         Native!PrimaryIndex, Exec!PriorPreferred, Native!PriorPreferred, Exec!ItemIds,
         Native!ItemIds, Exec!ItemPriors, Native!ItemPriors
<1>8. Exec!PriorsDone => Native!PriorsDone
  BY DEF Exec!PriorsDone, Native!PriorsDone, Exec!ItemPriors, Native!ItemPriors, Exec!Priors,
         Native!Priors, Exec!ExecutionOrder, Native!ExecutionOrder, Exec!PrimaryIndex,
         Native!PrimaryIndex, Exec!Replaces, Native!Replaces, Exec!PriorPreferred,
         Native!PriorPreferred, Exec!CompleteItem, Native!CompleteItem
<1>9. Exec!BeginErase => Native!BeginErase
  BY DEF Exec!BeginErase, Native!BeginErase, Exec!Test, Native!Test, Exec!Item, Native!Item,
         Exec!CompleteItem, Native!CompleteItem
<1>10. /\ Exec!RunPreun => Native!RunPreun
       /\ Exec!FilesErased => Native!FilesErased
       /\ Exec!RunPostun => Native!RunPostun
  BY DEF Exec!RunPreun, Native!RunPreun, Exec!JustDb, Native!JustDb, Exec!FilesOf, Native!FilesOf,
         Exec!PkgOf, Native!PkgOf, Exec!FilesErased, Native!FilesErased, Exec!RunPostun,
         Native!RunPostun
<1>11. Exec!EraseRow => Native!EraseRow
  BY DEF Exec!EraseRow, Native!EraseRow, Exec!NoDb, Native!NoDb, Exec!AfterErase,
         Native!AfterErase, Exec!Item, Native!Item, Exec!CompleteItem, Native!CompleteItem
<1>12. Exec!Fail => Native!Fail
  BY DEF Exec!Fail, Native!Fail, Exec!Fallible, Native!Fallible
<1>13. \A path \in Paths : Exec!InstallFile(path) => Native!InstallFile(path)
  BY DEF Exec!InstallFile, Native!InstallFile, Exec!Conflicts, Native!Conflicts, Exec!RemovedHnums, Native!RemovedHnums,
         Exec!PriorHnums, Native!PriorHnums, Exec!ItemIds, Native!ItemIds, Exec!ErasedRows,
         Native!ErasedRows, Exec!PkgOf, Native!PkgOf, Exec!PathOwned, Native!PathOwned,
         Exec!FilesOf, Native!FilesOf, Exec!ItemPriors, Native!ItemPriors, Exec!Priors,
         Native!Priors, Exec!ExecutionOrder, Native!ExecutionOrder, Exec!PrimaryIndex,
         Native!PrimaryIndex, Exec!Replaces, Native!Replaces, Exec!PriorPreferred,
         Native!PriorPreferred
<1>14. \A path \in Paths : Exec!EraseFile(path) => Native!EraseFile(path)
  BY DEF Exec!EraseFile, Native!EraseFile, Exec!PathOwned, Native!PathOwned, Exec!FilesOf,
         Native!FilesOf, Exec!PkgOf, Native!PkgOf, Exec!ErasePath, Native!ErasePath
<1>18. \A path \in Paths : Exec!WriteFile(path) => Native!WriteFile(path)
  BY DEF Exec!WriteFile, Native!WriteFile, Exec!ItemHnum, Native!ItemHnum, Exec!NewHnum,
         Native!NewHnum
<1> HIDE DEF Exec!viewVars, Native!viewVars, Exec!stateVars, Native!stateVars, Exec!Goto,
         Native!Goto, Exec!Finish, Native!Finish, Exec!Indices, Native!Indices
<1>15. CASE \E path \in Paths : Exec!InstallFile(path) \/ Exec!WriteFile(path)
  BY <1>13, <1>15, <1>18, Zenon DEF Native!Next, Native!Run
<1>16. CASE \E path \in Paths : Exec!EraseFile(path)
  BY <1>14, <1>16, Zenon DEF Native!Next, Native!Run
<1>17. CASE \/ Exec!Validate \/ Exec!Prevalidate \/ Exec!RunPretrans \/ Exec!BeginInstall
            \/ Exec!RunPre \/ Exec!WriteDb \/ Exec!RunPost \/ Exec!PassPrior
            \/ Exec!BeginErasePrior \/ Exec!PriorsDone \/ Exec!BeginErase \/ Exec!RunPreun
            \/ Exec!FilesErased \/ Exec!RunPostun \/ Exec!EraseRow \/ Exec!RunPosttrans
            \/ Exec!Fail
  BY <1>1, <1>2, <1>3, <1>4, <1>5, <1>6, <1>7, <1>8, <1>9, <1>10, <1>11, <1>12, <1>17, Zenon
  DEF Native!Next, Native!Run
<1> QED BY <1>15, <1>16, <1>17, Zenon DEF Exec!Run

\* And of the operators on plans.
LEMMA SameOperators ==
    /\ \A s : Native!Indices(s) = Indices(s)
    /\ \A t : Native!ItemIds(t) = ItemIds(t)
    /\ \A item : Native!PriorHnums(item) = PriorHnums(item)
    /\ \A item : Native!Replaces(item) = Replaces(item)
    /\ \A t, i : Native!NewHnum(t, i) = NewHnum(t, i)
    /\ \A t : Native!GoalRows(t) = GoalRows(t)
    /\ \A t : Native!InitialDisk(t) = Exec!InitialDisk(t)
    /\ \A items, order : Native!ValidateFixedOrder(items, order)
                            <=> ValidateFixedOrder(items, order)
<1>1. /\ \A s : Native!Indices(s) = Indices(s)
      /\ \A t : Native!ItemIds(t) = ItemIds(t)
      /\ \A item : Native!PriorHnums(item) = PriorHnums(item)
      /\ \A item : Native!Replaces(item) = Replaces(item)
      /\ \A t, i : Native!NewHnum(t, i) = NewHnum(t, i)
  BY DEF Native!Indices, Indices, Native!ItemIds, ItemIds, Native!PriorHnums, PriorHnums,
         Native!Replaces, Replaces, Native!NewHnum, NewHnum
<1>2. \A t : Native!GoalRows(t) = GoalRows(t)
  BY DEF GoalRows, Native!GoalRows, RemovedHnums, Native!RemovedHnums, PriorHnums,
         Native!PriorHnums, Indices, Native!Indices, ItemIds, Native!ItemIds, ErasedRows,
         Native!ErasedRows, NewHnums, Native!NewHnums, NewHnum, Native!NewHnum, AddedItems,
         Native!AddedItems
<1>3. \A t : Native!InitialDisk(t) = Exec!InitialDisk(t)
  BY DEF Exec!InitialDisk, Native!InitialDisk, Exec!Owners, Native!Owners, Exec!Indices,
         Native!Indices
<1>4. \A items, order : Native!ValidateFixedOrder(items, order)
                           <=> ValidateFixedOrder(items, order)
  BY DEF ValidateFixedOrder, Native!ValidateFixedOrder, ValidItem, Native!ValidItem, Replaces,
         Native!Replaces, PrimaryIndex, Native!PrimaryIndex, PriorPreferred,
         Native!PriorPreferred, Indices, Native!Indices, RowsNotShared, Native!RowsNotShared,
         PriorHnums, Native!PriorHnums, PrimaryHnum, Native!PrimaryHnum, OwnersGoFirst,
         Native!OwnersGoFirst, Position, Native!Position, IsPermutation, Native!IsPermutation
<1> QED BY <1>1, <1>2, <1>3, <1>4

-----------------------------------------------------------------------------
(* Valid plans                                                             *)

\* What replay knows of a plan once its checks have passed.
Usable(p) == ValidActions(p) /\ ValidExecution(p) /\ p.db = p.recorded

Actions == [kind : ItemTypes, pkg : Exec!Packages, hnum : Nat, priors : Seq(Nat)]
Steps == [action : Nat, op : ItemTypes, row : Nat]

\* A plan has the shape that PlansAssumption gives it.
LEMMA PlanShape ==
    ASSUME NEW p \in Plans
    PROVE  /\ p.db \in Seq(Exec!Packages) /\ p.actions \in Seq(Actions)
           /\ p.steps \in Seq(Steps) /\ p.main \in {"present", "absent"}
           /\ Len(p.db) \in Nat /\ Len(p.actions) \in Nat /\ Len(p.steps) \in Nat
           /\ \A a \in ActionIds(p) : /\ p.actions[a] \in Actions
                                      /\ Len(p.actions[a].priors) \in Nat
           /\ \A s \in Indices(p.steps) : p.steps[s] \in Steps
<1>1. /\ p.db \in Seq(Exec!Packages) /\ p.actions \in Seq(Actions)
      /\ p.steps \in Seq(Steps) /\ p.main \in {"present", "absent"}
  BY PlansAssumption DEF Actions, Steps
<1>2. \A a \in ActionIds(p) : p.actions[a] \in Actions
  BY <1>1 DEF ActionIds, Indices
<1>3. \A a \in ActionIds(p) : Len(p.actions[a].priors) \in Nat
  BY <1>2 DEF Actions
<1>4. \A s \in Indices(p.steps) : p.steps[s] \in Steps
  BY <1>1 DEF Indices
<1> QED BY <1>1, <1>2, <1>3, <1>4

\* The transaction that a plan is turned into.
LEMMA TxnOf ==
    ASSUME NEW p \in Plans
    PROVE  /\ Txn(p).db = p.db /\ Txn(p).fixed = TRUE /\ Txn(p).flags = {}
           /\ ItemIds(Txn(p)) = Indices(p.steps)
           /\ Len(Txn(p).items) = Len(p.steps)
           /\ Txn(p).order = [s \in Indices(p.steps) |-> s]
           /\ Txn(p).items = [s \in Indices(p.steps) |-> StepItem(p, p.steps[s])]
           /\ \A s \in Indices(p.steps) : Txn(p).items[s] = StepItem(p, p.steps[s])
<1>1. /\ Txn(p).db = p.db /\ Txn(p).fixed = TRUE /\ Txn(p).flags = {}
      /\ Txn(p).order = [s \in Indices(p.steps) |-> s]
      /\ Txn(p).items = [s \in Indices(p.steps) |-> StepItem(p, p.steps[s])]
  BY DEF Txn
<1>2. Len(Txn(p).items) = Len(p.steps)
  BY <1>1, PlanShape DEF Indices
<1> QED BY <1>1, <1>2 DEF ItemIds, Indices

\* The action of a step, and the rows it speaks of.
LEMMA StepAction ==
    ASSUME NEW p \in Plans, Usable(p), NEW s \in Indices(p.steps)
    PROVE  LET action == p.actions[p.steps[s].action]
           IN  /\ p.steps[s].action \in ActionIds(p)
               /\ action \in Actions
               /\ PriorRows(action) \subseteq Indices(p.db)
               /\ action.kind = "erase" => action.hnum \in Indices(p.db)
               /\ ~Primary(p, p.steps[s]) =>
                     /\ p.steps[s].op = "erase" /\ Erases(action)
                     /\ p.steps[s].row \in PriorRows(action)
               /\ Primary(p, p.steps[s]) => p.steps[s].row = action.hnum
<1>1. p.steps[s].action \in ActionIds(p)
  BY DEF Usable, ValidExecution
<1>2. p.actions[p.steps[s].action] \in Actions
  BY <1>1, PlanShape
<1>3. /\ PriorRows(p.actions[p.steps[s].action]) \subseteq Indices(p.db)
      /\ p.actions[p.steps[s].action].kind = "erase" =>
            p.actions[p.steps[s].action].hnum \in Indices(p.db)
  BY <1>1 DEF Usable, ValidActions
<1>4. ~Primary(p, p.steps[s]) =>
         /\ p.steps[s].op = "erase" /\ Erases(p.actions[p.steps[s].action])
         /\ p.steps[s].row \in PriorRows(p.actions[p.steps[s].action])
  BY DEF Usable, ValidExecution
<1>5. Primary(p, p.steps[s]) => p.steps[s].row = p.actions[p.steps[s].action].hnum
  BY DEF Primary
<1> QED BY <1>1, <1>2, <1>3, <1>4, <1>5

\* An item is an erase of an existing row, or brings the package of an action,
\* superseding the rows that no step of their own erases.
Brings(p, s) ==
    Primary(p, p.steps[s]) /\ p.actions[p.steps[s].action].kind # "erase"

LEMMA ErasingItem ==
    ASSUME NEW p \in Plans, Usable(p), NEW s \in Indices(p.steps), ~Brings(p, s)
    PROVE  /\ StepItem(p, p.steps[s]).type = "erase"
           /\ StepItem(p, p.steps[s]).hnum = p.steps[s].row
           /\ p.steps[s].row \in Indices(p.db)
           /\ StepItem(p, p.steps[s]).pkg = p.db[p.steps[s].row]
           /\ StepItem(p, p.steps[s]).priors = <<>>
           /\ StepItem(p, p.steps[s]) \in Exec!Items
<1>1. StepItem(p, p.steps[s]) = [type |-> "erase", pkg |-> p.db[p.steps[s].row],
                                 hnum |-> p.steps[s].row, priors |-> <<>>]
  BY DEF StepItem, Brings
<1>2. p.steps[s].row \in Indices(p.db)
  BY StepAction DEF Brings
<1>3. p.db[p.steps[s].row] \in Exec!Packages /\ p.steps[s].row \in Nat
  BY <1>2, PlanShape DEF Indices, Steps
<1>4. StepItem(p, p.steps[s]) \in Exec!Items
  BY <1>1, <1>3 DEF Exec!Items, Exec!ItemTypes
<1> QED BY <1>1, <1>2, <1>4

LEMMA BringingItem ==
    ASSUME NEW p \in Plans, Usable(p), NEW s \in Indices(p.steps), Brings(p, s)
    PROVE  LET action == p.actions[p.steps[s].action]
               item == StepItem(p, p.steps[s])
           IN  /\ item.type = TargetOperation(action.kind) /\ item.type # "erase"
               /\ item.hnum = 0 /\ item.pkg = action.pkg
               /\ Len(item.priors) \in Nat
               /\ \A k \in Indices(item.priors) :
                     /\ item.priors[k].hnum \in Indices(p.db)
                     /\ item.priors[k].pkg = p.db[item.priors[k].hnum]
               /\ PriorHnums(item) = IF Erases(action) THEN {} ELSE PriorRows(action)
               /\ item \in Exec!Items
<1> DEFINE action == p.actions[p.steps[s].action]
           item == StepItem(p, p.steps[s])
           rowsOf == [k \in Indices(action.priors) |->
                         [hnum |-> action.priors[k], pkg |-> p.db[action.priors[k]]]]
<1>1. item = [type |-> TargetOperation(action.kind), pkg |-> action.pkg, hnum |-> 0,
              priors |-> IF Erases(action) THEN <<>> ELSE rowsOf]
  BY Zenon DEF StepItem, Brings
<1>2. action \in Actions /\ PriorRows(action) \subseteq Indices(p.db) /\ action.kind # "erase"
  BY StepAction DEF Brings
<1>3. action.priors \in Seq(Nat) /\ action.pkg \in Exec!Packages /\ action.kind \in ItemTypes
  BY <1>2 DEF Actions
<1>4. TargetOperation(action.kind) \in Exec!ItemTypes \ {"erase"}
  BY <1>2, <1>3 DEF TargetOperation, ItemTypes, Exec!ItemTypes
<1>5. \A k \in Indices(action.priors) :
         /\ action.priors[k] \in Indices(p.db) /\ action.priors[k] \in Nat
         /\ p.db[action.priors[k]] \in Exec!Packages
  <2> TAKE k \in Indices(action.priors)
  <2>1. action.priors[k] \in Indices(p.db)
    BY <1>2 DEF PriorRows
  <2>2. p.db \in Seq(Exec!Packages) /\ Len(p.db) \in Nat
    BY PlanShape
  <2>3. \A h \in Indices(p.db) : h \in Nat /\ p.db[h] \in Exec!Packages
    BY <2>2 DEF Indices
  <2> QED BY <2>1, <2>3, Zenon
<1> HIDE DEF action, item
<1>6. rowsOf \in Seq(Exec!PlanRows) /\ Len(rowsOf) = Len(action.priors)
  BY <1>3, <1>5 DEF Indices, Exec!PlanRows
<1>7. /\ Len(item.priors) \in Nat
      /\ \A k \in Indices(item.priors) :
            /\ item.priors[k].hnum \in Indices(p.db)
            /\ item.priors[k].pkg = p.db[item.priors[k].hnum]
  <2>1. CASE Erases(action)
    BY <1>1, <2>1 DEF Indices
  <2>2. CASE ~Erases(action)
    BY <1>1, <1>3, <1>5, <1>6, <2>2 DEF Indices
  <2> QED BY <2>1, <2>2
<1>8. PriorHnums(item) = IF Erases(action) THEN {} ELSE PriorRows(action)
  <2>1. CASE Erases(action)
    BY <1>1, <2>1 DEF PriorHnums, Indices
  <2>2. CASE ~Erases(action)
    BY <1>1, <1>3, <1>6, <2>2 DEF PriorHnums, PriorRows, Indices
  <2> QED BY <2>1, <2>2
<1>9. item \in Exec!Items
  BY <1>1, <1>3, <1>4, <1>6 DEF Exec!Items
<1>10. /\ item.type = TargetOperation(action.kind) /\ item.type # "erase"
       /\ item.hnum = 0 /\ item.pkg = action.pkg
  BY <1>1, <1>4
<1> QED BY <1>7, <1>8, <1>9, <1>10, Zenon DEF action, item

\* A usable plan makes a transaction that the executor's theorems are about.
LEMMA UsableTxn ==
    ASSUME NEW p \in Plans, Usable(p)
    PROVE  Txn(p) \in Txns
<1>1. \A s \in Indices(p.steps) : StepItem(p, p.steps[s]) \in Exec!Items
  BY ErasingItem, BringingItem, Zenon
<1>2. [s \in Indices(p.steps) |-> StepItem(p, p.steps[s])] \in Seq(Exec!Items)
  BY <1>1, PlanShape DEF Indices
<1>3. [s \in Indices(p.steps) |-> s] \in Seq(Nat)
  BY PlanShape DEF Indices
<1>4. p.db \in Seq(Exec!Packages)
  BY PlanShape
<1>5. Txn(p) \in [db : Seq(Exec!Packages), items : Seq(Exec!Items), order : Seq(Nat),
                  fixed : BOOLEAN, flags : SUBSET Flags]
  BY <1>2, <1>3, <1>4 DEF Txn
<1> QED BY <1>5 DEF Txns

\* The executor visits the priors of an item and no other rows.
LEMMA NativeVisits ==
    ASSUME NEW t \in Txns, NEW i \in Native!ItemIds(t)
    PROVE  /\ t.items[i] \in Native!Items
           /\ Native!Priors(t, i) \in Seq(Native!PlanRows)
           /\ Len(Native!Priors(t, i)) = Len(t.items[i].priors)
           /\ \A j \in Native!Indices(Native!Priors(t, i)) :
                 \E k \in Native!Indices(t.items[i].priors) :
                    Native!Priors(t, i)[j] = t.items[i].priors[k]
           /\ t.fixed /\ Native!PrimaryIndex(t.items[i]) # 0 =>
                 Native!Primary(t, i) = Native!PrimaryHnum(t.items[i])
  BY Native!Visited, NativeTxns, Zenon

\* The comparison with the database that the executor makes again finds nothing,
\* since the items were built from the very rows.
LEMMA UsableMatches ==
    ASSUME NEW p \in Plans, Usable(p), txn = Txn(p), active = Indices(p.db),
           ValidateFixedOrder(txn.items, txn.order)
    PROVE  Native!PlanMatches /\ Native!PrimariesDistinct
<1>t. /\ txn \in Txns /\ txn.fixed = TRUE /\ txn.db = p.db
      /\ ItemIds(txn) = Indices(p.steps) /\ Native!ItemIds(txn) = Indices(p.steps)
      /\ \A s \in Indices(p.steps) : txn.items[s] = StepItem(p, p.steps[s])
  BY UsableTxn, TxnOf, SameOperators
<1>v. ASSUME NEW s \in Indices(p.steps)
      PROVE  /\ txn.items[s] \in Native!Items
             /\ Native!Priors(txn, s) \in Seq(Native!PlanRows)
             /\ Len(Native!Priors(txn, s)) = Len(txn.items[s].priors)
             /\ \A j \in Indices(Native!Priors(txn, s)) :
                   \E k \in Indices(txn.items[s].priors) :
                      Native!Priors(txn, s)[j] = txn.items[s].priors[k]
             /\ Native!PrimaryIndex(txn.items[s]) # 0 =>
                   Native!Primary(txn, s) = Native!PrimaryHnum(txn.items[s])
  <2>1. /\ txn.items[s] \in Native!Items
        /\ Native!Priors(txn, s) \in Seq(Native!PlanRows)
        /\ Len(Native!Priors(txn, s)) = Len(txn.items[s].priors)
        /\ \A j \in Native!Indices(Native!Priors(txn, s)) :
              \E k \in Native!Indices(txn.items[s].priors) :
                 Native!Priors(txn, s)[j] = txn.items[s].priors[k]
        /\ txn.fixed /\ Native!PrimaryIndex(txn.items[s]) # 0 =>
              Native!Primary(txn, s) = Native!PrimaryHnum(txn.items[s])
    BY <1>t, <1>v, NativeVisits, Zenon
  <2> QED BY <1>t, <2>1, SameOperators
<1>1. Native!IsPermutation(txn.order, Len(txn.items))
  BY SameOperators DEF Native!ValidateFixedOrder
<1>2. ASSUME NEW s \in Indices(p.steps), txn.items[s].type = "erase"
      PROVE  /\ Native!Priors(txn, s) = <<>>
             /\ Native!RowMatches([hnum |-> txn.items[s].hnum, pkg |-> txn.items[s].pkg])
  <2>1. ~Brings(p, s)
    BY <1>t, <1>2, BringingItem
  <2>2. /\ txn.items[s].hnum \in Indices(p.db) /\ txn.items[s].priors = <<>>
        /\ txn.items[s].pkg = p.db[txn.items[s].hnum]
    BY <1>t, <1>2, <2>1, ErasingItem
  <2>3. Native!Priors(txn, s) = <<>>
    BY <1>v, <1>2, <2>2
  <2> QED
    BY <1>t, <2>2, <2>3, SameOperators DEF Native!RowMatches, Native!SameNevra, Native!PkgOf
<1>3. ASSUME NEW s \in Indices(p.steps), NEW j \in Indices(Native!Priors(txn, s))
      PROVE  Native!RowMatches(Native!Priors(txn, s)[j])
  <2>1. PICK k \in Indices(txn.items[s].priors) :
                Native!Priors(txn, s)[j] = txn.items[s].priors[k]
    BY <1>v, <1>3
  <2>2. Brings(p, s)
    <3> SUFFICES ASSUME ~Brings(p, s) PROVE FALSE
      OBVIOUS
    <3>1. txn.items[s].priors = <<>>
      BY <1>t, <1>3, ErasingItem
    <3> QED BY <2>1, <3>1 DEF Indices
  <2>3. /\ txn.items[s].priors[k].hnum \in Indices(p.db)
        /\ txn.items[s].priors[k].pkg = p.db[txn.items[s].priors[k].hnum]
    BY <1>t, <1>3, <2>1, <2>2, BringingItem
  <2> QED BY <1>t, <2>1, <2>3, SameOperators DEF Native!RowMatches, Native!SameNevra, Native!PkgOf
<1>4. Native!PlanMatches
  BY <1>t, <1>1, <1>2, <1>3, SameOperators DEF Native!PlanMatches
<1>5. ASSUME NEW s \in Indices(p.steps), Native!Replaces(txn.items[s])
      PROVE  /\ Native!Priors(txn, s) # <<>>
             /\ Native!Priors(txn, s)[1].hnum = Native!PrimaryHnum(txn.items[s])
             /\ Native!PrimaryHnum(txn.items[s]) # 0
  <2>1. Native!ValidItem(txn.items[s])
    BY <1>t, <1>5, SameOperators DEF Native!ValidateFixedOrder, Native!ItemIds
  <2>2. Native!PrimaryIndex(txn.items[s]) # 0
    BY <1>5, <2>1 DEF Native!ValidItem
  <2>3. txn.items[s] \in Native!Items /\ Len(txn.items[s].priors) \in Nat
    BY <1>5, <1>v DEF Native!Items
  <2>4. Native!PrimaryIndex(txn.items[s]) \in Native!Indices(txn.items[s].priors)
    BY <2>2, <2>3, Native!PrimaryFound, NativeTxns
  <2>5. Len(txn.items[s].priors) # 0
    BY <2>3, <2>4 DEF Native!Indices
  <2>6. Native!Priors(txn, s) # <<>>
    BY <1>5, <1>v, <2>5
  <2>7. Native!PrimaryHnum(txn.items[s]) # 0
    BY <2>1, <2>2, <2>4 DEF Native!ValidItem, Native!PrimaryHnum
  <2> QED BY <1>5, <1>v, <2>2, <2>6, <2>7 DEF Native!Primary
<1>6. \A s, t \in Indices(p.steps) : s # t /\ Native!PrimaryHnum(txn.items[s]) # 0 =>
         Native!PrimaryHnum(txn.items[s]) # Native!PrimaryHnum(txn.items[t])
  BY <1>t, SameOperators, Zenon
  DEF Native!ValidateFixedOrder, Native!RowsNotShared, Native!ItemIds
<1>7. Native!PrimariesDistinct
  BY <1>t, <1>5, <1>6 DEF Native!PrimariesDistinct
<1> QED BY <1>4, <1>7

\* Every action has its step, and one only.
LEMMA OwnStep ==
    ASSUME NEW p \in Plans, Usable(p), NEW a \in ActionIds(p)
    PROVE  /\ PrimaryStep(p, a) \in Indices(p.steps)
           /\ p.steps[PrimaryStep(p, a)].action = a
           /\ Primary(p, p.steps[PrimaryStep(p, a)])
           /\ \A s \in Indices(p.steps) :
                 p.steps[s].action = a /\ Primary(p, p.steps[s]) => s = PrimaryStep(p, a)
<1> DEFINE own == {s \in Indices(p.steps) : Primary(p, p.steps[s])}
<1>1. /\ {p.steps[s].action : s \in own} = ActionIds(p)
      /\ \A s, t \in own : p.steps[s].action = p.steps[t].action => s = t
  BY DEF Usable, ValidExecution
<1>2. \E s \in Indices(p.steps) : p.steps[s].action = a /\ Primary(p, p.steps[s])
  BY <1>1
<1>3. /\ PrimaryStep(p, a) \in Indices(p.steps)
      /\ p.steps[PrimaryStep(p, a)].action = a
      /\ Primary(p, p.steps[PrimaryStep(p, a)])
  BY <1>2, Zenon DEF PrimaryStep
<1> QED BY <1>1, <1>3

\* Every row that a downgrade or an obsolete supersedes has an erase of its own.
LEMMA SharedErase ==
    ASSUME NEW p \in Plans, Usable(p), NEW a \in ActionIds(p), Erases(p.actions[a]),
           NEW h \in PriorRows(p.actions[a])
    PROVE  \E s \in Indices(p.steps) :
              /\ ~Brings(p, s) /\ p.steps[s].row = h
              /\ a \in Affected(p, s)
<1> DEFINE others == Indices(p.steps) \ {s \in Indices(p.steps) : Primary(p, p.steps[s])}
<1>1. {p.steps[s].row : s \in others} = RequiredErases(p)
  BY DEF Usable, ValidExecution
<1>2. h \in RequiredErases(p)
  BY DEF RequiredErases
<1>3. PICK s \in others : p.steps[s].row = h
  BY <1>1, <1>2
<1>4. s \in Indices(p.steps) /\ ~Primary(p, p.steps[s])
  OBVIOUS
<1>5. p.steps[s].op = "erase"
  BY <1>4, StepAction
<1> QED BY <1>3, <1>4, <1>5 DEF Brings, Affected

\* The kinds of action, and the rows that each of them supersedes.
LEMMA ActionRows ==
    ASSUME NEW p \in Plans, Usable(p), NEW a \in ActionIds(p)
    PROVE  /\ PriorRows(p.actions[a]) \subseteq Indices(p.db)
           /\ p.actions[a].kind \in {"install", "erase"} => PriorRows(p.actions[a]) = {}
           /\ IF p.actions[a].kind = "erase" THEN p.actions[a].hnum \in Indices(p.db)
              ELSE p.actions[a].hnum = 0
<1>1. /\ PriorRows(p.actions[a]) \subseteq Indices(p.db)
      /\ p.actions[a].kind \in {"install", "erase"} => p.actions[a].priors = <<>>
      /\ IF p.actions[a].kind = "erase" THEN p.actions[a].hnum \in Indices(p.db)
         ELSE p.actions[a].hnum = 0
  BY DEF Usable, ValidActions
<1> QED BY <1>1 DEF PriorRows, Indices

\* The step of an action: an erase of its row, or its package, which supersedes
\* the priors that have no erase.
LEMMA OwnItem ==
    ASSUME NEW p \in Plans, Usable(p), NEW a \in ActionIds(p)
    PROVE  LET item == Txn(p).items[PrimaryStep(p, a)]
               action == p.actions[a]
           IN  IF action.kind = "erase" THEN item.type = "erase" /\ item.hnum = action.hnum
               ELSE /\ item.type # "erase"
                    /\ ~Erases(action) => PriorHnums(item) = PriorRows(action)
<1>1. /\ PrimaryStep(p, a) \in Indices(p.steps)
      /\ p.steps[PrimaryStep(p, a)].action = a
      /\ Primary(p, p.steps[PrimaryStep(p, a)])
  BY OwnStep
<1>2. Txn(p).items[PrimaryStep(p, a)] = StepItem(p, p.steps[PrimaryStep(p, a)])
  BY <1>1, TxnOf
<1>3. CASE p.actions[a].kind = "erase"
  <2>1. ~Brings(p, PrimaryStep(p, a)) /\ p.steps[PrimaryStep(p, a)].row = p.actions[a].hnum
    BY <1>1, <1>3 DEF Brings, Primary
  <2> QED BY <1>1, <1>2, <1>3, <2>1, ErasingItem
<1>4. CASE p.actions[a].kind # "erase"
  <2>1. Brings(p, PrimaryStep(p, a))
    BY <1>1, <1>4 DEF Brings
  <2> QED BY <1>1, <1>2, <1>4, <2>1, BringingItem
<1> QED BY <1>3, <1>4

\* projectFinalInventory foretells what the executor makes of the plan, although
\* one is computed from the actions and the other from the steps.
LEMMA ProjectionIsGoal ==
    ASSUME NEW p \in Plans, Usable(p)
    PROVE  ProjectedInventory(p) = GoalRows(Txn(p))
<1> DEFINE t == Txn(p)
           gone == (UNION {PriorRows(p.actions[a]) : a \in ActionIds(p)})
                   \cup {p.actions[a].hnum : a \in ActionIds(p)}
           new == {a \in ActionIds(p) : p.actions[a].kind # "erase"}
<1>t. /\ t.db = p.db /\ ItemIds(t) = Indices(p.steps)
      /\ \A s \in Indices(p.steps) : t.items[s] = StepItem(p, p.steps[s])
  BY TxnOf
<1> HIDE DEF t
<1>1. ASSUME NEW h \in Indices(p.db), h \in gone PROVE h \in RemovedHnums(t)
  <2>1. PICK a \in ActionIds(p) : h \in PriorRows(p.actions[a]) \/ h = p.actions[a].hnum
    BY <1>1
  <2>2. h # 0
    BY <1>1 DEF Indices
  <2>3. PrimaryStep(p, a) \in ItemIds(t)
    BY <1>t, OwnStep
  <2>4. CASE p.actions[a].kind = "erase"
    <3>1. h = p.actions[a].hnum
      BY <2>1, <2>4, ActionRows
    <3>2. t.items[PrimaryStep(p, a)].type = "erase" /\ t.items[PrimaryStep(p, a)].hnum = h
      BY <2>4, <3>1, OwnItem DEF t
    <3> QED BY <2>3, <3>2 DEF RemovedHnums, ErasedRows, ItemIds
  <2>5. CASE Erases(p.actions[a])
    <3>1. h \in PriorRows(p.actions[a])
      BY <2>1, <2>2, <2>5, ActionRows DEF Erases
    <3>2. PICK s \in Indices(p.steps) : ~Brings(p, s) /\ p.steps[s].row = h
      BY <2>5, <3>1, SharedErase
    <3>3. t.items[s].type = "erase" /\ t.items[s].hnum = h
      BY <1>t, <3>2, ErasingItem
    <3> QED BY <1>t, <3>3 DEF RemovedHnums, ErasedRows, ItemIds
  <2>6. CASE p.actions[a].kind # "erase" /\ ~Erases(p.actions[a])
    <3>1. h \in PriorRows(p.actions[a])
      BY <2>1, <2>2, <2>6, ActionRows
    <3>2. h \in PriorHnums(t.items[PrimaryStep(p, a)])
      BY <2>6, <3>1, OwnItem DEF t
    <3> QED BY <2>3, <3>2 DEF RemovedHnums
  <2> QED BY <2>4, <2>5, <2>6
<1>2. ASSUME NEW h, h \in RemovedHnums(t) PROVE h \in gone
  <2>1. PICK s \in Indices(p.steps) :
                \/ t.items[s].type = "erase" /\ t.items[s].hnum = h
                \/ h \in PriorHnums(t.items[s])
    BY <1>t, <1>2 DEF RemovedHnums, ErasedRows, ItemIds
  <2>2. p.steps[s].action \in ActionIds(p)
    BY StepAction
  <2>3. CASE ~Brings(p, s)
    <3>1. t.items[s].hnum = p.steps[s].row /\ t.items[s].priors = <<>>
      BY <1>t, <2>3, ErasingItem
    <3>2. h = p.steps[s].row
      BY <2>1, <3>1 DEF PriorHnums, Indices
    <3>3. \/ p.steps[s].row \in PriorRows(p.actions[p.steps[s].action])
          \/ p.steps[s].row = p.actions[p.steps[s].action].hnum
      BY StepAction
    <3> QED BY <2>2, <3>2, <3>3
  <2>4. CASE Brings(p, s)
    <3>1. /\ t.items[s].type # "erase"
          /\ PriorHnums(t.items[s]) \subseteq PriorRows(p.actions[p.steps[s].action])
      BY <1>t, <2>4, BringingItem
    <3> QED BY <2>1, <2>2, <3>1
  <2> QED BY <2>3, <2>4
<1>3. {NewHnum(t, PrimaryStep(p, a)) : a \in new} = NewHnums(t)
  <2>1. ASSUME NEW a \in new PROVE PrimaryStep(p, a) \in AddedItems(t)
    BY <1>t, <2>1, OwnStep, OwnItem DEF AddedItems, t
  <2>2. ASSUME NEW s \in AddedItems(t)
        PROVE  p.steps[s].action \in new /\ s = PrimaryStep(p, p.steps[s].action)
    <3>1. s \in Indices(p.steps) /\ t.items[s].type # "erase"
      BY <1>t, <2>2 DEF AddedItems
    <3>2. Brings(p, s)
      BY <1>t, <3>1, ErasingItem
    <3>3. p.steps[s].action \in new
      BY <3>1, <3>2, StepAction DEF Brings
    <3> QED BY <3>1, <3>2, <3>3, OwnStep DEF Brings
  <2> QED BY <2>1, <2>2 DEF NewHnums
<1>4. Indices(p.db) \ gone = Indices(p.db) \ RemovedHnums(t)
  BY <1>1, <1>2
<1>5. ProjectedInventory(p) = (Indices(p.db) \ gone) \cup {NewHnum(t, PrimaryStep(p, a)) : a \in new}
  BY DEF ProjectedInventory, t
<1>6. GoalRows(t) = (Indices(p.db) \ RemovedHnums(t)) \cup NewHnums(t)
  BY <1>t DEF GoalRows
<1> QED BY <1>3, <1>4, <1>5, <1>6 DEF t

\* The recorded work of an action, once it has been observed, is what the action
\* means: rows keeps what the observed items stand for.
LEMMA WorkIsAction ==
    ASSUME NEW p \in Plans, Usable(p), NEW a \in ActionIds(p), NEW done, NEW R, 0 \notin R,
           \A s \in done : LET item == Txn(p).items[s] IN
              IF item.type = "erase" THEN item.hnum \notin R
              ELSE NewHnum(Txn(p), s) \in R /\ PriorHnums(item) \cap R = {},
           \A s \in Indices(p.steps) : a \in Affected(p, s) => s \in done
    PROVE  /\ R \cap (PriorRows(p.actions[a]) \cup {p.actions[a].hnum}) = {}
           /\ p.actions[a].kind # "erase" => NewHnum(Txn(p), PrimaryStep(p, a)) \in R
<1> DEFINE own == PrimaryStep(p, a)
           action == p.actions[a]
<1>1. own \in done
  <2>1. own \in Indices(p.steps) /\ p.steps[own].action = a
    BY OwnStep
  <2> QED BY <2>1 DEF Affected
<1>2. CASE action.kind = "erase"
  <2>1. PriorRows(action) = {}
    BY <1>2, ActionRows
  <2>2. Txn(p).items[own].type = "erase" /\ Txn(p).items[own].hnum = action.hnum
    BY <1>2, OwnItem
  <2> QED BY <1>1, <1>2, <2>1, <2>2
<1>3. CASE action.kind # "erase"
  <2>1. action.hnum = 0
    BY <1>3, ActionRows
  <2>2. Txn(p).items[own].type # "erase"
    BY <1>3, OwnItem
  <2>3. NewHnum(Txn(p), own) \in R /\ PriorHnums(Txn(p).items[own]) \cap R = {}
    BY <1>1, <2>2
  <2>4. PriorRows(action) \cap R = {}
    <3>1. CASE ~Erases(action)
      BY <1>3, <2>3, <3>1, OwnItem
    <3>2. CASE Erases(action)
      <4> SUFFICES ASSUME NEW h \in PriorRows(action) PROVE h \notin R
        OBVIOUS
      <4>1. PICK s \in Indices(p.steps) :
                    ~Brings(p, s) /\ p.steps[s].row = h /\ a \in Affected(p, s)
        BY <3>2, SharedErase
      <4>2. Txn(p).items[s].type = "erase" /\ Txn(p).items[s].hnum = h
        <5>1. Txn(p).items[s] = StepItem(p, p.steps[s])
          BY <4>1, TxnOf, Zenon
        <5> QED BY <4>1, <5>1, ErasingItem
      <4> QED BY <4>1, <4>2
    <3> QED BY <3>1, <3>2
  <2> QED BY <1>3, <2>1, <2>3, <2>4
<1> QED BY <1>2, <1>3

-----------------------------------------------------------------------------
(* The invariants                                                          *)

\* The stages up to the execution, and those that hold the lock; of the latter
\* those after the target was compared, and after the order was checked.
Before == {"preflight", "lock", "snapshot", "build", "nothing", "begin", "revalidate",
           "materialize", "initialize"}
Executing == {"execute", "inventory"}
Holding == (Before \ {"preflight", "lock"}) \cup Executing
Compared == Holding \ {"snapshot"}
Ordered == Compared \ {"build"}

\* The executor has not been called.
Idle ==
    /\ pc = "validate" /\ pos = 1 /\ active = {} /\ visible = {} /\ todo = {}
    /\ repl = 0 /\ next = 1 /\ victim = 0 /\ completed = {} /\ rc = "none"
    /\ disk = Exec!InitialDisk(txn) /\ hand = {}

\* What has been checked, and what is still as it was, at each stage.
StageInv ==
    /\ plan \in Plans /\ txn = Txn(plan)
    /\ stage \in Before \cup Executing \cup {"end"}
    /\ lock = "replay" <=> stage \in Holding
    /\ stage \in Holding \cup {"lock"} => ValidActions(plan) /\ ValidExecution(plan)
    /\ stage \in Compared => plan.db = plan.recorded
    /\ stage \in Ordered => ValidateFixedOrder(txn.items, txn.order)
    /\ stage = "nothing" => plan.steps = <<>>
    /\ stage \in Before => Idle /\ rows \subseteq Indices(plan.db)
    /\ stage \in Before \cap Compared => rows = Indices(plan.db)

\* The executor runs on its own invariant and finds nothing to refuse.
ExecutorInv ==
    /\ stage \in Executing => Native!ExecInv
    /\ stage = "inventory" => rc = "ok"
    /\ ExecutorNeverRefuses

\* All that was recorded for the action has been observed.
WorkDone(a) ==
    \A s \in Indices(plan.steps) : a \in Affected(plan, s) => s \in completed

\* The counters of Progress stand for sets of steps.
ProgressInv ==
    /\ stage \in Before =>
          \A a \in ActionIds(plan) : outcome[a] = "not_attempted" /\ count[a] = 0
    /\ stage \in Executing => \A a \in ActionIds(plan) :
          /\ count[a] = Cardinality({s \in completed : a \in Affected(plan, s)})
          /\ outcome[a] = "applied" <=> WorkDone(a)

\* Whose rpmdb it is.
MainInv ==
    /\ plan.main = "absent" /\ stage \in Before \ {"initialize"} =>
          main \in {"absent", "foreign"}
    /\ stage \in {"snapshot", "build"} /\ pin # "absent" => main # "absent"
    /\ stage = "build" /\ pin # "absent" => main # "foreign"
    /\ stage \in {"initialize"} \cup Executing => main \notin {"absent", "foreign"}

\* There is no answer yet; the result holds the inventory that was found.
Unanswered(inventory) ==
    result = [status |-> "none", why |-> "none", digest |-> "null", inventory |-> inventory]

ResultInv ==
    /\ stage # "end" => result.status = "none" /\ result.digest = "null"
    /\ stage \in {"preflight", "lock", "snapshot"} => Unanswered(<<>>)
    /\ stage \in {"build", "nothing", "begin", "revalidate"} => Unanswered(<<rows>>)

-----------------------------------------------------------------------------
(* Stages                                                                  *)

\* The executor's part of an Execute step.
LEMMA ExecuteSteps ==
    ASSUME Execute
    PROVE  [Native!Next]_(Native!vars) /\ txn' = txn
<1>1. Native!Next
  BY ExecutorSteps DEF Execute
<1> QED BY <1>1, Native!TxnStays, NativeTxns

\* The steps that end a replay: with an answer or by a crash.
Ending ==
    /\ stage # "end" /\ stage' = "end" /\ lock' # "replay"
    /\ UNCHANGED <<execVars, plan, main, pin>>

LEMMA StageInit == Init => StageInv
  BY PlanShape, TxnOf
  DEF Init, Exec!Start, StageInv, Before, Executing, Holding, Compared, Ordered, Idle, Indices,
      Exec!Indices

\* Replay moves on from stage to stage as its checks pass.
LEMMA NextStage == StageInv /\ [Next]_vars => StageInv'
<1> SUFFICES ASSUME StageInv, [Next]_vars PROVE StageInv'
  OBVIOUS
<1> USE DEF Before, Executing, Holding, Compared, Ordered
<1>1. CASE Ending
  BY <1>1 DEF Ending, StageInv, execVars
<1>2. CASE stage = "preflight" /\ ValidActions(plan) /\ ValidExecution(plan) /\ Goto("lock")
           /\ UNCHANGED <<execVars, lock, main, pin, result>>
  BY <1>2 DEF Goto, StageInv, Idle, execVars
<1>3. CASE stage = "lock" /\ lock = "free" /\ lock' = "replay" /\ Goto("snapshot")
           /\ UNCHANGED <<execVars, main, result>>
  BY <1>3 DEF Goto, StageInv, Idle, execVars
<1>4. CASE stage = "snapshot" /\ AsRecorded /\ Goto("build")
           /\ UNCHANGED <<execVars, lock, main, pin>>
  BY <1>4 DEF Goto, AsRecorded, StageInv, Idle, execVars
<1>5. CASE stage = "build" /\ ValidateFixedOrder(txn.items, txn.order)
           /\ Goto(IF plan.steps = <<>> THEN "nothing"
                   ELSE IF pin = "absent" THEN "begin" ELSE "execute")
           /\ UNCHANGED <<execVars, lock, main, pin, result>>
  BY <1>5 DEF Goto, StageInv, Idle, execVars
<1>6. CASE /\ \/ stage = "begin" /\ Goto("revalidate")
              \/ stage = "revalidate" /\ Goto("materialize")
              \/ stage = "materialize" /\ Goto("initialize")
              \/ stage = "initialize" /\ Goto("execute")
              \/ stage = "execute" /\ Goto("inventory")
           /\ UNCHANGED <<execVars, lock, result>>
  BY <1>6 DEF Goto, StageInv, Idle, execVars
<1>7. CASE Execute
  BY <1>7, ExecuteSteps DEF Execute, StageInv
<1>8. CASE OtherLocks \/ OtherErases \/ OtherUnlocks \/ ForeignCreates
  BY <1>8 DEF OtherLocks, OtherErases, OtherUnlocks, ForeignCreates, StageInv, Idle, execVars
<1>9. CASE UNCHANGED vars
  BY <1>9 DEF vars, execVars, StageInv, Idle
<1>10. CASE Run /\ ~Execute
  <2>1. CASE Preflight
    BY <1>1, <1>2, <2>1 DEF Preflight, Refuse, Return, Ending
  <2>2. CASE Acquire
    BY <1>1, <1>3, <2>2 DEF Acquire, Refuse, Return, Ending
  <2>3. CASE Snapshot
    BY <1>1, <1>4, <2>3 DEF Snapshot, Refuse, Return, Ending
  <2>4. CASE Build
    BY <1>1, <1>5, <2>4 DEF Build, Refuse, Return, Ending
  <2>5. CASE Nothing
    BY <1>1, <2>5 DEF Nothing, Refuse, Return, Ending
  <2>6. CASE Begin \/ Revalidate
    BY <1>1, <1>6, <2>6 DEF Begin, Revalidate, Refuse, Return, Ending
  <2>7. CASE Materialize \/ Initialize
    BY <1>1, <1>6, <2>7
    DEF Materialize, Initialize, RecordTransactionFailure, Return, Ending
  <2>8. CASE ExecuteFailed \/ ExecuteDone
    BY <1>1, <1>6, <2>8
    DEF ExecuteFailed, ExecuteDone, RecordTransactionFailure, Return, Ending
  <2>9. CASE FinalInventory
    BY <1>1, <2>9 DEF FinalInventory, Return, Ending
  <2> QED
    BY <1>10, <2>1, <2>2, <2>3, <2>4, <2>5, <2>6, <2>7, <2>8, <2>9 DEF Run
<1>11. CASE Crash
  BY <1>1, <1>11 DEF Crash, Ending
<1> QED BY <1>7, <1>8, <1>9, <1>10, <1>11 DEF Next, Others

-----------------------------------------------------------------------------
(* The executor's checks                                                   *)

\* Before the first item the view is the database.
LEMMA FreshView ==
    ASSUME Native!ExecInv, pc = "prevalidate"
    PROVE  active = Native!Indices(txn.db)
  BY DEF Native!ExecInv, Native!RowInv, Native!BaseInv, Native!PlanInv, Native!Untouched

\* When replay calls the executor, it finds the database as the plan has it.
LEMMA CallsExecutor ==
    ASSUME StageInv, stage \in {"build", "initialize"}
    PROVE  Native!ExecInv
<1>1. /\ Idle /\ rows = Indices(plan.db) /\ plan \in Plans /\ txn = Txn(plan)
      /\ Usable(plan)
  BY DEF StageInv, Before, Executing, Holding, Compared, Usable
<1>2. txn.db = plan.db /\ txn.fixed = TRUE /\ txn \in Txns
  BY <1>1, TxnOf, UsableTxn
<1>3. Native!Start
  BY <1>1, <1>2, SameOperators DEF Native!Start, Idle
<1>4. Native!Init
  BY <1>2, <1>3 DEF Native!Init
<1> QED BY <1>4, Native!InitExec, NativeTxns

\* A step that leaves the executor alone.
LEMMA ExecutorWaits ==
    ASSUME Native!ExecInv, UNCHANGED execVars
    PROVE  Native!ExecInv'
<1>1. UNCHANGED Native!vars
  BY DEF execVars, Native!vars, Native!viewVars, Native!stateVars
<1>2. [Native!Next]_(Native!vars)
  BY <1>1
<1> QED BY <1>2, Native!NextExec, NativeTxns

LEMMA InitExecutor == Init => ExecutorInv
  BY DEF Init, Exec!Start, ExecutorInv, Executing, ExecutorNeverRefuses

\* What replay has checked is what the executor checks.
LEMMA NextExecutor == StageInv /\ ExecutorInv /\ [Next]_vars => ExecutorInv'
<1> SUFFICES ASSUME StageInv, ExecutorInv, [Next]_vars PROVE ExecutorInv'
  OBVIOUS
<1>1. CASE Execute
  <2>1. [Native!Next]_(Native!vars) /\ Native!ExecInv /\ stage' = "execute" /\ stage = "execute"
    BY <1>1, ExecuteSteps DEF Execute, ExecutorInv, Executing
  <2>2. Native!ExecInv'
    BY <2>1, Native!NextExec, NativeTxns
  <2>3. rc' \notin {"invalid", "mismatch"}
    <3> SUFFICES ASSUME rc' \in {"invalid", "mismatch"} PROVE FALSE
      OBVIOUS
    <3>1. rc \notin {"invalid", "mismatch"}
      BY DEF ExecutorInv, ExecutorNeverRefuses
    <3>2. \/ ~Native!ValidateFixedOrder(txn.items, txn.order)
          \/ pc = "prevalidate" /\ ~(Native!PlanMatches /\ Native!PrimariesDistinct)
      BY <2>1, <3>1, Native!RefusedByChecks, NativeTxns
    <3>3. /\ ValidateFixedOrder(txn.items, txn.order) /\ plan \in Plans /\ txn = Txn(plan)
          /\ Usable(plan)
      BY <2>1 DEF StageInv, Executing, Holding, Compared, Ordered, Usable
    <3>4. pc = "prevalidate" => active = Indices(plan.db)
      BY <2>1, <3>3, FreshView, SameOperators, TxnOf
    <3> QED BY <3>2, <3>3, <3>4, UsableMatches, SameOperators
  <2> QED BY <2>1, <2>2, <2>3 DEF ExecutorInv, ExecutorNeverRefuses
<1>2. CASE stage' \notin Executing /\ rc' = rc
  BY <1>2 DEF ExecutorInv, ExecutorNeverRefuses, Executing
<1>3. CASE UNCHANGED execVars /\ stage' = "execute" /\ stage \in {"build", "initialize"}
  <2>1. Native!ExecInv'
    BY <1>3, CallsExecutor, ExecutorWaits
  <2> QED BY <1>3, <2>1 DEF ExecutorInv, ExecutorNeverRefuses, execVars
<1>4. CASE UNCHANGED <<execVars, stage>> \/ ExecuteDone
  <2>1. UNCHANGED execVars /\ (stage' \in Executing => stage \in Executing)
    BY <1>4 DEF ExecuteDone, Goto, Executing
  <2>2. stage' \in Executing => Native!ExecInv'
    BY <2>1, ExecutorWaits DEF ExecutorInv
  <2> QED
    BY <1>4, <2>1, <2>2 DEF ExecutorInv, ExecutorNeverRefuses, execVars, ExecuteDone
<1>5. CASE OtherErases
  BY <1>2, <1>5 DEF OtherErases, StageInv, Holding
<1>6. CASE Crash
  BY <1>2, <1>6 DEF Crash, execVars, Executing
<1>7. CASE OtherLocks \/ OtherUnlocks \/ ForeignCreates \/ UNCHANGED vars
  BY <1>4, <1>7 DEF OtherLocks, OtherUnlocks, ForeignCreates, vars
<1>8. CASE Run /\ ~Execute /\ ~ExecuteDone
  <2> USE DEF Executing, execVars
  <2>1. CASE Preflight \/ Acquire
    BY <1>2, <2>1 DEF Preflight, Acquire, Refuse, Return, Goto
  <2>2. CASE Snapshot
    BY <1>2, <2>2 DEF Snapshot, Refuse, Return, Goto
  <2>3. CASE Build
    BY <1>2, <1>3, <2>3 DEF Build, Refuse, Return, Goto
  <2>4. CASE Nothing \/ Begin \/ Revalidate
    BY <1>2, <2>4 DEF Nothing, Begin, Revalidate, Refuse, Return, Goto
  <2>5. CASE Materialize \/ Initialize \/ ExecuteFailed
    BY <1>2, <1>3, <2>5
    DEF Materialize, Initialize, ExecuteFailed, RecordTransactionFailure, Return, Goto
  <2>6. CASE FinalInventory
    BY <1>2, <2>6 DEF FinalInventory, Return
  <2> QED BY <1>8, <2>1, <2>2, <2>3, <2>4, <2>5, <2>6 DEF Run
<1> QED BY <1>1, <1>4, <1>5, <1>6, <1>7, <1>8 DEF Next, Others

-----------------------------------------------------------------------------
(* Progress                                                                *)

\* Every action has a step that concerns it.
LEMMA SomeStep ==
    ASSUME NEW p \in Plans, Usable(p), NEW a \in ActionIds(p)
    PROVE  \E s \in Indices(p.steps) : a \in Affected(p, s)
  BY OwnStep DEF Affected

\* Counting steps is as good as remembering them.
LEMMA CountedSteps ==
    ASSUME NEW p \in Plans, NEW a \in ActionIds(p), NEW C \in SUBSET Indices(p.steps)
    PROVE  LET D == {s \in C : a \in Affected(p, s)}
           IN  /\ IsFiniteSet(D) /\ Cardinality(D) \in Nat
               /\ Cardinality(D) = Expected(p, a)
                     <=> \A s \in Indices(p.steps) : a \in Affected(p, s) => s \in C
<1> DEFINE D == {s \in C : a \in Affected(p, s)}
           E == {s \in Indices(p.steps) : a \in Affected(p, s)}
<1>1. IsFiniteSet(Indices(p.steps))
  <2>1. 1 \in Int /\ Len(p.steps) \in Int
    BY PlanShape
  <2>2. IsFiniteSet(1 .. Len(p.steps))
    BY <2>1, FS_Interval
  <2> QED BY <2>2 DEF Indices
<1>2. IsFiniteSet(E)
  BY <1>1, FS_Subset
<1>3. D \subseteq E
  OBVIOUS
<1>4. IsFiniteSet(D) /\ Cardinality(D) \in Nat /\ (Cardinality(D) = Cardinality(E) => D = E)
  BY <1>2, <1>3, FS_Subset, FS_CardinalityType
<1>5. D = E <=> \A s \in Indices(p.steps) : a \in Affected(p, s) => s \in C
  OBVIOUS
<1> QED BY <1>4, <1>5 DEF Expected

LEMMA InitProgress == Init => ProgressInv
  BY DEF Init, ProgressInv, Before, Executing

\* One more observed step: an action becomes applied with its last one.
LEMMA ProgressStep ==
    ASSUME StageInv, stage \in Executing, ProgressInv, plan' = plan,
           completed \subseteq Indices(plan.steps),
           NEW s \in Indices(plan.steps) \ completed, completed' = completed \cup {s},
           Progress(s), NEW a \in ActionIds(plan)
    PROVE  /\ count'[a] = Cardinality({r \in completed' : a \in Affected(plan, r)})
           /\ outcome'[a] = "applied" <=> WorkDone(a)'
<1> DEFINE D == {r \in completed : a \in Affected(plan, r)}
           E == {r \in completed' : a \in Affected(plan, r)}
<1>1. plan \in Plans /\ count[a] = Cardinality(D) /\ (outcome[a] = "applied" <=> WorkDone(a))
  BY DEF StageInv, ProgressInv
<1>2. /\ count'[a] = IF a \in Affected(plan, s) THEN count[a] + 1 ELSE count[a]
      /\ outcome'[a] = IF a \in Affected(plan, s) /\ count'[a] = Expected(plan, a)
                       THEN "applied" ELSE outcome[a]
  BY DEF Progress
<1>3. /\ IsFiniteSet(D) /\ Cardinality(D) \in Nat
      /\ IsFiniteSet(E) /\ Cardinality(E) \in Nat
      /\ Cardinality(E) = Expected(plan, a) <=> WorkDone(a)'
  <2>1. completed' \subseteq Indices(plan.steps)
    OBVIOUS
  <2>2. /\ IsFiniteSet(E) /\ Cardinality(E) \in Nat
        /\ Cardinality(E) = Expected(plan, a)
              <=> \A r \in Indices(plan.steps) : a \in Affected(plan, r) => r \in completed'
    BY <1>1, <2>1, CountedSteps
  <2>3. IsFiniteSet(D) /\ Cardinality(D) \in Nat
    BY <1>1, CountedSteps
  <2>4. WorkDone(a)'
           <=> \A r \in Indices(plan.steps) : a \in Affected(plan, r) => r \in completed'
    BY DEF WorkDone
  <2> QED BY <2>2, <2>3, <2>4
<1>4. CASE a \in Affected(plan, s)
  <2>1. E = D \cup {s} /\ s \notin D
    BY <1>4
  <2>2. Cardinality(E) = Cardinality(D) + 1
    BY <1>3, <2>1, FS_AddElement
  <2>3. ~WorkDone(a)
    BY <1>4 DEF WorkDone
  <2> QED BY <1>1, <1>2, <1>3, <1>4, <2>2, <2>3
<1>5. CASE a \notin Affected(plan, s)
  <2>1. E = D
    BY <1>5
  <2>2. WorkDone(a)' <=> WorkDone(a)
    BY <1>5 DEF WorkDone
  <2> QED BY <1>1, <1>2, <1>5, <2>1, <2>2
<1> QED BY <1>4, <1>5

\* An action is applied exactly when all its steps were observed.
LEMMA NextProgress ==
    StageInv /\ ExecutorInv /\ ProgressInv /\ [Next]_vars => ProgressInv'
<1> SUFFICES ASSUME StageInv, ExecutorInv, ProgressInv, [Next]_vars PROVE ProgressInv'
  OBVIOUS
<1>t. plan \in Plans /\ txn = Txn(plan)
  BY DEF StageInv
<1>1. CASE Execute
  <2>1. /\ [Native!Next]_(Native!vars) /\ Native!ExecInv /\ stage' = "execute"
        /\ stage = "execute" /\ plan' = plan /\ stage \in Executing
    BY <1>1, ExecuteSteps DEF Execute, ExecutorInv, Executing
  <2>2. Native!ItemIds(txn) = Indices(plan.steps)
    BY <1>t, TxnOf, SameOperators
  <2>3. completed \subseteq Indices(plan.steps)
    BY <2>1, <2>2
    DEF Native!ExecInv, Native!RowInv, Native!BaseInv, Native!TypeInv, Native!TypeOK
  <2>4. \/ completed' = completed
        \/ \E i \in Native!ItemIds(txn) \ completed : completed' = completed \cup {i}
    BY <2>1, Native!OneReport, NativeTxns
  <2>5. CASE completed' = completed
    <3>1. UNCHANGED <<outcome, count, completed, plan>>
      BY <1>1, <2>5 DEF Execute
    <3> QED BY <2>1, <3>1 DEF ProgressInv, WorkDone, Before, Executing
  <2>6. CASE completed' # completed
    <3>1. PICK s \in completed' \ completed : Progress(s)
      BY <1>1, <2>6 DEF Execute
    <3>2. s \in Indices(plan.steps) \ completed /\ completed' = completed \cup {s}
      BY <2>2, <2>4, <2>6
    <3>3. \A a \in ActionIds(plan) :
             /\ count'[a] = Cardinality({r \in completed' : a \in Affected(plan, r)})
             /\ outcome'[a] = "applied" <=> WorkDone(a)'
      BY <2>1, <2>3, <3>1, <3>2, ProgressStep
    <3> QED BY <2>1, <3>3 DEF ProgressInv, Before
  <2> QED BY <2>5, <2>6
<1>2. CASE stage' = "end"
  BY <1>2 DEF ProgressInv, Before, Executing
<1>3. CASE /\ UNCHANGED <<completed, plan, outcome, count>>
           /\ \/ stage' = stage
              \/ stage \in Before /\ stage' \in Before
              \/ ExecuteDone
  <2>1. /\ stage' \in Before => stage \in Before
        /\ stage' \in Executing => stage \in Executing
    BY <1>3 DEF ExecuteDone, Goto, Before, Executing
  <2>2. \A a : WorkDone(a)' <=> WorkDone(a)
    BY <1>3 DEF WorkDone
  <2> QED BY <1>3, <2>1, <2>2 DEF ProgressInv
<1>4. CASE /\ stage \in {"build", "initialize"} /\ stage' = "execute"
           /\ UNCHANGED <<completed, plan, outcome, count>>
  <2> SUFFICES ASSUME NEW a \in ActionIds(plan)
               PROVE  /\ count[a] = Cardinality({s \in completed : a \in Affected(plan, s)})
                      /\ outcome[a] = "applied" <=> WorkDone(a)
    BY <1>4 DEF ProgressInv, WorkDone, Before
  <2>1. /\ outcome[a] = "not_attempted" /\ count[a] = 0 /\ completed = {} /\ Usable(plan)
    BY <1>4 DEF ProgressInv, StageInv, Before, Executing, Holding, Compared, Idle, Usable
  <2>2. ~WorkDone(a)
    BY <1>t, <2>1, SomeStep DEF WorkDone
  <2>3. {s \in completed : a \in Affected(plan, s)} = {}
    BY <2>1
  <2> QED BY <2>1, <2>2, <2>3, FS_EmptySet
<1>5. CASE Crash
  BY <1>2, <1>5 DEF Crash
<1>6. CASE OtherLocks \/ OtherErases \/ OtherUnlocks \/ ForeignCreates \/ UNCHANGED vars
  BY <1>3, <1>6 DEF OtherLocks, OtherErases, OtherUnlocks, ForeignCreates, vars, execVars
<1>7. CASE Run /\ ~Execute
  <2> USE DEF Before, execVars
  <2>1. CASE Preflight \/ Acquire
    BY <1>2, <1>3, <2>1 DEF Preflight, Acquire, Refuse, Return, Goto
  <2>2. CASE Snapshot
    BY <1>2, <1>3, <2>2 DEF Snapshot, Refuse, Return, Goto
  <2>3. CASE Build
    BY <1>2, <1>3, <1>4, <2>3 DEF Build, Refuse, Return, Goto
  <2>4. CASE Nothing \/ Begin \/ Revalidate
    BY <1>2, <1>3, <2>4 DEF Nothing, Begin, Revalidate, Refuse, Return, Goto
  <2>5. CASE Materialize \/ Initialize \/ ExecuteFailed
    BY <1>2, <1>3, <1>4, <2>5
    DEF Materialize, Initialize, ExecuteFailed, RecordTransactionFailure, Return, Goto
  <2>6. CASE ExecuteDone
    BY <1>3, <2>6 DEF ExecuteDone, Goto
  <2>7. CASE FinalInventory
    BY <1>2, <2>7 DEF FinalInventory, Return
  <2> QED BY <1>7, <2>1, <2>2, <2>3, <2>4, <2>5, <2>6, <2>7 DEF Run
<1> QED BY <1>1, <1>5, <1>6, <1>7 DEF Next, Others

-----------------------------------------------------------------------------
(* The rpmdb file and the result                                           *)

LEMMA InitMain == Init => MainInv /\ ResultInv
  BY PlanShape DEF Init, MainInv, ResultInv, Unanswered, Before, Executing

\* Replay writes only to an rpmdb that it found or that it has created.
LEMMA NextMain == StageInv /\ MainInv /\ [Next]_vars => MainInv'
<1> SUFFICES ASSUME StageInv, MainInv, [Next]_vars PROVE MainInv'
  OBVIOUS
<1> USE DEF Before, Executing
<1>1. CASE stage' = "end"
  BY <1>1 DEF MainInv
<1>2. CASE UNCHANGED <<plan, stage, main, pin>>
  BY <1>2 DEF MainInv
<1>3. CASE ForeignCreates
  BY <1>3 DEF ForeignCreates, MainInv
<1>4. CASE Acquire /\ stage' # "end"
  BY <1>4 DEF Acquire, Refuse, Return, Goto, MainInv
<1>5. CASE Snapshot /\ stage' # "end"
  BY <1>5 DEF Snapshot, Refuse, Return, Goto, AsRecorded, MainInv
<1>6. CASE Build /\ stage' # "end"
  BY <1>6 DEF Build, Refuse, Return, Goto, MainInv
<1>7. CASE (Preflight \/ Begin \/ Revalidate) /\ stage' # "end"
  BY <1>7 DEF Preflight, Begin, Revalidate, Refuse, Return, Goto, MainInv
<1>8. CASE (Materialize \/ Initialize) /\ stage' # "end"
  BY <1>8 DEF Materialize, Initialize, RecordTransactionFailure, Return, Goto, MainInv
<1>9. CASE ExecuteDone
  BY <1>9 DEF ExecuteDone, Goto, MainInv
<1>10. CASE Nothing \/ ExecuteFailed \/ FinalInventory \/ Crash
  BY <1>1, <1>10
  DEF Nothing, ExecuteFailed, FinalInventory, Crash, Refuse, RecordTransactionFailure, Return
<1>11. CASE Execute \/ OtherLocks \/ OtherErases \/ OtherUnlocks \/ UNCHANGED vars
  BY <1>2, <1>11 DEF Execute, OtherLocks, OtherErases, OtherUnlocks, vars
<1> QED
  BY <1>1, <1>3, <1>4, <1>5, <1>6, <1>7, <1>8, <1>9, <1>10, <1>11 DEF Next, Run, Others

\* The inventory that is kept for an answer is the rpmdb as it is.
LEMMA NextResult == StageInv /\ ResultInv /\ [Next]_vars => ResultInv'
<1> SUFFICES ASSUME StageInv, ResultInv, [Next]_vars PROVE ResultInv'
  OBVIOUS
<1>1. CASE stage' = "end"
  BY <1>1 DEF ResultInv
<1>2. CASE UNCHANGED <<stage, result, rows>>
  BY <1>2 DEF ResultInv, Unanswered
<1>3. CASE (Preflight \/ Acquire) /\ stage' # "end"
  BY <1>3 DEF Preflight, Acquire, Refuse, Return, Goto, ResultInv, Unanswered
<1>4. CASE Snapshot /\ stage' # "end"
  <2>1. /\ stage = "snapshot" /\ stage' = "build" /\ rows' = rows
        /\ result' = [result EXCEPT !.inventory = <<rows>>]
    BY <1>4 DEF Snapshot, Refuse, Return, Goto, execVars
  <2>2. result' = [status |-> "none", why |-> "none", digest |-> "null",
                   inventory |-> <<rows>>]
    BY <2>1 DEF ResultInv, Unanswered
  <2> QED BY <2>1, <2>2 DEF ResultInv, Unanswered
<1>5. CASE (Build \/ Begin \/ Revalidate) /\ stage' # "end"
  BY <1>5 DEF Build, Begin, Revalidate, Refuse, Return, Goto, execVars, ResultInv, Unanswered
<1>6. CASE stage' \in {"initialize"} \cup Executing /\ result' = result /\ stage # "end"
  BY <1>6 DEF ResultInv, Executing
<1>7. CASE (Materialize \/ Initialize \/ ExecuteDone) /\ stage' # "end"
  BY <1>6, <1>7 DEF Materialize, Initialize, ExecuteDone, RecordTransactionFailure, Return, Goto,
                    Executing
<1>8. CASE Nothing \/ ExecuteFailed \/ FinalInventory \/ Crash
  BY <1>1, <1>8
  DEF Nothing, ExecuteFailed, FinalInventory, Crash, Refuse, RecordTransactionFailure, Return
<1>9. CASE Execute
  BY <1>6, <1>9 DEF Execute, Executing
<1>10. CASE OtherErases
  BY <1>10 DEF OtherErases, StageInv, Holding, Before, ResultInv, Unanswered
<1>11. CASE OtherLocks \/ OtherUnlocks \/ ForeignCreates \/ UNCHANGED vars
  BY <1>2, <1>11 DEF OtherLocks, OtherUnlocks, ForeignCreates, vars, execVars
<1> QED
  BY <1>1, <1>3, <1>4, <1>5, <1>7, <1>8, <1>9, <1>10, <1>11 DEF Next, Run, Others

\* The invariant of replay.
ReplayInv == StageInv /\ ExecutorInv /\ ProgressInv /\ MainInv /\ ResultInv

LEMMA InitReplay == Init => ReplayInv
  BY StageInit, InitExecutor, InitProgress, InitMain DEF ReplayInv

LEMMA NextReplay == ReplayInv /\ [Next]_vars => ReplayInv'
  BY NextStage, NextExecutor, NextProgress, NextMain, NextResult DEF ReplayInv

-----------------------------------------------------------------------------
(* Answers                                                                 *)

\* What an answer leaves alone, and where each kind is given.
Answering ==
    /\ UNCHANGED <<execVars, plan, main>>
    /\ \/ result' = result
       \/ /\ stage \in Before \ {"materialize", "initialize"}
          /\ result'.status = "validation_failed" /\ result'.digest = "null"
          /\ result'.inventory \in {result.inventory, <<rows>>}
       \/ /\ stage \in {"materialize", "initialize"} \cup Executing
          /\ result'.status = "transaction_failed" /\ result'.digest = "null"
          /\ result'.inventory \in {<<>>, <<rows>>}
          /\ MarkIndeterminate
       \/ /\ stage \in {"nothing", "inventory"} /\ outcome' = outcome
          /\ result'.status = "succeeded" /\ result'.digest = "plan"
          /\ result'.inventory = <<rows>>

\* Before the execution an answer refuses, afterwards it reports a failure or a
\* success; a crash gives none.
LEMMA Answers ==
    ASSUME StageInv, [Next]_vars, stage # "end", stage' = "end"
    PROVE  Answering
<1> USE DEF Before, Executing, Answering
<1>1. ASSUME NEW why, Refuse(why), stage \in Before \ {"materialize", "initialize"}
      PROVE  Answering
  BY <1>1 DEF Refuse, Return
<1>2. ASSUME NEW why, RecordTransactionFailure(why),
             stage \in {"materialize", "initialize"} \cup Executing
      PROVE  Answering
  BY <1>2 DEF RecordTransactionFailure, Return
<1>3. CASE Preflight \/ Acquire \/ Build \/ Begin \/ Revalidate
  BY <1>1, <1>3 DEF Preflight, Acquire, Build, Begin, Revalidate, Goto
<1>4. CASE Snapshot
  BY <1>1, <1>4 DEF Snapshot, Goto, Return
<1>5. CASE Nothing
  BY <1>1, <1>5 DEF Nothing, Return
<1>6. CASE Materialize \/ Initialize \/ ExecuteFailed
  BY <1>2, <1>6 DEF Materialize, Initialize, ExecuteFailed, Goto
<1>7. CASE FinalInventory
  BY <1>7 DEF FinalInventory, Return
<1>8. CASE Crash
  BY <1>8 DEF Crash
<1> QED
  BY <1>3, <1>4, <1>5, <1>6, <1>7, <1>8
  DEF Next, Run, Others, Execute, ExecuteDone, Goto, OtherLocks, OtherErases, OtherUnlocks,
      ForeignCreates, vars

\* After the answer only another process changes the target.
LEMMA AfterAnswer ==
    ASSUME StageInv, [Next]_vars, stage = "end"
    PROVE  /\ stage' = "end" /\ UNCHANGED <<txn, disk, completed, plan, main, outcome, result>>
           /\ rows' \subseteq rows
<1>1. CASE OtherLocks \/ OtherErases \/ OtherUnlocks \/ ForeignCreates \/ UNCHANGED vars
  BY <1>1 DEF OtherLocks, OtherErases, OtherUnlocks, ForeignCreates, vars, execVars
<1> QED
  BY <1>1
  DEF Next, Run, Others, Crash, Preflight, Acquire, Snapshot, Build, Nothing, Begin, Revalidate,
      Materialize, Initialize, Execute, ExecuteFailed, ExecuteDone, FinalInventory

\* A target that is not the recorded one is only ever looked at, whatever the
\* plan, the target and the other processes are: the comparison under the lock
\* comes before everything that writes.
THEOREM LeavesOtherTargets == Spec => []OtherTargetUntouched
<1> DEFINE Inv == StageInv /\ OtherTargetUntouched
<1>1. Init => Inv
  BY StageInit DEF Init, Exec!Start, OtherTargetUntouched, StageInv, Before, Idle
<1>2. Inv /\ [Next]_vars => Inv'
  <2> SUFFICES ASSUME StageInv, OtherTargetUntouched, [Next]_vars, StageInv',
                      plan'.db # plan'.recorded
               PROVE  disk' = Exec!InitialDisk(txn)' /\ rows' \subseteq Indices(plan'.db)
    BY NextStage DEF OtherTargetUntouched
  <2>1. CASE stage' \in Before
    BY <2>1 DEF StageInv, Idle
  <2>2. CASE stage' \in Executing
    BY <2>2 DEF StageInv, Executing, Holding, Compared
  <2>3. CASE stage' = "end" /\ stage # "end"
    BY <2>3, Answers DEF Answering, OtherTargetUntouched, execVars, Exec!InitialDisk, Exec!Owners
  <2>4. CASE stage = "end"
    BY <2>4, AfterAnswer DEF OtherTargetUntouched, Exec!InitialDisk, Exec!Owners
  <2> QED BY <2>1, <2>2, <2>3, <2>4 DEF StageInv
<1> QED BY <1>1, <1>2, PTL DEF Spec

\* An answer of validation_failed means that nothing was changed, for every plan:
\* replay refuses only before the stage that creates the rpmdb, and what its own
\* checks let through passes the executor's.
THEOREM RefusesUnchanged == Spec => []RefusalChangesNothing
<1> DEFINE Inv == ReplayInv /\ RefusalChangesNothing
<1>1. Init => Inv
  BY InitReplay DEF Init, ReplayInv, ExecutorInv, RefusalChangesNothing
<1>2. Inv /\ [Next]_vars => Inv'
  <2> SUFFICES ASSUME ReplayInv, ReplayInv', RefusalChangesNothing, [Next]_vars,
                      result'.status = "validation_failed"
               PROVE  /\ disk' = Exec!InitialDisk(txn)'
                      /\ rows' \subseteq Indices(plan'.db)
                      /\ plan'.main = "absent" => main' \in {"absent", "foreign"}
    BY NextReplay DEF RefusalChangesNothing, ReplayInv, ExecutorInv
  <2>i. StageInv /\ MainInv /\ ResultInv /\ ResultInv'
    BY DEF ReplayInv
  <2>1. CASE stage' # "end"
    BY <2>1, <2>i DEF ResultInv
  <2>2. CASE stage' = "end" /\ stage # "end"
    <3>1. stage \in Before \ {"initialize"} /\ UNCHANGED <<execVars, plan, main>>
      BY <2>2, <2>i, Answers DEF Answering, ResultInv
    <3> QED
      BY <2>i, <3>1
      DEF StageInv, Idle, MainInv, execVars, Exec!InitialDisk, Exec!Owners
  <2>3. CASE stage = "end"
    BY <2>3, <2>i, AfterAnswer DEF RefusalChangesNothing, Exec!InitialDisk, Exec!Owners
  <2> QED BY <2>1, <2>2, <2>3
<1> QED BY <1>1, <1>2, PTL DEF Spec

-----------------------------------------------------------------------------
(* The report                                                              *)

\* A plan that is executed has passed every check.
LEMMA ExecutingUsable ==
    ASSUME StageInv, stage \in Compared
    PROVE  plan \in Plans /\ txn = Txn(plan) /\ Usable(plan)
  BY DEF StageInv, Holding, Compared, Before, Executing, Usable

\* Every replayed transaction writes to the rpmdb.
LEMMA WritesDb ==
    ASSUME StageInv
    PROVE  ~Native!NoDb
  BY TxnOf DEF StageInv, Native!NoDb

\* What is applied is done as long as the lock is held.
LEMMA AppliedSteps == ReplayInv => AppliedIsDone
<1> SUFFICES ASSUME ReplayInv, lock = "replay", NEW a \in ActionIds(plan),
                    outcome[a] = "applied"
             PROVE  LET action == plan.actions[a]
                    IN  /\ rows \cap (PriorRows(action) \cup {action.hnum}) = {}
                        /\ action.kind # "erase" => NewHnum(txn, PrimaryStep(plan, a)) \in rows
  BY DEF AppliedIsDone
<1>i. StageInv /\ ExecutorInv /\ ProgressInv
  BY DEF ReplayInv
<1>1. stage \in Executing /\ stage \in Compared
  <2>1. stage \in Holding /\ stage \notin Before
    BY <1>i DEF StageInv, ProgressInv
  <2> QED BY <2>1 DEF Holding, Compared, Executing, Before
<1>2. plan \in Plans /\ txn = Txn(plan) /\ Usable(plan)
  BY <1>i, <1>1, ExecutingUsable
<1>3. Native!ExecInv /\ WorkDone(a)
  BY <1>i, <1>1 DEF ExecutorInv, ProgressInv
<1>4. Native!TypeOK /\ Native!CompletedStayApplied
  BY <1>3 DEF Native!ExecInv, Native!RowInv, Native!BaseInv, Native!TypeInv
<1>5. 0 \notin rows
  BY <1>4, Native!NoRowZero, NativeTxns
<1>6. \A s \in completed :
         IF txn.items[s].type = "erase" THEN txn.items[s].hnum \notin rows
         ELSE NewHnum(txn, s) \in rows /\ PriorHnums(txn.items[s]) \cap rows = {}
  BY <1>i, <1>4, WritesDb, SameOperators DEF Native!CompletedStayApplied
<1>7. \A s \in Indices(plan.steps) : a \in Affected(plan, s) => s \in completed
  BY <1>3 DEF WorkDone
<1>8. \A s \in completed : LET item == Txn(plan).items[s] IN
         IF item.type = "erase" THEN item.hnum \notin rows
         ELSE NewHnum(Txn(plan), s) \in rows /\ PriorHnums(item) \cap rows = {}
  BY <1>2, <1>6
<1>9. /\ rows \cap (PriorRows(plan.actions[a]) \cup {plan.actions[a].hnum}) = {}
      /\ plan.actions[a].kind # "erase" => NewHnum(Txn(plan), PrimaryStep(plan, a)) \in rows
  BY <1>2, <1>5, <1>7, <1>8, WorkIsAction, Zenon
<1> QED BY <1>2, <1>9

\* After an execution that succeeded everything is done and applied.
LEMMA ExecutedWhole ==
    ASSUME ReplayInv, stage = "inventory"
    PROVE  /\ \A a \in ActionIds(plan) : outcome[a] = "applied"
           /\ rows = ProjectedInventory(plan)
<1>i. StageInv /\ ExecutorInv /\ ProgressInv
  BY DEF ReplayInv
<1>1. plan \in Plans /\ txn = Txn(plan) /\ Usable(plan)
  BY <1>i, ExecutingUsable DEF Compared, Holding, Executing
<1>2. rc = "ok" /\ Native!ExecInv
  BY <1>i DEF ExecutorInv, Executing
<1>3. completed = Indices(plan.steps)
  BY <1>1, <1>2, TxnOf, SameOperators DEF Native!ExecInv, Native!AllReported
<1>4. rows = GoalRows(txn)
  BY <1>i, <1>2, WritesDb, SameOperators
  DEF Native!ExecInv, Native!SuccessIsExact, Native!RowsReachGoal
<1>5. \A a \in ActionIds(plan) : outcome[a] = "applied"
  BY <1>i, <1>3 DEF ProgressInv, Executing, WorkDone
<1> QED BY <1>1, <1>4, <1>5, ProjectionIsGoal

\* A plan without steps has no actions and projects what is there.
LEMMA NothingWhole ==
    ASSUME ReplayInv, stage = "nothing"
    PROVE  ActionIds(plan) = {} /\ rows = ProjectedInventory(plan)
<1>i. StageInv
  BY DEF ReplayInv
<1>1. plan \in Plans /\ Usable(plan) /\ plan.steps = <<>> /\ rows = Indices(plan.db)
  BY <1>i, ExecutingUsable DEF StageInv, Before, Compared, Holding, Executing
<1>2. ActionIds(plan) = {}
  BY <1>1, SomeStep DEF Indices
<1>3. ProjectedInventory(plan) = Indices(plan.db)
  BY <1>2 DEF ProjectedInventory
<1> QED BY <1>1, <1>2, <1>3

\* A failure keeps the actions whose work was observed, and no others.
LEMMA FailedExactly ==
    ASSUME ReplayInv, stage \in {"materialize", "initialize"} \cup Executing,
           MarkIndeterminate, NEW a \in ActionIds(plan)
    PROVE  outcome'[a] = IF WorkDone(a) THEN "applied" ELSE "indeterminate"
<1>i. StageInv /\ ProgressInv
  BY DEF ReplayInv
<1>1. outcome'[a] = IF outcome[a] = "applied" THEN "applied" ELSE "indeterminate"
  BY DEF MarkIndeterminate
<1>2. CASE stage \in Executing
  BY <1>i, <1>1, <1>2 DEF ProgressInv
<1>3. CASE stage \in {"materialize", "initialize"}
  <2>1. plan \in Plans /\ Usable(plan) /\ completed = {} /\ outcome[a] = "not_attempted"
    BY <1>i, <1>3, ExecutingUsable
    DEF StageInv, ProgressInv, Idle, Compared, Holding, Before, Executing
  <2>2. ~WorkDone(a)
    BY <2>1, SomeStep DEF WorkDone
  <2> QED BY <1>1, <2>1, <2>2
<1> QED BY <1>2, <1>3

\* The report of a replay is true for every plan and every way it can end: what
\* is reported as applied is in the rpmdb, success stands for the whole plan,
\* and a failure marks exactly the unfinished actions.
THEOREM ReportsExactly == Spec => []ReportIsExact
<1> DEFINE Inv == ReplayInv /\ SuccessIsWhole /\ FailureIsExact
<1>1. Init => Inv
  BY InitReplay DEF Init, SuccessIsWhole, FailureIsExact
<1>2. Inv /\ [Next]_vars => Inv'
  <2> SUFFICES ASSUME ReplayInv, ReplayInv', SuccessIsWhole, FailureIsExact, [Next]_vars
               PROVE  SuccessIsWhole' /\ FailureIsExact'
    BY NextReplay
  <2>i. StageInv /\ ResultInv /\ ResultInv'
    BY DEF ReplayInv
  <2>1. CASE stage' # "end"
    BY <2>1, <2>i DEF ResultInv, SuccessIsWhole, FailureIsExact
  <2>2. CASE stage' = "end" /\ stage # "end"
    <3>1. Answering /\ result.status = "none" /\ result.digest = "null"
      BY <2>2, <2>i, Answers DEF ResultInv
    <3>2. plan' = plan /\ completed' = completed
      BY <3>1 DEF Answering, execVars
    <3>3. CASE result'.status \notin {"succeeded", "transaction_failed"}
      BY <3>1, <3>3 DEF Answering, SuccessIsWhole, FailureIsExact
    <3>4. CASE result'.status = "succeeded"
      <4>1. /\ stage \in {"nothing", "inventory"} /\ outcome' = outcome
            /\ result'.digest = "plan" /\ result'.inventory = <<rows>>
        BY <3>1, <3>4 DEF Answering
      <4>2. /\ \A a \in ActionIds(plan) : outcome[a] = "applied"
            /\ rows = ProjectedInventory(plan)
        BY <4>1, ExecutedWhole, NothingWhole
      <4> QED BY <3>2, <3>4, <4>1, <4>2 DEF SuccessIsWhole, FailureIsExact
    <3>5. CASE result'.status = "transaction_failed"
      <4>1. /\ stage \in {"materialize", "initialize"} \cup Executing /\ MarkIndeterminate
            /\ result'.digest = "null"
        BY <3>1, <3>5 DEF Answering
      <4>2. \A a \in ActionIds(plan) :
               outcome'[a] = IF WorkDone(a) THEN "applied" ELSE "indeterminate"
        BY <4>1, FailedExactly
      <4> QED BY <3>2, <3>5, <4>1, <4>2 DEF SuccessIsWhole, FailureIsExact, WorkDone
    <3> QED BY <3>3, <3>4, <3>5
  <2>3. CASE stage = "end"
    BY <2>3, <2>i, AfterAnswer DEF SuccessIsWhole, FailureIsExact
  <2> QED BY <2>1, <2>2, <2>3
<1>3. Inv => ReportIsExact
  BY AppliedSteps DEF ReportIsExact
<1> QED BY <1>1, <1>2, <1>3, PTL DEF Spec

-----------------------------------------------------------------------------
(* What a step never does                                                  *)

\* An inventory is never stale when it is returned: the lock keeps the other
\* processes from the rpmdb between the snapshot and the answer.
THEOREM ReturnsCurrent == Spec => InventoryIsCurrent
<1>1. ASSUME ReplayInv, [Next]_vars, result'.status # result.status,
             result'.inventory # <<>>
      PROVE  result'.inventory = <<rows'>>
  <2>i. StageInv /\ ResultInv /\ ResultInv'
    BY <1>1, NextReplay DEF ReplayInv
  <2>1. stage # "end"
    BY <1>1, <2>i, AfterAnswer
  <2>2. stage' = "end"
    BY <1>1, <2>i, <2>1 DEF ResultInv
  <2>3. Answering
    BY <1>1, <2>i, <2>1, <2>2, Answers
  <2>4. result'.inventory \in {<<>>, <<rows>>} \/ result'.inventory = result.inventory
    BY <1>1, <2>3 DEF Answering
  <2>5. CASE result'.inventory \in {<<>>, <<rows>>}
    BY <1>1, <2>3, <2>5 DEF Answering, execVars
  <2>6. CASE result'.inventory \notin {<<>>, <<rows>>}
    <3>1. /\ stage \in {"preflight", "lock", "snapshot", "build", "nothing", "begin",
                        "revalidate"}
          /\ result'.inventory = result.inventory
      BY <1>1, <2>3, <2>4, <2>6 DEF Answering, Before
    <3> QED BY <2>6, <2>i, <3>1 DEF ResultInv, Unanswered
  <2> QED BY <2>5, <2>6
<1>2. ReplayInv /\ [Next]_vars =>
         [result'.status # result.status /\ result'.inventory # <<>>
             => result'.inventory = <<rows'>>]_vars
  BY <1>1
<1> QED BY <1>2, InitReplay, NextReplay, PTL DEF Spec, InventoryIsCurrent

\* An rpmdb that somebody else puts where the target had none stays as it is, and
\* no package is installed beside it: it is found before the exclusive creation
\* or makes it fail.
THEOREM AdoptsNothing == Spec => ForeignNeverAdopted
<1>1. ASSUME StageInv, MainInv, [Next]_vars, plan.main = "absent", main = "foreign"
      PROVE  UNCHANGED <<rows, disk, main>>
  <2>1. stage \notin {"initialize"} \cup Executing
    BY <1>1 DEF MainInv
  <2>2. CASE Preflight \/ Acquire \/ Snapshot \/ Build \/ Nothing \/ Begin \/ Revalidate
    BY <2>2 DEF Preflight, Acquire, Snapshot, Build, Nothing, Begin, Revalidate, Refuse, Return,
                execVars
  <2>3. CASE Materialize \/ FinalInventory \/ Crash
    BY <1>1, <2>3
    DEF Materialize, FinalInventory, Crash, RecordTransactionFailure, Return, execVars
  <2>4. CASE Initialize \/ Execute \/ ExecuteFailed \/ ExecuteDone
    BY <2>1, <2>4 DEF Initialize, Execute, ExecuteFailed, ExecuteDone, Executing
  <2>5. CASE OtherLocks \/ OtherErases \/ OtherUnlocks \/ ForeignCreates \/ UNCHANGED vars
    BY <1>1, <2>5 DEF OtherLocks, OtherErases, OtherUnlocks, ForeignCreates, vars, execVars
  <2> QED BY <1>1, <2>2, <2>3, <2>4, <2>5 DEF Next, Run, Others
<1>2. StageInv /\ MainInv /\ [Next]_vars =>
         [plan.main = "absent" /\ main = "foreign" => UNCHANGED <<rows, disk, main>>]_vars
  BY <1>1
<1>3. Init => StageInv /\ MainInv
  BY StageInit, InitMain
<1>4. StageInv /\ MainInv /\ [Next]_vars => (StageInv /\ MainInv)'
  BY NextStage, NextMain
<1> QED BY <1>2, <1>3, <1>4, PTL DEF Spec, ForeignNeverAdopted
=============================================================================
